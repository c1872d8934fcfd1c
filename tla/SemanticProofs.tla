--------------------------- MODULE SemanticProofs ---------------------------
(***************************************************************************)
(* The semantic analyzer on every tree: its types, the scopes that are     *)
(* open, and the types "return" is compared with.                          *)
(*                                                                         *)
(* Every step replaces the running activation by a few frames, of which    *)
(* the last alone may stand for an open scope or function.  ScopeStep and  *)
(* ReturnStep say what the step owes to the stacks of tables and of return *)
(* types; CalmStep is the case of a step that opens and closes nothing.    *)
(***************************************************************************)
EXTENDS SemanticAnalyzer, SymbolTableTheorems

Kinds == {"check", "infer", "unary", "binary", "assign", "apply", "args", "arg", "unknown",
          "block", "decl", "return", "function", "params", "cond", "root"}
FrameType == [k : Kinds, n : Exprs \cup Stmts \cup {NullNode}, i : Nat \ {0},
              l : Signature \cup Types \cup {NoLocal}]

LocalOf(fr) ==
    CASE fr.k \in {"args", "arg"}                -> fr.l \in Signature
      [] fr.k \in {"apply", "assign", "return"}  -> fr.l \in Types
      [] OTHER                                   -> fr.l = NoLocal

GoodFrames == {fr \in FrameType : fr.n \in NodesOf(fr.k) /\ LocalOf(fr)}

(* A table of the analyzer: every name once, in its bucket, without value. *)
Good(table) == Sound(table, Names, TypeTags, {NullNode})

TypeInv ==
    /\ ast \in Programs /\ todo \in Seq(GoodFrames) /\ ret \in Types
    /\ g_scope \in Seq(Table) /\ \A i \in DOMAIN g_scope : Good(g_scope[i])
    /\ g_funs \in Seq(Signature)
    /\ g_fun_ret_stack \in Seq(TypeTags) /\ Len(g_fun_ret_stack) <= MAX_FUN_STACK

(* The call stack: check_semantics is at its bottom, parameters are        *)
(* declared by the running activation, and nothing is checked in the table *)
(* of a function or in the injected one but a block with its own.          *)
AtBlock == Top.k = "block" \/ (Top.k = "check" /\ Top.n.kind = "block")
Shape ==
    /\ \A j \in DOMAIN todo : todo[j].k = "root" <=> j = Len(todo)
    /\ \A j \in DOMAIN todo : todo[j].k = "params" => j = 1
    /\ \A j \in DOMAIN todo : j > 1 /\ todo[j].k \in {"function", "root"} =>
          (IF j = 2 THEN AtBlock ELSE todo[j - 1].k = "block")

(* The parameters declared so far are in the newest table.                 *)
ParamsDeclared ==
    todo # <<>> /\ Top.k = "params" =>
        /\ Top.i <= Len(Top.n.params) + 1
        /\ Bound(g_scope[Inner]) = {Top.n.params[p].name : p \in 1 .. Top.i - 1}

IInv == TypeInv /\ Shape /\ ParamsDeclared /\ ScopesFollowDescent

(* Programs for which g_fun_ret_stack is large enough.                     *)
Shallow == Cardinality(Open(FunctionKinds)) <= MAX_FUN_STACK

(* What every step of the analyzer has to show.                            *)
Keeps == IInv' /\ (Shallow' /\ ReturnTypesMatch => ReturnTypesMatch')

-----------------------------------------------------------------------------
(* The nodes of the tree.                                                  *)
LEMMA ExprNodes ==
    ASSUME NEW e \in Exprs
    PROVE  /\ e.kind \in Literals \cup {"ident", "unary", "binary", "assign", "call"}
           /\ e.kind \in {"ident", "assign", "call"} => e.name \in Names
           /\ e.kind = "unary" => e.op \in UnOps /\ e.expr \in Exprs
           /\ e.kind = "binary" => e.op \in BinOps /\ e.left \in Exprs /\ e.right \in Exprs
           /\ e.kind = "assign" => e.value \in Exprs
           /\ e.kind = "call" => e.args \in Seq(Exprs)
<1>1. ExprShape(e, Exprs) BY CheckedAssumption
<1>. QED BY <1>1 DEF ExprShape, Literals

(* The statements of the tree.                                             *)
LEMMA StmtNodes ==
    ASSUME NEW s \in Stmts
    PROVE  /\ s.kind \in {"expr", "decl", "block", "if", "while", "for", "return", "function"}
           /\ s.kind = "expr" => s.expr \in Exprs
           /\ s.kind = "decl" => /\ s.type \in TypeTags /\ s.name \in Names
                                 /\ s.init \in Exprs \cup {NullNode}
           /\ s.kind = "block" => s.stmts \in Seq(Stmts)
           /\ s.kind = "if" => /\ s.cond \in Exprs /\ s.then \in Stmts \cup {NullNode}
                               /\ s.else \in Stmts \cup {NullNode}
           /\ s.kind \in {"while", "for"} => s.cond \in Exprs /\ s.body \in Stmts \cup {NullNode}
           /\ s.kind = "for" => s.init \in Exprs /\ s.step \in Exprs
           /\ s.kind = "return" => s.expr \in Exprs \cup {NullNode}
           /\ s.kind = "function" =>
                 /\ s.ret_type \in TypeTags /\ s.name \in Names
                 /\ s.params \in Seq({d \in Stmts : d.kind = "decl"})
                 /\ s.body \in Stmts /\ s.body.kind = "block"
<1>1. StmtShape(s, Exprs, Stmts) BY CheckedAssumption
<1>. QED BY <1>1 DEF StmtShape

(* The running activation, by its kind.                                    *)
LEMMA TopFrame ==
    ASSUME TypeInv, todo # <<>>
    PROVE  /\ Top \in GoodFrames /\ Top \in FrameType /\ Top.n \in NodesOf(Top.k)
           /\ Top = todo[1] /\ Top.i \in Nat \ {0}
           /\ Top = [k |-> Top.k, n |-> Top.n, i |-> Top.i, l |-> Top.l]
           /\ Top.k \in {"args", "arg"} => Top.l \in Signature
           /\ Top.k \in {"apply", "assign", "return"} => Top.l \in Types
           /\ Top.k \notin {"args", "arg", "apply", "assign", "return"} => Top.l = NoLocal
<1>1. todo \in Seq(GoodFrames) BY DEF TypeInv
<1>2. Top \in GoodFrames /\ Top = todo[1] BY <1>1, HeadTailProperties, EmptySeq DEF Top
<1>3. Top \in FrameType /\ Top.n \in NodesOf(Top.k) /\ LocalOf(Top) BY <1>2 DEF GoodFrames
<1>. HIDE DEF Top
<1>4. Top.i \in Nat \ {0} /\ Top = [k |-> Top.k, n |-> Top.n, i |-> Top.i, l |-> Top.l]
  BY <1>3 DEF FrameType
<1>. QED BY <1>2, <1>3, <1>4 DEF LocalOf

(* Frames without a local.                                                 *)
LEMMA FrameGood ==
    ASSUME NEW k \in Kinds \ {"args", "arg", "apply", "assign", "return"},
           NEW n \in NodesOf(k), n \in Exprs \cup Stmts \cup {NullNode}
    PROVE  Frame(k, n) \in GoodFrames /\ Frame(k, n).k = k /\ Frame(k, n).n = n
<1>1. Frame(k, n) \in FrameType BY DEF Frame, Holding, FrameType
<1>. QED BY <1>1 DEF Frame, Holding, GoodFrames, LocalOf

(* Frames that keep a type.                                                *)
LEMMA HoldingGood ==
    ASSUME NEW k \in {"apply", "assign", "return"},
           NEW n \in NodesOf(k), n \in Exprs \cup Stmts \cup {NullNode}, NEW l \in Types
    PROVE  Holding(k, n, l) \in GoodFrames /\ Holding(k, n, l).k = k
<1>1. Holding(k, n, l) \in FrameType BY DEF Holding, FrameType, Kinds
<1>. QED BY <1>1 DEF Holding, GoodFrames, LocalOf

(* What IInv says of types is what TypeOK says.                            *)
LEMMA TypeInvOK ==
    ASSUME TypeInv PROVE TypeOK
<1>1. todo \in Seq(GoodFrames) BY DEF TypeInv
<1>2. ASSUME NEW j \in DOMAIN todo
      PROVE  /\ todo[j].n \in NodesOf(todo[j].k) /\ todo[j].i \in Nat \ {0} /\ LocalOf(todo[j])
  <2>1. todo[j] \in GoodFrames BY <1>1
  <2>. QED BY <2>1 DEF GoodFrames, FrameType
<1>. QED BY <1>2 DEF TypeInv, TypeOK, LocalOf
-----------------------------------------------------------------------------
(* A step that replaces the running activation by some frames.             *)
Pushes(frames) == todo # <<>> /\ frames \in Seq(GoodFrames) /\ Continue(frames)

Moves(frames, d) == Pushes(frames) /\ d = Len(frames) - 1

LastOf(frames)        == frames[Len(frames)]
EndsIn(frames, kinds) == frames # <<>> /\ LastOf(frames).k \in kinds
(* No frame but the last is of these kinds.                                *)
OnlyLast(frames, kinds) == \A i \in DOMAIN frames : i < Len(frames) => frames[i].k \notin kinds

(* The activations below the running one.                                  *)
Below(kinds) == LevelIn(todo, 2, kinds)

(* The stack after the step, position by position.                         *)
LEMMA After ==
    ASSUME TypeInv, NEW frames, NEW d, Moves(frames, d)
    PROVE  /\ Steps(GoodFrames, todo, frames, todo', d)
           /\ todo' \in Seq(GoodFrames)
           /\ Len(todo) \in Nat \ {0} /\ d \in Int /\ d + 1 \in Nat /\ Len(frames) = d + 1
           /\ Len(todo') = Len(todo) + d
           /\ DOMAIN todo = 1 .. Len(todo) /\ DOMAIN todo' = 1 .. Len(todo) + d
           /\ DOMAIN frames = 1 .. d + 1
           /\ Top = todo[1]
           /\ \A i \in 1 .. d + 1 : todo'[i] = frames[i]
           /\ \A i \in 2 .. Len(todo) : todo'[i + d] = todo[i]
<1>1. Steps(GoodFrames, todo, frames, todo', d) BY DEF TypeInv, Moves, Pushes, Steps, Continue
<1>2. Top = Head(todo) BY DEF Top
<1>3. /\ todo' \in Seq(GoodFrames)
      /\ Len(todo) \in Nat \ {0} /\ d \in Int /\ d + 1 \in Nat /\ Len(frames) = d + 1
      /\ Len(todo') = Len(todo) + d
      /\ DOMAIN todo = 1 .. Len(todo) /\ DOMAIN todo' = 1 .. Len(todo) + d
      /\ DOMAIN frames = 1 .. d + 1
      /\ Head(todo) = todo[1]
      /\ \A i \in 1 .. d + 1 : todo'[i] = frames[i]
      /\ \A i \in 2 .. Len(todo) : todo'[i + d] = todo[i]
  BY <1>1, Shifted
<1>. QED BY <1>1, <1>2, <1>3

(* The number of open activations, and their levels, after the step.       *)
LEMMA LevelsStep ==
    ASSUME TypeInv, NEW frames, NEW d, Moves(frames, d), NEW K, OnlyLast(frames, K)
    PROVE  /\ Below(K) \in Nat
           /\ Cardinality(At(todo, K)) = Below(K) + (IF Top.k \in K THEN 1 ELSE 0)
           /\ Cardinality(At(todo', K)) = Below(K) + (IF EndsIn(frames, K) THEN 1 ELSE 0)
           /\ EndsIn(frames, K) => LevelIn(todo', d + 1, K) = Below(K) + 1
           /\ \A j \in 2 .. Len(todo) : LevelIn(todo', j + d, K) = LevelIn(todo, j, K)
           /\ \A j \in 2 .. Len(todo) :
                 todo[j].k \in K => 1 <= LevelIn(todo, j, K) /\ LevelIn(todo, j, K) <= Below(K)
<1>1. /\ Steps(GoodFrames, todo, frames, todo', d) /\ Top = todo[1]
      /\ d \in Int /\ d + 1 = Len(frames) /\ DOMAIN frames = 1 .. d + 1
      /\ Len(todo) \in Nat \ {0} /\ DOMAIN todo = 1 .. Len(todo)
  BY After
<1>2. /\ LevelIn(todo, 2, K) \in Nat
      /\ \A j \in 2 .. Len(todo) + 1 : LevelIn(todo', j + d, K) = LevelIn(todo, j, K)
      /\ Cardinality(At(todo, K)) = LevelIn(todo, 2, K) + (IF todo[1].k \in K THEN 1 ELSE 0)
      /\ Cardinality(At(todo', K)) = LevelIn(todo, 2, K) + Cardinality(At(frames, K))
  <2>1. Steps(GoodFrames, todo, frames, todo', d) BY <1>1
  <2>. QED BY <2>1, LevelsAfter
<1>3. \A i \in DOMAIN frames : i <= d => frames[i].k \notin K
  <2>1. \A i \in 1 .. d + 1 : i <= d => i < d + 1 BY <1>1
  <2>. QED BY <1>1, <2>1 DEF OnlyLast
<1>4. /\ frames = <<>> \/ frames[d + 1].k \notin K => Cardinality(At(frames, K)) = 0
      /\ frames # <<>> /\ frames[d + 1].k \in K =>
            Cardinality(At(frames, K)) = 1 /\ LevelIn(todo', d + 1, K) = LevelIn(todo, 2, K) + 1
  BY <1>1, <1>3, LevelOfLast
<1>5. EndsIn(frames, K) <=> frames # <<>> /\ frames[d + 1].k \in K BY <1>1 DEF EndsIn, LastOf
<1>6. ASSUME NEW j \in 2 .. Len(todo), todo[j].k \in K
      PROVE  1 <= LevelIn(todo, j, K) /\ LevelIn(todo, j, K) <= Below(K)
  <2>1. todo \in Seq(GoodFrames) BY DEF TypeInv
  <2>2. j \in Int /\ 2 <= j /\ j \in At(todo, K) BY <1>1, <1>6 DEF At
  <2>. QED BY <2>1, <2>2, LevelOrder DEF Below
<1>. QED BY <1>1, <1>2, <1>4, <1>5, <1>6 DEF Below

(* The bottom of the call stack stays where it is.                         *)
LEMMA ShapeStep ==
    ASSUME TypeInv, Shape, NEW frames, Pushes(frames), Top.k # "root",
           \A i \in DOMAIN frames :
              /\ frames[i].k # "root"
              /\ frames[i].k = "params" => i = 1
              /\ frames[i].k = "function" /\ i > 1 =>
                    i = 2 /\ frames[1].k = "check" /\ frames[1].n.kind = "block",
           AtBlock => frames = <<>> \/ LastOf(frames).k = "block"
    PROVE  Shape'
<1>. DEFINE d == Len(frames) - 1
            n == Len(todo)
            t == todo'
<1>0. Moves(frames, d) BY DEF Moves
<1>. HIDE DEF d
<1>1. /\ n \in Nat \ {0} /\ d \in Int /\ d + 1 \in Nat /\ Len(frames) = d + 1 /\ Len(t) = n + d
      /\ DOMAIN todo = 1 .. n /\ DOMAIN t = 1 .. n + d /\ DOMAIN frames = 1 .. d + 1
      /\ Top = todo[1]
      /\ \A i \in 1 .. d + 1 : t[i] = frames[i]
      /\ \A i \in 2 .. n : t[i + d] = todo[i]
      /\ t \in Seq(GoodFrames)
  BY <1>0, After
<1>2. /\ \A j \in 1 .. n : todo[j].k = "root" <=> j = n
      /\ \A j \in 1 .. n : todo[j].k = "params" => j = 1
      /\ \A j \in 1 .. n : j > 1 /\ todo[j].k \in {"function", "root"} =>
            (IF j = 2 THEN AtBlock ELSE todo[j - 1].k = "block")
  BY <1>1 DEF Shape
<1>. HIDE DEF n, t
<1>3. AtBlock => d = -1 \/ t[d + 1].k = "block"
  <2>1. frames = <<>> => d = -1 BY <1>1, EmptySeq
  <2>2. d + 1 \in 1 .. d + 1 \/ d = -1 BY <1>1
  <2>. QED BY <1>1, <2>1, <2>2 DEF LastOf
<1>4. ASSUME NEW i \in 1 .. d + 1
      PROVE  /\ t[i].k # "root" /\ (t[i].k = "params" => i = 1)
             /\ t[i].k = "function" /\ i > 1 => i = 2 /\ t[1].k = "check" /\ t[1].n.kind = "block"
  <2>1. i > 1 => 1 \in 1 .. d + 1 BY <1>1
  <2>. QED BY <1>1, <2>1
<1>5. n > 1
  <2>1. 1 \in 1 .. n /\ (1 = n => todo[1].k = "root") BY <1>1, <1>2
  <2>. QED BY <1>1, <2>1
<1>. DEFINE AtB == t[1].k = "block" \/ (t[1].k = "check" /\ t[1].n.kind = "block")
<1>6. t # <<>> => (AtBlock' <=> AtB)
  <2>1. t # <<>> => Head(t) = t[1] BY <1>1, HeadTailProperties
  <2>. QED BY <2>1 DEF AtBlock, Top, t
<1>. HIDE DEF AtB
<1>7. ASSUME NEW j \in DOMAIN t
      PROVE  /\ t[j].k = "root" <=> j = Len(t)
             /\ t[j].k = "params" => j = 1
             /\ j > 1 /\ t[j].k \in {"function", "root"} =>
                   (IF j = 2 THEN AtB ELSE t[j - 1].k = "block")
  <2>1. CASE j \in 1 .. d + 1
    <3>1. j # Len(t) BY <1>1, <1>5, <2>1
    <3>2. t[j].k # "root" /\ (t[j].k = "params" => j = 1) BY <1>4, <2>1
    <3>3. ASSUME j > 1, t[j].k = "function" PROVE j = 2 /\ AtB
      BY <1>4, <2>1, <3>3 DEF AtB
    <3>. QED BY <3>1, <3>2, <3>3
  <2>2. CASE j \notin 1 .. d + 1
    <3>. DEFINE i == j - d
    <3>1. i \in 2 .. n /\ i + d = j /\ j \in 1 .. n + d BY <1>1, <2>2
    <3>. HIDE DEF i
    <3>2. t[j] = todo[i] BY <1>1, <3>1
    <3>3. i = n <=> j = Len(t) BY <1>1, <3>1
    <3>4. (t[j].k = "root" <=> j = Len(t)) /\ t[j].k # "params"
      <4>1. i \in 1 .. n /\ i # 1 BY <3>1, <1>1
      <4>. QED BY <1>2, <3>2, <3>3, <4>1
    <3>5. ASSUME j > 1, t[j].k \in {"function", "root"}
          PROVE  IF j = 2 THEN AtB ELSE t[j - 1].k = "block"
      <4>1. i \in 1 .. n /\ i > 1 BY <3>1, <1>1
      <4>2. IF i = 2 THEN AtBlock ELSE todo[i - 1].k = "block" BY <1>2, <3>2, <3>5, <4>1
      <4>3. t[j - 1].k = "block"
        <5>1. CASE i = 2
          <6>1. j = d + 2 /\ d # -1 BY <1>1, <3>1, <3>5, <5>1
          <6>2. j - 1 = d + 1 BY <1>1, <6>1
          <6>. QED BY <1>3, <4>2, <5>1, <6>1, <6>2
        <5>2. CASE i # 2
          <6>. DEFINE h == i - 1
          <6>1. h \in 2 .. n /\ h + d = j - 1 BY <1>1, <3>1, <5>2
          <6>2. todo[h].k = "block" BY <4>2, <5>2
          <6>. HIDE DEF h
          <6>3. t[h + d] = todo[h] BY <1>1, <6>1
          <6>. QED BY <6>1, <6>2, <6>3
        <5>. QED BY <5>1, <5>2
      <4>4. j = 2 => AtB
        <5>1. j = 2 => j - 1 = 1 OBVIOUS
        <5>. QED BY <4>3, <5>1 DEF AtB
      <4>. QED BY <4>3, <4>4
    <3>. QED BY <3>4, <3>5
  <2>. QED BY <2>1, <2>2
<1>8. \A j \in DOMAIN t : t # <<>> BY <1>1, EmptySeq
<1>. QED BY <1>6, <1>7, <1>8 DEF Shape, t
-----------------------------------------------------------------------------
(* What a step owes to the tables and to the return types.                 *)

(* The tables after a step: one for each open scope below, those of a      *)
(* function or of the root unchanged, and one for the last frame.          *)
Tables(frames) ==
    /\ Len(g_scope') = Below(ScopeKinds) + (IF EndsIn(frames, ScopeKinds) THEN 1 ELSE 0)
    /\ \A j \in 2 .. Len(todo) : todo[j].k \in {"function", "root"} =>
          g_scope'[LevelIn(todo, j, ScopeKinds)] = g_scope[LevelIn(todo, j, ScopeKinds)]
    /\ EndsIn(frames, {"function"}) =>
          Bound(g_scope'[Below(ScopeKinds) + 1]) = ParamNames(LastOf(frames).n)

(* The tables are those of the open scopes.                                *)
LEMMA ScopesBelow ==
    ASSUME IInv, NEW frames, Pushes(frames), OnlyLast(frames, ScopeKinds)
    PROVE  /\ Inner = Below(ScopeKinds) + (IF Top.k \in ScopeKinds THEN 1 ELSE 0)
           /\ Below(ScopeKinds) \in Nat /\ Inner \in Nat /\ DOMAIN g_scope = 1 .. Inner
           /\ \A j \in 2 .. Len(todo) : todo[j].k \in ScopeKinds =>
                 LevelIn(todo, j, ScopeKinds) \in 1 .. Below(ScopeKinds)
<1>. DEFINE d == Len(frames) - 1
<1>1. Moves(frames, d) /\ TypeInv BY DEF Moves, IInv
<1>. HIDE DEF d
<1>2. /\ Below(ScopeKinds) \in Nat
      /\ Cardinality(At(todo, ScopeKinds)) = Below(ScopeKinds) + (IF Top.k \in ScopeKinds THEN 1 ELSE 0)
      /\ \A j \in 2 .. Len(todo) : todo[j].k \in ScopeKinds =>
            1 <= LevelIn(todo, j, ScopeKinds) /\ LevelIn(todo, j, ScopeKinds) <= Below(ScopeKinds)
  BY <1>1, LevelsStep
<1>3. Inner = Cardinality(At(todo, ScopeKinds)) BY DEF IInv, ScopesFollowDescent, Open, At
<1>4. Inner \in Nat /\ DOMAIN g_scope = 1 .. Inner BY LenProperties DEF IInv, TypeInv, Inner
<1>5. \A j : LevelIn(todo, j, ScopeKinds) \in Nat BY <1>1, LevelType DEF TypeInv
<1>. QED BY <1>2, <1>3, <1>4, <1>5

(* The scopes follow the descent if the tables do.                         *)
LEMMA ScopeStep ==
    ASSUME IInv, NEW frames, Pushes(frames), Top.k # "root",
           OnlyLast(frames, ScopeKinds), \A i \in DOMAIN frames : frames[i].k # "root",
           Tables(frames)
    PROVE  ScopesFollowDescent'
<1>. DEFINE d == Len(frames) - 1
            n == Len(todo)
            t == todo'
            m == Below(ScopeKinds)
            L(j) == LevelIn(todo, j, ScopeKinds)
            M(j) == LevelIn(t, j, ScopeKinds)
<1>0. Moves(frames, d) /\ TypeInv BY DEF Moves, IInv
<1>. HIDE DEF d
<1>1. /\ n \in Nat \ {0} /\ d \in Int /\ d + 1 \in Nat /\ Len(frames) = d + 1
      /\ DOMAIN todo = 1 .. n /\ DOMAIN t = 1 .. n + d /\ DOMAIN frames = 1 .. d + 1
      /\ Top = todo[1]
      /\ \A i \in 1 .. d + 1 : t[i] = frames[i]
      /\ \A i \in 2 .. n : t[i + d] = todo[i]
  BY <1>0, After
<1>2. /\ m \in Nat
      /\ Cardinality(At(t, ScopeKinds)) = m + (IF EndsIn(frames, ScopeKinds) THEN 1 ELSE 0)
      /\ EndsIn(frames, ScopeKinds) => M(d + 1) = m + 1
      /\ \A j \in 2 .. n : M(j + d) = L(j)
      /\ \A j \in 2 .. n : todo[j].k \in ScopeKinds => 1 <= L(j) /\ L(j) <= m
  BY <1>0, LevelsStep
<1>3. \A j \in At(todo, ScopeKinds) :
         /\ todo[j].k = "root" <=> L(j) = 1
         /\ todo[j].k = "root" => g_scope[L(j)] = st_create
         /\ todo[j].k = "function" => Bound(g_scope[L(j)]) = ParamNames(todo[j].n)
  BY DEF IInv, ScopesFollowDescent, Open, Level, At, LevelIn
<1>4. m >= 1
  <2>1. todo[n].k = "root" BY <1>1 DEF IInv, Shape
  <2>2. n \in 2 .. n
    <3>1. n # 1 BY <1>1, <2>1
    <3>. QED BY <1>1, <3>1
  <2>3. 1 <= L(n) /\ L(n) <= m /\ L(n) \in Nat
    <3>1. L(n) \in Nat BY <1>0, LevelType DEF TypeInv
    <3>. QED BY <1>2, <2>1, <2>2, <3>1 DEF ScopeKinds
  <2>. QED BY <1>2, <2>3
<1>5. \A i \in DOMAIN frames : frames[i].k \in ScopeKinds => i = d + 1 /\ EndsIn(frames, ScopeKinds)
  <2>1. ASSUME NEW i \in DOMAIN frames, frames[i].k \in ScopeKinds
        PROVE  i = d + 1 /\ EndsIn(frames, ScopeKinds)
    <3>1. ~(i < Len(frames)) BY <2>1 DEF OnlyLast
    <3>2. i = Len(frames) BY <1>1, <3>1
    <3>3. frames # <<>> BY <1>1, <3>2, EmptySeq
    <3>. QED BY <1>1, <2>1, <3>2, <3>3 DEF EndsIn, LastOf
  <2>. QED BY <2>1
<1>6. /\ Len(g_scope') = m + (IF EndsIn(frames, ScopeKinds) THEN 1 ELSE 0)
      /\ \A j \in 2 .. n : todo[j].k \in {"function", "root"} => g_scope'[L(j)] = g_scope[L(j)]
      /\ EndsIn(frames, {"function"}) => Bound(g_scope'[m + 1]) = ParamNames(LastOf(frames).n)
  BY DEF Tables
<1>. HIDE DEF n, m, t, L, M
<1>7. ASSUME NEW j \in At(t, ScopeKinds)
      PROVE  /\ t[j].k = "root" <=> M(j) = 1
             /\ t[j].k = "root" => g_scope'[M(j)] = st_create
             /\ t[j].k = "function" => Bound(g_scope'[M(j)]) = ParamNames(t[j].n)
  <2>1. j \in 1 .. n + d /\ t[j].k \in ScopeKinds BY <1>1 DEF At
  <2>2. CASE j \in 1 .. d + 1
    <3>1. t[j] = frames[j] /\ j = d + 1 /\ EndsIn(frames, ScopeKinds)
      BY <1>1, <1>5, <2>1, <2>2
    <3>2. M(j) = m + 1 /\ M(j) # 1 BY <1>2, <1>4, <3>1
    <3>3. t[j].k # "root" BY <1>1, <2>2, <3>1
    <3>4. t[j] = LastOf(frames) BY <1>1, <3>1 DEF LastOf
    <3>5. t[j].k = "function" => EndsIn(frames, {"function"}) BY <3>1, <3>4 DEF EndsIn
    <3>. QED BY <1>6, <3>2, <3>3, <3>4, <3>5
  <2>3. CASE j \notin 1 .. d + 1
    <3>. DEFINE i == j - d
    <3>1. i \in 2 .. n /\ i + d = j BY <1>1, <2>1, <2>3
    <3>. HIDE DEF i
    <3>2. t[j] = todo[i] /\ M(j) = L(i) BY <1>1, <1>2, <3>1
    <3>3. i \in At(todo, ScopeKinds) BY <1>1, <2>1, <3>1, <3>2 DEF At
    <3>4. t[j].k \in {"function", "root"} => g_scope'[L(i)] = g_scope[L(i)] BY <1>6, <3>1, <3>2
    <3>. QED BY <1>3, <3>2, <3>3, <3>4
  <2>. QED BY <2>2, <2>3
<1>8. Len(g_scope') = Cardinality(At(t, ScopeKinds)) BY <1>2, <1>6
<1>. QED BY <1>7, <1>8 DEF ScopesFollowDescent, Inner, Open, Level, At, LevelIn, M, t

(* Tables that are left alone.                                             *)
LEMMA TablesKept ==
    ASSUME IInv, NEW frames, Pushes(frames), OnlyLast(frames, ScopeKinds),
           \A j \in 1 .. Below(ScopeKinds) : g_scope'[j] = g_scope[j]
    PROVE  \A j \in 2 .. Len(todo) : todo[j].k \in {"function", "root"} =>
              g_scope'[LevelIn(todo, j, ScopeKinds)] = g_scope[LevelIn(todo, j, ScopeKinds)]
<1>1. \A j \in 2 .. Len(todo) : todo[j].k \in ScopeKinds =>
         LevelIn(todo, j, ScopeKinds) \in 1 .. Below(ScopeKinds)
  BY ScopesBelow
<1>2. {"function", "root"} \subseteq ScopeKinds BY DEF ScopeKinds
<1>. QED BY <1>1, <1>2

(* The same for the return types: one for each open function.              *)
ReturnTypes(frames) ==
    /\ Len(g_fun_ret_stack') = Below(FunctionKinds) + (IF EndsIn(frames, FunctionKinds) THEN 1 ELSE 0)
    /\ \A j \in 1 .. Below(FunctionKinds) : g_fun_ret_stack'[j] = g_fun_ret_stack[j]
    /\ EndsIn(frames, FunctionKinds) =>
          g_fun_ret_stack'[Below(FunctionKinds) + 1] = LastOf(frames).n.ret_type

(* The return types match if the step pays what it owes to them.           *)
LEMMA ReturnStep ==
    ASSUME IInv, ReturnTypesMatch, NEW frames, Pushes(frames), OnlyLast(frames, FunctionKinds),
           ReturnTypes(frames)
    PROVE  ReturnTypesMatch'
<1>. DEFINE d == Len(frames) - 1
            n == Len(todo)
            t == todo'
            m == Below(FunctionKinds)
            L(j) == LevelIn(todo, j, FunctionKinds)
            M(j) == LevelIn(t, j, FunctionKinds)
<1>0. Moves(frames, d) /\ TypeInv BY DEF Moves, IInv
<1>. HIDE DEF d
<1>1. /\ n \in Nat \ {0} /\ d \in Int /\ d + 1 \in Nat /\ Len(frames) = d + 1
      /\ DOMAIN todo = 1 .. n /\ DOMAIN t = 1 .. n + d /\ DOMAIN frames = 1 .. d + 1
      /\ \A i \in 1 .. d + 1 : t[i] = frames[i]
      /\ \A i \in 2 .. n : t[i + d] = todo[i]
  BY <1>0, After
<1>2. /\ m \in Nat
      /\ Cardinality(At(t, FunctionKinds)) = m + (IF EndsIn(frames, FunctionKinds) THEN 1 ELSE 0)
      /\ EndsIn(frames, FunctionKinds) => M(d + 1) = m + 1
      /\ \A j \in 2 .. n : M(j + d) = L(j)
      /\ \A j \in 2 .. n : todo[j].k \in FunctionKinds => 1 <= L(j) /\ L(j) <= m
  BY <1>0, LevelsStep
<1>3. \A j \in At(todo, FunctionKinds) : g_fun_ret_stack[L(j)] = todo[j].n.ret_type
  BY DEF ReturnTypesMatch, Open, Level, At, LevelIn
<1>4. \A i \in DOMAIN frames :
         frames[i].k \in FunctionKinds => i = d + 1 /\ EndsIn(frames, FunctionKinds)
  <2>1. ASSUME NEW i \in DOMAIN frames, frames[i].k \in FunctionKinds
        PROVE  i = d + 1 /\ EndsIn(frames, FunctionKinds)
    <3>1. ~(i < Len(frames)) BY <2>1 DEF OnlyLast
    <3>2. i = Len(frames) BY <1>1, <3>1
    <3>3. frames # <<>> BY <1>1, <3>2, EmptySeq
    <3>. QED BY <1>1, <2>1, <3>2, <3>3 DEF EndsIn, LastOf
  <2>. QED BY <2>1
<1>5. /\ Len(g_fun_ret_stack') = m + (IF EndsIn(frames, FunctionKinds) THEN 1 ELSE 0)
      /\ \A j \in 1 .. m : g_fun_ret_stack'[j] = g_fun_ret_stack[j]
      /\ EndsIn(frames, FunctionKinds) => g_fun_ret_stack'[m + 1] = LastOf(frames).n.ret_type
  BY DEF ReturnTypes
<1>6. \A j : L(j) \in Nat BY <1>0, LevelType DEF TypeInv
<1>. HIDE DEF n, m, t, L, M
<1>7. ASSUME NEW j \in At(t, FunctionKinds) PROVE g_fun_ret_stack'[M(j)] = t[j].n.ret_type
  <2>1. j \in 1 .. n + d /\ t[j].k \in FunctionKinds BY <1>1 DEF At
  <2>2. CASE j \in 1 .. d + 1
    <3>1. t[j] = frames[j] /\ j = d + 1 /\ EndsIn(frames, FunctionKinds)
      BY <1>1, <1>4, <2>1, <2>2
    <3>2. M(j) = m + 1 BY <1>2, <3>1
    <3>3. t[j] = LastOf(frames) BY <1>1, <3>1 DEF LastOf
    <3>. QED BY <1>5, <3>1, <3>2, <3>3
  <2>3. CASE j \notin 1 .. d + 1
    <3>. DEFINE i == j - d
    <3>1. i \in 2 .. n /\ i + d = j BY <1>1, <2>1, <2>3
    <3>. HIDE DEF i
    <3>2. t[j] = todo[i] /\ M(j) = L(i) BY <1>1, <1>2, <3>1
    <3>3. i \in At(todo, FunctionKinds) BY <1>1, <2>1, <3>1, <3>2 DEF At
    <3>4. L(i) \in 1 .. m BY <1>2, <1>6, <2>1, <3>1, <3>2
    <3>. QED BY <1>3, <1>5, <3>2, <3>3, <3>4
  <2>. QED BY <2>2, <2>3
<1>8. Len(g_fun_ret_stack') = Cardinality(At(t, FunctionKinds)) BY <1>2, <1>5
<1>. QED BY <1>7, <1>8 DEF ReturnTypesMatch, Open, Level, At, LevelIn, M, t
-----------------------------------------------------------------------------
(* Steps that open and close nothing.                                      *)

(* The types after a step.                                                 *)
LEMMA TypeStep ==
    ASSUME TypeInv, NEW frames, Pushes(frames), ast' = ast, ret' \in Types,
           g_scope' \in Seq(Table), \A i \in DOMAIN g_scope' : Good(g_scope'[i]),
           g_funs' \in Seq(Signature),
           g_fun_ret_stack' \in Seq(TypeTags), Len(g_fun_ret_stack') <= MAX_FUN_STACK
    PROVE  TypeInv'
<1>. DEFINE d == Len(frames) - 1
<1>1. Moves(frames, d) BY DEF Moves
<1>. HIDE DEF d
<1>2. todo' \in Seq(GoodFrames) BY <1>1, After
<1>. QED BY <1>2 DEF TypeInv, Good

(* No parameters are being declared after it.                              *)
LEMMA NoParams ==
    ASSUME IInv, NEW frames, Pushes(frames), frames = <<>> \/ frames[1].k # "params"
    PROVE  ParamsDeclared'
<1>. DEFINE d == Len(frames) - 1
<1>1. Moves(frames, d) /\ TypeInv BY DEF Moves, IInv
<1>. HIDE DEF d
<1>2. /\ todo' \in Seq(GoodFrames)
      /\ Len(todo) \in Nat \ {0} /\ d \in Int /\ d + 1 \in Nat /\ Len(frames) = d + 1
      /\ DOMAIN todo = 1 .. Len(todo) /\ DOMAIN todo' = 1 .. Len(todo) + d
      /\ \A i \in 1 .. d + 1 : todo'[i] = frames[i]
      /\ \A i \in 2 .. Len(todo) : todo'[i + d] = todo[i]
  BY <1>1, After
<1>3. ASSUME todo' # <<>> PROVE todo'[1].k # "params"
  <2>1. 1 \in DOMAIN todo' BY <1>2, <1>3, EmptySeq
  <2>2. CASE frames = <<>>
    <3>1. d = -1 /\ 2 \in 2 .. Len(todo) /\ 2 + d = 1 BY <1>2, <2>1, <2>2, EmptySeq
    <3>2. todo'[1] = todo[2] BY <1>2, <3>1
    <3>3. 2 \in DOMAIN todo /\ 2 # 1 BY <1>2, <3>1
    <3>. QED BY <3>2, <3>3 DEF IInv, Shape
  <2>3. CASE frames # <<>>
    <3>1. 1 \in 1 .. d + 1 BY <1>2, <2>3, EmptySeq
    <3>. QED BY <1>2, <2>3, <3>1
  <2>. QED BY <2>2, <2>3
<1>4. todo' # <<>> => Top' = todo'[1] BY <1>2, HeadTailProperties DEF Top
<1>. QED BY <1>3, <1>4 DEF ParamsDeclared

(* A step at an expression or a statement that is no block.                *)
Quiet(frames) ==
    /\ IInv /\ Pushes(frames) /\ Top.k \notin ScopeKinds /\ ~AtBlock
    /\ \A i \in DOMAIN frames : frames[i].k \notin ScopeKinds
    /\ ast' = ast /\ ret' \in Types /\ UNCHANGED <<g_funs, g_fun_ret_stack>>

(* A quiet step keeps the invariant if it keeps the tables.                *)
LEMMA QuietStep ==
    ASSUME NEW frames, Quiet(frames), Tables(frames),
           g_scope' \in Seq(Table), \A i \in DOMAIN g_scope' : Good(g_scope'[i])
    PROVE  Keeps
<1>1. IInv /\ Pushes(frames) /\ Top.k \notin ScopeKinds /\ ~AtBlock
      /\ \A i \in DOMAIN frames : frames[i].k \notin ScopeKinds
  BY DEF Quiet
<1>2. TypeInv /\ Shape BY <1>1 DEF IInv
<1>3. TypeInv' BY <1>1, <1>2, TypeStep DEF TypeInv, Quiet
<1>4. \A i \in DOMAIN frames : frames[i].k \notin {"root", "params", "function"}
  BY <1>1 DEF ScopeKinds
<1>5. Top.k # "root" BY <1>1 DEF ScopeKinds
<1>6. Shape' BY <1>1, <1>2, <1>4, <1>5, ShapeStep
<1>7. ParamsDeclared'
  <2>1. frames # <<>> => 1 \in DOMAIN frames BY <1>1, EmptySeq DEF Pushes
  <2>. QED BY <1>1, <1>4, <2>1, NoParams
<1>8. OnlyLast(frames, ScopeKinds) /\ OnlyLast(frames, FunctionKinds)
  BY <1>1 DEF OnlyLast, ScopeKinds, FunctionKinds
<1>9. ScopesFollowDescent' BY <1>1, <1>4, <1>5, <1>8, ScopeStep
<1>10. ASSUME ReturnTypesMatch PROVE ReturnTypesMatch'
  <2>1. ~EndsIn(frames, FunctionKinds)
    <3>1. frames # <<>> => Len(frames) \in DOMAIN frames BY <1>1, LenProperties, EmptySeq DEF Pushes
    <3>. QED BY <1>4, <3>1 DEF EndsIn, LastOf, FunctionKinds
  <2>2. Top.k \notin FunctionKinds BY <1>1 DEF FunctionKinds, ScopeKinds
  <2>. DEFINE d == Len(frames) - 1
  <2>3. Moves(frames, d) BY <1>1 DEF Moves
  <2>. HIDE DEF d
  <2>4. Below(FunctionKinds) \in Nat /\ Cardinality(At(todo, FunctionKinds)) = Below(FunctionKinds)
    BY <1>2, <1>8, <2>2, <2>3, LevelsStep
  <2>5. Len(g_fun_ret_stack) = Below(FunctionKinds)
    BY <1>10, <2>4 DEF ReturnTypesMatch, Open, At
  <2>6. ReturnTypes(frames) BY <2>1, <2>4, <2>5 DEF ReturnTypes, Quiet
  <2>. QED BY <1>1, <1>8, <1>10, <2>6, ReturnStep
<1>. QED BY <1>3, <1>6, <1>7, <1>9, <1>10 DEF Keeps, IInv

(* A step that leaves the tables alone, too.                               *)
LEMMA CalmStep ==
    ASSUME NEW frames, Quiet(frames), UNCHANGED g_scope
    PROVE  Keeps
<1>1. /\ IInv /\ Pushes(frames) /\ Top.k \notin ScopeKinds
      /\ \A i \in DOMAIN frames : frames[i].k \notin ScopeKinds
  BY DEF Quiet
<1>2. OnlyLast(frames, ScopeKinds) BY <1>1 DEF OnlyLast
<1>3. ~EndsIn(frames, ScopeKinds) /\ ~EndsIn(frames, {"function"})
  <2>1. frames # <<>> => Len(frames) \in DOMAIN frames BY <1>1, LenProperties, EmptySeq DEF Pushes
  <2>. QED BY <1>1, <2>1 DEF EndsIn, LastOf, ScopeKinds
<1>4. Inner = Below(ScopeKinds) /\ Below(ScopeKinds) \in Nat BY <1>1, <1>2, ScopesBelow
<1>5. Tables(frames) BY <1>3, <1>4 DEF Tables, Inner
<1>6. g_scope' \in Seq(Table) /\ \A i \in DOMAIN g_scope' : Good(g_scope'[i])
  BY <1>1 DEF IInv, TypeInv
<1>. QED BY <1>5, <1>6, QuietStep

(* The running activation leaves, or one or two others take its place.     *)
Calm == /\ IInv /\ todo # <<>> /\ Top.k \notin ScopeKinds /\ ~AtBlock
        /\ ret' \in Types /\ UNCHANGED <<ast, scopes>>
Pushable(fr) == fr \in GoodFrames /\ fr.k \notin ScopeKinds

(* A calm step that pushes frames.                                         *)
LEMMA CalmSeq ==
    ASSUME Calm, NEW frames \in Seq(GoodFrames), Continue(frames),
           \A i \in DOMAIN frames : frames[i].k \notin ScopeKinds
    PROVE  Keeps
<1>1. Quiet(frames) /\ UNCHANGED g_scope BY DEF Calm, Quiet, Pushes, scopes
<1>. QED BY <1>1, CalmStep

(* A calm step that pushes none.                                           *)
LEMMA CalmNone ==
    ASSUME Calm, Continue(<<>>) PROVE Keeps
<1>. DEFINE frames == <<>>
<1>1. frames \in Seq(GoodFrames) /\ DOMAIN frames = {} BY EmptySeq
<1>2. Continue(frames) OBVIOUS
<1>. HIDE DEF frames
<1>. QED BY <1>1, <1>2, CalmSeq

(* A calm step that pushes one.                                            *)
LEMMA CalmOne ==
    ASSUME Calm, NEW a, Pushable(a), Continue(<<a>>) PROVE Keeps
<1>. DEFINE frames == <<a>>
<1>1. frames \in Seq(GoodFrames) /\ DOMAIN frames = {1} /\ frames[1].k \notin ScopeKinds
  BY DEF Pushable
<1>2. Continue(frames) OBVIOUS
<1>. HIDE DEF frames
<1>. QED BY <1>1, <1>2, CalmSeq

(* A calm step that pushes two.                                            *)
LEMMA CalmTwo ==
    ASSUME Calm, NEW a, Pushable(a), NEW b, Pushable(b), Continue(<<a, b>>) PROVE Keeps
<1>. DEFINE frames == <<a, b>>
<1>1. /\ frames \in Seq(GoodFrames) /\ DOMAIN frames = {1, 2}
      /\ frames[1].k \notin ScopeKinds /\ frames[2].k \notin ScopeKinds
  BY DEF Pushable
<1>2. Continue(frames) OBVIOUS
<1>. HIDE DEF frames
<1>. QED BY <1>1, <1>2, CalmSeq

-----------------------------------------------------------------------------
(* What the frames pushed are made of.                                     *)

(* The nodes of each kind of activation.                                   *)
LEMMA NodesAt ==
    /\ NodesOf("check") = Exprs \cup Stmts \cup {NullNode} /\ NodesOf("infer") = Exprs
    /\ NodesOf("unary") = {e \in Exprs : e.kind = "unary"}
    /\ NodesOf("binary") = {e \in Exprs : e.kind = "binary"}
    /\ NodesOf("assign") = {e \in Exprs : e.kind = "assign"}
    /\ NodesOf("apply") = {e \in Exprs : e.kind = "binary"}
    /\ NodesOf("args") = {e \in Exprs : e.kind = "call"}
    /\ NodesOf("arg") = {e \in Exprs : e.kind = "call"}
    /\ NodesOf("unknown") = {e \in Exprs : e.kind = "call"}
    /\ NodesOf("block") = {s \in Stmts : s.kind = "block"}
    /\ NodesOf("decl") = {s \in Stmts : s.kind = "decl"}
    /\ NodesOf("return") = {s \in Stmts : s.kind = "return"}
    /\ NodesOf("function") = {s \in Stmts : s.kind = "function"}
    /\ NodesOf("params") = {s \in Stmts : s.kind = "function"}
    /\ NodesOf("cond") = {s \in Stmts : s.kind \in {"if", "while", "for"}}
    /\ NodesOf("root") = Programs
BY DEF NodesOf, ExprsOf, StmtsOf

(* Frames that open nothing.                                               *)
LEMMA PushFrame ==
    ASSUME NEW k \in {"check", "infer", "unary", "binary", "unknown", "decl", "cond"},
           NEW n \in Exprs \cup Stmts \cup {NullNode}, n \in NodesOf(k)
    PROVE  Pushable(Frame(k, n))
<1>1. k \in Kinds \ {"args", "arg", "apply", "assign", "return"} /\ k \notin ScopeKinds
  BY DEF Kinds, ScopeKinds
<1>. QED BY <1>1, FrameGood DEF Pushable

(* Those that keep a type.                                                 *)
LEMMA PushHolding ==
    ASSUME NEW k \in {"apply", "assign", "return"},
           NEW n \in Exprs \cup Stmts \cup {NullNode}, n \in NodesOf(k), NEW l \in Types
    PROVE  Pushable(Holding(k, n, l))
<1>1. k \notin ScopeKinds BY DEF ScopeKinds
<1>. QED BY <1>1, HoldingGood DEF Pushable

(* Those that keep a signature.                                            *)
LEMMA PushArgs ==
    ASSUME NEW k \in {"args", "arg"}, NEW n \in Exprs, n.kind = "call", NEW i \in Nat \ {0},
           NEW l \in Signature
    PROVE  Pushable([k |-> k, n |-> n, i |-> i, l |-> l])
<1>. DEFINE fr == [k |-> k, n |-> n, i |-> i, l |-> l]
<1>1. fr.k = k /\ fr.n = n /\ fr.l = l /\ fr \in FrameType BY DEF FrameType, Kinds
<1>2. n \in NodesOf(k) BY NodesAt
<1>. HIDE DEF fr
<1>3. fr \in GoodFrames BY <1>1, <1>2 DEF GoodFrames, LocalOf
<1>. QED BY <1>1, <1>3 DEF Pushable, ScopeKinds, fr

(* The operators of types.                                                 *)
LEMMA InferredTypes ==
    /\ \A op, t \in Types \cup UnOps : t \in Types => infer_unary(op, t) \in Types
    /\ \A op, l, r : infer_binary(op, l, r) \in Types
BY DEF infer_unary, infer_binary, Types, TypeTags, Literals

(* A lookup returns the type of a symbol, or the invalid one.              *)
LEMMA LookupTypes ==
    ASSUME TypeInv, NEW name \in Names
    PROVE  lookup_type(name).type \in Types
<1>. DEFINE hits == Holders(g_scope, Inner, name)
            j == Innermost(hits)
<1>1. NotFound.type = "invalid" /\ "invalid" \in Types BY DEF NotFound, Types
<1>2. CASE hits = {} BY <1>1, <1>2 DEF lookup_type, st_lookup_type_recursive
<1>3. CASE hits # {}
  <2>1. Inner \in Nat /\ DOMAIN g_scope = 1 .. Inner BY LenProperties DEF TypeInv, Inner
  <2>2. hits \subseteq 1 .. Inner BY DEF Holders
  <2>3. j \in hits BY <1>3, <2>1, <2>2, InnermostOf
  <2>4. Good(g_scope[j]) /\ Holds(g_scope[j], name) BY <2>1, <2>2, <2>3 DEF TypeInv, Holders
  <2>. HIDE DEF hits, j
  <2>5. Lookup(g_scope[j], name) \in SymbolOf(Names, TypeTags, {NullNode})
    BY <2>4, HeldAt DEF Good, Sound
  <2>6. lookup_type(name) = Found(Lookup(g_scope[j], name).type)
    BY <1>3, <2>4 DEF lookup_type, st_lookup_type_recursive, st_lookup_type, hits, j
  <2>. QED BY <2>5, <2>6 DEF Found, SymbolOf, Types
<1>. QED BY <1>2, <1>3

(* find_fun returns a signature of the name.                               *)
LEMMA FindFun ==
    ASSUME TypeInv, NEW name, Sigs(name) # {}
    PROVE  find_fun(name) \in Signature
<1>1. g_funs \in Seq(Signature) /\ Sigs(name) \subseteq DOMAIN g_funs BY DEF TypeInv, Sigs
<1>2. DOMAIN g_funs \subseteq Nat BY <1>1, LenProperties
<1>3. \E i \in Sigs(name) : \A j \in Sigs(name) : i <= j BY <1>1, <1>2, LeastNumber
<1>4. (CHOOSE i \in Sigs(name) : \A j \in Sigs(name) : i <= j) \in DOMAIN g_funs BY <1>1, <1>3
<1>. QED BY <1>1, <1>4, ElementOfSeq DEF find_fun

(* The return type of the innermost function is one.                       *)
LEMMA CurrentReturn ==
    ASSUME TypeInv PROVE current_fun_ret \in Types
<1>1. g_fun_ret_stack \in Seq(TypeTags) BY DEF TypeInv
<1>2. g_fun_ret_stack # <<>> => Len(g_fun_ret_stack) \in DOMAIN g_fun_ret_stack
  BY <1>1, LenProperties, EmptySeq
<1>3. "void" \in Types /\ TypeTags \subseteq Types BY DEF Types, TypeTags
<1>. QED BY <1>1, <1>2, <1>3 DEF current_fun_ret

(* An activation that is at no block and no function is calm.              *)
LEMMA CalmAt ==
    ASSUME IInv, todo # <<>>, Top.k \notin ScopeKinds, Top.k = "check" => Top.n.kind # "block",
           ret' \in Types, UNCHANGED <<ast, scopes>>
    PROVE  Calm
BY DEF Calm, AtBlock, ScopeKinds

-----------------------------------------------------------------------------
(* The steps of infer.                                                     *)

(* A literal.                                                              *)
LEMMA InferLiteralKeeps ==
    ASSUME IInv, InferLiteral PROVE Keeps
<1>1. todo # <<>> /\ Top.k = "infer" /\ Top.n.kind \in Literals BY DEF InferLiteral, OnExpr, On
<1>2. ret' \in Types /\ Continue(<<>>) /\ UNCHANGED <<ast, scopes>>
  BY <1>1 DEF InferLiteral, Infer, Types, TypeTags
<1>3. Calm BY <1>1, <1>2, CalmAt DEF ScopeKinds
<1>. QED BY <1>2, <1>3, CalmNone

(* A name.                                                                 *)
LEMMA InferIdentKeeps ==
    ASSUME IInv, InferIdent PROVE Keeps
<1>1. todo # <<>> /\ Top.k = "infer" /\ Top.n.kind = "ident" BY DEF InferIdent, OnExpr, On
<1>2. TypeInv BY DEF IInv
<1>3. Top.n \in Exprs BY <1>1, <1>2, TopFrame, NodesAt
<1>4. Top.n.name \in Names BY <1>1, <1>3, ExprNodes
<1>5. ret' \in Types BY <1>2, <1>4, LookupTypes DEF InferIdent, Infer
<1>6. Continue(<<>>) /\ UNCHANGED <<ast, scopes>> BY DEF InferIdent, Infer
<1>7. Calm BY <1>1, <1>5, <1>6, CalmAt DEF ScopeKinds
<1>. QED BY <1>6, <1>7, CalmNone

(* The (left) operand comes first.                                         *)
LEMMA InferOperandKeeps ==
    ASSUME IInv, InferOperand PROVE Keeps
<1>1. todo # <<>> /\ Top.k = "infer" /\ Top.n.kind \in {"unary", "binary"}
  BY DEF InferOperand, OnExpr, On
<1>2. TypeInv BY DEF IInv
<1>3. Top.n \in Exprs BY <1>1, <1>2, TopFrame, NodesAt
<1>. DEFINE e == IF Top.n.kind = "unary" THEN Top.n.expr ELSE Top.n.left
            a == Frame("infer", e)
            b == Frame(Top.n.kind, Top.n)
<1>4. e \in Exprs BY <1>1, <1>3, ExprNodes
<1>5. Pushable(a) BY <1>4, PushFrame, NodesAt
<1>6. Pushable(b) BY <1>1, <1>3, PushFrame, NodesAt
<1>7. Continue(<<a, b>>) /\ UNCHANGED <<ast, ret, scopes>> BY DEF InferOperand
<1>. HIDE DEF a, b, e
<1>8. Calm BY <1>1, <1>2, <1>7, CalmAt DEF ScopeKinds, TypeInv
<1>. QED BY <1>5, <1>6, <1>7, <1>8, CalmTwo

(* A unary operator.                                                       *)
LEMMA InferUnaryKeeps ==
    ASSUME IInv, InferUnary PROVE Keeps
<1>1. todo # <<>> /\ Top.k = "unary" BY DEF InferUnary, On
<1>2. TypeInv BY DEF IInv
<1>3. Top.n \in Exprs /\ Top.n.kind = "unary" BY <1>1, <1>2, TopFrame, NodesAt
<1>4. Top.n.op \in UnOps BY <1>3, ExprNodes
<1>5. ret' \in Types BY <1>2, <1>4, InferredTypes DEF InferUnary, Infer, TypeInv
<1>6. Continue(<<>>) /\ UNCHANGED <<ast, scopes>> BY DEF InferUnary, Infer
<1>7. Calm BY <1>1, <1>5, <1>6, CalmAt DEF ScopeKinds
<1>. QED BY <1>6, <1>7, CalmNone

(* The right operand is next.                                              *)
LEMMA InferRightKeeps ==
    ASSUME IInv, InferRight PROVE Keeps
<1>1. todo # <<>> /\ Top.k = "binary" BY DEF InferRight, On
<1>2. TypeInv BY DEF IInv
<1>3. Top.n \in Exprs /\ Top.n.kind = "binary" BY <1>1, <1>2, TopFrame, NodesAt
<1>. DEFINE a == Frame("infer", Top.n.right)
            b == Holding("apply", Top.n, ret)
<1>4. Pushable(a) BY <1>3, ExprNodes, PushFrame, NodesAt
<1>5. Pushable(b) BY <1>2, <1>3, PushHolding, NodesAt DEF TypeInv
<1>6. Continue(<<a, b>>) /\ UNCHANGED <<ast, ret, scopes>> BY DEF InferRight
<1>. HIDE DEF a, b
<1>7. Calm BY <1>1, <1>2, <1>6, CalmAt DEF ScopeKinds, TypeInv
<1>. QED BY <1>4, <1>5, <1>6, <1>7, CalmTwo

(* A binary operator.                                                      *)
LEMMA InferBinaryKeeps ==
    ASSUME IInv, InferBinary PROVE Keeps
<1>1. todo # <<>> /\ Top.k = "apply" BY DEF InferBinary, On
<1>2. ret' \in Types BY InferredTypes DEF InferBinary, Infer
<1>3. Continue(<<>>) /\ UNCHANGED <<ast, scopes>> BY DEF InferBinary, Infer
<1>4. Calm BY <1>1, <1>2, <1>3, CalmAt DEF ScopeKinds
<1>. QED BY <1>3, <1>4, CalmNone

(* An assignment used as a value.                                          *)
LEMMA InferAssignKeeps ==
    ASSUME IInv, InferAssign PROVE Keeps
<1>1. todo # <<>> /\ Top.k = "infer" /\ Top.n.kind = "assign" BY DEF InferAssign, OnExpr, On
<1>2. TypeInv BY DEF IInv
<1>3. Top.n \in Exprs BY <1>1, <1>2, TopFrame, NodesAt
<1>. DEFINE a == Frame("check", Top.n)
            b == Frame("infer", Top.n.value)
<1>4. Pushable(a) BY <1>3, PushFrame, NodesAt
<1>5. Pushable(b) BY <1>1, <1>3, ExprNodes, PushFrame, NodesAt
<1>6. Continue(<<a, b>>) /\ UNCHANGED <<ast, ret, scopes>> BY DEF InferAssign
<1>. HIDE DEF a, b
<1>7. Calm BY <1>1, <1>2, <1>6, CalmAt DEF ScopeKinds, TypeInv
<1>. QED BY <1>4, <1>5, <1>6, <1>7, CalmTwo

(* A call of a known function.                                             *)
LEMMA InferCallKeeps ==
    ASSUME IInv, InferCall PROVE Keeps
<1>1. todo # <<>> /\ Top.k = "infer" /\ Top.n.kind = "call" /\ Sigs(Top.n.name) # {}
  BY DEF InferCall, OnExpr, On
<1>2. TypeInv BY DEF IInv
<1>3. Top.n \in Exprs BY <1>1, <1>2, TopFrame, NodesAt
<1>. DEFINE a == Holding("args", Top.n, find_fun(Top.n.name))
<1>4. find_fun(Top.n.name) \in Signature BY <1>1, <1>2, FindFun
<1>5. Pushable(a)
  <2>1. a = [k |-> "args", n |-> Top.n, i |-> 1, l |-> find_fun(Top.n.name)] BY DEF Holding
  <2>2. "args" \in {"args", "arg"} /\ 1 \in Nat \ {0} OBVIOUS
  <2>. HIDE DEF a
  <2>. QED BY <1>1, <1>3, <1>4, <2>1, <2>2, PushArgs
<1>6. Continue(<<a>>) /\ UNCHANGED <<ast, ret, scopes>> BY DEF InferCall
<1>. HIDE DEF a
<1>7. Calm BY <1>1, <1>2, <1>6, CalmAt DEF ScopeKinds, TypeInv
<1>. QED BY <1>5, <1>6, <1>7, CalmOne

(* A call of an unknown function.                                          *)
LEMMA InferUnknownCallKeeps ==
    ASSUME IInv, InferUnknownCall PROVE Keeps
<1>1. todo # <<>> /\ Top.k = "infer" /\ Top.n.kind = "call" BY DEF InferUnknownCall, OnExpr, On
<1>2. TypeInv BY DEF IInv
<1>3. Top.n \in Exprs BY <1>1, <1>2, TopFrame, NodesAt
<1>4. Top.n.args \in Seq(Exprs) BY <1>1, <1>3, ExprNodes
<1>. DEFINE args == Top.n.args
            as == [i \in DOMAIN args |-> Frame("infer", args[i])]
            b == Frame("unknown", Top.n)
            frames == as \o <<b>>
            Quiets == {fr \in GoodFrames : fr.k \notin ScopeKinds}
<1>5. Pushable(b) BY <1>1, <1>3, PushFrame, NodesAt
<1>6. as \in Seq(Quiets)
  <2>1. Len(args) \in Nat /\ DOMAIN args = 1 .. Len(args) BY <1>4, LenProperties
  <2>2. ASSUME NEW i \in 1 .. Len(args) PROVE Frame("infer", args[i]) \in Quiets
    <3>1. args[i] \in Exprs BY <1>4, <2>1, ElementOfSeq
    <3>2. Pushable(Frame("infer", args[i])) BY <3>1, PushFrame, NodesAt
    <3>. QED BY <3>2 DEF Pushable
  <2>. HIDE DEF args, Quiets
  <2>. QED BY <2>1, <2>2
<1>7. <<b>> \in Seq(Quiets) BY <1>5 DEF Pushable
<1>8. Continue(frames) /\ UNCHANGED <<ast, ret, scopes>> BY DEF InferUnknownCall
<1>. HIDE DEF as, b, args
<1>9. frames \in Seq(Quiets) BY <1>6, <1>7, ConcatProperties
<1>. HIDE DEF frames
<1>10. frames \in Seq(GoodFrames) /\ \A i \in DOMAIN frames : frames[i].k \notin ScopeKinds
  <2>1. \A i \in DOMAIN frames : frames[i] \in Quiets BY <1>9
  <2>2. frames \in Seq(GoodFrames) BY <1>9, SeqDef
  <2>. QED BY <2>1, <2>2
<1>11. Calm BY <1>1, <1>2, <1>8, CalmAt DEF ScopeKinds, TypeInv
<1>. QED BY <1>8, <1>10, <1>11, CalmSeq

(* A call of an unknown function has no type.                              *)
LEMMA InferUnknownKeeps ==
    ASSUME IInv, InferUnknown PROVE Keeps
<1>1. todo # <<>> /\ Top.k = "unknown" BY DEF InferUnknown, On
<1>2. ret' \in Types /\ Continue(<<>>) /\ UNCHANGED <<ast, scopes>>
  BY DEF InferUnknown, Infer, Types
<1>3. Calm BY <1>1, <1>2, CalmAt DEF ScopeKinds
<1>. QED BY <1>2, <1>3, CalmNone

(* A call whose arguments are being inferred.                              *)
LEMMA ArgsTop ==
    ASSUME TypeInv, todo # <<>>, Top.k \in {"args", "arg"}
    PROVE  /\ Top.n \in Exprs /\ Top.n.kind = "call" /\ Top.n.args \in Seq(Exprs)
           /\ Top.l \in Signature /\ Top.i \in Nat \ {0}
           /\ Top = [k |-> Top.k, n |-> Top.n, i |-> Top.i, l |-> Top.l]
<1>1. Top.n \in Exprs /\ Top.n.kind = "call" BY TopFrame, NodesAt
<1>. QED BY <1>1, ExprNodes, TopFrame

(* An argument is inferred.                                                *)
LEMMA InferArgKeeps ==
    ASSUME IInv, InferArg PROVE Keeps
<1>1. todo # <<>> /\ Top.k = "args" /\ Top.i <= Len(Top.n.args) BY DEF InferArg, On
<1>2. TypeInv BY DEF IInv
<1>3. /\ Top.n \in Exprs /\ Top.n.kind = "call" /\ Top.n.args \in Seq(Exprs)
      /\ Top.l \in Signature /\ Top.i \in Nat \ {0}
      /\ Top = [k |-> Top.k, n |-> Top.n, i |-> Top.i, l |-> Top.l]
  BY <1>1, <1>2, ArgsTop
<1>. DEFINE a == Frame("infer", Top.n.args[Top.i])
            b == [Top EXCEPT !.k = "arg"]
<1>4. Top.n.args[Top.i] \in Exprs
  <2>1. Top.i \in 1 .. Len(Top.n.args) BY <1>1, <1>3, LenProperties
  <2>. QED BY <1>3, <2>1, ElementOfSeq
<1>5. Pushable(a) BY <1>4, PushFrame, NodesAt
<1>6. Continue(<<a, b>>) /\ UNCHANGED <<ast, ret, scopes>> BY DEF InferArg
<1>. HIDE DEF a
<1>7. Pushable(b)
  <2>1. b = [k |-> "arg", n |-> Top.n, i |-> Top.i, l |-> Top.l] BY <1>3
  <2>. HIDE DEF b
  <2>. QED BY <1>3, <2>1, PushArgs
<1>. HIDE DEF b
<1>8. Calm BY <1>1, <1>2, <1>6, CalmAt DEF ScopeKinds, TypeInv
<1>. QED BY <1>5, <1>6, <1>7, <1>8, CalmTwo

(* An argument is compared with its parameter.                             *)
LEMMA CheckArgKeeps ==
    ASSUME IInv, CheckArg PROVE Keeps
<1>1. todo # <<>> /\ Top.k = "arg" BY DEF CheckArg, On
<1>2. TypeInv BY DEF IInv
<1>3. /\ Top.n \in Exprs /\ Top.n.kind = "call" /\ Top.l \in Signature /\ Top.i \in Nat \ {0}
      /\ Top = [k |-> Top.k, n |-> Top.n, i |-> Top.i, l |-> Top.l]
  BY <1>1, <1>2, ArgsTop
<1>. DEFINE a == [Top EXCEPT !.k = "args", !.i = @ + 1]
<1>4. Continue(<<a>>) /\ UNCHANGED <<ast, ret, scopes>> BY DEF CheckArg
<1>5. Pushable(a)
  <2>. DEFINE m == Top.i + 1
  <2>1. m \in Nat \ {0} BY <1>3
  <2>2. a = [Top EXCEPT !.k = "args", !.i = m] OBVIOUS
  <2>. HIDE DEF a, m
  <2>3. a = [k |-> "args", n |-> Top.n, i |-> m, l |-> Top.l] BY <1>3, <2>2
  <2>. QED BY <1>3, <2>1, <2>3, PushArgs
<1>. HIDE DEF a
<1>6. Calm BY <1>1, <1>2, <1>4, CalmAt DEF ScopeKinds, TypeInv
<1>. QED BY <1>4, <1>5, <1>6, CalmOne

(* The type of a call.                                                     *)
LEMMA InferResultKeeps ==
    ASSUME IInv, InferResult PROVE Keeps
<1>1. todo # <<>> /\ Top.k = "args" BY DEF InferResult, On
<1>2. TypeInv BY DEF IInv
<1>3. Top.l \in Signature BY <1>1, <1>2, ArgsTop
<1>4. ret' \in Types BY <1>3 DEF InferResult, Infer, Signature, Types
<1>5. Continue(<<>>) /\ UNCHANGED <<ast, scopes>> BY DEF InferResult, Infer
<1>6. Calm BY <1>1, <1>4, <1>5, CalmAt DEF ScopeKinds
<1>. QED BY <1>5, <1>6, CalmNone
-----------------------------------------------------------------------------
(* The steps of check_stmt that open and close nothing.                    *)

(* The node of a statement that is being checked, by its kind.             *)
LEMMA CheckedNode ==
    ASSUME TypeInv, todo # <<>>, Top.k = "check"
    PROVE  /\ Top.n \in Exprs \cup Stmts \cup {NullNode}
           /\ Top.n.kind \in {"expr", "decl", "block", "if", "while", "for", "return", "function"} =>
                 Top.n \in Stmts
           /\ Top.n.kind = "assign" => Top.n \in Exprs
<1>1. Top.n \in Exprs \cup Stmts \cup {NullNode} BY TopFrame, NodesAt
<1>2. CASE Top.n \in Exprs BY <1>2, ExprNodes DEF Literals
<1>3. CASE Top.n \in Stmts BY <1>3, StmtNodes
<1>4. CASE Top.n = NullNode BY <1>4 DEF NullNode
<1>. QED BY <1>1, <1>2, <1>3, <1>4

(* A step at a statement that is no block and opens nothing.               *)
LEMMA CalmStmt ==
    ASSUME IInv, NEW kinds, OnStmt(kinds), "block" \notin kinds, UNCHANGED <<ast, ret, scopes>>
    PROVE  Calm /\ TypeInv /\ todo # <<>> /\ Top.k = "check" /\ Top.n.kind \in kinds
<1>1. todo # <<>> /\ Top.k = "check" /\ Top.n.kind \in kinds BY DEF OnStmt, On
<1>2. TypeInv BY DEF IInv
<1>3. ret' \in Types BY <1>2 DEF TypeInv
<1>4. Calm BY <1>1, <1>3, CalmAt DEF ScopeKinds
<1>. QED BY <1>1, <1>2, <1>4

(* A statement that is not looked at.                                      *)
LEMMA IgnoreStmtKeeps ==
    ASSUME IInv, IgnoreStmt PROVE Keeps
<1>. DEFINE kinds == {"null", "ident", "unary", "binary", "call"} \cup Literals
<1>1. /\ OnStmt(kinds) /\ Continue(<<>>) /\ UNCHANGED <<ast, ret, scopes>> /\ "block" \notin kinds
  BY DEF IgnoreStmt, Literals
<1>. HIDE DEF kinds
<1>2. Calm BY <1>1, CalmStmt
<1>. QED BY <1>1, <1>2, CalmNone

(* An expression used as a statement.                                      *)
LEMMA CheckExprKeeps ==
    ASSUME IInv, CheckExpr PROVE Keeps
<1>. DEFINE a == Frame("infer", Top.n.expr)
            kinds == {"expr"}
<1>1. OnStmt(kinds) /\ Continue(<<a>>) /\ UNCHANGED <<ast, ret, scopes>> /\ "block" \notin kinds
  BY DEF CheckExpr
<1>2. Calm /\ TypeInv /\ todo # <<>> /\ Top.k = "check" /\ Top.n.kind \in kinds BY <1>1, CalmStmt
<1>3. Top.n \in Stmts BY <1>2, CheckedNode
<1>4. Pushable(a) BY <1>2, <1>3, StmtNodes, PushFrame, NodesAt
<1>. HIDE DEF a
<1>. QED BY <1>1, <1>2, <1>4, CalmOne

(* The initial value of a declaration.                                     *)
LEMMA CheckInitKeeps ==
    ASSUME IInv, CheckInit PROVE Keeps
<1>. DEFINE a == Frame("infer", Top.n.init)
            b == Frame("decl", Top.n)
            kinds == {"decl"}
<1>1. /\ OnStmt(kinds) /\ Top.n.init # NullNode /\ Continue(<<a, b>>)
      /\ UNCHANGED <<ast, ret, scopes>> /\ "block" \notin kinds
  BY DEF CheckInit
<1>2. Calm /\ TypeInv /\ todo # <<>> /\ Top.k = "check" /\ Top.n.kind \in kinds BY <1>1, CalmStmt
<1>3. Top.n \in Stmts BY <1>2, CheckedNode
<1>4. Pushable(a) BY <1>1, <1>2, <1>3, StmtNodes, PushFrame, NodesAt
<1>5. Pushable(b) BY <1>2, <1>3, PushFrame, NodesAt
<1>. HIDE DEF a, b
<1>. QED BY <1>1, <1>2, <1>4, <1>5, CalmTwo

(* The variable of an assignment.                                          *)
LEMMA AssignTargetKeeps ==
    ASSUME IInv, AssignTarget PROVE Keeps
<1>. DEFINE target == lookup_type(Top.n.name)
            a == Frame("infer", Top.n.value)
            b == Holding("assign", Top.n, target.type)
            kinds == {"assign"}
<1>1. /\ OnStmt(kinds) /\ UNCHANGED <<ast, ret, scopes>> /\ "block" \notin kinds
      /\ Continue(IF target.found THEN <<a, b>> ELSE <<>>)
  BY DEF AssignTarget
<1>2. Calm /\ TypeInv /\ todo # <<>> /\ Top.k = "check" /\ Top.n.kind \in kinds BY <1>1, CalmStmt
<1>3. Top.n \in Exprs BY <1>2, CheckedNode
<1>4. Top.n.name \in Names /\ Top.n.value \in Exprs BY <1>2, <1>3, ExprNodes
<1>5. target.type \in Types BY <1>2, <1>4, LookupTypes
<1>6. Pushable(a) BY <1>4, PushFrame, NodesAt
<1>7. Pushable(b)
  <2>1. Top.n \in NodesOf("assign") BY <1>2, <1>3, NodesAt
  <2>. HIDE DEF target
  <2>. QED BY <1>3, <1>5, <2>1, PushHolding
<1>. HIDE DEF a, b
<1>8. CASE target.found BY <1>1, <1>2, <1>6, <1>7, <1>8, CalmTwo
<1>9. CASE ~target.found BY <1>1, <1>2, <1>9, CalmNone
<1>. QED BY <1>8, <1>9

(* The value of an assignment.                                             *)
LEMMA CheckAssignKeeps ==
    ASSUME IInv, check_assign PROVE Keeps
<1>1. todo # <<>> /\ Top.k = "assign" /\ Continue(<<>>) /\ UNCHANGED <<ast, ret, scopes>>
  BY DEF check_assign, On
<1>2. ret' \in Types BY <1>1 DEF IInv, TypeInv
<1>3. Calm BY <1>1, <1>2, CalmAt DEF ScopeKinds
<1>. QED BY <1>1, <1>3, CalmNone

(* A condition is inferred.                                                *)
LEMMA InferCondKeeps ==
    ASSUME IInv, InferCond PROVE Keeps
<1>. DEFINE a == Frame("check", Top.n.init)
            b == Frame("infer", Top.n.cond)
            c == Frame("cond", Top.n)
            kinds == {"if", "while", "for"}
            Quiets == {fr \in GoodFrames : fr.k \notin ScopeKinds}
            first == IF Top.n.kind = "for" THEN <<a>> ELSE <<>>
            frames == first \o <<b, c>>
<1>1. /\ OnStmt(kinds) /\ UNCHANGED <<ast, ret, scopes>> /\ "block" \notin kinds
      /\ Continue(frames)
  BY DEF InferCond
<1>2. Calm /\ TypeInv /\ todo # <<>> /\ Top.k = "check" /\ Top.n.kind \in kinds BY <1>1, CalmStmt
<1>3. Top.n \in Stmts BY <1>2, CheckedNode
<1>4. b \in Quiets BY <1>2, <1>3, StmtNodes, PushFrame, NodesAt DEF Pushable
<1>5. c \in Quiets BY <1>2, <1>3, PushFrame, NodesAt DEF Pushable
<1>6. Top.n.kind = "for" => a \in Quiets
  BY <1>3, StmtNodes, PushFrame, NodesAt DEF Pushable
<1>. HIDE DEF a, b, c, Quiets
<1>7. first \in Seq(Quiets)
  <2>1. CASE Top.n.kind = "for" BY <1>6, <2>1
  <2>2. CASE Top.n.kind # "for" BY <2>2
  <2>. QED BY <2>1, <2>2
<1>8. <<b, c>> \in Seq(Quiets) BY <1>4, <1>5
<1>. HIDE DEF first
<1>9. frames \in Seq(Quiets) BY <1>7, <1>8, ConcatProperties
<1>. HIDE DEF frames
<1>10. frames \in Seq(GoodFrames) /\ \A i \in DOMAIN frames : frames[i].k \notin ScopeKinds
  <2>1. \A i \in DOMAIN frames : frames[i] \in Quiets BY <1>9
  <2>2. frames \in Seq(GoodFrames) BY <1>9, SeqDef DEF Quiets
  <2>. QED BY <2>1, <2>2 DEF Quiets
<1>. QED BY <1>1, <1>2, <1>10, CalmSeq

(* What a condition controls is checked.                                   *)
LEMMA CheckCondKeeps ==
    ASSUME IInv, CheckCond PROVE Keeps
<1>. DEFINE N == Exprs \cup Stmts \cup {NullNode}
            ns == Checked(Top.n)
            frames == [i \in DOMAIN ns |-> Frame("check", ns[i])]
            Quiets == {fr \in GoodFrames : fr.k \notin ScopeKinds}
<1>1. todo # <<>> /\ Top.k = "cond" /\ Continue(frames) /\ UNCHANGED <<ast, ret, scopes>>
  BY DEF CheckCond, On
<1>2. TypeInv BY DEF IInv
<1>3. Top.n \in Stmts /\ Top.n.kind \in {"if", "while", "for"} BY <1>1, <1>2, TopFrame, NodesAt
<1>4. ns \in Seq(N)
  <2>1. CASE Top.n.kind = "if"
    <3>1. Top.n.then \in N /\ Top.n.else \in N BY <1>3, <2>1, StmtNodes
    <3>2. ns = <<Top.n.then, Top.n.else>> BY <2>1 DEF Checked
    <3>. HIDE DEF N, ns
    <3>. QED BY <3>1, <3>2
  <2>2. CASE Top.n.kind = "while"
    <3>1. Top.n.body \in N BY <1>3, <2>2, StmtNodes
    <3>2. ns = <<Top.n.body>> BY <2>2 DEF Checked
    <3>. HIDE DEF N, ns
    <3>. QED BY <3>1, <3>2
  <2>3. CASE Top.n.kind = "for"
    <3>1. Top.n.step \in N /\ Top.n.body \in N BY <1>3, <2>3, StmtNodes
    <3>2. ns = <<Top.n.step, Top.n.body>> BY <2>3 DEF Checked
    <3>. HIDE DEF N, ns
    <3>. QED BY <3>1, <3>2
  <2>. QED BY <1>3, <2>1, <2>2, <2>3
<1>5. ASSUME NEW n \in N PROVE Frame("check", n) \in Quiets BY PushFrame, NodesAt DEF Pushable
<1>. HIDE DEF N, ns, Quiets
<1>6. frames \in Seq(Quiets)
  <2>1. Len(ns) \in Nat /\ DOMAIN ns = 1 .. Len(ns) BY <1>4, LenProperties
  <2>2. \A i \in 1 .. Len(ns) : Frame("check", ns[i]) \in Quiets BY <1>4, <1>5, <2>1, ElementOfSeq
  <2>. QED BY <2>1, <2>2
<1>. HIDE DEF frames
<1>7. frames \in Seq(GoodFrames) /\ \A i \in DOMAIN frames : frames[i].k \notin ScopeKinds
  <2>1. \A i \in DOMAIN frames : frames[i] \in Quiets BY <1>6
  <2>2. frames \in Seq(GoodFrames) BY <1>6, SeqDef DEF Quiets
  <2>. QED BY <2>1, <2>2 DEF Quiets
<1>8. Calm BY <1>1, <1>2, CalmAt DEF ScopeKinds, TypeInv
<1>. QED BY <1>1, <1>7, <1>8, CalmSeq

(* "return" without a value, or out of a void function.                    *)
LEMMA ReturnVoidKeeps ==
    ASSUME IInv, ReturnVoid PROVE Keeps
<1>. DEFINE kinds == {"return"}
<1>1. OnStmt(kinds) /\ Continue(<<>>) /\ UNCHANGED <<ast, ret, scopes>> /\ "block" \notin kinds
  BY DEF ReturnVoid
<1>2. Calm BY <1>1, CalmStmt
<1>. QED BY <1>1, <1>2, CalmNone

(* "return" with a value.                                                  *)
LEMMA ReturnExprKeeps ==
    ASSUME IInv, ReturnExpr PROVE Keeps
<1>. DEFINE a == Frame("infer", Top.n.expr)
            b == Holding("return", Top.n, current_fun_ret)
            kinds == {"return"}
<1>1. /\ OnStmt(kinds) /\ Top.n.expr # NullNode /\ Continue(<<a, b>>)
      /\ UNCHANGED <<ast, ret, scopes>> /\ "block" \notin kinds
  BY DEF ReturnExpr
<1>2. Calm /\ TypeInv /\ todo # <<>> /\ Top.k = "check" /\ Top.n.kind \in kinds BY <1>1, CalmStmt
<1>3. Top.n \in Stmts BY <1>2, CheckedNode
<1>4. Pushable(a) BY <1>1, <1>2, <1>3, StmtNodes, PushFrame, NodesAt
<1>5. Pushable(b) BY <1>2, <1>3, CurrentReturn, PushHolding, NodesAt
<1>. HIDE DEF a, b
<1>. QED BY <1>1, <1>2, <1>4, <1>5, CalmTwo

(* The type of a "return" is compared.                                     *)
LEMMA CheckReturnKeeps ==
    ASSUME IInv, check_return PROVE Keeps
<1>1. todo # <<>> /\ Top.k = "return" /\ Continue(<<>>) /\ UNCHANGED <<ast, ret, scopes>>
  BY DEF check_return, On
<1>2. ret' \in Types BY <1>1 DEF IInv, TypeInv
<1>3. Calm BY <1>1, <1>2, CalmAt DEF ScopeKinds
<1>. QED BY <1>1, <1>3, CalmNone
-----------------------------------------------------------------------------
(* The stack of tables.                                                    *)
AllGood(tables) == tables \in Seq(Table) /\ \A i \in DOMAIN tables : Good(tables[i])

(* A good table is of the type of tables.                                  *)
LEMMA GoodTable ==
    ASSUME NEW t, Good(t) PROVE t \in Table
BY DEF Good, Sound, Maps, Typed, TableOf, SymbolOf, Table

(* The empty table is good, and nothing is in it.                          *)
LEMMA EmptyTable == Good(st_create) /\ st_create \in Table /\ Bound(st_create) = {}
<1>1. Sound(st_create, Names, TypeTags, {NullNode}) /\ \A n \in Names : ~Holds(st_create, n)
  BY CreateMeans
<1>. QED BY <1>1, GoodTable DEF Good, Bound

(* A new scope is the last one.                                            *)
LEMMA PushTable ==
    ASSUME TypeInv, push_scope_new
    PROVE  /\ AllGood(g_scope') /\ Inner \in Nat /\ Len(g_scope') = Inner + 1
           /\ g_scope'[Inner + 1] = st_create
           /\ \A j \in 1 .. Inner : g_scope'[j] = g_scope[j]
<1>1. g_scope \in Seq(Table) /\ \A i \in DOMAIN g_scope : Good(g_scope[i]) BY DEF TypeInv
<1>2. Good(st_create) /\ st_create \in Table BY EmptyTable
<1>. DEFINE s == g_scope
            t == Append(s, st_create)
<1>3. /\ t \in Seq(Table) /\ Len(s) \in Nat /\ Len(t) = Len(s) + 1 /\ t[Len(s) + 1] = st_create
      /\ \A j \in 1 .. Len(s) : t[j] = s[j]
      /\ DOMAIN s = 1 .. Len(s) /\ DOMAIN t = 1 .. Len(s) + 1
  BY <1>1, <1>2, AppendProperties, LenProperties
<1>4. ASSUME NEW i \in 1 .. Len(s) + 1 PROVE Good(t[i])
  <2>. HIDE DEF t, s
  <2>1. i \in 1 .. Len(s) \/ i = Len(s) + 1 BY <1>3
  <2>. QED BY <1>1, <1>2, <1>3, <2>1 DEF s
<1>. QED BY <1>3, <1>4 DEF AllGood, Inner, push_scope_new

(* The last scope leaves.                                                  *)
LEMMA PopTable ==
    ASSUME TypeInv, pop_scope, Inner > 0
    PROVE  /\ AllGood(g_scope') /\ Len(g_scope') = Inner - 1
           /\ \A j \in 1 .. Inner - 1 : g_scope'[j] = g_scope[j]
<1>1. g_scope \in Seq(Table) /\ \A i \in DOMAIN g_scope : Good(g_scope[i]) BY DEF TypeInv
<1>. DEFINE s == g_scope
            t == SubSeq(s, 1, Len(s) - 1)
<1>2. Len(s) \in Nat /\ Len(s) > 0 /\ DOMAIN s = 1 .. Len(s) BY <1>1, LenProperties DEF Inner
<1>3. /\ t \in Seq(Table) /\ Len(t) = Len(s) - 1 /\ DOMAIN t = 1 .. Len(s) - 1
      /\ \A j \in 1 .. Len(s) - 1 : t[j] = s[j]
  BY <1>1, <1>2
<1>4. ASSUME NEW i \in 1 .. Len(s) - 1 PROVE Good(t[i])
  <2>1. i \in DOMAIN s BY <1>2
  <2>. QED BY <1>1, <1>3, <2>1
<1>. QED BY <1>3, <1>4 DEF AllGood, Inner, pop_scope

(* A stack without its last element.                                       *)
LEMMA Popped ==
    ASSUME NEW S, NEW s \in Seq(S), s # <<>>
    PROVE  LET t == SubSeq(s, 1, Len(s) - 1)
           IN  /\ t \in Seq(S) /\ Len(t) = Len(s) - 1
               /\ \A j \in 1 .. Len(s) - 1 : t[j] = s[j]
<1>. DEFINE n == Len(s) - 1
            t == SubSeq(s, 1, n)
<1>1. n \in Nat /\ Len(s) = n + 1 /\ \A i \in 1 .. n : s[i] \in S BY EmptySeq, LenProperties
<1>. HIDE DEF n
<1>2. /\ t \in Seq(S) /\ Len(t) = IF 1 <= n THEN n - 1 + 1 ELSE 0
      /\ \A i \in 1 .. n - 1 + 1 : t[i] = s[1 + i - 1]
  <2>1. 1 \in Int /\ n \in Int BY <1>1
  <2>. QED BY <1>1, <2>1, SubSeqProperties
<1>. HIDE DEF t
<1>3. t \in Seq(S) /\ Len(t) = n /\ \A j \in 1 .. n : t[j] = s[j] BY <1>1, <1>2
<1>. QED BY <1>3 DEF n, t

(* A declaration is one in the last scope.                                 *)
LEMMA DeclareTable ==
    ASSUME TypeInv, NEW name \in Names, NEW type \in TypeTags, Declare(name, type), Inner > 0
    PROVE  /\ AllGood(g_scope') /\ Len(g_scope') = Inner
           /\ \A j \in 1 .. Inner : j # Inner => g_scope'[j] = g_scope[j]
           /\ Bound(g_scope'[Inner]) = Bound(g_scope[Inner]) \cup {name}
<1>. DEFINE s == g_scope
            u == st_insert(s[Inner], name, type, NullNode)
            t == [s EXCEPT ![Inner] = u]
<1>1. s \in Seq(Table) /\ \A i \in DOMAIN s : Good(s[i]) BY DEF TypeInv
<1>2. /\ Inner \in 1 .. Inner /\ Inner = Len(s) /\ Inner \in Nat /\ DOMAIN s = 1 .. Inner
  BY <1>1, LenProperties DEF Inner
<1>3. Sound(s[Inner], Names, TypeTags, {NullNode}) BY <1>1, <1>2 DEF Good
<1>4. /\ Good(u) /\ Holds(u, name)
      /\ \A n \in Names \ {name} : SameAt(s[Inner], u, n)
  BY <1>3, InsertMeans DEF Good
<1>5. u \in Table BY <1>4, GoodTable
<1>6. Bound(u) = Bound(s[Inner]) \cup {name} BY <1>4 DEF Bound, SameAt
<1>. HIDE DEF u
<1>7. /\ t \in Seq(Table) /\ Len(t) = Inner /\ DOMAIN t = 1 .. Inner /\ t[Inner] = u
      /\ \A j \in 1 .. Inner : j # Inner => t[j] = s[j]
  BY <1>1, <1>2, <1>5, ExceptSeq
<1>8. g_scope' = t BY DEF Declare, u
<1>. HIDE DEF t, s
<1>9. \A i \in 1 .. Inner : Good(t[i]) BY <1>1, <1>2, <1>4, <1>7
<1>. QED BY <1>6, <1>7, <1>8, <1>9 DEF AllGood, s

-----------------------------------------------------------------------------
(* Steps at blocks and functions.                                          *)

(* The first frame pushed is the running activation.                       *)
LEMMA FirstPushed ==
    ASSUME TypeInv, NEW frames, Pushes(frames), frames # <<>>
    PROVE  todo' # <<>> /\ Top' = frames[1]
<1>. DEFINE d == Len(frames) - 1
<1>1. Moves(frames, d) BY DEF Moves
<1>. HIDE DEF d
<1>2. /\ todo' \in Seq(GoodFrames) /\ DOMAIN todo' = 1 .. Len(todo) + d
      /\ Len(todo) \in Nat \ {0} /\ d \in Int /\ d + 1 \in Nat /\ Len(frames) = d + 1
      /\ \A i \in 1 .. d + 1 : todo'[i] = frames[i]
  BY <1>1, After
<1>3. frames \in Seq(GoodFrames) BY DEF Pushes
<1>4. 1 \in 1 .. d + 1 /\ 1 \in DOMAIN todo' BY <1>2, <1>3, EmptySeq
<1>5. todo' # <<>> BY <1>4, EmptySeq
<1>. QED BY <1>2, <1>4, <1>5, HeadTailProperties DEF Top

(* What the frames of a step may be.                                       *)
Settled(frames) ==
    /\ \A i \in DOMAIN frames :
          /\ frames[i].k # "root"
          /\ frames[i].k = "params" => i = 1
          /\ frames[i].k = "function" /\ i > 1 =>
                i = 2 /\ frames[1].k = "check" /\ frames[1].n.kind = "block"
    /\ AtBlock => frames = <<>> \/ LastOf(frames).k = "block"

(* Every step but the last.                                                *)
LEMMA FrameStep ==
    ASSUME IInv, NEW frames, Pushes(frames), Top.k # "root", UNCHANGED <<ast, ret>>,
           Settled(frames), OnlyLast(frames, ScopeKinds),
           AllGood(g_scope'), Tables(frames),
           g_funs' \in Seq(Signature),
           g_fun_ret_stack' \in Seq(TypeTags), Len(g_fun_ret_stack') <= MAX_FUN_STACK,
           ParamsDeclared',
           Shallow' /\ ReturnTypesMatch => ReturnTypes(frames)
    PROVE  Keeps
<1>1. TypeInv /\ Shape BY DEF IInv
<1>2. TypeInv' BY <1>1, TypeStep DEF TypeInv, AllGood
<1>3. Shape' BY <1>1, ShapeStep DEF Settled
<1>4. ScopesFollowDescent' BY ScopeStep DEF Settled
<1>5. OnlyLast(frames, FunctionKinds) BY DEF OnlyLast, ScopeKinds, FunctionKinds
<1>6. ASSUME Shallow', ReturnTypesMatch PROVE ReturnTypesMatch'
  <2>1. ReturnTypes(frames) BY <1>6
  <2>. QED BY <1>5, <1>6, <2>1, ReturnStep
<1>. QED BY <1>2, <1>3, <1>4, <1>6 DEF Keeps, IInv

(* The open functions before and after a step.                             *)
LEMMA FunctionsBelow ==
    ASSUME IInv, NEW frames, Pushes(frames), OnlyLast(frames, ScopeKinds)
    PROVE  /\ Below(FunctionKinds) \in Nat
           /\ ReturnTypesMatch =>
                 Len(g_fun_ret_stack) = Below(FunctionKinds) + (IF Top.k \in FunctionKinds THEN 1 ELSE 0)
           /\ Shallow' =>
                 Below(FunctionKinds) + (IF EndsIn(frames, FunctionKinds) THEN 1 ELSE 0) <= MAX_FUN_STACK
           /\ ReturnTypesMatch /\ Top.k \in FunctionKinds =>
                 g_fun_ret_stack[Below(FunctionKinds) + 1] = Top.n.ret_type
<1>. DEFINE d == Len(frames) - 1
            m == Below(FunctionKinds)
<1>1. Moves(frames, d) /\ TypeInv BY DEF Moves, IInv
<1>. HIDE DEF d
<1>2. OnlyLast(frames, FunctionKinds) BY DEF OnlyLast, ScopeKinds, FunctionKinds
<1>3. /\ m \in Nat
      /\ Cardinality(At(todo, FunctionKinds)) = m + (IF Top.k \in FunctionKinds THEN 1 ELSE 0)
      /\ Cardinality(At(todo', FunctionKinds)) = m + (IF EndsIn(frames, FunctionKinds) THEN 1 ELSE 0)
  BY <1>1, <1>2, LevelsStep
<1>4. todo \in Seq(GoodFrames) /\ Top = todo[1] /\ 1 \in DOMAIN todo
  <2>1. /\ Top = todo[1] /\ DOMAIN todo = 1 .. Len(todo) /\ Len(todo) \in Nat \ {0} BY <1>1, After
  <2>. QED BY <1>1, <2>1 DEF TypeInv
<1>5. LevelIn(todo, 1, FunctionKinds) = Cardinality(At(todo, FunctionKinds)) BY <1>4, LevelOfHead
<1>6. ASSUME ReturnTypesMatch, Top.k \in FunctionKinds
      PROVE  g_fun_ret_stack[m + 1] = Top.n.ret_type
  <2>1. 1 \in Open(FunctionKinds) BY <1>4, <1>6 DEF Open
  <2>2. g_fun_ret_stack[Level(1, FunctionKinds)] = todo[1].n.ret_type BY <1>6, <2>1 DEF ReturnTypesMatch
  <2>3. Level(1, FunctionKinds) = m + 1 BY <1>3, <1>5, <1>6 DEF Level, LevelIn, Open, At
  <2>. QED BY <1>4, <2>2, <2>3
<1>. QED BY <1>3, <1>6 DEF ReturnTypesMatch, Shallow, Open, At

(* The return types of a step that opens and closes no function.           *)
LEMMA ReturnsKept ==
    ASSUME IInv, NEW frames, Pushes(frames), OnlyLast(frames, ScopeKinds),
           EndsIn(frames, FunctionKinds) <=> Top.k \in FunctionKinds,
           EndsIn(frames, FunctionKinds) => LastOf(frames).n = Top.n,
           UNCHANGED g_fun_ret_stack
    PROVE  ReturnTypesMatch => ReturnTypes(frames)
BY FunctionsBelow DEF ReturnTypes

(* No frame, one and two.                                                  *)
LEMMA NoFrame ==
    ASSUME todo # <<>>, Continue(<<>>)
    PROVE  \E frames : /\ Pushes(frames) /\ frames = <<>> /\ DOMAIN frames = {}
                       /\ \A K : OnlyLast(frames, K) /\ ~EndsIn(frames, K)
<1>. DEFINE frames == <<>>
<1>1. frames \in Seq(GoodFrames) /\ DOMAIN frames = {} BY EmptySeq
<1>2. Pushes(frames) BY <1>1 DEF Pushes
<1>3. \A K : OnlyLast(frames, K) /\ ~EndsIn(frames, K) BY <1>1 DEF OnlyLast, EndsIn
<1>. QED BY <1>1, <1>2, <1>3

(* One frame.                                                              *)
LEMMA OneFrame ==
    ASSUME todo # <<>>, NEW a \in GoodFrames, Continue(<<a>>)
    PROVE  \E frames : /\ Pushes(frames) /\ frames # <<>> /\ DOMAIN frames = {1}
                       /\ frames[1] = a /\ LastOf(frames) = a
                       /\ \A K : OnlyLast(frames, K) /\ (EndsIn(frames, K) <=> a.k \in K)
<1>. DEFINE frames == <<a>>
<1>1. frames \in Seq(GoodFrames) /\ DOMAIN frames = {1} /\ Len(frames) = 1 /\ frames[1] = a
  OBVIOUS
<1>2. Pushes(frames) BY <1>1 DEF Pushes
<1>. HIDE DEF frames
<1>3. frames # <<>> BY <1>1, EmptySeq
<1>4. LastOf(frames) = a BY <1>1 DEF LastOf
<1>5. \A K : OnlyLast(frames, K) /\ (EndsIn(frames, K) <=> a.k \in K)
  BY <1>1, <1>3, <1>4 DEF OnlyLast, EndsIn
<1>. QED BY <1>1, <1>2, <1>3, <1>4, <1>5

(* Two frames.                                                             *)
LEMMA TwoFrames ==
    ASSUME todo # <<>>, NEW a \in GoodFrames, NEW b \in GoodFrames, Continue(<<a, b>>)
    PROVE  \E frames : /\ Pushes(frames) /\ frames # <<>> /\ DOMAIN frames = {1, 2}
                       /\ frames[1] = a /\ frames[2] = b /\ LastOf(frames) = b
                       /\ \A K : a.k \notin K => OnlyLast(frames, K)
                       /\ \A K : EndsIn(frames, K) <=> b.k \in K
<1>. DEFINE frames == <<a, b>>
<1>1. /\ frames \in Seq(GoodFrames) /\ DOMAIN frames = {1, 2} /\ Len(frames) = 2
      /\ frames[1] = a /\ frames[2] = b
  OBVIOUS
<1>2. Pushes(frames) BY <1>1 DEF Pushes
<1>. HIDE DEF frames
<1>3. frames # <<>> BY <1>1, EmptySeq
<1>4. LastOf(frames) = b BY <1>1 DEF LastOf
<1>5. \A K : EndsIn(frames, K) <=> b.k \in K BY <1>3, <1>4 DEF EndsIn
<1>6. \A K : a.k \notin K => OnlyLast(frames, K) BY <1>1 DEF OnlyLast
<1>. QED BY <1>1, <1>2, <1>3, <1>4, <1>5, <1>6

(* The running activation goes on with its next part.                      *)
LEMMA NextPart ==
    ASSUME TypeInv, todo # <<>>
    PROVE  LET m == [Top EXCEPT !.i = @ + 1]
           IN  m \in GoodFrames /\ m.k = Top.k /\ m.n = Top.n /\ m.i = Top.i + 1
<1>. DEFINE j == Top.i + 1
            m == [Top EXCEPT !.i = j]
<1>1. Top \in GoodFrames /\ Top \in FrameType /\ Top.i \in Nat \ {0} BY TopFrame
<1>. HIDE DEF Top
<1>2. j \in Nat \ {0} BY <1>1
<1>. HIDE DEF j
<1>3. m \in FrameType /\ m.k = Top.k /\ m.n = Top.n /\ m.l = Top.l /\ m.i = j
  BY <1>1, <1>2 DEF FrameType
<1>4. m \in GoodFrames BY <1>1, <1>3 DEF GoodFrames, LocalOf
<1>5. m = [Top EXCEPT !.i = @ + 1] BY <1>1 DEF FrameType, j
<1>. HIDE DEF m
<1>. QED BY <1>3, <1>4, <1>5 DEF j

(* A block opens a scope.                                                  *)
LEMMA CheckBlockKeeps ==
    ASSUME IInv, check_block PROVE Keeps
<1>. DEFINE a == Frame("block", Top.n)
<1>1. /\ todo # <<>> /\ Top.k = "check" /\ Top.n.kind = "block"
      /\ push_scope_new /\ Continue(<<a>>) /\ UNCHANGED <<ast, ret, g_funs, g_fun_ret_stack>>
  BY DEF check_block, OnStmt, On
<1>2. TypeInv BY DEF IInv
<1>3. Top.n \in Stmts BY <1>1, <1>2, CheckedNode
<1>4. a \in GoodFrames /\ a.k = "block" BY <1>1, <1>3, FrameGood, NodesAt DEF Kinds
<1>. HIDE DEF a
<1>5. PICK frames : /\ Pushes(frames) /\ frames # <<>> /\ DOMAIN frames = {1}
                    /\ frames[1] = a /\ LastOf(frames) = a
                    /\ \A K : OnlyLast(frames, K) /\ (EndsIn(frames, K) <=> a.k \in K)
  BY <1>1, <1>4, OneFrame
<1>6. Settled(frames) BY <1>4, <1>5 DEF Settled
<1>7. /\ EndsIn(frames, ScopeKinds) /\ ~EndsIn(frames, {"function"}) /\ ~EndsIn(frames, FunctionKinds)
      /\ Top.k \notin ScopeKinds /\ Top.k \notin FunctionKinds
  BY <1>1, <1>4, <1>5 DEF ScopeKinds, FunctionKinds
<1>8. Inner = Below(ScopeKinds) /\ Below(ScopeKinds) \in Nat BY <1>5, <1>7, ScopesBelow
<1>9. AllGood(g_scope') /\ Len(g_scope') = Inner + 1 /\ \A j \in 1 .. Inner : g_scope'[j] = g_scope[j]
  BY <1>1, <1>2, PushTable
<1>10. Tables(frames) BY <1>5, <1>7, <1>8, <1>9, TablesKept DEF Tables
<1>11. ReturnTypesMatch => ReturnTypes(frames) BY <1>1, <1>5, <1>7, ReturnsKept
<1>12. ParamsDeclared' BY <1>4, <1>5, NoParams
<1>. QED BY <1>1, <1>2, <1>5, <1>6, <1>9, <1>10, <1>11, <1>12, FrameStep DEF TypeInv

(* A block goes on with its next statement.                                *)
LEMMA NextStmtKeeps ==
    ASSUME IInv, NextStmt PROVE Keeps
<1>. DEFINE a == Frame("check", Top.n.stmts[Top.i])
            b == [Top EXCEPT !.i = @ + 1]
<1>1. /\ todo # <<>> /\ Top.k = "block" /\ Top.i <= Len(Top.n.stmts)
      /\ Continue(<<a, b>>) /\ UNCHANGED <<ast, ret, g_scope, g_funs, g_fun_ret_stack>>
  BY DEF NextStmt, On, scopes
<1>2. TypeInv BY DEF IInv
<1>3. Top.n \in Stmts /\ Top.n.kind = "block" /\ Top.i \in Nat \ {0} BY <1>1, <1>2, TopFrame, NodesAt
<1>4. a \in GoodFrames /\ a.k = "check"
  <2>1. Top.n.stmts \in Seq(Stmts) BY <1>3, StmtNodes
  <2>2. Top.i \in 1 .. Len(Top.n.stmts) BY <1>1, <1>3, <2>1, LenProperties
  <2>3. Top.n.stmts[Top.i] \in Stmts BY <2>1, <2>2, ElementOfSeq
  <2>. QED BY <2>3, FrameGood, NodesAt DEF Kinds
<1>5. b \in GoodFrames /\ b.k = "block" BY <1>1, <1>2, NextPart
<1>. HIDE DEF a, b
<1>6. PICK frames : /\ Pushes(frames) /\ frames # <<>> /\ DOMAIN frames = {1, 2}
                    /\ frames[1] = a /\ frames[2] = b /\ LastOf(frames) = b
                    /\ \A K : a.k \notin K => OnlyLast(frames, K)
                    /\ \A K : EndsIn(frames, K) <=> b.k \in K
  BY <1>1, <1>4, <1>5, TwoFrames
<1>7. Settled(frames) BY <1>4, <1>5, <1>6 DEF Settled
<1>8. /\ EndsIn(frames, ScopeKinds) /\ ~EndsIn(frames, {"function"}) /\ ~EndsIn(frames, FunctionKinds)
      /\ Top.k \in ScopeKinds /\ Top.k \notin FunctionKinds /\ OnlyLast(frames, ScopeKinds)
  BY <1>1, <1>4, <1>5, <1>6 DEF ScopeKinds, FunctionKinds
<1>9. Inner = Below(ScopeKinds) + 1 BY <1>6, <1>8, ScopesBelow
<1>10. AllGood(g_scope') BY <1>1, <1>2 DEF TypeInv, AllGood
<1>11. Tables(frames) BY <1>1, <1>6, <1>8, <1>9, TablesKept DEF Tables, Inner
<1>12. ReturnTypesMatch => ReturnTypes(frames) BY <1>1, <1>6, <1>8, ReturnsKept
<1>13. ParamsDeclared' BY <1>4, <1>6, NoParams
<1>. QED BY <1>1, <1>2, <1>6, <1>7, <1>8, <1>10, <1>11, <1>12, <1>13, FrameStep DEF TypeInv

(* The scope is closed.                                                    *)
LEMMA LeaveBlockKeeps ==
    ASSUME IInv, LeaveBlock PROVE Keeps
<1>1. /\ todo # <<>> /\ Top.k = "block" /\ pop_scope /\ Continue(<<>>)
      /\ UNCHANGED <<ast, ret, g_funs, g_fun_ret_stack>>
  BY DEF LeaveBlock, On
<1>2. TypeInv BY DEF IInv
<1>3. PICK frames : /\ Pushes(frames) /\ frames = <<>> /\ DOMAIN frames = {}
                    /\ \A K : OnlyLast(frames, K) /\ ~EndsIn(frames, K)
  BY <1>1, NoFrame
<1>4. Settled(frames) BY <1>3 DEF Settled
<1>5. Top.k \in ScopeKinds /\ Top.k \notin FunctionKinds BY <1>1 DEF ScopeKinds, FunctionKinds
<1>6. Inner = Below(ScopeKinds) + 1 /\ Below(ScopeKinds) \in Nat BY <1>3, <1>5, ScopesBelow
<1>7. /\ AllGood(g_scope') /\ Len(g_scope') = Inner - 1
      /\ \A j \in 1 .. Inner - 1 : g_scope'[j] = g_scope[j]
  BY <1>1, <1>2, <1>6, PopTable
<1>8. Tables(frames) BY <1>3, <1>6, <1>7, TablesKept DEF Tables
<1>9. ReturnTypesMatch => ReturnTypes(frames) BY <1>1, <1>3, <1>5, ReturnsKept
<1>10. ParamsDeclared' BY <1>3, NoParams
<1>. QED BY <1>1, <1>2, <1>3, <1>4, <1>7, <1>8, <1>9, <1>10, FrameStep DEF TypeInv

(* A declaration is one in the table of a block.                           *)
LEMMA CheckDeclKeeps ==
    ASSUME IInv, check_decl PROVE Keeps
<1>1. /\ todo # <<>> /\ Top.k \in {"decl", "check"}
      /\ Top.k = "check" => Top.n.kind = "decl"
      /\ IF exists_local(Top.n.name) THEN UNCHANGED g_scope ELSE Declare(Top.n.name, Top.n.type)
      /\ Continue(<<>>) /\ UNCHANGED <<ast, ret, g_funs, g_fun_ret_stack>>
  BY DEF check_decl, On, OnStmt
<1>2. TypeInv /\ Shape BY DEF IInv
<1>3. Top.n \in Stmts /\ Top.n.kind = "decl"
  <2>1. CASE Top.k = "decl" BY <1>1, <1>2, <2>1, TopFrame, NodesAt
  <2>2. CASE Top.k = "check" BY <1>1, <1>2, <2>2, CheckedNode
  <2>. QED BY <1>1, <2>1, <2>2
<1>4. Top.n.name \in Names /\ Top.n.type \in TypeTags BY <1>3, StmtNodes
<1>5. PICK frames : /\ Pushes(frames) /\ frames = <<>> /\ DOMAIN frames = {}
                    /\ \A K : OnlyLast(frames, K) /\ ~EndsIn(frames, K)
  BY <1>1, NoFrame
<1>6. Top.k \notin ScopeKinds /\ ~AtBlock BY <1>1, <1>3 DEF ScopeKinds, AtBlock
<1>7. Quiet(frames) BY <1>1, <1>2, <1>5, <1>6 DEF Quiet, TypeInv
<1>8. CASE exists_local(Top.n.name)
  <2>1. UNCHANGED g_scope BY <1>1, <1>8
  <2>. QED BY <1>7, <2>1, CalmStep
<1>9. CASE ~exists_local(Top.n.name)
  <2>1. /\ Inner = Below(ScopeKinds) /\ Inner \in Nat
        /\ \A j \in 2 .. Len(todo) : todo[j].k \in ScopeKinds =>
              LevelIn(todo, j, ScopeKinds) \in 1 .. Below(ScopeKinds)
    BY <1>5, <1>6, ScopesBelow
  <2>2. todo \in Seq(GoodFrames) /\ Len(todo) \in Nat \ {0} /\ DOMAIN todo = 1 .. Len(todo)
    BY <1>1, <1>2, LenProperties, EmptySeq DEF TypeInv
  (* Nothing is declared in the table of a function or of the root.        *)
  <2>3. ASSUME NEW j \in 2 .. Len(todo), todo[j].k \in {"function", "root"}
        PROVE  LevelIn(todo, j, ScopeKinds) \in 1 .. Inner - 1
    <3>. DEFINE h == j - 1
    <3>1. j \in DOMAIN todo /\ j > 1 /\ h \in DOMAIN todo /\ h \in Int /\ j \in Int /\ h < j
      BY <2>2, <2>3
    <3>2. j # 2 /\ todo[j - 1].k = "block"
      BY <1>2, <1>6, <2>3, <3>1 DEF Shape
    <3>3. h \in 2 .. Len(todo) /\ todo[h].k \in ScopeKinds BY <2>2, <3>1, <3>2 DEF ScopeKinds
    <3>4. h \in At(todo, ScopeKinds) BY <3>1, <3>3 DEF At
    <3>. HIDE DEF h
    <3>5. LevelIn(todo, j, ScopeKinds) < LevelIn(todo, h, ScopeKinds)
      <4>1. h <= j BY <3>1
      <4>. QED BY <2>2, <3>1, <3>4, <4>1, LevelOrder
    <3>6. LevelIn(todo, h, ScopeKinds) \in 1 .. Inner BY <2>1, <3>3
    <3>7. todo[j].k \in ScopeKinds BY <2>3 DEF ScopeKinds
    <3>8. LevelIn(todo, j, ScopeKinds) \in 1 .. Inner BY <2>1, <2>3, <3>7
    <3>. QED BY <2>1, <3>5, <3>6, <3>8
  <2>4. Inner > 0
    <3>1. todo[Len(todo)].k = "root" BY <1>2, <2>2 DEF Shape
    <3>2. Len(todo) \in 2 .. Len(todo)
      <4>1. Len(todo) # 1
        <5>1. Top = todo[1] BY <1>1, <1>2, TopFrame
        <5>. QED BY <1>1, <3>1, <5>1
      <4>. QED BY <2>2, <4>1
    <3>. QED BY <2>1, <2>3, <3>1, <3>2
  <2>5. /\ AllGood(g_scope') /\ Len(g_scope') = Inner
        /\ \A j \in 1 .. Inner : j # Inner => g_scope'[j] = g_scope[j]
    BY <1>1, <1>2, <1>4, <1>9, <2>4, DeclareTable
  <2>6. \A j \in 1 .. Inner - 1 : g_scope'[j] = g_scope[j] BY <2>1, <2>5
  <2>7. Tables(frames) BY <1>5, <2>1, <2>3, <2>5, <2>6 DEF Tables
  <2>. QED BY <1>7, <2>5, <2>7, QuietStep DEF AllGood
<1>. QED BY <1>8, <1>9

(* A function is registered, and opens a scope.                            *)
LEMMA CheckFunctionKeeps ==
    ASSUME IInv, check_function PROVE Keeps
<1>. DEFINE a == Frame("params", Top.n)
            sig == FunSig(Top.n)
            type == Top.n.ret_type
<1>1. /\ todo # <<>> /\ Top.k = "check" /\ Top.n.kind = "function"
      /\ register_fun(Top.n) /\ push_fun_ret(type)
      /\ push_scope_new /\ Continue(<<a>>) /\ UNCHANGED <<ast, ret>>
  BY DEF check_function, OnStmt, On
<1>2. TypeInv BY DEF IInv
<1>3. Top.n \in Stmts BY <1>1, <1>2, CheckedNode
<1>4. a \in GoodFrames /\ a.k = "params" /\ a.n = Top.n /\ a.i = 1
  <2>1. a.i = 1 BY DEF Frame, Holding
  <2>. QED BY <1>1, <1>3, <2>1, FrameGood, NodesAt DEF Kinds
<1>5. /\ type \in TypeTags /\ Top.n.name \in Names
      /\ Top.n.params \in Seq({d \in Stmts : d.kind = "decl"})
  BY <1>1, <1>3, StmtNodes
<1>6. sig \in Signature
  <2>. DEFINE ps == Top.n.params
              ts == [j \in DOMAIN ps |-> ps[j].type]
  <2>1. Len(ps) \in Nat /\ DOMAIN ps = 1 .. Len(ps) BY <1>5, LenProperties
  <2>2. \A j \in 1 .. Len(ps) : ps[j] \in Stmts /\ ps[j].kind = "decl" BY <1>5, <2>1
  <2>3. \A j \in 1 .. Len(ps) : ps[j].type \in TypeTags BY <2>2, StmtNodes
  <2>. HIDE DEF ps
  <2>4. ts \in Seq(TypeTags) BY <2>1, <2>3
  <2>5. sig = [name |-> Top.n.name, ret |-> type, params |-> ts] BY DEF FunSig, ps
  <2>. HIDE DEF ts, sig
  <2>. QED BY <1>5, <2>4, <2>5 DEF Signature
<1>. HIDE DEF a, sig, type
<1>7. g_funs' \in Seq(Signature)
  <2>1. g_funs \in Seq(Signature) /\ <<sig>> \in Seq(Signature) BY <1>2, <1>6 DEF TypeInv
  <2>2. g_funs' = <<sig>> \o g_funs BY <1>1 DEF register_fun, sig
  <2>. QED BY <2>1, <2>2, ConcatProperties
<1>8. PICK frames : /\ Pushes(frames) /\ frames # <<>> /\ DOMAIN frames = {1}
                    /\ frames[1] = a /\ LastOf(frames) = a
                    /\ \A K : OnlyLast(frames, K) /\ (EndsIn(frames, K) <=> a.k \in K)
  BY <1>1, <1>4, OneFrame
<1>9. Settled(frames) BY <1>1, <1>4, <1>8 DEF Settled, AtBlock
<1>10. /\ EndsIn(frames, ScopeKinds) /\ ~EndsIn(frames, {"function"}) /\ EndsIn(frames, FunctionKinds)
       /\ Top.k \notin ScopeKinds /\ Top.k \notin FunctionKinds
  BY <1>1, <1>4, <1>8 DEF ScopeKinds, FunctionKinds
<1>11. Inner = Below(ScopeKinds) /\ Below(ScopeKinds) \in Nat BY <1>8, <1>10, ScopesBelow
<1>12. /\ AllGood(g_scope') /\ Len(g_scope') = Inner + 1 /\ g_scope'[Inner + 1] = st_create
       /\ \A j \in 1 .. Inner : g_scope'[j] = g_scope[j]
  BY <1>1, <1>2, PushTable
<1>13. Tables(frames) BY <1>8, <1>10, <1>11, <1>12, TablesKept DEF Tables
<1>14. /\ g_fun_ret_stack \in Seq(TypeTags) /\ Len(g_fun_ret_stack) \in Nat
       /\ Len(g_fun_ret_stack) <= MAX_FUN_STACK /\ MAX_FUN_STACK \in Nat
  BY <1>2, LenProperties, CheckedAssumption DEF TypeInv
<1>15. ASSUME Len(g_fun_ret_stack) < MAX_FUN_STACK
       PROVE  /\ g_fun_ret_stack' \in Seq(TypeTags)
              /\ Len(g_fun_ret_stack') = Len(g_fun_ret_stack) + 1
              /\ g_fun_ret_stack'[Len(g_fun_ret_stack) + 1] = type
              /\ \A j \in 1 .. Len(g_fun_ret_stack) : g_fun_ret_stack'[j] = g_fun_ret_stack[j]
  <2>1. g_fun_ret_stack' = Append(g_fun_ret_stack, type) BY <1>1, <1>15 DEF push_fun_ret
  <2>. QED BY <1>5, <1>14, <2>1, AppendProperties DEF type
<1>16. g_fun_ret_stack' \in Seq(TypeTags) /\ Len(g_fun_ret_stack') <= MAX_FUN_STACK
  <2>1. CASE Len(g_fun_ret_stack) < MAX_FUN_STACK BY <1>14, <1>15, <2>1
  <2>2. CASE ~(Len(g_fun_ret_stack) < MAX_FUN_STACK)
    <3>1. g_fun_ret_stack' = g_fun_ret_stack BY <1>1, <2>2 DEF push_fun_ret
    <3>. QED BY <1>14, <3>1
  <2>. QED BY <2>1, <2>2
<1>17. ASSUME Shallow', ReturnTypesMatch PROVE ReturnTypes(frames)
  <2>1. /\ Below(FunctionKinds) \in Nat /\ Len(g_fun_ret_stack) = Below(FunctionKinds)
        /\ Below(FunctionKinds) + 1 <= MAX_FUN_STACK
    BY <1>8, <1>10, <1>17, FunctionsBelow
  <2>2. Len(g_fun_ret_stack) < MAX_FUN_STACK BY <1>14, <2>1
  <2>3. LastOf(frames).n.ret_type = type BY <1>4, <1>8 DEF type
  <2>. QED BY <1>10, <1>15, <2>1, <2>2, <2>3 DEF ReturnTypes
<1>18. ParamsDeclared'
  <2>1. Top' = a BY <1>2, <1>8, FirstPushed
  <2>2. Inner' = Inner + 1 BY <1>12 DEF Inner
  <2>3. Bound(g_scope'[Inner']) = {} BY <1>12, <2>2, EmptyTable
  <2>4. a.i <= Len(a.n.params) + 1
    <3>1. Len(Top.n.params) \in Nat BY <1>5, LenProperties
    <3>. QED BY <1>4, <3>1
  <2>5. {a.n.params[p].name : p \in 1 .. a.i - 1} = {}
    <3>1. 1 .. a.i - 1 = {} BY <1>4
    <3>. QED BY <3>1
  <2>6. Bound(g_scope[Inner])' = {} BY <2>3 DEF Bound
  <2>. QED BY <2>1, <2>4, <2>5, <2>6 DEF ParamsDeclared
<1>. QED
  <2>1. Top.k # "root" /\ OnlyLast(frames, ScopeKinds) /\ AllGood(g_scope') BY <1>1, <1>8, <1>12
  <2>. QED BY <1>1, <1>7, <1>8, <1>9, <1>13, <1>16, <1>17, <1>18, <2>1, FrameStep

(* A parameter is declared in the table of its function.                   *)
LEMMA DeclareParamKeeps ==
    ASSUME IInv, DeclareParam PROVE Keeps
<1>. DEFINE a == [Top EXCEPT !.i = @ + 1]
            ps == Top.n.params
            d == ps[Top.i]
<1>1. /\ todo # <<>> /\ Top.k = "params" /\ Top.i <= Len(ps) /\ Declare(d.name, d.type)
      /\ Continue(<<a>>) /\ UNCHANGED <<ast, ret, g_funs, g_fun_ret_stack>>
  BY DEF DeclareParam, On
<1>2. TypeInv BY DEF IInv
<1>3. Top.n \in Stmts /\ Top.n.kind = "function" /\ Top.i \in Nat \ {0} BY <1>1, <1>2, TopFrame, NodesAt
<1>4. ps \in Seq({e \in Stmts : e.kind = "decl"}) /\ Len(ps) \in Nat BY <1>3, StmtNodes, LenProperties
<1>5. d \in Stmts /\ d.kind = "decl"
  <2>1. Top.i \in 1 .. Len(ps) BY <1>1, <1>3, <1>4
  <2>. QED BY <1>4, <2>1, ElementOfSeq
<1>6. d.name \in Names /\ d.type \in TypeTags BY <1>5, StmtNodes
<1>7. a \in GoodFrames /\ a.k = "params" /\ a.n = Top.n /\ a.i = Top.i + 1 BY <1>1, <1>2, NextPart
<1>8. /\ Top.i <= Len(ps) + 1
      /\ Bound(g_scope[Inner]) = {ps[p].name : p \in 1 .. Top.i - 1}
  BY <1>1 DEF IInv, ParamsDeclared
<1>9. Bound(g_scope[Inner]) \cup {d.name} = {ps[p].name : p \in 1 .. (Top.i + 1) - 1}
  <2>1. 1 .. (Top.i + 1) - 1 = (1 .. Top.i - 1) \cup {Top.i} BY <1>3
  <2>. HIDE DEF a, ps
  <2>. QED BY <1>8, <2>1
<1>. HIDE DEF a, d
<1>10. PICK frames : /\ Pushes(frames) /\ frames # <<>> /\ DOMAIN frames = {1}
                     /\ frames[1] = a /\ LastOf(frames) = a
                     /\ \A K : OnlyLast(frames, K) /\ (EndsIn(frames, K) <=> a.k \in K)
  BY <1>1, <1>7, OneFrame
<1>11. Settled(frames) BY <1>1, <1>7, <1>10 DEF Settled, AtBlock
<1>12. /\ EndsIn(frames, ScopeKinds) /\ ~EndsIn(frames, {"function"}) /\ EndsIn(frames, FunctionKinds)
       /\ Top.k \in ScopeKinds /\ Top.k \in FunctionKinds
  BY <1>1, <1>7, <1>10 DEF ScopeKinds, FunctionKinds
<1>13. Inner = Below(ScopeKinds) + 1 /\ Below(ScopeKinds) \in Nat BY <1>10, <1>12, ScopesBelow
<1>14. /\ AllGood(g_scope') /\ Len(g_scope') = Inner
       /\ \A j \in 1 .. Inner : j # Inner => g_scope'[j] = g_scope[j]
       /\ Bound(g_scope'[Inner]) = Bound(g_scope[Inner]) \cup {d.name}
  BY <1>1, <1>2, <1>6, <1>13, DeclareTable
<1>15. Tables(frames)
  <2>1. \A j \in 1 .. Below(ScopeKinds) : g_scope'[j] = g_scope[j] BY <1>13, <1>14
  <2>. QED BY <1>10, <1>12, <1>13, <1>14, <2>1, TablesKept DEF Tables
<1>16. ReturnTypesMatch => ReturnTypes(frames)
  <2>1. LastOf(frames).n = Top.n BY <1>7, <1>10
  <2>. QED BY <1>1, <1>10, <1>12, <2>1, ReturnsKept
<1>17. ParamsDeclared'
  <2>1. Top' = a BY <1>2, <1>10, FirstPushed
  <2>2. Inner' = Inner BY <1>14 DEF Inner
  <2>3. Bound(g_scope[Inner])' = {ps[p].name : p \in 1 .. a.i - 1}
    <3>1. Bound(g_scope'[Inner']) = {ps[p].name : p \in 1 .. a.i - 1} BY <1>7, <1>9, <1>14, <2>2
    <3>. QED BY <3>1 DEF Bound
  <2>4. a.i <= Len(a.n.params) + 1 BY <1>1, <1>3, <1>4, <1>7
  <2>. QED BY <1>7, <2>1, <2>3, <2>4 DEF ParamsDeclared
<1>. QED
  <2>1. Top.k # "root" /\ OnlyLast(frames, ScopeKinds) /\ AllGood(g_scope') BY <1>1, <1>10, <1>14
  <2>. QED BY <1>1, <1>2, <1>10, <1>11, <1>15, <1>16, <1>17, <2>1, FrameStep DEF TypeInv

(* The body of a function is checked.                                      *)
LEMMA CheckBodyKeeps ==
    ASSUME IInv, CheckBody PROVE Keeps
<1>. DEFINE a == Frame("check", Top.n.body)
            b == Frame("function", Top.n)
            ps == Top.n.params
<1>1. /\ todo # <<>> /\ Top.k = "params" /\ Top.i > Len(ps)
      /\ Continue(<<a, b>>) /\ UNCHANGED <<ast, ret, g_scope, g_funs, g_fun_ret_stack>>
  BY DEF CheckBody, On, scopes
<1>2. TypeInv BY DEF IInv
<1>3. Top.n \in Stmts /\ Top.n.kind = "function" /\ Top.i \in Nat \ {0} BY <1>1, <1>2, TopFrame, NodesAt
<1>4. /\ ps \in Seq({e \in Stmts : e.kind = "decl"})
      /\ Top.n.body \in Stmts /\ Top.n.body.kind = "block"
  BY <1>3, StmtNodes
<1>5. Bound(g_scope[Inner]) = ParamNames(Top.n)
  <2>1. /\ Top.i <= Len(ps) + 1
        /\ Bound(g_scope[Inner]) = {ps[p].name : p \in 1 .. Top.i - 1}
    BY <1>1 DEF IInv, ParamsDeclared
  <2>2. 1 .. Top.i - 1 = DOMAIN ps BY <1>1, <1>3, <1>4, <2>1, LenProperties
  <2>. QED BY <2>1, <2>2 DEF ParamNames
<1>6. a \in GoodFrames /\ a.k = "check" /\ a.n.kind = "block"
  BY <1>4, FrameGood, NodesAt DEF Kinds
<1>7. b \in GoodFrames /\ b.k = "function" /\ b.n = Top.n
  BY <1>3, FrameGood, NodesAt DEF Kinds
<1>. HIDE DEF a, b, ps
<1>8. PICK frames : /\ Pushes(frames) /\ frames # <<>> /\ DOMAIN frames = {1, 2}
                    /\ frames[1] = a /\ frames[2] = b /\ LastOf(frames) = b
                    /\ \A K : a.k \notin K => OnlyLast(frames, K)
                    /\ \A K : EndsIn(frames, K) <=> b.k \in K
  BY <1>1, <1>6, <1>7, TwoFrames
<1>9. Settled(frames) BY <1>1, <1>6, <1>7, <1>8 DEF Settled, AtBlock
<1>10. /\ EndsIn(frames, ScopeKinds) /\ EndsIn(frames, FunctionKinds)
       /\ Top.k \in ScopeKinds /\ Top.k \in FunctionKinds /\ OnlyLast(frames, ScopeKinds)
  BY <1>1, <1>6, <1>7, <1>8 DEF ScopeKinds, FunctionKinds
<1>11. Inner = Below(ScopeKinds) + 1 /\ Below(ScopeKinds) \in Nat BY <1>8, <1>10, ScopesBelow
<1>12. AllGood(g_scope') BY <1>1, <1>2 DEF TypeInv, AllGood
<1>13. Tables(frames)
  <2>1. Bound(g_scope'[Below(ScopeKinds) + 1]) = ParamNames(LastOf(frames).n)
    BY <1>1, <1>5, <1>7, <1>8, <1>11
  <2>. QED BY <1>1, <1>8, <1>10, <1>11, <2>1, TablesKept DEF Tables, Inner
<1>14. ReturnTypesMatch => ReturnTypes(frames)
  <2>1. LastOf(frames).n = Top.n BY <1>7, <1>8
  <2>. QED BY <1>1, <1>8, <1>10, <2>1, ReturnsKept
<1>15. ParamsDeclared' BY <1>6, <1>8, NoParams
<1>. QED BY <1>1, <1>2, <1>8, <1>9, <1>10, <1>12, <1>13, <1>14, <1>15, FrameStep DEF TypeInv

(* The scope is closed.                                                    *)
LEMMA LeaveFunctionKeeps ==
    ASSUME IInv, LeaveFunction PROVE Keeps
<1>1. /\ todo # <<>> /\ Top.k = "function" /\ pop_scope /\ pop_fun_ret /\ Continue(<<>>)
      /\ UNCHANGED <<ast, ret, g_funs>>
  BY DEF LeaveFunction, On
<1>2. TypeInv BY DEF IInv
<1>3. PICK frames : /\ Pushes(frames) /\ frames = <<>> /\ DOMAIN frames = {}
                    /\ \A K : OnlyLast(frames, K) /\ ~EndsIn(frames, K)
  BY <1>1, NoFrame
<1>4. Settled(frames) BY <1>3 DEF Settled
<1>5. Top.k \in ScopeKinds /\ Top.k \in FunctionKinds BY <1>1 DEF ScopeKinds, FunctionKinds
<1>6. Inner = Below(ScopeKinds) + 1 /\ Below(ScopeKinds) \in Nat BY <1>3, <1>5, ScopesBelow
<1>7. /\ AllGood(g_scope') /\ Len(g_scope') = Inner - 1
      /\ \A j \in 1 .. Inner - 1 : g_scope'[j] = g_scope[j]
  BY <1>1, <1>2, <1>6, PopTable
<1>8. Tables(frames) BY <1>3, <1>6, <1>7, TablesKept DEF Tables
<1>. DEFINE s == g_fun_ret_stack
            t == SubSeq(s, 1, Len(s) - 1)
<1>9. s \in Seq(TypeTags) /\ Len(s) \in Nat /\ Len(s) <= MAX_FUN_STACK /\ MAX_FUN_STACK \in Nat
  BY <1>2, LenProperties, CheckedAssumption DEF TypeInv
<1>10. s' = IF s = <<>> THEN <<>> ELSE t BY <1>1 DEF pop_fun_ret
<1>11. ASSUME s # <<>>
       PROVE  /\ t \in Seq(TypeTags) /\ Len(t) = Len(s) - 1
              /\ \A j \in 1 .. Len(s) - 1 : t[j] = s[j]
  <2>1. s \in Seq(TypeTags) /\ s # <<>> BY <1>9, <1>11
  <2>. QED BY <2>1, Popped
<1>. HIDE DEF t
<1>12. s' \in Seq(TypeTags) /\ Len(s') <= MAX_FUN_STACK
  <2>1. CASE s = <<>> BY <1>9, <1>10, <2>1
  <2>2. CASE s # <<>> BY <1>9, <1>10, <1>11, <2>2
  <2>. QED BY <2>1, <2>2
<1>13. ASSUME ReturnTypesMatch PROVE ReturnTypes(frames)
  <2>1. /\ Below(FunctionKinds) \in Nat /\ Len(s) = Below(FunctionKinds) + 1
    BY <1>3, <1>5, <1>13, FunctionsBelow
  <2>2. s # <<>> BY <1>9, <2>1, EmptySeq
  <2>. QED BY <1>3, <1>10, <1>11, <2>1, <2>2 DEF ReturnTypes
<1>14. ParamsDeclared' BY <1>3, NoParams
<1>. QED
  <2>1. /\ Top.k # "root" /\ OnlyLast(frames, ScopeKinds) /\ AllGood(g_scope')
        /\ g_funs' \in Seq(Signature)
    BY <1>1, <1>2, <1>3, <1>7 DEF TypeInv
  <2>. QED BY <1>1, <1>3, <1>4, <1>8, <1>12, <1>13, <1>14, <2>1, FrameStep

(* check_semantics returns: the call stack is empty, and no scope is open. *)
LEMMA LeaveRootKeeps ==
    ASSUME IInv, LeaveRoot PROVE Keeps
<1>1. /\ todo # <<>> /\ Top.k = "root" /\ pop_scope /\ Continue(<<>>)
      /\ UNCHANGED <<ast, ret, g_funs, g_fun_ret_stack>>
  BY DEF LeaveRoot, On
<1>2. TypeInv BY DEF IInv
<1>3. PICK frames : /\ Pushes(frames) /\ frames = <<>> /\ DOMAIN frames = {}
                    /\ \A K : OnlyLast(frames, K) /\ ~EndsIn(frames, K)
  BY <1>1, NoFrame
<1>. DEFINE d == Len(frames) - 1
<1>4. Moves(frames, d) BY <1>3 DEF Moves
<1>. HIDE DEF d
<1>5. /\ todo' \in Seq(GoodFrames) /\ Len(todo) \in Nat \ {0} /\ Len(frames) = d + 1 /\ d \in Int
      /\ Len(todo') = Len(todo) + d /\ DOMAIN todo = 1 .. Len(todo) /\ Top = todo[1]
  BY <1>2, <1>4, After
<1>6. Len(todo) = 1 BY <1>1, <1>5 DEF IInv, Shape
<1>7. d = -1 BY <1>3, <1>5, EmptySeq
<1>8. todo' = <<>> /\ DOMAIN todo' = {} BY <1>5, <1>6, <1>7, EmptySeq
<1>9. Top.k \in ScopeKinds /\ Top.k \notin FunctionKinds BY <1>1 DEF ScopeKinds, FunctionKinds
<1>10. Inner = 1
  <2>1. Open(ScopeKinds) = {1} BY <1>5, <1>6, <1>9 DEF Open
  <2>. QED BY <2>1, FS_Singleton DEF IInv, ScopesFollowDescent
<1>11. AllGood(g_scope') /\ Len(g_scope') = 0 BY <1>1, <1>2, <1>10, PopTable
<1>12. TypeInv' BY <1>1, <1>2, <1>3, <1>11, TypeStep DEF TypeInv, AllGood
<1>13. \A K : {j \in DOMAIN todo' : todo'[j].k \in K} = {} BY <1>8
<1>14. ScopesFollowDescent'
  <2>1. Open(ScopeKinds)' = {} BY <1>13 DEF Open
  <2>2. Inner' = 0 BY <1>11 DEF Inner
  <2>. QED BY <2>1, <2>2, FS_EmptySet DEF ScopesFollowDescent
<1>15. ASSUME ReturnTypesMatch PROVE ReturnTypesMatch'
  <2>1. Open(FunctionKinds)' = {} BY <1>13 DEF Open
  <2>2. Open(FunctionKinds) = {} BY <1>5, <1>6, <1>9 DEF Open
  <2>3. Len(g_fun_ret_stack) = 0 BY <1>15, <2>2, FS_EmptySet DEF ReturnTypesMatch
  <2>. QED BY <1>1, <2>1, <2>3, FS_EmptySet DEF ReturnTypesMatch
<1>16. Shape' /\ ParamsDeclared' BY <1>8 DEF Shape, ParamsDeclared
<1>. QED BY <1>12, <1>14, <1>15, <1>16 DEF Keeps, IInv

-----------------------------------------------------------------------------
(* Every step.                                                             *)
LEMMA InitIInv ==
    ASSUME Init PROVE IInv /\ ReturnTypesMatch
<1>. DEFINE a == Frame("check", ast)
            b == Frame("root", ast)
<1>1. /\ ast \in Programs /\ todo = <<a, b>> /\ ret = "invalid" /\ g_scope = <<st_create>>
      /\ g_funs = <<>> /\ g_fun_ret_stack = <<>>
  BY DEF Init, Start
<1>2. ast \in Stmts /\ ast.kind = "block" BY <1>1, CheckedAssumption
<1>3. a \in GoodFrames /\ a.k = "check" /\ a.n = ast BY <1>2, FrameGood, NodesAt DEF Kinds
<1>4. b \in GoodFrames /\ b.k = "root" BY <1>1, <1>2, FrameGood, NodesAt DEF Kinds
<1>. HIDE DEF a, b
<1>5. /\ todo \in Seq(GoodFrames) /\ DOMAIN todo = {1, 2} /\ Len(todo) = 2
      /\ todo[1] = a /\ todo[2] = b /\ todo # <<>> /\ Top = a
  <2>1. <<a, b>> \in Seq(GoodFrames) /\ Head(<<a, b>>) = a BY <1>3, <1>4
  <2>. QED BY <1>1, <2>1 DEF Top
<1>6. TypeInv
  <2>1. Good(st_create) /\ st_create \in Table BY EmptyTable
  <2>. DEFINE e == st_create
  <2>. HIDE DEF e
  <2>2. g_scope = <<e>> BY <1>1 DEF e
  <2>3. g_scope \in Seq(Table) /\ DOMAIN g_scope = {1} /\ g_scope[1] = e BY <2>1, <2>2 DEF e
  <2>4. \A i \in DOMAIN g_scope : Good(g_scope[i]) BY <2>1, <2>3 DEF e
  <2>5. g_funs \in Seq(Signature) /\ g_fun_ret_stack \in Seq(TypeTags) /\ Len(g_fun_ret_stack) = 0
    BY <1>1, EmptySeq
  <2>6. ret \in Types BY <1>1 DEF Types
  <2>. QED BY <1>1, <1>5, <2>3, <2>4, <2>5, <2>6, CheckedAssumption DEF TypeInv
<1>7. Shape BY <1>2, <1>3, <1>4, <1>5 DEF Shape, AtBlock
<1>8. ParamsDeclared BY <1>3, <1>5 DEF ParamsDeclared
<1>9. Open(ScopeKinds) = {2} BY <1>3, <1>4, <1>5 DEF Open, ScopeKinds
<1>10. ScopesFollowDescent
  <2>1. Level(2, ScopeKinds) = 1
    <3>1. {i \in Open(ScopeKinds) : i >= 2} = {2} BY <1>9
    <3>. QED BY <3>1, FS_Singleton DEF Level
  <2>2. Cardinality({2}) = 1 BY FS_Singleton
  <2>. DEFINE e == st_create
  <2>. HIDE DEF e
  <2>3. g_scope = <<e>> BY <1>1 DEF e
  <2>4. Inner = 1 /\ g_scope[1] = e BY <2>3 DEF Inner
  <2>. QED BY <1>4, <1>5, <1>9, <2>1, <2>2, <2>4 DEF ScopesFollowDescent, e
<1>11. ReturnTypesMatch
  <2>1. Open(FunctionKinds) = {} BY <1>3, <1>4, <1>5 DEF Open, FunctionKinds
  <2>2. Len(g_fun_ret_stack) = 0 BY <1>1
  <2>. QED BY <2>1, <2>2, FS_EmptySet DEF ReturnTypesMatch
<1>. QED BY <1>6, <1>7, <1>8, <1>10, <1>11 DEF IInv

(* A step that changes nothing.                                            *)
LEMMA StutterKeeps ==
    ASSUME IInv, UNCHANGED vars PROVE Keeps
<1>1. UNCHANGED <<ast, todo, ret, g_scope, g_funs, g_fun_ret_stack>> BY DEF vars
<1>2. TypeInv' BY <1>1 DEF IInv, TypeInv, Good
<1>3. Shape' BY <1>1 DEF IInv, Shape, AtBlock, Top
<1>4. ParamsDeclared' BY <1>1 DEF IInv, ParamsDeclared, Top, Inner, Bound
<1>5. ScopesFollowDescent'
  BY <1>1 DEF IInv, ScopesFollowDescent, Inner, Open, Level, Bound
<1>6. ReturnTypesMatch => ReturnTypesMatch' BY <1>1 DEF ReturnTypesMatch, Open, Level
<1>. QED BY <1>2, <1>3, <1>4, <1>5, <1>6 DEF Keeps, IInv

(* Every step of the analyzer keeps what it has to.                        *)
LEMMA NextKeeps ==
    ASSUME IInv, [Next]_vars PROVE Keeps
<1>1. CASE infer
  <2>1. CASE InferLiteral BY <2>1, InferLiteralKeeps
  <2>2. CASE InferIdent BY <2>2, InferIdentKeeps
  <2>3. CASE InferOperand BY <2>3, InferOperandKeeps
  <2>4. CASE InferUnary BY <2>4, InferUnaryKeeps
  <2>5. CASE InferRight BY <2>5, InferRightKeeps
  <2>6. CASE InferBinary BY <2>6, InferBinaryKeeps
  <2>7. CASE InferAssign BY <2>7, InferAssignKeeps
  <2>8. CASE InferCall BY <2>8, InferCallKeeps
  <2>9. CASE InferUnknownCall BY <2>9, InferUnknownCallKeeps
  <2>10. CASE InferUnknown BY <2>10, InferUnknownKeeps
  <2>11. CASE InferArg BY <2>11, InferArgKeeps
  <2>12. CASE CheckArg BY <2>12, CheckArgKeeps
  <2>13. CASE InferResult BY <2>13, InferResultKeeps
  <2>. QED BY <1>1, <2>1, <2>2, <2>3, <2>4, <2>5, <2>6, <2>7, <2>8, <2>9, <2>10, <2>11, <2>12,
              <2>13 DEF infer
<1>2. CASE check_stmt
  <2>1. CASE IgnoreStmt BY <2>1, IgnoreStmtKeeps
  <2>2. CASE CheckExpr BY <2>2, CheckExprKeeps
  <2>3. CASE check_block BY <2>3, CheckBlockKeeps
  <2>4. CASE NextStmt BY <2>4, NextStmtKeeps
  <2>5. CASE LeaveBlock BY <2>5, LeaveBlockKeeps
  <2>6. CASE CheckInit BY <2>6, CheckInitKeeps
  <2>7. CASE check_decl BY <2>7, CheckDeclKeeps
  <2>8. CASE AssignTarget BY <2>8, AssignTargetKeeps
  <2>9. CASE check_assign BY <2>9, CheckAssignKeeps
  <2>10. CASE InferCond BY <2>10, InferCondKeeps
  <2>11. CASE CheckCond BY <2>11, CheckCondKeeps
  <2>12. CASE ReturnVoid BY <2>12, ReturnVoidKeeps
  <2>13. CASE ReturnExpr BY <2>13, ReturnExprKeeps
  <2>14. CASE check_return BY <2>14, CheckReturnKeeps
  <2>15. CASE check_function BY <2>15, CheckFunctionKeeps
  <2>16. CASE DeclareParam BY <2>16, DeclareParamKeeps
  <2>17. CASE CheckBody BY <2>17, CheckBodyKeeps
  <2>18. CASE LeaveFunction BY <2>18, LeaveFunctionKeeps
  <2>. QED BY <1>2, <2>1, <2>2, <2>3, <2>4, <2>5, <2>6, <2>7, <2>8, <2>9, <2>10, <2>11, <2>12,
              <2>13, <2>14, <2>15, <2>16, <2>17, <2>18 DEF check_stmt
<1>3. CASE LeaveRoot BY <1>3, LeaveRootKeeps
<1>4. CASE Finish BY <1>4, StutterKeeps DEF Finish
<1>5. CASE UNCHANGED vars BY <1>5, StutterKeeps
<1>. QED BY <1>1, <1>2, <1>3, <1>4, <1>5 DEF Next

(* The inductive invariant.                                                *)
LEMMA Invariant == Spec => []IInv
<1>1. Init => IInv BY InitIInv
<1>2. IInv /\ [Next]_vars => IInv' BY NextKeeps DEF Keeps
<1>. QED BY <1>1, <1>2, PTL DEF Spec

-----------------------------------------------------------------------------
(* The analyzer never reads what is not there: whatever the tree, every    *)
(* activation holds a node of its kind and the local it needs (infer and   *)
(* check_stmt of semantic_analyzer.c), tables hold names with types, and   *)
(* g_fun_ret_stack stays within its capacity.                              *)
THEOREM TypeCorrect == Spec => []TypeOK
<1>1. IInv => TypeOK BY TypeInvOK DEF IInv
<1>. QED BY <1>1, Invariant, PTL

(* push_scope_new and pop_scope pair up on every path through a tree: one  *)
(* table is open for each block and function being checked, the injected   *)
(* one stays empty, and the body of a function finds its parameters, and   *)
(* nothing else, in the table around it.                                   *)
THEOREM ScopesCorrect == Spec => []ScopesFollowDescent
<1>1. IInv => ScopesFollowDescent BY DEF IInv
<1>. QED BY <1>1, Invariant, PTL

(* As long as no more functions are open than g_fun_ret_stack has room     *)
(* for, a "return" is compared with the type of the function around it:    *)
(* the stack holds the return types of the open functions, in their order. *)
(* Beyond that push_fun_ret drops a type that pop_fun_ret takes off.       *)
THEOREM ReturnsCorrect == Spec /\ []Shallow => []ReturnTypesMatch
<1>1. Init => ReturnTypesMatch BY InitIInv
<1>2. IInv /\ Shallow' /\ [Next]_vars /\ ReturnTypesMatch => ReturnTypesMatch'
  BY NextKeeps DEF Keeps
<1>. QED BY <1>1, <1>2, Invariant, PTL DEF Spec

=============================================================================
