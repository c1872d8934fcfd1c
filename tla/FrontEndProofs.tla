---------------------------- MODULE FrontEndProofs ----------------------------
(***************************************************************************)
(* Proofs about the scanner: its tokens are in order and apart and its     *)
(* errors are counted, nothing but blanks, line breaks and comments is     *)
(* left out, the column is the distance from the last line break, and a    *)
(* decoded string fits the buffer allocated for it.                        *)
(*                                                                         *)
(* What the places of the characters (Where) say of a text has to do with  *)
(* flex's rules because a match is the longest one: a line comment ends at *)
(* a line break, and in a block comment a "*" in front of a "/" is never   *)
(* read alone.  Placed states this of the point the scanner is at.         *)
(*                                                                         *)
(* And about the parser (P): the symbols of its stack carry what their     *)
(* productions make, in nodes of the shapes of the grammar, so that the    *)
(* tree it hands on when it succeeds is one the later stages expect.       *)
(***************************************************************************)
EXTENDS Scanner, StackTheorems

(* A file and its length.                                                  *)
LEMMA File ==
    ASSUME NEW x \in Inputs
    PROVE  x \in Seq({x[i] : i \in DOMAIN x}) /\ Len(x) \in Nat /\ DOMAIN x = 1 .. Len(x)
<1>1. x \in Seq({x[i] : i \in DOMAIN x}) BY ScannerAssumption
<1>. QED BY <1>1, LenProperties

(* A nonempty set of numbers that has a bound has a greatest element.      *)
LEMMA MaxOf ==
    ASSUME NEW S, S # {}, NEW n \in Int, \A y \in S : y \in Int /\ y <= n
    PROVE  Max(S) \in S /\ \A y \in S : y <= Max(S)
<1>. DEFINE D == {n - y : y \in S}
<1>1. D \subseteq Nat /\ D # {} OBVIOUS
<1>2. PICK d \in D : \A e \in D : d <= e BY <1>1, LeastNumber
<1>3. PICK m \in S : d = n - m OBVIOUS
<1>4. ASSUME NEW y \in S PROVE m >= y
  <2>1. n - y \in D OBVIOUS
  <2>2. n - m <= n - y BY <1>2, <1>3, <2>1
  <2>. QED BY <2>2
<1>5. Max(S) \in S /\ \A y \in S : Max(S) >= y BY <1>4 DEF Max
<1>6. \A y \in S : y \in Int OBVIOUS
<1>. QED BY <1>5, <1>6

(* A sequence, of whatever.                                                *)
IsSeq(s) == \E S : s \in Seq(S)

(* A sequence of one or two characters, spelled.                           *)
LEMMA Spelled ==
    ASSUME NEW s, IsSeq(s)
    PROVE  /\ Len(s) = 1 => s = <<s[1]>>
           /\ Len(s) = 2 => s = <<s[1], s[2]>>
<1>1. PICK S : s \in Seq(S) BY DEF IsSeq
<1>2. s = [i \in 1 .. Len(s) |-> s[i]] BY <1>1
<1>3. ASSUME Len(s) = 1 PROVE s = <<s[1]>> BY <1>2, <1>3
<1>4. ASSUME Len(s) = 2 PROVE s = <<s[1], s[2]>> BY <1>2, <1>4
<1>. QED BY <1>3, <1>4

-----------------------------------------------------------------------------
(* Matches.                                                                *)

(* The next n characters.                                                  *)
LEMMA AheadIs ==
    ASSUME text \in Inputs, at \in Nat, NEW n \in Nat, at + n <= Len(text)
    PROVE  /\ IsSeq(Ahead(n)) /\ Len(Ahead(n)) = n /\ DOMAIN Ahead(n) = 1 .. n
           /\ \A i \in 1 .. n : Ahead(n)[i] = text[at + i]
<1>. DEFINE S == {text[i] : i \in DOMAIN text}
<1>1. Len(text) \in Nat /\ DOMAIN text = 1 .. Len(text) BY File
<1>2. \A i \in at + 1 .. at + n : text[i] \in S
  <2>1. \A i \in at + 1 .. at + n : i \in DOMAIN text BY <1>1
  <2>. QED BY <2>1
<1>. HIDE DEF S
<1>3. /\ Ahead(n) \in Seq(S)
      /\ Len(Ahead(n)) = IF at + 1 <= at + n THEN at + n - (at + 1) + 1 ELSE 0
      /\ \A i \in 1 .. at + n - (at + 1) + 1 : Ahead(n)[i] = text[at + 1 + i - 1]
  <2>1. at + 1 \in Int /\ at + n \in Int OBVIOUS
  <2>. QED BY <1>2, <2>1, SubSeqProperties DEF Ahead
<1>4. DOMAIN Ahead(n) = 1 .. Len(Ahead(n)) BY <1>3, LenProperties
<1>5. at + n - (at + 1) + 1 = n /\ Len(Ahead(n)) = n BY <1>3
<1>6. ASSUME NEW i \in 1 .. n PROVE Ahead(n)[i] = text[at + i]
  <2>1. at + 1 + i - 1 = at + i OBVIOUS
  <2>. QED BY <1>3, <1>5, <2>1
<1>. QED BY <1>3, <1>4, <1>5, <1>6 DEF IsSeq

(* One character is matched in either start condition.                     *)
LEMMA OneMatches == ASSUME NEW x, Len(x) = 1 PROVE Rule(x) # "none"
BY DEF Rule, Initial, Comment

(* The match is the longest there is.                                      *)
LEMMA Longest ==
    ASSUME text \in Inputs, at \in Nat, at < Len(text)
    PROVE  /\ Len(text) \in Nat /\ yyleng \in 1 .. Len(text) - at
           /\ IsSeq(yytext) /\ Len(yytext) = yyleng /\ DOMAIN yytext = 1 .. yyleng
           /\ \A i \in 1 .. yyleng : yytext[i] = text[at + i]
           /\ \A n \in 1 .. Len(text) - at : Rule(Ahead(n)) # "none" => n <= yyleng
<1>. DEFINE L == Len(text) - at
            S == {n \in 1 .. L : Rule(Ahead(n)) # "none"}
<1>1. Len(text) \in Nat BY File
<1>2. 1 \in S
  <2>0. 1 \in Nat /\ at + 1 <= Len(text) BY <1>1
  <2>1. Len(Ahead(1)) = 1 BY <2>0, AheadIs
  <2>2. Rule(Ahead(1)) # "none" BY <2>1, OneMatches
  <2>. QED BY <1>1, <2>2
<1>3. L \in Int /\ S # {} /\ \A n \in S : n \in Int /\ n <= L BY <1>1, <1>2
<1>4. yyleng = Max(S) BY DEF yyleng
<1>. HIDE DEF S
<1>5. yyleng \in S /\ \A n \in S : n <= yyleng BY <1>3, <1>4, MaxOf
<1>6. yyleng \in 1 .. L BY <1>5 DEF S
<1>7. \A n \in 1 .. L : Rule(Ahead(n)) # "none" => n <= yyleng BY <1>5 DEF S
<1>8. yyleng \in Nat /\ at + yyleng <= Len(text) BY <1>1, <1>6
<1>. HIDE DEF L
<1>9. /\ IsSeq(Ahead(yyleng)) /\ Len(Ahead(yyleng)) = yyleng /\ DOMAIN Ahead(yyleng) = 1 .. yyleng
      /\ \A i \in 1 .. yyleng : Ahead(yyleng)[i] = text[at + i]
  BY <1>8, AheadIs
<1>. QED BY <1>1, <1>6, <1>7, <1>9 DEF yytext, L

(* What the rules of INITIAL say of what they match.                       *)
LEMMA InitialRules ==
    ASSUME NEW x
    PROVE  /\ Initial(x) = "keyword" => x \in DOMAIN Keywords
           /\ Initial(x) = "operator" => x \in DOMAIN Operators
           /\ Initial(x) = "string" => IsString(x)
           /\ Initial(x) = "blank" => AllIn(x, Blank)
           /\ Initial(x) = "newline" => x \in NewLines
           /\ Initial(x) = "line" => IsLineComment(x)
           /\ Initial(x) = "open" => x = <<"/", "*">>
           /\ Initial(x) \notin {"close", "inside"}
           /\ IsLineComment(x) => Initial(x) # "none"
BY DEF Initial

(* And those of COMMENT.                                                   *)
LEMMA CommentRules ==
    ASSUME NEW x
    PROVE  /\ Comment(x) \in {"close", "newline", "inside", "none"}
           /\ Comment(x) = "close" => x = <<"*", "/">>
           /\ Comment(x) = "newline" => x \in {<<"\r", "\n">>, <<"\n">>}
           /\ Comment(x) = "inside" => Len(x) = 1 /\ x # <<"\n">>
           /\ x = <<"*", "/">> => Comment(x) # "none"
BY DEF Comment

-----------------------------------------------------------------------------
(* The places of the characters.                                           *)

(* Where is the function its definition describes.                         *)
Unfolds ==
    at \in Nat =>
        /\ DOMAIN Where = 0 .. at /\ Where[0] = "code"
        /\ \A p \in 1 .. at : Where[p] = Place(Where[p - 1], p)

(* It is, whatever the text and the tokens.                                *)
LEMMA WhereIs == Unfolds
<1>. SUFFICES ASSUME at \in Nat
     PROVE  /\ DOMAIN Where = 0 .. at /\ Where[0] = "code"
            /\ \A p \in 1 .. at : Where[p] = Place(Where[p - 1], p)
  BY DEF Unfolds
<1>. DEFINE Upto(f, n) == f = [p \in 0 .. n |-> IF p = 0 THEN "code" ELSE Place(f[p - 1], p)]
            S == {n \in 0 .. at : ~\E f : Upto(f, n)}
<1>1. S = {}
  <2>. SUFFICES ASSUME S # {} PROVE FALSE OBVIOUS
  <2>1. S \subseteq Nat OBVIOUS
  <2>. HIDE DEF S
  <2>2. PICK n \in S : \A k \in S : n <= k BY <2>1, LeastNumber
  <2>3. n \in 0 .. at /\ ~\E f : Upto(f, n) BY DEF S
  <2>4. CASE n = 0
    <3>. DEFINE g == [p \in 0 .. 0 |-> "code"]
    <3>1. Upto(g, 0) OBVIOUS
    <3>. QED BY <2>3, <2>4, <3>1
  <2>5. CASE n # 0
    <3>1. n - 1 \in 0 .. at /\ n \in Nat BY <2>3, <2>5
    <3>2. ~(n <= n - 1) BY <3>1
    <3>3. PICK f : Upto(f, n - 1)
      <4>1. n - 1 \notin S BY <2>2, <3>2
      <4>. QED BY <3>1, <4>1 DEF S
    <3>. DEFINE g == [p \in 0 .. n |-> IF p < n THEN f[p] ELSE Place(f[n - 1], n)]
    <3>4. ASSUME NEW p \in 0 .. n PROVE g[p] = IF p = 0 THEN "code" ELSE Place(g[p - 1], p)
      <4>1. CASE p = 0 BY <2>5, <3>1, <3>3, <4>1
      <4>2. CASE p # 0 /\ p < n
        <5>1. p \in 0 .. n - 1 /\ p - 1 \in 0 .. n BY <3>1, <4>2
        <5>2. f[p] = Place(f[p - 1], p) BY <3>3, <4>2, <5>1
        <5>3. g[p] = f[p] /\ g[p - 1] = f[p - 1] BY <3>1, <4>2, <5>1
        <5>. QED BY <4>2, <5>2, <5>3
      <4>3. CASE p = n
        <5>1. n - 1 \in 0 .. n /\ n - 1 < n BY <3>1
        <5>2. g[n - 1] = f[n - 1] /\ g[n] = Place(f[n - 1], n) BY <3>1, <5>1
        <5>. QED BY <2>5, <4>3, <5>2
      <4>. QED BY <3>1, <4>1, <4>2, <4>3
    <3>5. g = [p \in 0 .. n |-> g[p]] OBVIOUS
    <3>. HIDE DEF g
    <3>6. Upto(g, n) BY <3>4, <3>5
    <3>. QED BY <2>3, <3>6
  <2>. QED BY <2>4, <2>5
<1>2. \E f : Upto(f, at) BY <1>1
<1>3. Upto(Where, at) BY <1>2 DEF Where
<1>. QED BY <1>3

-----------------------------------------------------------------------------
(* The point the scanner is at, between two matches.                       *)
Placed ==
    /\ start = "INITIAL" =>
          \/ Where[at] \in {"code", "closed"}
          \/ Where[at] = "line" /\ (at < Len(text) => text[at + 1] = "\n")
    /\ start = "COMMENT" =>
          \/ Where[at] = "opened"
          \/ Where[at] = "block" /\ ~(text[at] = "*" /\ at < Len(text) /\ text[at + 1] = "/")

(* From a on there is code, if no comment goes on at a and none begins     *)
(* behind it.                                                              *)
CodeRuns ==
    at \in Nat =>
        \A a \in 0 .. at :
            /\ \/ Where[a] \in {"code", "closed"}
               \/ Where[a] = "line" /\ (a < at => text[a + 1] = "\n")
            /\ \A p \in a + 1 .. at : InToken(p) \/ text[p] # "/"
            => \A p \in a + 1 .. at : Where[p] = "code"

(* It runs on.                                                             *)
LEMMA CodeFrom == CodeRuns
<1>. SUFFICES ASSUME at \in Nat, NEW a \in 0 .. at,
                     \/ Where[a] \in {"code", "closed"}
                     \/ Where[a] = "line" /\ (a < at => text[a + 1] = "\n"),
                     \A p \in a + 1 .. at : InToken(p) \/ text[p] # "/"
              PROVE  \A p \in a + 1 .. at : Where[p] = "code"
  BY DEF CodeRuns
<1>. DEFINE S == {p \in a + 1 .. at : Where[p] # "code"}
<1>. SUFFICES ASSUME S # {} PROVE FALSE OBVIOUS
<1>1. S \subseteq Nat OBVIOUS
<1>. HIDE DEF S
<1>2. PICK p \in S : \A k \in S : p <= k BY <1>1, LeastNumber
<1>3. p \in a + 1 .. at /\ Where[p] # "code" BY DEF S
<1>4. p \in 1 .. at /\ p - 1 \in a .. at BY <1>3
<1>5. Where[p] = Place(Where[p - 1], p) BY <1>4, WhereIs DEF Unfolds
<1>6. CASE p = a + 1
  <2>1. p - 1 = a /\ a < at BY <1>3, <1>6
  <2>2. \/ Where[p - 1] \in {"code", "closed"}
        \/ Where[p - 1] = "line" /\ text[p] = "\n"
    BY <1>6, <2>1
  <2>3. InToken(p) \/ text[p] # "/" BY <1>3
  <2>. QED BY <1>3, <1>5, <2>2, <2>3 DEF Place
<1>7. CASE p # a + 1
  <2>1. p - 1 \in a + 1 .. at /\ ~(p <= p - 1) BY <1>3, <1>7
  <2>2. p - 1 \notin S BY <1>2, <2>1
  <2>3. Where[p - 1] = "code" BY <2>1, <2>2 DEF S
  <2>4. InToken(p) \/ text[p] # "/" BY <1>3
  <2>. QED BY <1>3, <1>5, <2>3, <2>4 DEF Place
<1>. QED BY <1>6, <1>7

(* From a on there is a line comment, if one begins behind a and no line   *)
(* ends.                                                                   *)
LineRuns ==
    at \in Nat /\ Len(text) \in Nat /\ at <= Len(text) =>
        \A a \in 0 .. at :
            /\ Where[a] \in {"code", "closed"} \/ (Where[a] = "line" /\ text[a + 1] = "\n")
            /\ a + 2 <= at /\ text[a + 1] = "/" /\ text[a + 2] = "/" /\ ~InToken(a + 1)
            /\ \A p \in a + 1 .. at : text[p] # "\n"
            => \A p \in a + 1 .. at : Where[p] = "line"

(* It runs on.                                                             *)
LEMMA LineFrom == LineRuns
<1>. SUFFICES ASSUME at \in Nat, Len(text) \in Nat, at <= Len(text), NEW a \in 0 .. at,
                     Where[a] \in {"code", "closed"} \/ (Where[a] = "line" /\ text[a + 1] = "\n"),
                     a + 2 <= at, text[a + 1] = "/", text[a + 2] = "/", ~InToken(a + 1),
                     \A p \in a + 1 .. at : text[p] # "\n"
              PROVE  \A p \in a + 1 .. at : Where[p] = "line"
  BY DEF LineRuns
<1>. DEFINE S == {p \in a + 1 .. at : Where[p] # "line"}
<1>. SUFFICES ASSUME S # {} PROVE FALSE OBVIOUS
<1>1. S \subseteq Nat OBVIOUS
<1>. HIDE DEF S
<1>2. PICK p \in S : \A k \in S : p <= k BY <1>1, LeastNumber
<1>3. p \in a + 1 .. at /\ Where[p] # "line" BY DEF S
<1>4. p \in 1 .. at /\ p - 1 \in a .. at BY <1>3
<1>5. Where[p] = Place(Where[p - 1], p) BY <1>4, WhereIs DEF Unfolds
<1>6. CASE p = a + 1
  <2>1. p - 1 = a /\ p + 1 = a + 2 /\ p < Len(text) BY <1>3, <1>6
  <2>2. Where[p - 1] \in {"code", "closed"} /\ text[p] = "/" /\ text[p + 1] = "/" /\ ~InToken(p)
    BY <1>6, <2>1
  <2>. QED BY <1>3, <1>5, <2>1, <2>2 DEF Place
<1>7. CASE p # a + 1
  <2>1. p - 1 \in a + 1 .. at /\ ~(p <= p - 1) BY <1>3, <1>7
  <2>2. p - 1 \notin S BY <1>2, <2>1
  <2>3. Where[p - 1] = "line" BY <2>1, <2>2 DEF S
  <2>4. text[p] # "\n" BY <1>3
  <2>. QED BY <1>3, <1>5, <2>3, <2>4 DEF Place
<1>. QED BY <1>6, <1>7

(* A step that leaves the text alone and what is in tokens up to here      *)
(* leaves the places up to here alone.                                     *)
LEMMA SameWhere ==
    ASSUME at \in Nat, at' \in Nat, at <= at', text' = text,
           \A p \in 1 .. at : InToken(p)' <=> InToken(p)
    PROVE  \A p \in 0 .. at : Where'[p] = Where[p]
<1>. DEFINE S == {p \in 0 .. at : Where'[p] # Where[p]}
<1>. SUFFICES ASSUME S # {} PROVE FALSE OBVIOUS
<1>1. S \subseteq Nat OBVIOUS
<1>. HIDE DEF S
<1>2. PICK p \in S : \A k \in S : p <= k BY <1>1, LeastNumber
<1>3. p \in 0 .. at /\ Where'[p] # Where[p] BY DEF S
<1>4. Unfolds BY WhereIs DEF Unfolds
<1>5. Unfolds' BY WhereIs, PTL
<1>6. p # 0 BY <1>3, <1>4, <1>5 DEF Unfolds
<1>7. p \in 1 .. at /\ p \in 1 .. at' /\ p - 1 \in 0 .. at /\ ~(p <= p - 1) BY <1>3, <1>6
<1>8. Where'[p - 1] = Where[p - 1]
  <2>1. p - 1 \notin S BY <1>2, <1>7
  <2>. QED BY <1>7, <2>1 DEF S
<1>9. Where'[p] = Place(Where[p - 1], p)'
  <2>1. \A q \in 1 .. at' : Where'[q] = Place(Where[q - 1], q)' BY <1>5 DEF Unfolds
  <2>. QED BY <1>7, <2>1
<1>10. Place(Where[p - 1], p)' = Place(Where[p - 1], p)
  <2>1. InToken(p)' <=> InToken(p) BY <1>7
  <2>. QED BY <1>8, <2>1 DEF Place
<1>. QED BY <1>3, <1>4, <1>7, <1>9, <1>10 DEF Unfolds

(* One more at the end of a sequence.                                      *)
LEMMA SeqAppend ==
    ASSUME NEW s, IsSeq(s), NEW x
    PROVE  /\ IsSeq(Append(s, x)) /\ Len(s) \in Nat
           /\ DOMAIN s = 1 .. Len(s) /\ DOMAIN Append(s, x) = 1 .. Len(s) + 1
           /\ \A i \in 1 .. Len(s) : Append(s, x)[i] = s[i]
           /\ Append(s, x)[Len(s) + 1] = x
<1>1. PICK S : s \in Seq(S) BY DEF IsSeq
<1>. DEFINE T == S \cup {x}
<1>2. s \in Seq(T) /\ x \in T
  <2>1. Len(s) \in Nat /\ DOMAIN s = 1 .. Len(s) BY <1>1, LenProperties
  <2>2. \A i \in 1 .. Len(s) : s[i] \in T BY <1>1, ElementOfSeq
  <2>3. s = [i \in 1 .. Len(s) |-> s[i]] BY <1>1, <2>1
  <2>. HIDE DEF T
  <2>4. s \in Seq(T) BY <2>1, <2>2, <2>3, IsASeq
  <2>. QED BY <2>4 DEF T
<1>. HIDE DEF T
<1>3. /\ Append(s, x) \in Seq(T) /\ Len(Append(s, x)) = Len(s) + 1
      /\ \A i \in 1 .. Len(s) : Append(s, x)[i] = s[i]
      /\ Append(s, x)[Len(s) + 1] = x
  BY <1>2, AppendProperties
<1>4. Len(s) \in Nat /\ DOMAIN s = 1 .. Len(s) /\ DOMAIN Append(s, x) = 1 .. Len(Append(s, x))
  BY <1>2, <1>3, LenProperties
<1>5. IsSeq(Append(s, x)) BY <1>3 DEF IsSeq
<1>. QED BY <1>3, <1>4, <1>5

-----------------------------------------------------------------------------
(* What a match does, whatever the rule.                                   *)
Matched ==
    /\ text \in Inputs /\ text' = text /\ at \in Nat /\ Len(text) \in Nat
    /\ yyleng \in Nat \ {0} /\ at' = at + yyleng /\ at' \in Nat /\ at < at' /\ at' <= Len(text)
    /\ IsSeq(yytext) /\ Len(yytext) = yyleng /\ DOMAIN yytext = 1 .. yyleng
    /\ \A p \in at + 1 .. at' : p - at \in 1 .. yyleng /\ yytext[p - at] = text[p]
    /\ \A n \in 1 .. Len(text) - at : Rule(Ahead(n)) # "none" => n <= yyleng
    /\ status = "scanning" /\ status' = "scanning"

(* A match is that.                                                        *)
LEMMA MatchIs == ASSUME TypeOK, NEW rules, Match(rules) PROVE Matched /\ Rule(yytext) \in rules
<1>1. /\ text \in Inputs /\ text' = text /\ at \in 0 .. Len(text) /\ at < Len(text)
      /\ at' = at + yyleng /\ status = "scanning" /\ status' = "scanning" /\ Rule(yytext) \in rules
  BY DEF TypeOK, Match, Scanning
<1>2. at \in Nat BY <1>1
<1>3. /\ Len(text) \in Nat /\ yyleng \in 1 .. Len(text) - at
      /\ IsSeq(yytext) /\ Len(yytext) = yyleng /\ DOMAIN yytext = 1 .. yyleng
      /\ \A i \in 1 .. yyleng : yytext[i] = text[at + i]
      /\ \A n \in 1 .. Len(text) - at : Rule(Ahead(n)) # "none" => n <= yyleng
  BY <1>1, <1>2, Longest
<1>4. yyleng \in Nat \ {0} /\ at' \in Nat /\ at < at' /\ at' <= Len(text) BY <1>1, <1>2, <1>3
<1>5. ASSUME NEW p \in at + 1 .. at' PROVE p - at \in 1 .. yyleng /\ yytext[p - at] = text[p]
  <2>1. p - at \in 1 .. yyleng /\ at + (p - at) = p BY <1>1, <1>2, <1>4
  <2>. QED BY <1>3, <2>1
<1>. QED BY <1>1, <1>2, <1>3, <1>4, <1>5 DEF Matched

(* No token lies ahead; a match that returns none leaves it so.            *)
LEMMA NoToken ==
    ASSUME TypeOK, Matched, tokens' = tokens
    PROVE  /\ \A p \in 1 .. at : InToken(p)' <=> InToken(p)
           /\ \A p \in at + 1 .. at' : ~InToken(p)'
<1>1. \A p : InToken(p)' <=> InToken(p) BY DEF InToken
<1>2. ASSUME NEW p \in at + 1 .. at', NEW i \in DOMAIN tokens, p <= tokens[i].to PROVE FALSE
  <2>1. tokens[i].from \in 1 .. at /\ tokens[i].to \in tokens[i].from .. at BY DEF TypeOK
  <2>2. at \in Nat /\ p \in Int /\ at < p BY DEF Matched
  <2>. QED BY <1>2, <2>1, <2>2
<1>3. \A p \in at + 1 .. at' : ~InToken(p) BY <1>2 DEF InToken
<1>. QED BY <1>1, <1>3

(* The token of a match is what was matched.                               *)
LEMMA OneToken ==
    ASSUME TypeOK, IsSeq(tokens), Matched, NEW name, NEW value, Return(name, value)
    PROVE  /\ \A p \in 1 .. at : InToken(p)' <=> InToken(p)
           /\ \A p \in at + 1 .. at' : InToken(p)'
<1>. DEFINE n == Len(tokens)
            t == [s |-> name, v |-> value, from |-> at + 1, to |-> at + yyleng]
<1>1. /\ n \in Nat /\ DOMAIN tokens = 1 .. n /\ DOMAIN tokens' = 1 .. n + 1
      /\ \A i \in 1 .. n : tokens'[i] = tokens[i]
      /\ tokens'[n + 1] = t
  BY SeqAppend DEF Return
<1>2. /\ at \in Nat /\ at' = at + yyleng /\ yyleng \in Nat /\ t.from = at + 1 /\ t.to = at'
  BY DEF Matched
<1>. HIDE DEF n, t
<1>3. n + 1 \in DOMAIN tokens' /\ \A i \in DOMAIN tokens' : i \in DOMAIN tokens \/ i = n + 1 BY <1>1
<1>4. ASSUME NEW p \in 1 .. at, InToken(p)' PROVE InToken(p)
  <2>1. PICK i \in DOMAIN tokens' : tokens'[i].from <= p /\ p <= tokens'[i].to BY <1>4 DEF InToken
  <2>2. i # n + 1
    <3>1. ~(at + 1 <= p) BY <1>2
    <3>. QED BY <1>1, <1>2, <2>1, <3>1
  <2>3. i \in DOMAIN tokens /\ tokens'[i] = tokens[i] BY <1>1, <1>3, <2>2
  <2>. QED BY <2>1, <2>3 DEF InToken
<1>5. ASSUME NEW p \in 1 .. at, InToken(p) PROVE InToken(p)'
  <2>1. PICK i \in DOMAIN tokens : tokens[i].from <= p /\ p <= tokens[i].to BY <1>5 DEF InToken
  <2>2. i \in DOMAIN tokens' /\ tokens'[i] = tokens[i] BY <1>1
  <2>. QED BY <2>1, <2>2 DEF InToken
<1>6. ASSUME NEW p \in at + 1 .. at' PROVE InToken(p)'
  <2>1. tokens'[n + 1].from <= p /\ p <= tokens'[n + 1].to BY <1>1, <1>2
  <2>. QED BY <1>3, <2>1 DEF InToken
<1>. QED BY <1>4, <1>5, <1>6

-----------------------------------------------------------------------------
(* What every step that reads does to the places and the column.           *)
Advance ==
    /\ \A p \in 1 .. at : InToken(p)' <=> InToken(p)
    /\ \A p \in at + 1 .. at' : Accounted(p)'
    /\ \/ yycolumn' = yycolumn + yyleng /\ \A p \in at + 1 .. at' : ~BreaksLine(p)'
       \/ yycolumn' = 1 /\ BreaksLine(at)'
    /\ Placed'

(* Such a step leaves nothing out and keeps the column.                    *)
LEMMA Advanced ==
    ASSUME Matched, Advance, NothingSkipped, ColumnTracked, yycolumn \in Int
    PROVE  NothingSkipped' /\ ColumnTracked'
<1>1. /\ at \in Nat /\ at' \in Nat /\ text' = text /\ at' = at + yyleng /\ at < at'
      /\ yyleng \in Nat
      /\ \A p \in 1 .. at : InToken(p)' <=> InToken(p)
  BY DEF Matched, Advance
<1>2. \A p \in 0 .. at : Where'[p] = Where[p] BY <1>1, SameWhere
<1>3. ASSUME NEW p \in 1 .. at
      PROVE  (Accounted(p)' <=> Accounted(p)) /\ (BreaksLine(p)' <=> BreaksLine(p))
  <2>1. Where'[p] = Where[p] /\ (InToken(p)' <=> InToken(p)) BY <1>1, <1>2
  <2>. QED BY <1>1, <2>1 DEF Accounted, BreaksLine, Commented
<1>4. \A p \in 1 .. at' : p \in 1 .. at \/ p \in at + 1 .. at' BY <1>1
<1>5. NothingSkipped'
  <2>1. \A p \in 1 .. at' : Accounted(p)' BY <1>3, <1>4 DEF NothingSkipped, Advance
  <2>. QED BY <2>1 DEF NothingSkipped
<1>6. CASE yycolumn' = yycolumn + yyleng /\ \A p \in at + 1 .. at' : ~BreaksLine(p)'
  <2>1. LineBreaks' = LineBreaks
    <3>1. LineBreaks' = {p \in 1 .. at' : BreaksLine(p)'} BY DEF LineBreaks
    <3>2. \A p \in 1 .. at : p \in 1 .. at' BY <1>1
    <3>. QED BY <1>3, <1>4, <1>6, <3>1, <3>2 DEF LineBreaks
  <2>2. Max(LineBreaks \cup {0}) \in Int
    <3>. DEFINE S == LineBreaks \cup {0}
    <3>1. S # {} /\ \A y \in S : y \in Int /\ y <= at BY <1>1 DEF LineBreaks
    <3>. HIDE DEF S
    <3>2. Max(S) \in S BY <1>1, <3>1, MaxOf
    <3>. QED BY <3>1, <3>2 DEF S
  <2>3. yycolumn' = at' - Max(LineBreaks \cup {0}) + 1 BY <1>1, <1>6, <2>2 DEF ColumnTracked
  <2>. QED BY <1>5, <2>1, <2>3 DEF ColumnTracked
<1>7. CASE yycolumn' = 1 /\ BreaksLine(at)'
  <2>. DEFINE S == LineBreaks' \cup {0}
  <2>1. at' \in S /\ \A y \in S : y \in Int /\ y <= at' BY <1>1, <1>7 DEF LineBreaks
  <2>. HIDE DEF S
  <2>2. Max(S) \in S /\ \A y \in S : y <= Max(S) BY <1>1, <2>1, MaxOf
  <2>3. Max(S) = at'
    <3>1. Max(S) \in Int /\ Max(S) <= at' /\ at' <= Max(S) BY <2>1, <2>2
    <3>. QED BY <1>1, <3>1
  <2>4. yycolumn' = at' - Max(S) + 1 BY <1>1, <1>7, <2>3
  <2>. QED BY <1>5, <2>4 DEF ColumnTracked, S
<1>. QED BY <1>6, <1>7 DEF Advance

(* The start condition tells the rules apart.                              *)
LEMMA RuleStart ==
    ASSUME NEW x
    PROVE  /\ Rule(x) \in {"close", "inside"} => start # "INITIAL" /\ Rule(x) = Comment(x)
           /\ Rule(x) \notin {"close", "newline", "inside", "none"} =>
                 start = "INITIAL" /\ Rule(x) = Initial(x)
           /\ start = "INITIAL" => Rule(x) = Initial(x)
           /\ start # "INITIAL" => Rule(x) = Comment(x)
BY InitialRules, CommentRules DEF Rule

(* The places of what was matched.                                         *)
LEMMA NextPlace ==
    ASSUME Matched
    PROVE  \A p \in at + 1 .. at' : p - 1 \in at .. at' /\ Where'[p] = Place(Where[p - 1], p)'
<1>1. Unfolds' BY WhereIs, PTL
<1>2. at \in Nat /\ at' \in Nat BY DEF Matched
<1>3. \A p \in 1 .. at' : Where'[p] = Place(Where[p - 1], p)' BY <1>1, <1>2 DEF Unfolds
<1>4. \A p \in at + 1 .. at' : p \in 1 .. at' /\ p - 1 \in at .. at' BY <1>2
<1>. QED BY <1>3, <1>4

(* What was matched outside comments and begins none stands in code.       *)
LEMMA CodeAhead ==
    ASSUME Matched, Placed, start = "INITIAL",
           \A p \in 1 .. at : InToken(p)' <=> InToken(p),
           \A p \in at + 1 .. at' : InToken(p)' \/ text[p] # "/"
    PROVE  \A p \in at + 1 .. at' : Where'[p] = "code"
<1>1. /\ at \in Nat /\ at' \in Nat /\ at < at' /\ at' <= Len(text) /\ Len(text) \in Nat
      /\ text' = text
  BY DEF Matched
<1>2. Where'[at] = Where[at]
  <2>1. \A p \in 0 .. at : Where'[p] = Where[p] BY <1>1, SameWhere
  <2>. QED BY <1>1, <2>1
<1>3. CodeRuns' BY CodeFrom, PTL
<1>4. \/ Where'[at] \in {"code", "closed"}
      \/ Where'[at] = "line" /\ text'[at + 1] = "\n"
  <2>1. at < Len(text) BY <1>1
  <2>. QED BY <1>1, <1>2, <2>1 DEF Placed
<1>5. at \in 0 .. at' BY <1>1
<1>6. \A p \in at + 1 .. at' : InToken(p)' \/ text'[p] # "/" BY <1>1
<1>. QED BY <1>1, <1>3, <1>4, <1>5, <1>6 DEF CodeRuns

(* A step that returns a token.                                            *)
LEMMA TokenAdvances ==
    ASSUME TypeOK, IsSeq(tokens), Placed, Matched, start = "INITIAL", start' = start,
           NEW name, NEW value, Return(name, value), ADVANCE_COLUMN
    PROVE  Advance
<1>1. /\ \A p \in 1 .. at : InToken(p)' <=> InToken(p)
      /\ \A p \in at + 1 .. at' : InToken(p)'
  BY OneToken
<1>2. \A p \in at + 1 .. at' : Where'[p] = "code" BY <1>1, CodeAhead
<1>3. \A p \in at + 1 .. at' : Accounted(p)' /\ ~BreaksLine(p)'
  BY <1>1, <1>2 DEF Accounted, BreaksLine, Commented
<1>4. Placed'
  <2>1. at' \in at + 1 .. at' BY DEF Matched
  <2>2. Where'[at'] = "code" BY <1>2, <2>1
  <2>. QED BY <2>2 DEF Placed
<1>. QED BY <1>1, <1>3, <1>4 DEF Advance, ADVANCE_COLUMN

(* Blanks.                                                                 *)
LEMMA BlankAdvances ==
    ASSUME TypeOK, Placed, Matched, Rule(yytext) = "blank", tokens' = tokens, start' = start,
           ADVANCE_COLUMN
    PROVE  Advance
<1>1. start = "INITIAL" /\ AllIn(yytext, Blank) BY RuleStart, InitialRules
<1>2. /\ \A p \in 1 .. at : InToken(p)' <=> InToken(p)
      /\ \A p \in at + 1 .. at' : ~InToken(p)'
  BY NoToken
<1>3. text' = text /\ \A p \in at + 1 .. at' : text[p] \in {"\t", " "}
  BY <1>1 DEF Matched, AllIn, Blank
<1>4. \A p \in at + 1 .. at' : Where'[p] = "code" BY <1>1, <1>2, <1>3, CodeAhead
<1>5. \A p \in at + 1 .. at' : Accounted(p)' /\ ~BreaksLine(p)'
  BY <1>2, <1>3 DEF Accounted, BreaksLine, Blank
<1>6. Placed'
  <2>1. at' \in at + 1 .. at' BY DEF Matched
  <2>2. Where'[at'] = "code" BY <1>4, <2>1
  <2>. QED BY <1>1, <2>2 DEF Placed
<1>. QED BY <1>2, <1>5, <1>6 DEF Advance, ADVANCE_COLUMN

(* In a block comment, the first character of a match does not end it.     *)
LEMMA CommentGoesOn ==
    ASSUME Placed, Matched, start = "COMMENT", \A p \in 1 .. at : InToken(p)' <=> InToken(p)
    PROVE  Where'[at + 1] = "block"
<1>1. /\ text' = text /\ at \in Nat /\ at' \in Nat /\ at < at' /\ at < Len(text)
      /\ at \in 0 .. at
  BY DEF Matched
<1>2. PICK q \in at + 1 .. at' : q = at + 1 /\ q - 1 = at BY <1>1
<1>3. Where'[q] = Place(Where[q - 1], q)' BY NextPlace
<1>4. Where'[q - 1] = Where[at] BY <1>1, <1>2, SameWhere
<1>5. \/ Where[at] = "opened"
      \/ Where[at] = "block" /\ ~(text'[q - 1] = "*" /\ text'[q] = "/")
  BY <1>1, <1>2 DEF Placed
<1>6. Where'[q] = "block" BY <1>3, <1>4, <1>5 DEF Place
<1>. QED BY <1>2, <1>6

(* Line breaks, outside comments and in one.                               *)
LEMMA BreakAdvances ==
    ASSUME TypeOK, Placed, Matched, Rule(yytext) = "newline", tokens' = tokens, start' = start,
           yycolumn' = 1
    PROVE  Advance
<1>1. /\ text' = text /\ at \in Nat /\ at' \in Nat /\ at < at' /\ at' = at + yyleng
      /\ at' \in at + 1 .. at' /\ yyleng \in Nat \ {0}
  BY DEF Matched
<1>2. /\ \A p \in 1 .. at : InToken(p)' <=> InToken(p)
      /\ \A p \in at + 1 .. at' : ~InToken(p)'
  BY NoToken
<1>3. yytext \in NewLines
  <2>1. yytext \in {<<"\r", "\n">>, <<"\n">>} \/ yytext \in NewLines
    BY RuleStart, InitialRules, CommentRules
  <2>. QED BY <2>1 DEF NewLines
<1>4. \A i \in 1 .. yyleng : yytext[i] \in {"\r", "\n"}
  <2>1. DOMAIN yytext = 1 .. yyleng BY DEF Matched
  <2>. QED BY <1>3, <2>1 DEF NewLines
<1>5. \A p \in at + 1 .. at' : text[p] \in {"\r", "\n"} BY <1>4 DEF Matched
<1>6. \A p \in at + 1 .. at' : Accounted(p)' BY <1>1, <1>2, <1>5 DEF Accounted
<1>7. CASE start = "INITIAL"
  <2>1. \A p \in at + 1 .. at' : Where'[p] = "code" BY <1>2, <1>5, <1>7, CodeAhead
  <2>2. Where'[at'] = "code" BY <1>1, <2>1
  <2>3. BreaksLine(at)' BY <1>1, <1>2, <1>5, <2>2 DEF BreaksLine, Commented
  <2>4. Placed' BY <1>7, <2>2 DEF Placed
  <2>. QED BY <1>2, <1>6, <2>3, <2>4 DEF Advance
<1>8. CASE start = "COMMENT"
  <2>1. yytext \in {<<"\r", "\n">>, <<"\n">>} BY <1>8, RuleStart, CommentRules
  <2>2. Len(yytext) = yyleng BY DEF Matched
  <2>3. yytext[yyleng] = "\n" /\ yyleng \in {1, 2} BY <2>1, <2>2
  <2>4. text[at'] = "\n"
    <3>1. yytext[at' - at] = text[at'] BY <1>1 DEF Matched
    <3>2. at' - at = yyleng BY <1>1
    <3>. QED BY <2>3, <3>1, <3>2
  <2>5. BreaksLine(at)' BY <1>1, <1>2, <2>4 DEF BreaksLine
  <2>6. \A p \in at + 1 .. at' : text[p] # "/" BY <1>5
  <2>7. Where'[at + 1] = "block" BY <1>2, <1>8, CommentGoesOn
  <2>8. Where'[at'] = "block"
    <3>1. CASE yyleng = 1 BY <1>1, <2>7, <3>1
    <3>2. CASE yyleng = 2
      <4>1. PICK q \in at + 1 .. at' : q = at' /\ q - 1 = at + 1 BY <1>1, <3>2
      <4>2. Where'[q] = Place(Where[q - 1], q)' BY NextPlace
      <4>3. text'[q] # "/" /\ Where'[q - 1] = "block" BY <1>1, <2>6, <2>7, <4>1
      <4>4. Where'[q] = "block" BY <4>2, <4>3 DEF Place
      <4>. QED BY <4>1, <4>4
    <3>. QED BY <2>3, <3>1, <3>2
  <2>9. Placed' BY <1>1, <1>8, <2>4, <2>8 DEF Placed
  <2>. QED BY <1>2, <1>6, <2>5, <2>9 DEF Advance
<1>. QED BY <1>7, <1>8 DEF TypeOK

(* A line comment: the longest match ends in front of a line break.        *)
LEMMA LineAdvances ==
    ASSUME TypeOK, Placed, Matched, Rule(yytext) = "line", tokens' = tokens, start' = start,
           ADVANCE_COLUMN
    PROVE  Advance
<1>1. start = "INITIAL" /\ IsLineComment(yytext) BY RuleStart, InitialRules
<1>2. /\ \A p \in 1 .. at : InToken(p)' <=> InToken(p)
      /\ \A p \in at + 1 .. at' : ~InToken(p)'
  BY NoToken
<1>3. /\ text' = text /\ at \in Nat /\ at' \in Nat /\ at < at' /\ at' = at + yyleng
      /\ at' \in at + 1 .. at' /\ yyleng \in Nat /\ Len(text) \in Nat /\ at' <= Len(text)
      /\ text \in Inputs
      /\ Len(yytext) = yyleng /\ DOMAIN yytext = 1 .. yyleng
      /\ \A p \in at + 1 .. at' : p - at \in 1 .. yyleng /\ yytext[p - at] = text[p]
      /\ \A n \in 1 .. Len(text) - at : Rule(Ahead(n)) # "none" => n <= yyleng
  BY DEF Matched
<1>4. yyleng > 1 /\ yytext[1] = "/" /\ yytext[2] = "/" /\ \A i \in 1 .. yyleng : yytext[i] # "\n"
  BY <1>1, <1>3 DEF IsLineComment
<1>5. at + 2 <= at' /\ text[at + 1] = "/" /\ text[at + 2] = "/"
  <2>1. at + 1 \in at + 1 .. at' /\ at + 2 \in at + 1 .. at' /\ at + 1 - at = 1 /\ at + 2 - at = 2
    BY <1>3, <1>4
  <2>. QED BY <1>3, <1>4, <2>1
<1>6. \A p \in at + 1 .. at' : text[p] # "\n" BY <1>3, <1>4
<1>7. \A p \in at + 1 .. at' : Where'[p] = "line"
  <2>1. LineRuns' BY LineFrom, PTL
  <2>2. at \in 0 .. at /\ at \in 0 .. at' BY <1>3
  <2>3. Where'[at] = Where[at] BY <1>2, <1>3, <2>2, SameWhere
  <2>4. Where'[at] \in {"code", "closed"} \/ (Where'[at] = "line" /\ text'[at + 1] = "\n")
    <3>1. at < Len(text) BY <1>3
    <3>. QED BY <1>1, <1>3, <2>3, <3>1 DEF Placed
  <2>6. PICK a \in 0 .. at' : a = at BY <2>2
  <2>7. ~InToken(a + 1)'
    <3>1. a + 1 \in at + 1 .. at' BY <1>3, <2>6
    <3>. QED BY <1>2, <3>1
  <2>8. /\ Where'[a] \in {"code", "closed"} \/ (Where'[a] = "line" /\ text'[a + 1] = "\n")
        /\ a + 2 <= at' /\ text'[a + 1] = "/" /\ text'[a + 2] = "/"
        /\ \A p \in a + 1 .. at' : text'[p] # "\n"
    BY <1>3, <1>5, <1>6, <2>4, <2>6
  <2>9. \A p \in a + 1 .. at' : Where'[p] = "line" BY <1>3, <2>1, <2>7, <2>8 DEF LineRuns
  <2>. QED BY <2>6, <2>9
<1>8. \A p \in at + 1 .. at' : Accounted(p)' /\ ~BreaksLine(p)'
  BY <1>2, <1>3, <1>6, <1>7 DEF Accounted, BreaksLine, Commented
<1>9. ASSUME at' < Len(text) PROVE text[at' + 1] = "\n"
  <2>. SUFFICES ASSUME text[at' + 1] # "\n" PROVE FALSE OBVIOUS
  <2>. DEFINE n == yyleng + 1
              x == Ahead(n)
  <2>1. n \in Nat /\ at + n <= Len(text) /\ n \in 1 .. Len(text) - at /\ ~(n <= yyleng) /\ n > 1
        /\ 1 \in 1 .. n /\ 2 \in 1 .. n
    BY <1>3, <1>4, <1>9
  <2>2. at + n = at' + 1 BY <1>3
  <2>. HIDE DEF n
  <2>3. Len(x) = n /\ DOMAIN x = 1 .. n /\ \A i \in 1 .. n : x[i] = text[at + i]
    BY <1>3, <2>1, AheadIs
  <2>. HIDE DEF x
  <2>4. x[1] = "/" /\ x[2] = "/" BY <1>5, <2>1, <2>3
  <2>5. ASSUME NEW i \in 1 .. n PROVE x[i] # "\n"
    <3>1. at + i \in at + 1 .. at' \/ at + i = at' + 1 BY <1>3, <2>1, <2>2
    <3>2. text[at + i] # "\n" BY <1>6, <3>1
    <3>. QED BY <2>3, <3>2
  <2>6. IsLineComment(x) BY <2>1, <2>3, <2>4, <2>5 DEF IsLineComment
  <2>7. Rule(x) # "none" BY <1>1, <2>6, RuleStart, InitialRules
  <2>. QED BY <1>3, <2>1, <2>7 DEF x
<1>10. Placed' BY <1>1, <1>3, <1>7, <1>9 DEF Placed
<1>. QED BY <1>2, <1>8, <1>10 DEF Advance, ADVANCE_COLUMN

(* The text of a match of two characters.                                  *)
LEMMA TwoRead ==
    ASSUME Matched, NEW c, NEW d, yytext = <<c, d>>
    PROVE  at' = at + 2 /\ text[at + 1] = c /\ text[at + 2] = d
<1>1. /\ at \in Nat /\ at' = at + yyleng /\ Len(yytext) = yyleng
      /\ \A p \in at + 1 .. at' : p - at \in 1 .. yyleng /\ yytext[p - at] = text[p]
  BY DEF Matched
<1>2. yyleng = 2 BY <1>1
<1>3. at + 1 \in at + 1 .. at' /\ at + 2 \in at + 1 .. at' /\ at + 1 - at = 1 /\ at + 2 - at = 2
  BY <1>1, <1>2
<1>4. yytext[1] = text[at + 1] /\ yytext[2] = text[at + 2] BY <1>1, <1>3
<1>. QED BY <1>1, <1>2, <1>4

(* A block comment begins.                                                 *)
LEMMA OpenAdvances ==
    ASSUME TypeOK, Placed, Matched, Rule(yytext) = "open", tokens' = tokens, start' = "COMMENT",
           ADVANCE_COLUMN
    PROVE  Advance
<1>1. start = "INITIAL" /\ yytext = <<"/", "*">> BY RuleStart, InitialRules
<1>2. /\ \A p \in 1 .. at : InToken(p)' <=> InToken(p)
      /\ \A p \in at + 1 .. at' : ~InToken(p)'
  BY NoToken
<1>3. at' = at + 2 /\ text[at + 1] = "/" /\ text[at + 2] = "*" BY <1>1, TwoRead
<1>4. text' = text /\ at \in Nat /\ at' \in Nat /\ Len(text) \in Nat /\ at' <= Len(text)
  BY DEF Matched
<1>5. PICK q \in at + 1 .. at' : q = at + 1 /\ q - 1 = at BY <1>3, <1>4
<1>6. PICK r \in at + 1 .. at' : r = at + 2 /\ r - 1 = q BY <1>3, <1>4, <1>5
<1>7. Where'[q] = "slash"
  <2>1. at \in 0 .. at /\ at < Len(text) BY <1>3, <1>4
  <2>2. Where'[q - 1] = Where[at] BY <1>2, <1>3, <1>4, <1>5, <2>1, SameWhere
  <2>3. Where'[q - 1] \in {"code", "closed"} BY <1>1, <1>3, <2>1, <2>2 DEF Placed
  <2>4. ~InToken(q)' /\ text'[q] = "/" /\ q < Len(text') /\ text'[q + 1] = "*"
    BY <1>2, <1>3, <1>4, <1>5
  <2>5. Where'[q] = Place(Where[q - 1], q)' BY NextPlace
  <2>. QED BY <2>3, <2>4, <2>5 DEF Place
<1>8. Where'[r] = "opened"
  <2>1. Where'[r] = Place(Where[r - 1], r)' BY NextPlace
  <2>. QED BY <1>6, <1>7, <2>1 DEF Place
<1>9. \A p \in at + 1 .. at' : p = q \/ p = r BY <1>3, <1>4, <1>5, <1>6
<1>10. \A p \in at + 1 .. at' : Accounted(p)' /\ ~BreaksLine(p)'
  <2>1. text'[q] = "/" /\ text'[r] = "*" BY <1>3, <1>4, <1>5, <1>6
  <2>. QED BY <1>2, <1>7, <1>8, <1>9, <2>1 DEF Accounted, BreaksLine, Commented
<1>11. Placed' BY <1>3, <1>6, <1>8 DEF Placed
<1>. QED BY <1>2, <1>10, <1>11 DEF Advance, ADVANCE_COLUMN

(* It goes on: a "*" that is read alone stands in front of no "/".         *)
LEMMA InsideAdvances ==
    ASSUME TypeOK, Placed, Matched, Rule(yytext) = "inside", tokens' = tokens, start' = start,
           ADVANCE_COLUMN
    PROVE  Advance
<1>1. start = "COMMENT" /\ Len(yytext) = 1 /\ yytext # <<"\n">>
  BY RuleStart, CommentRules DEF TypeOK
<1>2. /\ \A p \in 1 .. at : InToken(p)' <=> InToken(p)
      /\ \A p \in at + 1 .. at' : ~InToken(p)'
  BY NoToken
<1>3. /\ text' = text /\ at \in Nat /\ at' \in Nat /\ Len(text) \in Nat /\ at' <= Len(text)
      /\ text \in Inputs /\ yyleng = 1 /\ at' = at + 1 /\ IsSeq(yytext)
      /\ \A p \in at + 1 .. at' : yytext[p - at] = text[p]
      /\ \A n \in 1 .. Len(text) - at : Rule(Ahead(n)) # "none" => n <= yyleng
  BY <1>1 DEF Matched
<1>4. text[at'] # "\n"
  <2>1. yytext = <<yytext[1]>> BY <1>1, <1>3, Spelled
  <2>2. at' \in at + 1 .. at' /\ at' - at = 1 BY <1>3
  <2>3. yytext[1] = text[at'] BY <1>3, <2>2
  <2>. QED BY <1>1, <2>1, <2>3
<1>5. Where'[at'] = "block" BY <1>1, <1>2, <1>3, CommentGoesOn
<1>6. \A p \in at + 1 .. at' : p = at' BY <1>3
<1>7. \A p \in at + 1 .. at' : Accounted(p)' /\ ~BreaksLine(p)'
  BY <1>2, <1>3, <1>4, <1>5, <1>6 DEF Accounted, BreaksLine, Commented
<1>8. ~(text[at'] = "*" /\ at' < Len(text) /\ text[at' + 1] = "/")
  <2>. SUFFICES ASSUME text[at'] = "*", at' < Len(text), text[at' + 1] = "/" PROVE FALSE OBVIOUS
  <2>1. 2 \in Nat /\ at + 2 <= Len(text) /\ 2 \in 1 .. Len(text) - at /\ ~(2 <= yyleng)
        /\ at + 1 = at' /\ at + 2 = at' + 1
    BY <1>3
  <2>2. IsSeq(Ahead(2)) /\ Len(Ahead(2)) = 2 /\ \A i \in 1 .. 2 : Ahead(2)[i] = text[at + i]
    BY <1>3, <2>1, AheadIs
  <2>3. Ahead(2)[1] = "*" /\ Ahead(2)[2] = "/" BY <2>1, <2>2
  <2>4. Ahead(2) = <<"*", "/">> BY <2>2, <2>3, Spelled
  <2>5. Rule(Ahead(2)) # "none" BY <1>1, <2>4, RuleStart, CommentRules
  <2>. QED BY <1>3, <2>1, <2>5
<1>9. Placed' BY <1>1, <1>3, <1>5, <1>8 DEF Placed
<1>. QED BY <1>2, <1>7, <1>9 DEF Advance, ADVANCE_COLUMN

(* It ends.                                                                *)
LEMMA CloseAdvances ==
    ASSUME TypeOK, Placed, Matched, Rule(yytext) = "close", tokens' = tokens, start' = "INITIAL",
           ADVANCE_COLUMN
    PROVE  Advance
<1>1. start = "COMMENT" /\ yytext = <<"*", "/">> BY RuleStart, CommentRules DEF TypeOK
<1>2. /\ \A p \in 1 .. at : InToken(p)' <=> InToken(p)
      /\ \A p \in at + 1 .. at' : ~InToken(p)'
  BY NoToken
<1>3. at' = at + 2 /\ text[at + 1] = "*" /\ text[at + 2] = "/" BY <1>1, TwoRead
<1>4. text' = text /\ at \in Nat /\ at' \in Nat /\ Len(text) \in Nat /\ at' <= Len(text)
  BY DEF Matched
<1>5. PICK q \in at + 1 .. at' : q = at + 1 BY <1>3, <1>4
<1>6. PICK r \in at + 1 .. at' : r = at + 2 /\ r - 1 = q BY <1>3, <1>4, <1>5
<1>7. Where'[q] = "block" BY <1>1, <1>2, <1>5, CommentGoesOn
<1>8. Where'[r] = "closed"
  <2>1. Where'[r] = Place(Where[r - 1], r)' BY NextPlace
  <2>2. Where'[r - 1] = "block" /\ text'[r - 1] = "*" /\ text'[r] = "/"
    BY <1>3, <1>4, <1>5, <1>6, <1>7
  <2>. QED BY <2>1, <2>2 DEF Place
<1>9. \A p \in at + 1 .. at' : p = q \/ p = r BY <1>3, <1>4, <1>5, <1>6
<1>10. \A p \in at + 1 .. at' : Accounted(p)' /\ ~BreaksLine(p)'
  <2>1. text'[q] = "*" /\ text'[r] = "/" BY <1>3, <1>4, <1>5, <1>6
  <2>. QED BY <1>2, <1>7, <1>8, <1>9, <2>1 DEF Accounted, BreaksLine, Commented
<1>11. Placed' BY <1>3, <1>6, <1>8 DEF Placed
<1>. QED BY <1>2, <1>10, <1>11 DEF Advance, ADVANCE_COLUMN

-----------------------------------------------------------------------------
(* Types.                                                                  *)
Errors(ts) == {i \in DOMAIN ts : ts[i].s = "ERROR"}

(* A token more: in its place, and counted if it is an error.              *)
LEMMA TokenTypes ==
    ASSUME TypeOK, IsSeq(tokens), Matched, NEW name, NEW value, Return(name, value)
    PROVE  /\ IsSeq(tokens')
           /\ \A i \in DOMAIN tokens' :
                 /\ tokens'[i].from \in 1 .. at' /\ tokens'[i].to \in tokens'[i].from .. at'
                 /\ i > 1 => tokens'[i - 1].to < tokens'[i].from
           /\ Cardinality(Errors(tokens')) =
                 Cardinality(Errors(tokens)) + (IF name = "ERROR" THEN 1 ELSE 0)
           /\ Cardinality(Errors(tokens)) \in Nat
<1>. DEFINE n == Len(tokens)
            t == [s |-> name, v |-> value, from |-> at + 1, to |-> at + yyleng]
<1>1. /\ IsSeq(tokens')
      /\ n \in Nat /\ DOMAIN tokens = 1 .. n /\ DOMAIN tokens' = 1 .. n + 1
      /\ \A i \in 1 .. n : tokens'[i] = tokens[i]
      /\ tokens'[n + 1] = t
  BY SeqAppend DEF Return
<1>2. /\ at \in Nat /\ at' = at + yyleng /\ yyleng \in Nat \ {0}
      /\ t.from = at + 1 /\ t.to = at' /\ t.s = name
  BY DEF Matched
<1>3. \A i \in 1 .. n :
         /\ tokens[i].from \in 1 .. at /\ tokens[i].to \in tokens[i].from .. at
         /\ i > 1 => tokens[i - 1].to < tokens[i].from
  BY <1>1 DEF TypeOK
<1>. HIDE DEF n, t
<1>4. ASSUME NEW i \in DOMAIN tokens'
      PROVE  /\ tokens'[i].from \in 1 .. at' /\ tokens'[i].to \in tokens'[i].from .. at'
             /\ i > 1 => tokens'[i - 1].to < tokens'[i].from
  <2>1. CASE i \in 1 .. n
    <3>1. /\ tokens'[i] = tokens[i]
          /\ tokens[i].from \in 1 .. at /\ tokens[i].to \in tokens[i].from .. at
          /\ i > 1 => tokens[i - 1].to < tokens[i].from
      BY <1>1, <1>3, <2>1
    <3>2. i > 1 => tokens'[i - 1] = tokens[i - 1] BY <1>1, <2>1
    <3>. QED BY <1>2, <3>1, <3>2
  <2>2. CASE i = n + 1
    <3>1. tokens'[i].from = at + 1 /\ tokens'[i].to = at' BY <1>1, <1>2, <2>2
    <3>2. ASSUME i > 1 PROVE tokens'[i - 1].to <= at
      <4>1. i - 1 \in 1 .. n BY <1>1, <2>2, <3>2
      <4>2. tokens'[i - 1] = tokens[i - 1] /\ tokens[i - 1].from \in 1 .. at
            /\ tokens[i - 1].to \in tokens[i - 1].from .. at
        BY <1>1, <1>3, <4>1
      <4>. QED BY <1>2, <4>2
    <3>3. ASSUME i > 1 PROVE tokens'[i - 1].to \in Int
      <4>1. i - 1 \in 1 .. n BY <1>1, <2>2, <3>3
      <4>. QED BY <1>1, <1>3, <4>1
    <3>. QED BY <1>2, <3>1, <3>2, <3>3
  <2>. QED BY <1>1, <2>1, <2>2
<1>5. Errors(tokens') = IF name = "ERROR" THEN Errors(tokens) \cup {n + 1} ELSE Errors(tokens)
  <2>1. \A i \in 1 .. n : i \in 1 .. n + 1 BY <1>1
  <2>2. \A i \in 1 .. n + 1 : i \in 1 .. n \/ i = n + 1 BY <1>1
  <2>3. n + 1 \in 1 .. n + 1 BY <1>1
  <2>. QED BY <1>1, <1>2, <2>1, <2>2, <2>3 DEF Errors
<1>6. IsFiniteSet(Errors(tokens)) /\ n + 1 \notin Errors(tokens)
  <2>1. IsFiniteSet(1 .. n) BY <1>1, FS_Interval
  <2>2. Errors(tokens) \subseteq 1 .. n /\ n + 1 \notin 1 .. n BY <1>1 DEF Errors
  <2>. QED BY <2>1, <2>2, FS_Subset
<1>7. Cardinality(Errors(tokens) \cup {n + 1}) = Cardinality(Errors(tokens)) + 1
  BY <1>6, FS_AddElement
<1>8. Cardinality(Errors(tokens)) \in Nat BY <1>6, FS_CardinalityType
<1>9. Cardinality(Errors(tokens')) =
        Cardinality(Errors(tokens)) + (IF name = "ERROR" THEN 1 ELSE 0)
  BY <1>5, <1>7, <1>8
<1>. QED BY <1>1, <1>4, <1>8, <1>9

-----------------------------------------------------------------------------
(* What process_string_literal writes.                                     *)

(* One sequence behind the other.                                          *)
LEMMA SeqConcat ==
    ASSUME NEW s, IsSeq(s), NEW t, IsSeq(t)
    PROVE  IsSeq(s \o t) /\ Len(s) \in Nat /\ Len(t) \in Nat /\ Len(s \o t) = Len(s) + Len(t)
<1>1. PICK S : s \in Seq(S) BY DEF IsSeq
<1>2. PICK T : t \in Seq(T) BY DEF IsSeq
<1>3. s \in Seq(S \cup T) /\ t \in Seq(S \cup T) BY <1>1, <1>2, SeqMonotonic
<1>4. s \o t \in Seq(S \cup T) /\ Len(s \o t) = Len(s) + Len(t) BY <1>3, ConcatProperties
<1>5. Len(s) \in Nat /\ Len(t) \in Nat BY <1>3, LenProperties
<1>. QED BY <1>4, <1>5 DEF IsSeq

(* An escape is written as one character or two.                           *)
LEMMA EscapeLength == ASSUME NEW c PROVE IsSeq(Unescape(c)) /\ Len(Unescape(c)) \in {1, 2}
<1>1. Unescape(c) \in {<<Named[c]>>, <<c>>, <<"\\", c>>} BY DEF Unescape
<1>2. <<Named[c]>> \in Seq({Named[c]}) /\ <<c>> \in Seq({c}) /\ <<"\\", c>> \in Seq({"\\", c}) OBVIOUS
<1>3. Len(<<Named[c]>>) = 1 /\ Len(<<c>>) = 1 /\ Len(<<"\\", c>>) = 2 OBVIOUS
<1>4. IsSeq(<<Named[c]>>) /\ IsSeq(<<c>>) /\ IsSeq(<<"\\", c>>) BY <1>2 DEF IsSeq
<1>. QED BY <1>1, <1>3, <1>4

(* What is written does not depend on what is written before it, so that   *)
(* the function of process_string_literal is the one its definition        *)
(* describes.                                                              *)
LEMMA DecodedIs ==
    ASSUME NEW x, Len(x) \in Nat \ {0}
    PROVE  \E str : /\ process_string_literal(x) = str[2]
                    /\ \A i \in 2 .. Len(x) + 1 : str[i] = Decoded(x, str, i)
<1>. DEFINE n == Len(x)
            From(f, k) == f = [i \in k .. n + 1 |-> Decoded(x, f, i)]
            S == {m \in 0 .. n - 1 : ~\E f : From(f, n + 1 - m)}
<1>1. n \in Nat \ {0} OBVIOUS
<1>. HIDE DEF n
<1>2. S = {}
  <2>. SUFFICES ASSUME S # {} PROVE FALSE OBVIOUS
  <2>1. S \subseteq Nat BY <1>1
  <2>. HIDE DEF S
  <2>2. PICK m \in S : \A k \in S : m <= k BY <2>1, LeastNumber
  <2>3. m \in 0 .. n - 1 /\ ~\E f : From(f, n + 1 - m) BY DEF S
  <2>4. CASE m = 0
    <3>. DEFINE g == [i \in n + 1 .. n + 1 |-> <<>>]
    <3>1. \A i \in n + 1 .. n + 1 : Decoded(x, g, i) = <<>> BY <1>1 DEF Decoded, n
    <3>2. g = [i \in n + 1 .. n + 1 |-> Decoded(x, g, i)] BY <3>1
    <3>3. n + 1 - m = n + 1 BY <1>1, <2>4
    <3>. HIDE DEF g
    <3>. QED BY <2>3, <3>2, <3>3
  <2>5. CASE m # 0
    <3>. DEFINE k == n + 1 - m
    <3>1. m - 1 \in 0 .. n - 1 /\ n + 1 - (m - 1) = k + 1 /\ ~(m <= m - 1) BY <1>1, <2>3, <2>5
    <3>2. PICK f : From(f, k + 1)
      <4>1. m - 1 \notin S BY <2>2, <3>1
      <4>2. \E f : From(f, n + 1 - (m - 1)) BY <3>1, <4>1 DEF S
      <4>. QED BY <3>1, <4>2
    <3>3. k \in 2 .. n BY <1>1, <2>3, <2>5
    <3>4. f = [i \in k + 1 .. n + 1 |-> Decoded(x, f, i)] BY <3>2
    <3>. HIDE DEF k
    <3>. DEFINE g == [i \in k .. n + 1 |-> IF i > k THEN f[i] ELSE Decoded(x, f, k)]
    <3>5. \A i \in k + 1 .. n + 1 : i \in k .. n + 1 /\ i > k BY <1>1, <3>3
    <3>6. \A i \in k + 1 .. n + 1 : g[i] = f[i] BY <3>5
    <3>7. g[k] = Decoded(x, f, k) BY <1>1, <3>3
    <3>8. DOMAIN g = k .. n + 1 /\ g = [i \in k .. n + 1 |-> g[i]] OBVIOUS
    <3>. HIDE DEF g
    <3>9. ASSUME NEW i \in k .. n + 1 PROVE Decoded(x, g, i) = Decoded(x, f, i)
      <4>1. CASE i >= n BY <4>1 DEF Decoded, n
      <4>2. CASE i < n
        <5>1. i + 1 \in k + 1 .. n + 1 /\ i + 2 \in k + 1 .. n + 1 BY <1>1, <3>3, <4>2
        <5>2. g[i + 1] = f[i + 1] /\ g[i + 2] = f[i + 2] BY <3>6, <5>1
        <5>. QED BY <5>2 DEF Decoded
      <4>. QED BY <1>1, <3>3, <4>1, <4>2
    <3>10. ASSUME NEW i \in k .. n + 1 PROVE g[i] = Decoded(x, g, i)
      <4>1. CASE i = k BY <3>7, <3>9, <4>1
      <4>2. CASE i # k
        <5>1. i \in k + 1 .. n + 1 BY <1>1, <3>3, <4>2
        <5>2. f[i] = Decoded(x, f, i) BY <3>4, <5>1
        <5>. QED BY <3>6, <3>9, <5>1, <5>2
      <4>. QED BY <4>1, <4>2
    <3>11. From(g, k) BY <3>8, <3>10
    <3>. QED BY <2>3, <3>11 DEF k
  <2>. QED BY <2>4, <2>5
<1>3. n - 1 \in 0 .. n - 1 /\ n + 1 - (n - 1) = 2 BY <1>1
<1>4. \E f : From(f, 2) BY <1>2, <1>3
<1>. DEFINE str == CHOOSE f : f = [i \in 2 .. n + 1 |-> Decoded(x, f, i)]
<1>5. str = [i \in 2 .. n + 1 |-> Decoded(x, str, i)] BY <1>4
<1>6. process_string_literal(x) = str[2] BY DEF process_string_literal, n
<1>. HIDE DEF str
<1>7. \A i \in 2 .. n + 1 : str[i] = Decoded(x, str, i) BY <1>5
<1>. QED BY <1>6, <1>7 DEF n

(* From a character on no more is written than there is to read before the *)
(* closing quote.                                                          *)
LEMMA DecodedLength ==
    ASSUME NEW x, IsSeq(x), Len(x) > 1
    PROVE  IsSeq(process_string_literal(x)) /\ Len(process_string_literal(x)) + 2 <= Len(x)
<1>. DEFINE n == Len(x)
<1>1. n \in Nat /\ n > 1 BY LenProperties DEF IsSeq
<1>2. PICK str : /\ process_string_literal(x) = str[2]
                 /\ \A i \in 2 .. n + 1 : str[i] = Decoded(x, str, i)
  BY <1>1, DecodedIs
<1>. HIDE DEF n
<1>. DEFINE Room(i) == IF i >= n THEN 0 ELSE n - i
            Fits(i) == IsSeq(str[i]) /\ Len(str[i]) <= Room(i)
            S == {m \in 0 .. n - 1 : ~Fits(n + 1 - m)}
<1>3. S = {}
  <2>. SUFFICES ASSUME S # {} PROVE FALSE OBVIOUS
  <2>1. S \subseteq Nat BY <1>1
  <2>. HIDE DEF S
  <2>2. PICK m \in S : \A k \in S : m <= k BY <2>1, LeastNumber
  <2>. DEFINE i == n + 1 - m
  <2>3. m \in 0 .. n - 1 /\ ~Fits(i) BY DEF S
  <2>4. i \in 2 .. n + 1 BY <1>1, <2>3
  <2>5. ASSUME NEW j \in i + 1 .. n + 1 PROVE Fits(j)
    <3>. DEFINE k == n + 1 - j
    <3>1. k \in 0 .. n - 1 /\ ~(m <= k) /\ n + 1 - k = j BY <1>1, <2>3, <2>4
    <3>. HIDE DEF k
    <3>2. k \notin S BY <2>2, <3>1
    <3>3. Fits(n + 1 - k) BY <3>1, <3>2 DEF S
    <3>. QED BY <3>1, <3>3
  <2>. HIDE DEF i
  <2>6. str[i] = Decoded(x, str, i) BY <1>2, <2>4
  <2>7. IsSeq(<<>>) /\ Len(<<>>) = 0
    <3>1. <<>> \in Seq({}) BY EmptySeq
    <3>. QED BY <3>1 DEF IsSeq
  <2>8. CASE i >= n
    <3>1. str[i] = <<>> BY <2>6, <2>8 DEF Decoded, n
    <3>. QED BY <2>3, <2>7, <2>8, <3>1
  <2>9. CASE i < n /\ x[i] # "\\"
    <3>1. str[i] = <<x[i]>> \o str[i + 1] BY <1>1, <2>4, <2>6, <2>9 DEF Decoded, n
    <3>2. i + 1 \in i + 1 .. n + 1 BY <1>1, <2>4, <2>9
    <3>3. IsSeq(str[i + 1]) /\ Len(str[i + 1]) <= Room(i + 1) BY <2>5, <3>2
    <3>4. IsSeq(<<x[i]>>) /\ Len(<<x[i]>>) = 1
      <4>1. <<x[i]>> \in Seq({x[i]}) /\ Len(<<x[i]>>) = 1 OBVIOUS
      <4>. QED BY <4>1 DEF IsSeq
    <3>5. IsSeq(str[i]) /\ Len(str[i + 1]) \in Nat /\ Len(str[i]) = 1 + Len(str[i + 1])
      BY <3>1, <3>3, <3>4, SeqConcat
    <3>6. 1 + Room(i + 1) <= Room(i) BY <1>1, <2>4, <2>9
    <3>. QED BY <1>1, <2>3, <2>4, <3>3, <3>5, <3>6
  <2>10. CASE i < n /\ x[i] = "\\" /\ i + 1 >= n
    <3>1. str[i] = <<>> BY <1>1, <2>4, <2>6, <2>10 DEF Decoded, n
    <3>2. 0 <= Room(i) BY <1>1, <2>4, <2>10
    <3>. QED BY <2>3, <2>7, <3>1, <3>2
  <2>11. CASE i < n /\ x[i] = "\\" /\ i + 1 < n
    <3>0. ~(i >= n) /\ ~(i + 1 >= n) BY <1>1, <2>4, <2>11
    <3>1. str[i] = Unescape(x[i + 1]) \o str[i + 2] BY <2>6, <2>11, <3>0 DEF Decoded, n
    <3>2. i + 2 \in i + 1 .. n + 1 BY <1>1, <2>4, <2>11
    <3>3. IsSeq(str[i + 2]) /\ Len(str[i + 2]) <= Room(i + 2) BY <2>5, <3>2
    <3>4. IsSeq(Unescape(x[i + 1])) /\ Len(Unescape(x[i + 1])) \in {1, 2} BY EscapeLength
    <3>5. /\ IsSeq(str[i]) /\ Len(str[i + 2]) \in Nat
          /\ Len(str[i]) = Len(Unescape(x[i + 1])) + Len(str[i + 2])
      BY <3>1, <3>3, <3>4, SeqConcat
    <3>6. 2 + Room(i + 2) <= Room(i) BY <1>1, <2>4, <2>11
    <3>7. Room(i) \in Int /\ Room(i + 2) \in Int BY <1>1, <2>4
    <3>. DEFINE a == Len(str[i + 2])
                u == Len(Unescape(x[i + 1]))
                r == Room(i + 2)
                q == Room(i)
                l == Len(str[i])
    <3>8. a \in Nat /\ u \in {1, 2} /\ l = u + a BY <3>4, <3>5
    <3>9. r \in Int /\ q \in Int /\ a <= r /\ 2 + r <= q BY <3>3, <3>6, <3>7
    <3>. HIDE DEF a, u, r, q, l
    <3>10. l <= q BY <3>8, <3>9
    <3>. QED BY <2>3, <3>5, <3>10 DEF l, q
  <2>. QED BY <1>1, <2>4, <2>8, <2>9, <2>10, <2>11
<1>4. n - 1 \in 0 .. n - 1 /\ n + 1 - (n - 1) = 2 BY <1>1
<1>5. Fits(2) BY <1>3, <1>4
<1>6. Len(str[2]) \in Nat
  <2>1. IsSeq(str[2]) BY <1>5
  <2>. QED BY <2>1, LenProperties DEF IsSeq
<1>7. Room(2) + 2 <= n BY <1>1
<1>. QED BY <1>1, <1>2, <1>5, <1>6, <1>7 DEF n

-----------------------------------------------------------------------------
(* The inductive invariant.                                                *)
IInv ==
    /\ TypeOK /\ IsSeq(tokens)
    /\ Placed
    /\ NothingSkipped /\ ColumnTracked
    /\ StringFits

(* It holds at the beginning of a file.                                    *)
LEMMA InitInv == Init => IInv
<1>. SUFFICES ASSUME Init PROVE IInv OBVIOUS
<1>1. /\ text \in Inputs /\ at = 0 /\ start = "INITIAL" /\ yycolumn = 1 /\ tokens = <<>>
      /\ g_parse_errors = 0 /\ status = "scanning" /\ Len(text) \in Nat
  BY File DEF Init
<1>2. DOMAIN tokens = {} BY <1>1
<1>3. TypeOK
  <2>1. {i \in DOMAIN tokens : tokens[i].s = "ERROR"} = {} BY <1>2
  <2>2. Cardinality({i \in DOMAIN tokens : tokens[i].s = "ERROR"}) = 0 BY <2>1, FS_EmptySet
  <2>. QED BY <1>1, <1>2, <2>2 DEF TypeOK
<1>4. IsSeq(tokens)
  <2>1. tokens \in Seq({}) BY <1>1
  <2>. QED BY <2>1 DEF IsSeq
<1>5. Placed
  <2>1. Where[0] = "code" BY <1>1, WhereIs DEF Unfolds
  <2>. QED BY <1>1, <2>1 DEF Placed
<1>6. NothingSkipped BY <1>1 DEF NothingSkipped
<1>7. ColumnTracked
  <2>1. LineBreaks \cup {0} = {0} BY <1>1 DEF LineBreaks
  <2>2. Max({0}) = 0
    <3>1. {0} # {} /\ 0 \in Int /\ \A y \in {0} : y \in Int /\ y <= 0 OBVIOUS
    <3>2. Max({0}) \in {0} BY <3>1, MaxOf
    <3>. QED BY <3>2
  <2>3. Max(LineBreaks \cup {0}) = 0 BY <2>1, <2>2
  <2>. QED BY <1>1, <2>3 DEF ColumnTracked
<1>8. StringFits BY <1>2 DEF StringFits
<1>. QED BY <1>3, <1>4, <1>5, <1>6, <1>7, <1>8 DEF IInv

(* A step that returns a token keeps it.                                   *)
LEMMA TokenKeeps ==
    ASSUME IInv, Matched, start = "INITIAL", start' = start,
           NEW name, NEW value, Return(name, value), ADVANCE_COLUMN,
           g_parse_errors' = g_parse_errors + (IF name = "ERROR" THEN 1 ELSE 0),
           name = "STRING_LIT" => Len(value) + 1 <= yyleng
    PROVE  IInv'
<1>1. TypeOK /\ IsSeq(tokens) /\ Placed /\ NothingSkipped /\ ColumnTracked /\ StringFits BY DEF IInv
<1>2. Advance BY <1>1, TokenAdvances
<1>3. NothingSkipped' /\ ColumnTracked' BY <1>1, <1>2, Advanced DEF TypeOK
<1>4. /\ IsSeq(tokens')
      /\ \A i \in DOMAIN tokens' :
            /\ tokens'[i].from \in 1 .. at' /\ tokens'[i].to \in tokens'[i].from .. at'
            /\ i > 1 => tokens'[i - 1].to < tokens'[i].from
      /\ Cardinality(Errors(tokens')) =
            Cardinality(Errors(tokens)) + (IF name = "ERROR" THEN 1 ELSE 0)
  BY <1>1, TokenTypes
<1>5. TypeOK'
  <2>1. /\ text' \in Inputs /\ at' \in 0 .. Len(text') /\ yycolumn' \in Nat \ {0}
        /\ status' \in {"scanning", "ended", "exited"}
    BY <1>1 DEF TypeOK, Matched, ADVANCE_COLUMN
  <2>2. g_parse_errors = Cardinality(Errors(tokens)) BY <1>1 DEF TypeOK, Errors
  <2>3. g_parse_errors' = Cardinality(Errors(tokens')) BY <1>4, <2>2
  <2>. QED BY <1>1, <1>4, <2>1, <2>3 DEF TypeOK, Errors
<1>6. StringFits'
  <2>. DEFINE n == Len(tokens)
              t == [s |-> name, v |-> value, from |-> at + 1, to |-> at + yyleng]
  <2>1. /\ n \in Nat /\ DOMAIN tokens = 1 .. n /\ DOMAIN tokens' = 1 .. n + 1
        /\ \A i \in 1 .. n : tokens'[i] = tokens[i]
        /\ tokens'[n + 1] = t
    BY <1>1, SeqAppend DEF Return
  <2>2. t.s = "STRING_LIT" => Len(t.v) + 1 <= t.to - t.from + 1
    <3>1. t.s = name /\ t.v = value /\ t.from = at + 1 /\ t.to = at + yyleng OBVIOUS
    <3>. HIDE DEF t
    <3>2. ASSUME NEW a \in Int, NEW l \in Int, t.from = a + 1, t.to = a + l
          PROVE  t.to - t.from + 1 = l
      BY <3>2
    <3>3. t.to - t.from + 1 = yyleng
      <4>1. at \in Int /\ yyleng \in Int BY DEF Matched
      <4>. QED BY <3>1, <3>2, <4>1
    <3>4. Len(t.v) = Len(value) BY <3>1
    <3>. QED BY <3>1, <3>3, <3>4
  <2>. HIDE DEF n, t
  <2>3. ASSUME NEW i \in 1 .. n + 1, tokens'[i].s = "STRING_LIT"
        PROVE  Len(tokens'[i].v) + 1 <= tokens'[i].to - tokens'[i].from + 1
    <3>1. CASE i = n + 1 BY <2>1, <2>2, <2>3, <3>1
    <3>2. CASE i # n + 1
      <4>1. i \in 1 .. n BY <2>1, <3>2
      <4>2. tokens'[i] = tokens[i] /\ i \in DOMAIN tokens BY <2>1, <4>1
      <4>. QED BY <1>1, <2>3, <4>2 DEF StringFits
    <3>. QED BY <3>1, <3>2
  <2>. QED BY <2>1, <2>3 DEF StringFits
<1>. QED BY <1>2, <1>3, <1>4, <1>5, <1>6 DEF IInv, Advance

(* A step that returns none keeps it.                                      *)
LEMMA SkipKeeps ==
    ASSUME IInv, Matched, Advance, tokens' = tokens, g_parse_errors' = g_parse_errors,
           start' \in {"INITIAL", "COMMENT"}
    PROVE  IInv'
<1>1. TypeOK /\ IsSeq(tokens) /\ Placed /\ NothingSkipped /\ ColumnTracked /\ StringFits BY DEF IInv
<1>2. NothingSkipped' /\ ColumnTracked' BY <1>1, Advanced DEF TypeOK
<1>3. TypeOK'
  <2>1. /\ text' \in Inputs /\ at' \in 0 .. Len(text')
        /\ status' \in {"scanning", "ended", "exited"} /\ at \in Nat /\ at' \in Nat /\ at < at'
    BY <1>1 DEF TypeOK, Matched
  <2>2. yycolumn' \in Nat \ {0} BY <1>1 DEF TypeOK, Matched, Advance
  <2>3. ASSUME NEW i \in DOMAIN tokens
        PROVE  /\ tokens[i].from \in 1 .. at' /\ tokens[i].to \in tokens[i].from .. at'
               /\ i > 1 => tokens[i - 1].to < tokens[i].from
    <3>1. /\ tokens[i].from \in 1 .. at /\ tokens[i].to \in tokens[i].from .. at
          /\ i > 1 => tokens[i - 1].to < tokens[i].from
      BY <1>1 DEF TypeOK
    <3>. QED BY <2>1, <3>1
  <2>. QED BY <1>1, <2>1, <2>2, <2>3 DEF TypeOK
<1>4. StringFits' BY <1>1 DEF StringFits
<1>. QED BY <1>1, <1>2, <1>3, <1>4 DEF IInv, Advance

(* Every step keeps it.                                                    *)
LEMMA NextInv == IInv /\ [Next]_vars => IInv'
<1>. SUFFICES ASSUME IInv, [Next]_vars PROVE IInv' OBVIOUS
<1>1. TypeOK /\ IsSeq(tokens) /\ Placed BY DEF IInv
<1>2. ASSUME NEW rule \in {"keyword", "float", "int", "string", "ident", "operator"},
             NEW name, NEW value, Token(rule, name, value),
             name # "ERROR", name = "STRING_LIT" => Len(value) + 1 <= yyleng
      PROVE  IInv'
  <2>1. /\ Match({rule}) /\ Return(name, value) /\ ADVANCE_COLUMN
        /\ start' = start /\ g_parse_errors' = g_parse_errors
    BY <1>2 DEF Token
  <2>2. Matched /\ Rule(yytext) \in {rule} BY <1>1, <2>1, MatchIs
  <2>3. start = "INITIAL" BY <2>2, RuleStart
  <2>4. g_parse_errors' = g_parse_errors + (IF name = "ERROR" THEN 1 ELSE 0)
    <3>1. IsFiniteSet(Errors(tokens))
      <4>1. Len(tokens) \in Nat /\ DOMAIN tokens = 1 .. Len(tokens) BY <1>1, SeqAppend
      <4>2. IsFiniteSet(1 .. Len(tokens)) /\ Errors(tokens) \subseteq 1 .. Len(tokens)
        BY <4>1, FS_Interval DEF Errors
      <4>. QED BY <4>2, FS_Subset
    <3>2. g_parse_errors = Cardinality(Errors(tokens)) BY <1>1 DEF TypeOK, Errors
    <3>3. g_parse_errors \in Nat BY <3>1, <3>2, FS_CardinalityType
    <3>. QED BY <1>2, <2>1, <3>3
  <2>. QED BY <1>2, <2>1, <2>2, <2>3, <2>4, TokenKeeps
<1>3. ASSUME ScanToken PROVE IInv'
  <2>1. CASE Token("keyword", Keywords[yytext], yytext)
    <3>1. Matched /\ Rule(yytext) = "keyword" BY <1>1, <2>1, MatchIs DEF Token
    <3>2. yytext \in DOMAIN Keywords BY <3>1, RuleStart, InitialRules
    <3>3. Keywords[yytext] \notin {"ERROR", "STRING_LIT"} BY <3>2, ScannerAssumption
    <3>. QED BY <1>2, <2>1, <3>3
  <2>2. CASE Token("float", "FLOAT_LIT", yytext) BY <1>2, <2>2
  <2>3. CASE Token("int", "INT_LIT", ToInt(strtol(yytext))) BY <1>2, <2>3
  <2>4. CASE Token("string", "STRING_LIT", process_string_literal(yytext))
    <3>1. Matched /\ Rule(yytext) = "string" BY <1>1, <2>4, MatchIs DEF Token
    <3>2. IsString(yytext) BY <3>1, RuleStart, InitialRules
    <3>3. IsSeq(yytext) /\ Len(yytext) > 1 /\ Len(yytext) = yyleng /\ yyleng \in Nat
      BY <3>1, <3>2 DEF IsString, Matched
    <3>. DEFINE v == process_string_literal(yytext)
    <3>4. IsSeq(v) /\ Len(v) + 2 <= yyleng BY <3>3, DecodedLength
    <3>5. Len(v) \in Nat BY <3>4, LenProperties DEF IsSeq
    <3>. HIDE DEF v
    <3>6. Len(v) + 1 <= yyleng BY <3>3, <3>4, <3>5
    <3>. QED BY <1>2, <2>4, <3>6 DEF v
  <2>5. CASE Token("ident", "IDENT", yytext) BY <1>2, <2>5
  <2>6. CASE Token("operator", Operators[yytext], yytext)
    <3>1. Matched /\ Rule(yytext) = "operator" BY <1>1, <2>6, MatchIs DEF Token
    <3>2. yytext \in DOMAIN Operators BY <3>1, RuleStart, InitialRules
    <3>3. Operators[yytext] \notin {"ERROR", "STRING_LIT"} BY <3>2, ScannerAssumption
    <3>. QED BY <1>2, <2>6, <3>3
  <2>. QED BY <1>3, <2>1, <2>2, <2>3, <2>4, <2>5, <2>6 DEF ScanToken
<1>4. ASSUME Skip PROVE IInv'
  <2>1. /\ Matched /\ Rule(yytext) \in {"blank", "line"} /\ ADVANCE_COLUMN
        /\ tokens' = tokens /\ start' = start /\ g_parse_errors' = g_parse_errors
    BY <1>1, <1>4, MatchIs DEF Skip
  <2>2. Advance BY <1>1, <2>1, BlankAdvances, LineAdvances
  <2>. QED BY <1>1, <2>1, <2>2, SkipKeeps DEF TypeOK
<1>5. ASSUME NewLine PROVE IInv'
  <2>1. /\ Matched /\ Rule(yytext) = "newline" /\ yycolumn' = 1
        /\ tokens' = tokens /\ start' = start /\ g_parse_errors' = g_parse_errors
    BY <1>1, <1>5, MatchIs DEF NewLine
  <2>2. Advance BY <1>1, <2>1, BreakAdvances
  <2>. QED BY <1>1, <2>1, <2>2, SkipKeeps DEF TypeOK
<1>6. ASSUME Unknown PROVE IInv'
  <2>1. /\ Matched /\ Rule(yytext) = "unknown" /\ Return("ERROR", yytext) /\ ADVANCE_COLUMN
        /\ start' = start /\ g_parse_errors' = g_parse_errors + 1
    BY <1>1, <1>6, MatchIs DEF Unknown
  <2>2. start = "INITIAL" BY <2>1, RuleStart
  <2>3. g_parse_errors' = g_parse_errors + (IF "ERROR" = "ERROR" THEN 1 ELSE 0) BY <2>1
  <2>4. "ERROR" = "STRING_LIT" => Len(yytext) + 1 <= yyleng OBVIOUS
  <2>. QED BY <2>1, <2>2, <2>3, <2>4, TokenKeeps
<1>7. ASSUME OpenComment PROVE IInv'
  <2>1. /\ Matched /\ Rule(yytext) = "open" /\ ADVANCE_COLUMN
        /\ tokens' = tokens /\ start' = "COMMENT" /\ g_parse_errors' = g_parse_errors
    BY <1>1, <1>7, MatchIs DEF OpenComment
  <2>2. Advance BY <1>1, <2>1, OpenAdvances
  <2>. QED BY <2>1, <2>2, SkipKeeps
<1>8. ASSUME InComment PROVE IInv'
  <2>1. /\ Matched /\ Rule(yytext) = "inside" /\ ADVANCE_COLUMN
        /\ tokens' = tokens /\ start' = start /\ g_parse_errors' = g_parse_errors
    BY <1>1, <1>8, MatchIs DEF InComment
  <2>2. Advance BY <1>1, <2>1, InsideAdvances
  <2>. QED BY <1>1, <2>1, <2>2, SkipKeeps DEF TypeOK
<1>9. ASSUME CloseComment PROVE IInv'
  <2>1. /\ Matched /\ Rule(yytext) = "close" /\ ADVANCE_COLUMN
        /\ tokens' = tokens /\ start' = "INITIAL" /\ g_parse_errors' = g_parse_errors
    BY <1>1, <1>9, MatchIs DEF CloseComment
  <2>2. Advance BY <1>1, <2>1, CloseAdvances
  <2>. QED BY <2>1, <2>2, SkipKeeps
<1>10. ASSUME UNCHANGED <<text, at, start, yycolumn, tokens, g_parse_errors>>,
              status' \in {"scanning", "ended", "exited"}
       PROVE  IInv'
  <2>1. TypeOK' BY <1>1, <1>10 DEF TypeOK
  <2>2. IsSeq(tokens') BY <1>1, <1>10
  <2>3. \A p : InToken(p)' <=> InToken(p) BY <1>10 DEF InToken
  <2>4. at \in Nat /\ at \in 0 .. at /\ \A p \in 1 .. at : p \in 0 .. at BY <1>1, File DEF TypeOK
  <2>5. \A p \in 0 .. at : Where'[p] = Where[p] BY <1>10, <2>3, <2>4, SameWhere
  <2>6. Placed'
    <3>1. Where'[at'] = Where[at] BY <1>10, <2>4, <2>5
    <3>. QED BY <1>1, <1>10, <3>1 DEF Placed
  <2>7. \A p \in 1 .. at :
           (Accounted(p)' <=> Accounted(p)) /\ (BreaksLine(p)' <=> BreaksLine(p))
    BY <1>10, <2>3, <2>4, <2>5 DEF Accounted, BreaksLine, Commented
  <2>8. NothingSkipped' BY <1>10, <2>7 DEF IInv, NothingSkipped
  <2>9. ColumnTracked'
    <3>1. LineBreaks' = LineBreaks BY <1>10, <2>7 DEF LineBreaks
    <3>. QED BY <1>10, <3>1 DEF IInv, ColumnTracked
  <2>10. StringFits' BY <1>10 DEF IInv, StringFits
  <2>. QED BY <2>1, <2>2, <2>6, <2>8, <2>9, <2>10 DEF IInv
<1>11. ASSUME EndOfFile PROVE IInv' BY <1>10, <1>11 DEF EndOfFile
<1>12. ASSUME Finish \/ UNCHANGED vars PROVE IInv' BY <1>1, <1>10, <1>12 DEF Finish, vars, TypeOK
<1>. QED BY <1>3, <1>4, <1>5, <1>6, <1>7, <1>8, <1>9, <1>11, <1>12 DEF Next

(* The invariant.                                                          *)
LEMMA Invariance == Spec => []IInv
BY InitInv, NextInv, PTL DEF Spec

(* The scanner's tokens lie in the text one behind the other, it never     *)
(* reads beyond the end of the file, and the errors it has counted are the *)
(* tokens ERROR.                                                           *)
THEOREM Typing == Spec => []TypeOK
<1>1. IInv => TypeOK BY DEF IInv
<1>. QED BY <1>1, Invariance, PTL

(* Whatever the file, every character read is a blank, a line break, in a  *)
(* comment or in a token, and none of a comment is in a token.             *)
THEOREM Coverage == Spec => []NothingSkipped
<1>1. IInv => NothingSkipped BY DEF IInv
<1>. QED BY <1>1, Invariance, PTL

(* The column in the messages is the distance from the last line break     *)
(* that is neither in a string nor a lone carriage return in a comment.    *)
THEOREM Columns == Spec => []ColumnTracked
<1>1. IInv => ColumnTracked BY DEF IInv
<1>. QED BY <1>1, Invariance, PTL

(* process_string_literal never writes behind the end of its buffer.       *)
THEOREM StringsFit == Spec => []StringFits
<1>1. IInv => StringFits BY DEF IInv
<1>. QED BY <1>1, Invariance, PTL

-----------------------------------------------------------------------------
(* The parser, on token sequences.                                         *)
CONSTANTS Names, Files
VARIABLES input, rest, stack, g_params_buf, g_program_ast, parsing

P == INSTANCE Parser WITH Inputs <- Files, status <- parsing

(* A sequence of tokens, as Parser assumes its inputs are.                 *)
TokenText(x) == x \in Seq({x[i] : i \in DOMAIN x}) /\ \A i \in DOMAIN x : P!IsToken(x[i])

-----------------------------------------------------------------------------
(* Sequences whose elements are of no particular set.                      *)
LEMMA IsSeqFacts ==
    ASSUME NEW s, IsSeq(s)
    PROVE  /\ Len(s) \in Nat /\ DOMAIN s = 1 .. Len(s)
           /\ s = <<>> <=> Len(s) = 0
<1>1. PICK S : s \in Seq(S) BY DEF IsSeq
<1>. QED BY <1>1, LenProperties, EmptySeq

(* The stack after a reduction: what is below the right side stays.         *)
LEMMA Spliced ==
    ASSUME NEW s, IsSeq(s), NEW m \in 0 .. Len(s), NEW e
    PROVE  LET t == Append(SubSeq(s, 1, m), e)
           IN  /\ IsSeq(t) /\ Len(t) = m + 1 /\ DOMAIN t = 1 .. m + 1
               /\ t[m + 1] = e /\ \A i \in 1 .. m : t[i] = s[i]
<1>1. PICK S : s \in Seq(S) BY DEF IsSeq
<1>. DEFINE u == SubSeq(s, 1, m)
<1>2. Len(s) \in Nat /\ DOMAIN s = 1 .. Len(s) BY <1>1, LenProperties
<1>3. u \in Seq(S \cup {e}) /\ Len(u) = m /\ \A i \in 1 .. m : u[i] = s[i]
  <2>1. s \in Seq(S \cup {e}) BY <1>1, SeqMonotonic
  <2>2. /\ SubSeq(s, 1, m) \in Seq(S \cup {e})
        /\ Len(SubSeq(s, 1, m)) = IF 1 <= m THEN m - 1 + 1 ELSE 0
        /\ \A i \in 1 .. m - 1 + 1 : SubSeq(s, 1, m)[i] = s[1 + i - 1]
    BY <1>2, <2>1, SubSeqProperties
  <2>. QED BY <1>2, <2>2
<1>. HIDE DEF u
<1>4. Append(u, e) \in Seq(S \cup {e}) BY <1>3, AppendProperties
<1>5. /\ Len(Append(u, e)) = m + 1 /\ Append(u, e)[m + 1] = e
      /\ \A i \in 1 .. m : Append(u, e)[i] = u[i]
  BY <1>3, AppendProperties
<1>. QED BY <1>3, <1>4, <1>5, LenProperties DEF IsSeq, u

-----------------------------------------------------------------------------
(* The trees: expressions and statements of the shapes of the grammar, and *)
(* what a symbol of the stack carries of them.                             *)
Grammar(E, S) ==
    /\ \A e \in E : P!ExprShape(e, E)
    /\ \A s \in S : P!StmtShape(s, E, S)

Decls(S) == {d \in S : d.kind = "decl"}
Arguments(S) == {d \in S : d.kind = "expr"}
Block(v, S) == v.kind = "block" /\ v.stmts \in Seq(S)

Carries(y, E, S) ==
    /\ y.s \in P!Tokens \cup P!Partial
    /\ y.s = "TYPE"  => y.v.type \in P!TypeTags
    /\ y.s = "id"    => y.v.kind = "ident" /\ y.v.name \in Names
    /\ y.s = "lit"   => y.v.kind \in P!Literals /\ y.v.value \in Int
    /\ y.s = "binop" => y.v.op \in P!BinOps
    /\ y.s = "unop"  => y.v.op \in P!UnOps
    /\ y.s = "Expr"  => y.v \in E
    /\ y.s = "Stmt"  => y.v \in S \cup {P!NullNode}
    /\ y.s = "Param" => y.v \in Decls(S)
    /\ y.s \in {"StmtList", "Block"} => Block(y.v, S)
    /\ y.s = "ParamList" => Block(y.v, Decls(S))
    /\ y.s = "ArgList"   => Block(y.v, Arguments(S))

Stacked(st, E, S) ==
    /\ IsSeq(st)
    /\ \A i \in DOMAIN st : Carries(st[i], E, S)
    /\ st # <<>> => st[1].s = "StmtList"

Trees(E, S) ==
    /\ Grammar(E, S)
    /\ Stacked(stack, E, S)
    /\ g_params_buf \in Seq(Decls(S))
    /\ g_program_ast = P!NullNode \/ Block(g_program_ast, S)

ParserInv ==
    /\ input \in Files /\ TokenText(input)
    /\ \E n \in 0 .. Len(input) : rest = SubSeq(input, n + 1, Len(input))
    /\ g_parse_errors \in Nat
    /\ parsing \in {"opening", "parsing", "accepted", "aborted", "exited", "unreadable"}
    /\ parsing = "accepted" => g_program_ast # P!NullNode
    /\ \E E, S : Trees(E, S)

(* What is new does not change what is there.                              *)
LEMMA SeqGrows ==
    ASSUME NEW S, NEW T, S \subseteq T
    PROVE  /\ Seq(S) \subseteq Seq(T) /\ Decls(S) \subseteq Decls(T)
           /\ Arguments(S) \subseteq Arguments(T)
           /\ Seq(Decls(S)) \subseteq Seq(Decls(T)) /\ Seq(Arguments(S)) \subseteq Seq(Arguments(T))
<1>1. Decls(S) \subseteq Decls(T) /\ Arguments(S) \subseteq Arguments(T) BY DEF Decls, Arguments
<1>. QED BY <1>1, SeqMonotonic

(* A shape over some expressions is one over more of them.                 *)
LEMMA ExprGrows ==
    ASSUME NEW E, NEW F, E \subseteq F, NEW e, P!ExprShape(e, E)
    PROVE  P!ExprShape(e, F)
<1>1. Seq(E) \subseteq Seq(F) BY SeqMonotonic
<1>. QED BY <1>1 DEF P!ExprShape

(* The same for statements.                                                *)
LEMMA StmtGrows ==
    ASSUME NEW E, NEW F, E \subseteq F, NEW S, NEW T, S \subseteq T, NEW s, P!StmtShape(s, E, S)
    PROVE  P!StmtShape(s, F, T)
<1>1. Seq(S) \subseteq Seq(T) /\ Seq(Decls(S)) \subseteq Seq(Decls(T)) BY SeqGrows
<1>. QED BY <1>1 DEF P!StmtShape, Decls

(* A symbol still carries what it has to.                                  *)
LEMMA CarriesGrows ==
    ASSUME NEW E, NEW F, E \subseteq F, NEW S, NEW T, S \subseteq T, NEW y, Carries(y, E, S)
    PROVE  Carries(y, F, T)
BY SeqGrows DEF Carries, Block

(* A new expression of some that are there.                                *)
LEMMA AddExpr ==
    ASSUME NEW E, NEW S, Grammar(E, S), NEW e, P!ExprShape(e, E)
    PROVE  Grammar(E \cup {e}, S)
BY ExprGrows, StmtGrows DEF Grammar

(* A new statement.                                                        *)
LEMMA AddStmt ==
    ASSUME NEW E, NEW S, Grammar(E, S), NEW s, P!StmtShape(s, E, S)
    PROVE  Grammar(E, S \cup {s})
BY StmtGrows DEF Grammar

-----------------------------------------------------------------------------
(* The right side of a production is on top of the stack.                  *)
Symbols == P!Tokens \cup P!Partial

(* Each is a sequence of symbols.                                          *)
LEMMA RightSides ==
    ASSUME NEW p \in DOMAIN P!Rhs
    PROVE  /\ P!Rhs[p] \in Seq(Symbols) /\ IsSeq(P!Rhs[p])
           /\ Len(P!Rhs[p]) \in Nat /\ DOMAIN P!Rhs[p] = 1 .. Len(P!Rhs[p])
<1>1. p \in {"stmts0", "stmts", "exprstmt", "blockstmt", "return0", "return", "empty", "bad",
             "recovered", "block", "declinit", "decl", "if", "ifelse", "while", "for",
             "midrule", "function", "param", "params0", "params1", "params", "args0", "args1",
             "args", "assign", "binary", "unary", "paren", "ident", "call", "literal"}
  BY DEF P!Rhs
<1>2. /\ P!Rhs["stmts0"] \in Seq(Symbols) /\ P!Rhs["stmts"] \in Seq(Symbols)
      /\ P!Rhs["exprstmt"] \in Seq(Symbols) /\ P!Rhs["blockstmt"] \in Seq(Symbols)
      /\ P!Rhs["return0"] \in Seq(Symbols) /\ P!Rhs["return"] \in Seq(Symbols)
      /\ P!Rhs["empty"] \in Seq(Symbols) /\ P!Rhs["bad"] \in Seq(Symbols)
  BY DEF P!Rhs, Symbols, P!Tokens, P!Partial, P!Lists
<1>3. /\ P!Rhs["recovered"] \in Seq(Symbols) /\ P!Rhs["block"] \in Seq(Symbols)
      /\ P!Rhs["declinit"] \in Seq(Symbols) /\ P!Rhs["decl"] \in Seq(Symbols)
      /\ P!Rhs["if"] \in Seq(Symbols) /\ P!Rhs["ifelse"] \in Seq(Symbols)
      /\ P!Rhs["while"] \in Seq(Symbols) /\ P!Rhs["for"] \in Seq(Symbols)
  BY DEF P!Rhs, Symbols, P!Tokens, P!Partial, P!Lists
<1>4. /\ P!Rhs["midrule"] \in Seq(Symbols) /\ P!Rhs["function"] \in Seq(Symbols)
      /\ P!Rhs["param"] \in Seq(Symbols) /\ P!Rhs["params0"] \in Seq(Symbols)
      /\ P!Rhs["params1"] \in Seq(Symbols) /\ P!Rhs["params"] \in Seq(Symbols)
      /\ P!Rhs["args0"] \in Seq(Symbols) /\ P!Rhs["args1"] \in Seq(Symbols)
  BY DEF P!Rhs, Symbols, P!Tokens, P!Partial, P!Lists
<1>5. /\ P!Rhs["args"] \in Seq(Symbols) /\ P!Rhs["assign"] \in Seq(Symbols)
      /\ P!Rhs["binary"] \in Seq(Symbols) /\ P!Rhs["unary"] \in Seq(Symbols)
      /\ P!Rhs["paren"] \in Seq(Symbols) /\ P!Rhs["ident"] \in Seq(Symbols)
      /\ P!Rhs["call"] \in Seq(Symbols) /\ P!Rhs["literal"] \in Seq(Symbols)
  BY DEF P!Rhs, Symbols, P!Tokens, P!Partial, P!Lists
<1>6. P!Rhs[p] \in Seq(Symbols) BY <1>1, <1>2, <1>3, <1>4, <1>5
<1>. QED BY <1>6, LenProperties DEF IsSeq

(* Counted from the top of the stack, the right side ends at its last      *)
(* symbol.                                                                 *)
LEMMA OnTopIs ==
    ASSUME IsSeq(stack), NEW rhs, IsSeq(rhs), P!OnTop(rhs)
    PROVE  /\ Len(rhs) <= Len(stack)
           /\ \A i \in 1 .. Len(rhs) :
                 /\ Len(stack) + 1 - i \in DOMAIN stack
                 /\ P!Val(i) = stack[Len(stack) + 1 - i].v
                 /\ stack[Len(stack) + 1 - i].s = rhs[Len(rhs) + 1 - i]
<1>1. Len(rhs) \in Nat /\ DOMAIN rhs = 1 .. Len(rhs) BY IsSeqFacts
<1>2. Len(stack) \in Nat /\ DOMAIN stack = 1 .. Len(stack) BY IsSeqFacts
<1>3. Len(rhs) <= Len(stack) BY DEF P!OnTop
<1>. DEFINE k == Len(rhs)
            n == Len(stack)
<1>4. ASSUME NEW i \in 1 .. k
      PROVE  /\ n + 1 - i \in DOMAIN stack /\ P!Val(i) = stack[n + 1 - i].v
             /\ stack[n + 1 - i].s = rhs[k + 1 - i]
  <2>1. n + 1 - i \in DOMAIN stack /\ i <= n BY <1>1, <1>2, <1>3
  <2>2. k + 1 - i \in DOMAIN rhs /\ k + 1 - (k + 1 - i) = i BY <1>1
  <2>3. P!Name(k + 1 - (k + 1 - i)) = rhs[k + 1 - i] BY <2>2 DEF P!OnTop
  <2>4. P!Name(i) = rhs[k + 1 - i] BY <2>2, <2>3
  <2>. QED BY <2>1, <2>4 DEF P!Name, P!Nth, P!Val
<1>. QED BY <1>3, <1>4

(* A reduction keeps the stack in order if it pushes what its symbol has   *)
(* to carry, above the first statement list or as that list.               *)
LEMMA Reduced ==
    ASSUME NEW E, NEW S, Stacked(stack, E, S), NEW F, NEW T, E \subseteq F, S \subseteq T,
           NEW p \in DOMAIN P!Rhs, NEW s, NEW v, P!Becomes(p, s, v),
           Carries(P!Sym(s, v), F, T), s = "StmtList" \/ Len(P!Rhs[p]) # Len(stack)
    PROVE  Stacked(stack', F, T)
<1>. DEFINE k == Len(P!Rhs[p])
            n == Len(stack)
            y == P!Sym(s, v)
<1>1. /\ n \in Nat /\ DOMAIN stack = 1 .. n /\ k \in Nat /\ k <= n
      /\ n - k \in 0 .. n /\ stack' = Append(SubSeq(stack, 1, n - k), y)
  BY IsSeqFacts, RightSides, OnTopIs DEF Stacked, P!Becomes, P!Handle, P!Pop
<1>2. /\ IsSeq(stack') /\ DOMAIN stack' = 1 .. n - k + 1 /\ stack'[n - k + 1] = y
      /\ \A i \in 1 .. n - k : stack'[i] = stack[i]
  BY <1>1, Spliced DEF Stacked
<1>3. ASSUME NEW i \in 1 .. n - k + 1 PROVE Carries(stack'[i], F, T)
  <2>1. CASE i = n - k + 1 BY <1>2, <2>1
  <2>2. CASE i # n - k + 1
    <3>1. i \in 1 .. n - k /\ i \in DOMAIN stack BY <1>1, <2>2
    <3>2. Carries(stack[i], F, T) BY <3>1, CarriesGrows DEF Stacked
    <3>. QED BY <1>2, <3>1, <3>2
  <2>. QED BY <2>1, <2>2
<1>4. stack'[1].s = "StmtList"
  <2>1. CASE n = k
    <3>1. stack'[1] = y /\ s = "StmtList" BY <1>1, <1>2, <2>1
    <3>. QED BY <3>1 DEF P!Sym
  <2>2. CASE n # k
    <3>1. 1 \in 1 .. n - k /\ stack # <<>> BY <1>1, <2>2, IsSeqFacts DEF Stacked
    <3>. QED BY <1>2, <3>1 DEF Stacked
  <2>. QED BY <2>1, <2>2
<1>. QED BY <1>2, <1>3, <1>4 DEF Stacked

(* The productions with an empty right side, and those that begin with a   *)
(* list of statements.                                                     *)
LEMMA NonEmpty ==
    ASSUME NEW p \in DOMAIN P!Rhs, P!Rhs[p] = <<>>
    PROVE  p \in {"stmts0", "midrule", "params0", "args0"}
<1>1. /\ P!Rhs["exprstmt"] # <<>> /\ P!Rhs["blockstmt"] # <<>> /\ P!Rhs["return0"] # <<>>
      /\ P!Rhs["return"] # <<>> /\ P!Rhs["empty"] # <<>> /\ P!Rhs["bad"] # <<>>
      /\ P!Rhs["recovered"] # <<>> /\ P!Rhs["block"] # <<>> /\ P!Rhs["declinit"] # <<>>
      /\ P!Rhs["decl"] # <<>> /\ P!Rhs["if"] # <<>> /\ P!Rhs["ifelse"] # <<>>
      /\ P!Rhs["while"] # <<>> /\ P!Rhs["for"] # <<>> /\ P!Rhs["function"] # <<>>
      /\ P!Rhs["param"] # <<>> /\ P!Rhs["params1"] # <<>> /\ P!Rhs["params"] # <<>>
      /\ P!Rhs["args1"] # <<>> /\ P!Rhs["args"] # <<>> /\ P!Rhs["assign"] # <<>>
      /\ P!Rhs["binary"] # <<>> /\ P!Rhs["unary"] # <<>> /\ P!Rhs["paren"] # <<>>
      /\ P!Rhs["ident"] # <<>> /\ P!Rhs["call"] # <<>> /\ P!Rhs["literal"] # <<>>
      /\ P!Rhs["stmts"] # <<>>
  BY DEF P!Rhs
<1>2. p \in {"stmts0", "midrule", "params0", "args0"} \/ p \in {
          "exprstmt", "blockstmt", "return0", "return", "empty", "bad", "recovered", "block",
          "declinit", "decl", "if", "ifelse", "while", "for", "function", "param", "params1",
          "params", "args1", "args", "assign", "binary", "unary", "paren", "ident", "call",
          "literal", "stmts"}
  BY DEF P!Rhs
<1>. QED BY <1>1, <1>2

(* Only the production of a longer list begins with a list of statements.  *)
LEMMA FirstSymbol ==
    ASSUME NEW p \in DOMAIN P!Rhs, P!Rhs[p] # <<>>, p # "stmts"
    PROVE  P!Rhs[p][1] # "StmtList"
<1>1. /\ P!Rhs["exprstmt"][1] # "StmtList" /\ P!Rhs["blockstmt"][1] # "StmtList"
      /\ P!Rhs["return0"][1] # "StmtList"
      /\ P!Rhs["return"][1] # "StmtList" /\ P!Rhs["empty"][1] # "StmtList"
      /\ P!Rhs["bad"][1] # "StmtList"
      /\ P!Rhs["recovered"][1] # "StmtList" /\ P!Rhs["block"][1] # "StmtList"
      /\ P!Rhs["declinit"][1] # "StmtList"
      /\ P!Rhs["decl"][1] # "StmtList" /\ P!Rhs["if"][1] # "StmtList"
      /\ P!Rhs["ifelse"][1] # "StmtList"
      /\ P!Rhs["while"][1] # "StmtList" /\ P!Rhs["for"][1] # "StmtList"
      /\ P!Rhs["function"][1] # "StmtList"
      /\ P!Rhs["param"][1] # "StmtList" /\ P!Rhs["params1"][1] # "StmtList"
      /\ P!Rhs["params"][1] # "StmtList"
      /\ P!Rhs["args1"][1] # "StmtList" /\ P!Rhs["args"][1] # "StmtList"
      /\ P!Rhs["assign"][1] # "StmtList"
      /\ P!Rhs["binary"][1] # "StmtList" /\ P!Rhs["unary"][1] # "StmtList"
      /\ P!Rhs["paren"][1] # "StmtList"
      /\ P!Rhs["ident"][1] # "StmtList" /\ P!Rhs["call"][1] # "StmtList"
      /\ P!Rhs["literal"][1] # "StmtList"
  BY DEF P!Rhs
<1>2. /\ P!Rhs["stmts0"] = <<>> /\ P!Rhs["midrule"] = <<>>
      /\ P!Rhs["params0"] = <<>> /\ P!Rhs["args0"] = <<>>
  BY DEF P!Rhs
<1>3. p \in {"stmts0", "midrule", "params0", "args0"} \/ p \in {
          "exprstmt", "blockstmt", "return0", "return", "empty", "bad", "recovered", "block",
          "declinit", "decl", "if", "ifelse", "while", "for", "function", "param", "params1",
          "params", "args1", "args", "assign", "binary", "unary", "paren", "ident", "call",
          "literal", "stmts"}
  BY DEF P!Rhs
<1>. QED BY <1>1, <1>2, <1>3

(* No production but those of StmtList reaches down to the bottom.         *)
LEMMA Above ==
    ASSUME NEW E, NEW S, Stacked(stack, E, S),
           NEW p \in DOMAIN P!Rhs, p \notin {"stmts", "stmts0"}, P!Handle(p)
    PROVE  Len(P!Rhs[p]) # Len(stack)
<1>1. SUFFICES ASSUME Len(P!Rhs[p]) = Len(stack) PROVE FALSE OBVIOUS
<1>2. /\ IsSeq(P!Rhs[p]) /\ IsSeq(stack) /\ P!OnTop(P!Rhs[p]) /\ P!Applies(p)
  BY RightSides DEF Stacked, P!Handle
<1>3. stack # <<>>
  <2>1. SUFFICES ASSUME stack = <<>> PROVE FALSE OBVIOUS
  <2>2. Len(stack) = 0 /\ P!Rhs[p] = <<>> BY <1>1, <1>2, <2>1, IsSeqFacts
  <2>3. p \in {"midrule", "params0", "args0"} BY <2>2, NonEmpty
  <2>4. Len(<<"TYPE", "id", "(", "ParamList", ")">>) = 5 /\ Len(<<"TYPE", "id", "(">>) = 3
    OBVIOUS
  <2>5. p # "midrule" /\ p # "params0" BY <1>2, <2>2, <2>4 DEF P!Applies, P!OnTop
  <2>6. P!OfCall(1) BY <1>2, <2>3, <2>5 DEF P!Applies
  <2>. QED BY <2>2, <2>6 DEF P!OfCall, P!Name
<1>4. Len(stack) \in Nat \ {0} /\ DOMAIN stack = 1 .. Len(stack) BY <1>2, <1>3, IsSeqFacts
<1>5. stack[1].s = P!Rhs[p][1]
  <2>1. stack[Len(stack) + 1 - Len(stack)].s = P!Rhs[p][Len(stack) + 1 - Len(stack)]
    BY <1>1, <1>2, <1>4, OnTopIs
  <2>2. Len(stack) + 1 - Len(stack) = 1 BY <1>4
  <2>. QED BY <2>1, <2>2
<1>6. P!Rhs[p][1] = "StmtList" BY <1>3, <1>5 DEF Stacked
<1>7. P!Rhs[p] # <<>> BY <1>1, <1>2, <1>4, IsSeqFacts
<1>. QED BY <1>6, <1>7, NonEmpty, FirstSymbol


-----------------------------------------------------------------------------
(* What a reduction builds: the stack it leaves carries trees of a grammar *)
(* that has the new node.                                                  *)
Keeps(E, S) ==
    \E F, T : E \subseteq F /\ S \subseteq T /\ Grammar(F, T) /\ Stacked(stack', F, T)

(* No node is new.                                                         *)
LEMMA Moves ==
    ASSUME NEW E, NEW S, Grammar(E, S), Stacked(stack, E, S),
           NEW p \in DOMAIN P!Rhs, NEW s, NEW v, P!Becomes(p, s, v), Carries(P!Sym(s, v), E, S),
           p \in {"stmts", "stmts0"} => s = "StmtList"
    PROVE  Keeps(E, S)
<1>1. s = "StmtList" \/ Len(P!Rhs[p]) # Len(stack) BY Above DEF P!Becomes
<1>2. Stacked(stack', E, S) BY <1>1, Reduced
<1>. QED BY <1>2 DEF Keeps

(* An expression is.                                                       *)
LEMMA MakesExpr ==
    ASSUME NEW E, NEW S, Grammar(E, S), Stacked(stack, E, S),
           NEW p \in DOMAIN P!Rhs, p \notin {"stmts", "stmts0"}, NEW v, P!Becomes(p, "Expr", v),
           P!ExprShape(v, E)
    PROVE  Keeps(E, S)
<1>. DEFINE F == E \cup {v}
<1>1. Grammar(F, S) BY AddExpr
<1>2. Carries(P!Sym("Expr", v), F, S) BY DEF Carries, P!Sym, P!Tokens, P!Partial, P!Lists
<1>3. Len(P!Rhs[p]) # Len(stack) BY Above DEF P!Becomes
<1>4. Stacked(stack', F, S) BY <1>2, <1>3, Reduced
<1>. HIDE DEF F
<1>5. E \subseteq F BY DEF F
<1>. QED BY <1>1, <1>4, <1>5 DEF Keeps

(* A statement is, or a declaration of a parameter.                        *)
LEMMA MakesStmt ==
    ASSUME NEW E, NEW S, Grammar(E, S), Stacked(stack, E, S),
           NEW p \in DOMAIN P!Rhs, p \notin {"stmts", "stmts0"}, NEW s, NEW v, P!Becomes(p, s, v),
           P!StmtShape(v, E, S), s = "Stmt" \/ (s = "Param" /\ v.kind = "decl")
    PROVE  Keeps(E, S)
<1>. DEFINE T == S \cup {v}
<1>1. Grammar(E, T) BY AddStmt
<1>2. Carries(P!Sym(s, v), E, T) BY DEF Carries, P!Sym, P!Tokens, P!Partial, P!Lists, Decls
<1>3. Len(P!Rhs[p]) # Len(stack) BY Above DEF P!Becomes
<1>4. Stacked(stack', E, T) BY <1>2, <1>3, Reduced
<1>. HIDE DEF T
<1>5. S \subseteq T BY DEF T
<1>. QED BY <1>1, <1>4, <1>5 DEF Keeps

(* The constructors.                                                       *)
LEMMA ExprNodes ==
    ASSUME NEW E, NEW e \in E, NEW g \in E, NEW n \in Names, NEW op, NEW args \in Seq(E)
    PROVE  /\ op \in P!UnOps => P!ExprShape(P!ast_unary(op, e), E)
           /\ op \in P!BinOps => P!ExprShape(P!ast_binary(op, e, g), E)
           /\ P!ExprShape(P!ast_assign(n, e), E)
           /\ P!ExprShape(P!ast_call(n, args), E)
BY DEF P!ExprShape, P!ast_unary, P!ast_binary, P!ast_assign, P!ast_call

(* What the constructors of statements make.                               *)
LEMMA StmtNodes ==
    ASSUME NEW E, NEW S, NEW e \in E, NEW g \in E, NEW h \in E,
           NEW s \in S \cup {P!NullNode}, NEW u \in S \cup {P!NullNode},
           NEW t \in P!TypeTags, NEW n \in Names
    PROVE  /\ P!StmtShape(P!ast_expr(e), E, S)
           /\ P!StmtShape(P!ast_return(e), E, S) /\ P!StmtShape(P!ast_return(P!NullNode), E, S)
           /\ P!StmtShape(P!ast_decl(t, n, e), E, S)
           /\ P!StmtShape(P!ast_decl(t, n, P!NullNode), E, S)
           /\ P!StmtShape(P!ast_if(e, s, u), E, S)
           /\ P!StmtShape(P!ast_while(e, s), E, S)
           /\ P!StmtShape(P!ast_for(e, g, h, s), E, S)
BY DEF P!StmtShape, P!ast_expr, P!ast_return, P!ast_decl, P!ast_if, P!ast_while, P!ast_for

(* What the productions find on the stack.                                 *)
LEMMA NthCarries ==
    ASSUME NEW E, NEW S, Stacked(stack, E, S), NEW i \in Nat \ {0}, i <= Len(stack)
    PROVE  Carries(P!Sym(P!Name(i), P!Val(i)), E, S)
<1>. DEFINE j == Len(stack) + 1 - i
<1>1. j \in DOMAIN stack BY IsSeqFacts DEF Stacked
<1>2. P!Name(i) = stack[j].s /\ P!Val(i) = stack[j].v BY DEF P!Name, P!Val, P!Nth
<1>3. Carries(stack[j], E, S) BY <1>1 DEF Stacked
<1>. HIDE DEF j
<1>. QED BY <1>2, <1>3 DEF Carries, P!Sym

(* The names of the topmost symbols, for right sides of up to nine symbols.*)
LEMMA Tops ==
    /\ \A a : P!OnTop(<<a>>) =>
          /\ 1 <= Len(stack) /\ P!Name(1) = a
    /\ \A a, b : P!OnTop(<<a, b>>) =>
          /\ 2 <= Len(stack) /\ P!Name(2) = a /\ P!Name(1) = b
    /\ \A a, b, c : P!OnTop(<<a, b, c>>) =>
          /\ 3 <= Len(stack) /\ P!Name(3) = a /\ P!Name(2) = b /\ P!Name(1) = c
    /\ \A a, b, c, d : P!OnTop(<<a, b, c, d>>) =>
          /\ 4 <= Len(stack) /\ P!Name(4) = a /\ P!Name(3) = b /\ P!Name(2) = c /\ P!Name(1) = d
    /\ \A a, b, c, d, e : P!OnTop(<<a, b, c, d, e>>) =>
          /\ 5 <= Len(stack) /\ P!Name(5) = a /\ P!Name(4) = b /\ P!Name(3) = c /\ P!Name(2) = d
          /\ P!Name(1) = e
    /\ \A a, b, c, d, e, g, h : P!OnTop(<<a, b, c, d, e, g, h>>) =>
          /\ 7 <= Len(stack) /\ P!Name(7) = a /\ P!Name(6) = b /\ P!Name(5) = c /\ P!Name(4) = d
          /\ P!Name(3) = e /\ P!Name(2) = g /\ P!Name(1) = h
    /\ \A a, b, c, d, e, g, h, k, l : P!OnTop(<<a, b, c, d, e, g, h, k, l>>) =>
          /\ 9 <= Len(stack) /\ P!Name(9) = a /\ P!Name(8) = b /\ P!Name(7) = c /\ P!Name(6) = d
          /\ P!Name(5) = e /\ P!Name(4) = g /\ P!Name(3) = h /\ P!Name(2) = k /\ P!Name(1) = l
<1>1. ASSUME NEW a, P!OnTop(<<a>>)
      PROVE  /\ 1 <= Len(stack) /\ P!Name(1) = a
  <2>. DEFINE r == <<a>>
  <2>1. Len(r) = 1 /\ DOMAIN r = 1 .. 1 OBVIOUS
  <2>2. \A i \in 1 .. 1 : P!Name(1 + 1 - i) = r[i] BY <1>1, <2>1 DEF P!OnTop
  <2>3. /\ P!Name(1 + 1 - 1) = r[1]
    BY <2>2
  <2>. QED BY <1>1, <2>1, <2>3 DEF P!OnTop
<1>2. ASSUME NEW a, NEW b, P!OnTop(<<a, b>>)
      PROVE  /\ 2 <= Len(stack) /\ P!Name(2) = a /\ P!Name(1) = b
  <2>. DEFINE r == <<a, b>>
  <2>1. Len(r) = 2 /\ DOMAIN r = 1 .. 2 OBVIOUS
  <2>2. \A i \in 1 .. 2 : P!Name(2 + 1 - i) = r[i] BY <1>2, <2>1 DEF P!OnTop
  <2>3. /\ P!Name(2 + 1 - 1) = r[1] /\ P!Name(2 + 1 - 2) = r[2]
    BY <2>2
  <2>. QED BY <1>2, <2>1, <2>3 DEF P!OnTop
<1>3. ASSUME NEW a, NEW b, NEW c, P!OnTop(<<a, b, c>>)
      PROVE  /\ 3 <= Len(stack) /\ P!Name(3) = a /\ P!Name(2) = b /\ P!Name(1) = c
  <2>. DEFINE r == <<a, b, c>>
  <2>1. Len(r) = 3 /\ DOMAIN r = 1 .. 3 OBVIOUS
  <2>2. \A i \in 1 .. 3 : P!Name(3 + 1 - i) = r[i] BY <1>3, <2>1 DEF P!OnTop
  <2>3. /\ P!Name(3 + 1 - 1) = r[1] /\ P!Name(3 + 1 - 2) = r[2] /\ P!Name(3 + 1 - 3) = r[3]
    BY <2>2
  <2>. QED BY <1>3, <2>1, <2>3 DEF P!OnTop
<1>4. ASSUME NEW a, NEW b, NEW c, NEW d, P!OnTop(<<a, b, c, d>>)
      PROVE  /\ 4 <= Len(stack) /\ P!Name(4) = a /\ P!Name(3) = b /\ P!Name(2) = c /\ P!Name(1) = d
  <2>. DEFINE r == <<a, b, c, d>>
  <2>1. Len(r) = 4 /\ DOMAIN r = 1 .. 4 OBVIOUS
  <2>2. \A i \in 1 .. 4 : P!Name(4 + 1 - i) = r[i] BY <1>4, <2>1 DEF P!OnTop
  <2>3. /\ P!Name(4 + 1 - 1) = r[1] /\ P!Name(4 + 1 - 2) = r[2] /\ P!Name(4 + 1 - 3) = r[3]
        /\ P!Name(4 + 1 - 4) = r[4]
    BY <2>2
  <2>. QED BY <1>4, <2>1, <2>3 DEF P!OnTop
<1>5. ASSUME NEW a, NEW b, NEW c, NEW d, NEW e, P!OnTop(<<a, b, c, d, e>>)
      PROVE  /\ 5 <= Len(stack) /\ P!Name(5) = a /\ P!Name(4) = b /\ P!Name(3) = c /\ P!Name(2) = d
             /\ P!Name(1) = e
  <2>. DEFINE r == <<a, b, c, d, e>>
  <2>1. Len(r) = 5 /\ DOMAIN r = 1 .. 5 OBVIOUS
  <2>2. \A i \in 1 .. 5 : P!Name(5 + 1 - i) = r[i] BY <1>5, <2>1 DEF P!OnTop
  <2>3. /\ P!Name(5 + 1 - 1) = r[1] /\ P!Name(5 + 1 - 2) = r[2] /\ P!Name(5 + 1 - 3) = r[3]
        /\ P!Name(5 + 1 - 4) = r[4] /\ P!Name(5 + 1 - 5) = r[5]
    BY <2>2
  <2>. QED BY <1>5, <2>1, <2>3 DEF P!OnTop
<1>6. ASSUME NEW a, NEW b, NEW c, NEW d, NEW e, NEW g, NEW h, P!OnTop(<<a, b, c, d, e, g, h>>)
      PROVE  /\ 7 <= Len(stack) /\ P!Name(7) = a /\ P!Name(6) = b /\ P!Name(5) = c /\ P!Name(4) = d
             /\ P!Name(3) = e /\ P!Name(2) = g /\ P!Name(1) = h
  <2>. DEFINE r == <<a, b, c, d, e, g, h>>
  <2>1. Len(r) = 7 /\ DOMAIN r = 1 .. 7 OBVIOUS
  <2>2. \A i \in 1 .. 7 : P!Name(7 + 1 - i) = r[i] BY <1>6, <2>1 DEF P!OnTop
  <2>3. /\ P!Name(7 + 1 - 1) = r[1] /\ P!Name(7 + 1 - 2) = r[2] /\ P!Name(7 + 1 - 3) = r[3]
        /\ P!Name(7 + 1 - 4) = r[4] /\ P!Name(7 + 1 - 5) = r[5] /\ P!Name(7 + 1 - 6) = r[6]
        /\ P!Name(7 + 1 - 7) = r[7]
    BY <2>2
  <2>. QED BY <1>6, <2>1, <2>3 DEF P!OnTop
<1>7. ASSUME NEW a, NEW b, NEW c, NEW d, NEW e, NEW g, NEW h, NEW k, NEW l,
             P!OnTop(<<a, b, c, d, e, g, h, k, l>>)
      PROVE  /\ 9 <= Len(stack) /\ P!Name(9) = a /\ P!Name(8) = b /\ P!Name(7) = c /\ P!Name(6) = d
             /\ P!Name(5) = e /\ P!Name(4) = g /\ P!Name(3) = h /\ P!Name(2) = k /\ P!Name(1) = l
  <2>. DEFINE r == <<a, b, c, d, e, g, h, k, l>>
  <2>1. Len(r) = 9 /\ DOMAIN r = 1 .. 9 OBVIOUS
  <2>2. \A i \in 1 .. 9 : P!Name(9 + 1 - i) = r[i] BY <1>7, <2>1 DEF P!OnTop
  <2>3. /\ P!Name(9 + 1 - 1) = r[1] /\ P!Name(9 + 1 - 2) = r[2] /\ P!Name(9 + 1 - 3) = r[3]
        /\ P!Name(9 + 1 - 4) = r[4] /\ P!Name(9 + 1 - 5) = r[5] /\ P!Name(9 + 1 - 6) = r[6]
        /\ P!Name(9 + 1 - 7) = r[7] /\ P!Name(9 + 1 - 8) = r[8] /\ P!Name(9 + 1 - 9) = r[9]
    BY <2>2
  <2>. QED BY <1>7, <2>1, <2>3 DEF P!OnTop
<1>. QED BY <1>1, <1>2, <1>3, <1>4, <1>5, <1>6, <1>7

(* A symbol of the stack carries what its name says.                       *)
LEMMA Means ==
    ASSUME NEW E, NEW S, NEW v
    PROVE  /\ Carries(P!Sym("TYPE", v), E, S) => v.type \in P!TypeTags
           /\ Carries(P!Sym("id", v), E, S) => v.kind = "ident" /\ v.name \in Names
           /\ Carries(P!Sym("lit", v), E, S) => v.kind \in P!Literals /\ v.value \in Int
           /\ Carries(P!Sym("binop", v), E, S) => v.op \in P!BinOps
           /\ Carries(P!Sym("unop", v), E, S) => v.op \in P!UnOps
           /\ Carries(P!Sym("Expr", v), E, S) => v \in E
           /\ Carries(P!Sym("Stmt", v), E, S) => v \in S \cup {P!NullNode}
           /\ Carries(P!Sym("Param", v), E, S) => v \in Decls(S)
           /\ Carries(P!Sym("StmtList", v), E, S) => Block(v, S)
           /\ Carries(P!Sym("Block", v), E, S) => Block(v, S)
           /\ Carries(P!Sym("ParamList", v), E, S) => Block(v, Decls(S))
           /\ Carries(P!Sym("ArgList", v), E, S) => Block(v, Arguments(S))
BY DEF Carries, P!Sym

(* The values a production finds in the symbols of its right side.         *)
LEMMA Operands ==
    ASSUME NEW E, NEW S, Stacked(stack, E, S)
    PROVE  /\ P!Handle("stmts") => Block(P!Val(2), S) /\ P!Val(1) \in S \cup {P!NullNode}
           /\ P!Handle("exprstmt") => P!Val(2) \in E
           /\ P!Handle("blockstmt") => Block(P!Val(1), S)
           /\ P!Handle("return") => P!Val(2) \in E
           /\ P!Handle("block") => Block(P!Val(2), S)
           /\ P!Handle("declinit") =>
                 /\ P!Val(5).type \in P!TypeTags /\ P!Val(4).kind = "ident"
                 /\ P!Val(4).name \in Names
                 /\ P!Val(2) \in E
           /\ P!Handle("decl") =>
                 /\ P!Val(3).type \in P!TypeTags /\ P!Val(2).kind = "ident"
                 /\ P!Val(2).name \in Names
           /\ P!Handle("if") => P!Val(3) \in E /\ P!Val(1) \in S \cup {P!NullNode}
           /\ P!Handle("ifelse") =>
                 /\ P!Val(5) \in E /\ P!Val(3) \in S \cup {P!NullNode}
                 /\ P!Val(1) \in S \cup {P!NullNode}
           /\ P!Handle("while") => P!Val(3) \in E /\ P!Val(1) \in S \cup {P!NullNode}
           /\ P!Handle("for") =>
                 /\ P!Val(7) \in E /\ P!Val(5) \in E /\ P!Val(3) \in E
                 /\ P!Val(1) \in S \cup {P!NullNode}
           /\ P!Handle("function") =>
                 /\ P!Val(7).type \in P!TypeTags /\ P!Val(6).kind = "ident"
                 /\ P!Val(6).name \in Names
                 /\ Block(P!Val(1), S)
           /\ P!Handle("param") =>
                 /\ P!Val(2).type \in P!TypeTags /\ P!Val(1).kind = "ident"
                 /\ P!Val(1).name \in Names
           /\ P!Handle("params1") => P!Val(1) \in Decls(S)
           /\ P!Handle("params") => Block(P!Val(3), Decls(S)) /\ P!Val(1) \in Decls(S)
           /\ P!Handle("args1") => P!Val(1) \in E
           /\ P!Handle("args") => Block(P!Val(3), Arguments(S)) /\ P!Val(1) \in E
           /\ P!Handle("assign") =>
                 /\ P!Val(3).kind = "ident" /\ P!Val(3).name \in Names
                 /\ P!Val(1) \in E
           /\ P!Handle("binary") => P!Val(3) \in E /\ P!Val(2).op \in P!BinOps /\ P!Val(1) \in E
           /\ P!Handle("unary") => P!Val(2).op \in P!UnOps /\ P!Val(1) \in E
           /\ P!Handle("paren") => P!Val(2) \in E
           /\ P!Handle("ident") => P!Val(1).kind = "ident" /\ P!Val(1).name \in Names
           /\ P!Handle("call") =>
                 /\ P!Val(4).kind = "ident" /\ P!Val(4).name \in Names
                 /\ Block(P!Val(2), Arguments(S))
           /\ P!Handle("literal") => P!Val(1).kind \in P!Literals /\ P!Val(1).value \in Int
<1>0. Len(stack) \in Nat BY IsSeqFacts DEF Stacked
<1>1. ASSUME P!Handle("stmts")
      PROVE  /\ Block(P!Val(2), S)
             /\ P!Val(1) \in S \cup {P!NullNode}
  <2>1. P!OnTop(<<"StmtList", "Stmt">>) BY <1>1 DEF P!Handle, P!Rhs
  <2>2. 2 <= Len(stack) /\ P!Name(2) = "StmtList" /\ P!Name(1) = "Stmt"
    BY <2>1, Tops
  <2>3. /\ Carries(P!Sym("StmtList", P!Val(2)), E, S)
        /\ Carries(P!Sym("Stmt", P!Val(1)), E, S)
    BY <1>0, <2>2, NthCarries
  <2>. QED BY <2>3, Means
<1>2. ASSUME P!Handle("exprstmt")
      PROVE  /\ P!Val(2) \in E
  <2>1. P!OnTop(<<"Expr", ";">>) BY <1>2 DEF P!Handle, P!Rhs
  <2>2. 2 <= Len(stack) /\ P!Name(2) = "Expr"
    BY <2>1, Tops
  <2>3. /\ Carries(P!Sym("Expr", P!Val(2)), E, S)
    BY <1>0, <2>2, NthCarries
  <2>. QED BY <2>3, Means
<1>3. ASSUME P!Handle("blockstmt")
      PROVE  /\ Block(P!Val(1), S)
  <2>1. P!OnTop(<<"Block">>) BY <1>3 DEF P!Handle, P!Rhs
  <2>2. 1 <= Len(stack) /\ P!Name(1) = "Block"
    BY <2>1, Tops
  <2>3. /\ Carries(P!Sym("Block", P!Val(1)), E, S)
    BY <1>0, <2>2, NthCarries
  <2>. QED BY <2>3, Means
<1>4. ASSUME P!Handle("return")
      PROVE  /\ P!Val(2) \in E
  <2>1. P!OnTop(<<"return", "Expr", ";">>) BY <1>4 DEF P!Handle, P!Rhs
  <2>2. 3 <= Len(stack) /\ P!Name(2) = "Expr"
    BY <2>1, Tops
  <2>3. /\ Carries(P!Sym("Expr", P!Val(2)), E, S)
    BY <1>0, <2>2, NthCarries
  <2>. QED BY <2>3, Means
<1>5. ASSUME P!Handle("block")
      PROVE  /\ Block(P!Val(2), S)
  <2>1. P!OnTop(<<"{", "StmtList", "}">>) BY <1>5 DEF P!Handle, P!Rhs
  <2>2. 3 <= Len(stack) /\ P!Name(2) = "StmtList"
    BY <2>1, Tops
  <2>3. /\ Carries(P!Sym("StmtList", P!Val(2)), E, S)
    BY <1>0, <2>2, NthCarries
  <2>. QED BY <2>3, Means
<1>6. ASSUME P!Handle("declinit")
      PROVE  /\ P!Val(5).type \in P!TypeTags
             /\ P!Val(4).kind = "ident" /\ P!Val(4).name \in Names
             /\ P!Val(2) \in E
  <2>1. P!OnTop(<<"TYPE", "id", "=", "Expr", ";">>) BY <1>6 DEF P!Handle, P!Rhs
  <2>2. 5 <= Len(stack) /\ P!Name(5) = "TYPE" /\ P!Name(4) = "id" /\ P!Name(2) = "Expr"
    BY <2>1, Tops
  <2>3. /\ Carries(P!Sym("TYPE", P!Val(5)), E, S)
        /\ Carries(P!Sym("id", P!Val(4)), E, S)
        /\ Carries(P!Sym("Expr", P!Val(2)), E, S)
    BY <1>0, <2>2, NthCarries
  <2>. QED BY <2>3, Means
<1>7. ASSUME P!Handle("decl")
      PROVE  /\ P!Val(3).type \in P!TypeTags
             /\ P!Val(2).kind = "ident" /\ P!Val(2).name \in Names
  <2>1. P!OnTop(<<"TYPE", "id", ";">>) BY <1>7 DEF P!Handle, P!Rhs
  <2>2. 3 <= Len(stack) /\ P!Name(3) = "TYPE" /\ P!Name(2) = "id"
    BY <2>1, Tops
  <2>3. /\ Carries(P!Sym("TYPE", P!Val(3)), E, S)
        /\ Carries(P!Sym("id", P!Val(2)), E, S)
    BY <1>0, <2>2, NthCarries
  <2>. QED BY <2>3, Means
<1>8. ASSUME P!Handle("if")
      PROVE  /\ P!Val(3) \in E
             /\ P!Val(1) \in S \cup {P!NullNode}
  <2>1. P!OnTop(<<"if", "(", "Expr", ")", "Stmt">>) BY <1>8 DEF P!Handle, P!Rhs
  <2>2. 5 <= Len(stack) /\ P!Name(3) = "Expr" /\ P!Name(1) = "Stmt"
    BY <2>1, Tops
  <2>3. /\ Carries(P!Sym("Expr", P!Val(3)), E, S)
        /\ Carries(P!Sym("Stmt", P!Val(1)), E, S)
    BY <1>0, <2>2, NthCarries
  <2>. QED BY <2>3, Means
<1>9. ASSUME P!Handle("ifelse")
      PROVE  /\ P!Val(5) \in E
             /\ P!Val(3) \in S \cup {P!NullNode}
             /\ P!Val(1) \in S \cup {P!NullNode}
  <2>1. P!OnTop(<<"if", "(", "Expr", ")", "Stmt", "else", "Stmt">>) BY <1>9 DEF P!Handle, P!Rhs
  <2>2. 7 <= Len(stack) /\ P!Name(5) = "Expr" /\ P!Name(3) = "Stmt" /\ P!Name(1) = "Stmt"
    BY <2>1, Tops
  <2>3. /\ Carries(P!Sym("Expr", P!Val(5)), E, S)
        /\ Carries(P!Sym("Stmt", P!Val(3)), E, S)
        /\ Carries(P!Sym("Stmt", P!Val(1)), E, S)
    BY <1>0, <2>2, NthCarries
  <2>. QED BY <2>3, Means
<1>10. ASSUME P!Handle("while")
      PROVE  /\ P!Val(3) \in E
             /\ P!Val(1) \in S \cup {P!NullNode}
  <2>1. P!OnTop(<<"while", "(", "Expr", ")", "Stmt">>) BY <1>10 DEF P!Handle, P!Rhs
  <2>2. 5 <= Len(stack) /\ P!Name(3) = "Expr" /\ P!Name(1) = "Stmt"
    BY <2>1, Tops
  <2>3. /\ Carries(P!Sym("Expr", P!Val(3)), E, S)
        /\ Carries(P!Sym("Stmt", P!Val(1)), E, S)
    BY <1>0, <2>2, NthCarries
  <2>. QED BY <2>3, Means
<1>11. ASSUME P!Handle("for")
      PROVE  /\ P!Val(7) \in E
             /\ P!Val(5) \in E
             /\ P!Val(3) \in E
             /\ P!Val(1) \in S \cup {P!NullNode}
  <2>1. P!OnTop(<<"for", "(", "Expr", ";", "Expr", ";", "Expr", ")", "Stmt">>)
    BY <1>11 DEF P!Handle, P!Rhs
  <2>2. 9 <= Len(stack) /\ P!Name(7) = "Expr" /\ P!Name(5) = "Expr" /\ P!Name(3) = "Expr" /\ P!Name(1) = "Stmt"
    BY <2>1, Tops
  <2>3. /\ Carries(P!Sym("Expr", P!Val(7)), E, S)
        /\ Carries(P!Sym("Expr", P!Val(5)), E, S)
        /\ Carries(P!Sym("Expr", P!Val(3)), E, S)
        /\ Carries(P!Sym("Stmt", P!Val(1)), E, S)
    BY <1>0, <2>2, NthCarries
  <2>. QED BY <2>3, Means
<1>12. ASSUME P!Handle("function")
      PROVE  /\ P!Val(7).type \in P!TypeTags
             /\ P!Val(6).kind = "ident" /\ P!Val(6).name \in Names
             /\ Block(P!Val(1), S)
  <2>1. P!OnTop(<<"TYPE", "id", "(", "ParamList", ")", "$@1", "Block">>)
    BY <1>12 DEF P!Handle, P!Rhs
  <2>2. 7 <= Len(stack) /\ P!Name(7) = "TYPE" /\ P!Name(6) = "id" /\ P!Name(1) = "Block"
    BY <2>1, Tops
  <2>3. /\ Carries(P!Sym("TYPE", P!Val(7)), E, S)
        /\ Carries(P!Sym("id", P!Val(6)), E, S)
        /\ Carries(P!Sym("Block", P!Val(1)), E, S)
    BY <1>0, <2>2, NthCarries
  <2>. QED BY <2>3, Means
<1>13. ASSUME P!Handle("param")
      PROVE  /\ P!Val(2).type \in P!TypeTags
             /\ P!Val(1).kind = "ident" /\ P!Val(1).name \in Names
  <2>1. P!OnTop(<<"TYPE", "id">>) BY <1>13 DEF P!Handle, P!Rhs
  <2>2. 2 <= Len(stack) /\ P!Name(2) = "TYPE" /\ P!Name(1) = "id"
    BY <2>1, Tops
  <2>3. /\ Carries(P!Sym("TYPE", P!Val(2)), E, S)
        /\ Carries(P!Sym("id", P!Val(1)), E, S)
    BY <1>0, <2>2, NthCarries
  <2>. QED BY <2>3, Means
<1>14. ASSUME P!Handle("params1")
      PROVE  /\ P!Val(1) \in Decls(S)
  <2>1. P!OnTop(<<"Param">>) BY <1>14 DEF P!Handle, P!Rhs
  <2>2. 1 <= Len(stack) /\ P!Name(1) = "Param"
    BY <2>1, Tops
  <2>3. /\ Carries(P!Sym("Param", P!Val(1)), E, S)
    BY <1>0, <2>2, NthCarries
  <2>. QED BY <2>3, Means
<1>15. ASSUME P!Handle("params")
      PROVE  /\ Block(P!Val(3), Decls(S))
             /\ P!Val(1) \in Decls(S)
  <2>1. P!OnTop(<<"ParamList", ",", "Param">>) BY <1>15 DEF P!Handle, P!Rhs
  <2>2. 3 <= Len(stack) /\ P!Name(3) = "ParamList" /\ P!Name(1) = "Param"
    BY <2>1, Tops
  <2>3. /\ Carries(P!Sym("ParamList", P!Val(3)), E, S)
        /\ Carries(P!Sym("Param", P!Val(1)), E, S)
    BY <1>0, <2>2, NthCarries
  <2>. QED BY <2>3, Means
<1>16. ASSUME P!Handle("args1")
      PROVE  /\ P!Val(1) \in E
  <2>1. P!OnTop(<<"Expr">>) BY <1>16 DEF P!Handle, P!Rhs
  <2>2. 1 <= Len(stack) /\ P!Name(1) = "Expr"
    BY <2>1, Tops
  <2>3. /\ Carries(P!Sym("Expr", P!Val(1)), E, S)
    BY <1>0, <2>2, NthCarries
  <2>. QED BY <2>3, Means
<1>17. ASSUME P!Handle("args")
      PROVE  /\ Block(P!Val(3), Arguments(S))
             /\ P!Val(1) \in E
  <2>1. P!OnTop(<<"ArgList", ",", "Expr">>) BY <1>17 DEF P!Handle, P!Rhs
  <2>2. 3 <= Len(stack) /\ P!Name(3) = "ArgList" /\ P!Name(1) = "Expr"
    BY <2>1, Tops
  <2>3. /\ Carries(P!Sym("ArgList", P!Val(3)), E, S)
        /\ Carries(P!Sym("Expr", P!Val(1)), E, S)
    BY <1>0, <2>2, NthCarries
  <2>. QED BY <2>3, Means
<1>18. ASSUME P!Handle("assign")
      PROVE  /\ P!Val(3).kind = "ident" /\ P!Val(3).name \in Names
             /\ P!Val(1) \in E
  <2>1. P!OnTop(<<"id", "=", "Expr">>) BY <1>18 DEF P!Handle, P!Rhs
  <2>2. 3 <= Len(stack) /\ P!Name(3) = "id" /\ P!Name(1) = "Expr"
    BY <2>1, Tops
  <2>3. /\ Carries(P!Sym("id", P!Val(3)), E, S)
        /\ Carries(P!Sym("Expr", P!Val(1)), E, S)
    BY <1>0, <2>2, NthCarries
  <2>. QED BY <2>3, Means
<1>19. ASSUME P!Handle("binary")
      PROVE  /\ P!Val(3) \in E
             /\ P!Val(2).op \in P!BinOps
             /\ P!Val(1) \in E
  <2>1. P!OnTop(<<"Expr", "binop", "Expr">>) BY <1>19 DEF P!Handle, P!Rhs
  <2>2. 3 <= Len(stack) /\ P!Name(3) = "Expr" /\ P!Name(2) = "binop" /\ P!Name(1) = "Expr"
    BY <2>1, Tops
  <2>3. /\ Carries(P!Sym("Expr", P!Val(3)), E, S)
        /\ Carries(P!Sym("binop", P!Val(2)), E, S)
        /\ Carries(P!Sym("Expr", P!Val(1)), E, S)
    BY <1>0, <2>2, NthCarries
  <2>. QED BY <2>3, Means
<1>20. ASSUME P!Handle("unary")
      PROVE  /\ P!Val(2).op \in P!UnOps
             /\ P!Val(1) \in E
  <2>1. P!OnTop(<<"unop", "Expr">>) BY <1>20 DEF P!Handle, P!Rhs
  <2>2. 2 <= Len(stack) /\ P!Name(2) = "unop" /\ P!Name(1) = "Expr"
    BY <2>1, Tops
  <2>3. /\ Carries(P!Sym("unop", P!Val(2)), E, S)
        /\ Carries(P!Sym("Expr", P!Val(1)), E, S)
    BY <1>0, <2>2, NthCarries
  <2>. QED BY <2>3, Means
<1>21. ASSUME P!Handle("paren")
      PROVE  /\ P!Val(2) \in E
  <2>1. P!OnTop(<<"(", "Expr", ")">>) BY <1>21 DEF P!Handle, P!Rhs
  <2>2. 3 <= Len(stack) /\ P!Name(2) = "Expr"
    BY <2>1, Tops
  <2>3. /\ Carries(P!Sym("Expr", P!Val(2)), E, S)
    BY <1>0, <2>2, NthCarries
  <2>. QED BY <2>3, Means
<1>22. ASSUME P!Handle("ident")
      PROVE  /\ P!Val(1).kind = "ident" /\ P!Val(1).name \in Names
  <2>1. P!OnTop(<<"id">>) BY <1>22 DEF P!Handle, P!Rhs
  <2>2. 1 <= Len(stack) /\ P!Name(1) = "id"
    BY <2>1, Tops
  <2>3. /\ Carries(P!Sym("id", P!Val(1)), E, S)
    BY <1>0, <2>2, NthCarries
  <2>. QED BY <2>3, Means
<1>23. ASSUME P!Handle("call")
      PROVE  /\ P!Val(4).kind = "ident" /\ P!Val(4).name \in Names
             /\ Block(P!Val(2), Arguments(S))
  <2>1. P!OnTop(<<"id", "(", "ArgList", ")">>) BY <1>23 DEF P!Handle, P!Rhs
  <2>2. 4 <= Len(stack) /\ P!Name(4) = "id" /\ P!Name(2) = "ArgList"
    BY <2>1, Tops
  <2>3. /\ Carries(P!Sym("id", P!Val(4)), E, S)
        /\ Carries(P!Sym("ArgList", P!Val(2)), E, S)
    BY <1>0, <2>2, NthCarries
  <2>. QED BY <2>3, Means
<1>24. ASSUME P!Handle("literal")
      PROVE  /\ P!Val(1).kind \in P!Literals /\ P!Val(1).value \in Int
  <2>1. P!OnTop(<<"lit">>) BY <1>24 DEF P!Handle, P!Rhs
  <2>2. 1 <= Len(stack) /\ P!Name(1) = "lit"
    BY <2>1, Tops
  <2>3. /\ Carries(P!Sym("lit", P!Val(1)), E, S)
    BY <1>0, <2>2, NthCarries
  <2>. QED BY <2>3, Means
<1>. QED BY <1>1, <1>2, <1>3, <1>4, <1>5, <1>6, <1>7, <1>8, <1>9, <1>10, <1>11, <1>12,
            <1>13, <1>14, <1>15, <1>16, <1>17, <1>18, <1>19, <1>20, <1>21, <1>22, <1>23,
            <1>24

(* The reductions, one by one.                                             *)
LEMMA Blocks ==
    ASSUME NEW S
    PROVE  /\ Block(P!ast_block(<<>>), S)
           /\ \A d \in S : Block(P!ast_block(<<d>>), S)
           /\ \A v, d : Block(v, S) /\ d \in S => Block(P!add_stmt(v, d), S)
<1>1. \A l \in Seq(S), d \in S : Append(l, d) \in Seq(S) BY AppendProperties
<1>2. <<>> \in Seq(S) /\ \A d \in S : <<d>> \in Seq(S) BY EmptySeq
<1>. QED BY <1>1, <1>2 DEF Block, P!ast_block, P!add_stmt

(* A block of statements is a statement.                                   *)
LEMMA BlockShape ==
    ASSUME NEW E, NEW S, NEW v, Block(v, S)
    PROVE  P!StmtShape(v, E, S)
BY DEF Block, P!StmtShape

(* The names of the productions.                                           *)
LEMMA Productions ==
    /\ {"stmts0", "stmts", "exprstmt", "blockstmt", "return0", "return", "empty", "bad", "recovered",
        "block", "declinit", "decl", "if", "ifelse", "while", "for"} \subseteq DOMAIN P!Rhs
    /\ {"midrule", "function", "param", "params0", "params1", "params", "args0", "args1", "args",
        "assign", "binary", "unary", "paren", "ident", "call", "literal"} \subseteq DOMAIN P!Rhs
BY DEF P!Rhs

(* A reduction to a statement or a list of statements leaves trees on the  *)
(* stack.                                                                  *)
LEMMA StmtReductions ==
    ASSUME NEW E, NEW S, Grammar(E, S), Stacked(stack, E, S), P!ReduceStmt
    PROVE  Keeps(E, S)
<1>. USE Productions
<1>1. CASE P!Becomes("stmts0", "StmtList", P!ast_block(<<>>))
  <2>1. Carries(P!Sym("StmtList", P!ast_block(<<>>)), E, S)
    BY Blocks DEF Carries, P!Sym, P!Tokens, P!Partial, P!Lists
  <2>. QED BY <1>1, <2>1, Moves
<1>2. CASE P!Becomes("stmts", "StmtList", P!StmtList(P!Val(2), P!Val(1)))
  <2>1. Carries(P!Sym("StmtList", P!StmtList(P!Val(2), P!Val(1))), E, S)
    <3>1. Block(P!Val(2), S) /\ P!Val(1) \in S \cup {P!NullNode} BY <1>2, Operands DEF P!Becomes
    <3>2. Block(P!StmtList(P!Val(2), P!Val(1)), S) BY <3>1, Blocks DEF P!StmtList
    <3>. QED BY <3>2 DEF Carries, P!Sym, P!Tokens, P!Partial, P!Lists
  <2>. QED BY <1>2, <2>1, Moves
<1>3. CASE P!Becomes("exprstmt", "Stmt", P!ast_expr(P!Val(2)))
  <2>1. P!StmtShape(P!ast_expr(P!Val(2)), E, S)
    BY <1>3, Operands DEF P!Becomes, P!StmtShape, P!ast_expr
  <2>. QED BY <1>3, <2>1, MakesStmt
<1>4. CASE P!Becomes("blockstmt", "Stmt", P!Val(1))
  <2>1. P!StmtShape(P!Val(1), E, S)
    BY <1>4, Operands, BlockShape DEF P!Becomes
  <2>. QED BY <1>4, <2>1, MakesStmt
<1>5. CASE P!Becomes("return0", "Stmt", P!ast_return(P!NullNode))
  <2>1. P!StmtShape(P!ast_return(P!NullNode), E, S)
    BY DEF P!StmtShape, P!ast_return
  <2>. QED BY <1>5, <2>1, MakesStmt
<1>6. CASE P!Becomes("return", "Stmt", P!ast_return(P!Val(2)))
  <2>1. P!StmtShape(P!ast_return(P!Val(2)), E, S)
    BY <1>6, Operands DEF P!Becomes, P!StmtShape, P!ast_return
  <2>. QED BY <1>6, <2>1, MakesStmt
<1>7. CASE P!Becomes("empty", "Stmt", P!NullNode)
  <2>1. Carries(P!Sym("Stmt", P!NullNode), E, S)
    BY DEF Carries, P!Sym, P!Tokens, P!Partial, P!Lists
  <2>. QED BY <1>7, <2>1, Moves
<1>8. CASE P!Becomes("bad", "Stmt", P!NullNode)
  <2>1. Carries(P!Sym("Stmt", P!NullNode), E, S)
    BY DEF Carries, P!Sym, P!Tokens, P!Partial, P!Lists
  <2>. QED BY <1>8, <2>1, Moves
<1>9. CASE P!Becomes("block", "Block", P!Val(2))
  <2>1. Carries(P!Sym("Block", P!Val(2)), E, S)
    <3>1. Block(P!Val(2), S) BY <1>9, Operands DEF P!Becomes
    <3>. QED BY <3>1 DEF Carries, P!Sym, P!Tokens, P!Partial, P!Lists
  <2>. QED BY <1>9, <2>1, Moves
<1>10. CASE P!Becomes("declinit", "Stmt", P!ast_decl(P!Val(5).type, P!Val(4).name, P!Val(2)))
  <2>1. P!StmtShape(P!ast_decl(P!Val(5).type, P!Val(4).name, P!Val(2)), E, S)
    BY <1>10, Operands DEF P!Becomes, P!StmtShape, P!ast_decl
  <2>. QED BY <1>10, <2>1, MakesStmt
<1>11. CASE P!Becomes("decl", "Stmt", P!ast_decl(P!Val(3).type, P!Val(2).name, P!NullNode))
  <2>1. P!StmtShape(P!ast_decl(P!Val(3).type, P!Val(2).name, P!NullNode), E, S)
    BY <1>11, Operands DEF P!Becomes, P!StmtShape, P!ast_decl
  <2>. QED BY <1>11, <2>1, MakesStmt
<1>12. CASE P!Becomes("if", "Stmt", P!ast_if(P!Val(3), P!Val(1), P!NullNode))
  <2>1. P!StmtShape(P!ast_if(P!Val(3), P!Val(1), P!NullNode), E, S)
    BY <1>12, Operands DEF P!Becomes, P!StmtShape, P!ast_if
  <2>. QED BY <1>12, <2>1, MakesStmt
<1>13. CASE P!Becomes("ifelse", "Stmt", P!ast_if(P!Val(5), P!Val(3), P!Val(1)))
  <2>1. P!StmtShape(P!ast_if(P!Val(5), P!Val(3), P!Val(1)), E, S)
    BY <1>13, Operands DEF P!Becomes, P!StmtShape, P!ast_if
  <2>. QED BY <1>13, <2>1, MakesStmt
<1>14. CASE P!Becomes("while", "Stmt", P!ast_while(P!Val(3), P!Val(1)))
  <2>1. P!StmtShape(P!ast_while(P!Val(3), P!Val(1)), E, S)
    BY <1>14, Operands DEF P!Becomes, P!StmtShape, P!ast_while
  <2>. QED BY <1>14, <2>1, MakesStmt
<1>15. CASE P!Becomes("for", "Stmt", P!ast_for(P!Val(7), P!Val(5), P!Val(3), P!Val(1)))
  <2>1. P!StmtShape(P!ast_for(P!Val(7), P!Val(5), P!Val(3), P!Val(1)), E, S)
    BY <1>15, Operands DEF P!Becomes, P!StmtShape, P!ast_for
  <2>. QED BY <1>15, <2>1, MakesStmt
<1>. QED BY <1>1, <1>2, <1>3, <1>4, <1>5, <1>6, <1>7, <1>8, <1>9, <1>10, <1>11, <1>12, <1>13,
      <1>14, <1>15 DEF P!ReduceStmt

(* A list gets a new node: the node is added first.                        *)
LEMMA ListReductions ==
    ASSUME NEW E, NEW S, Grammar(E, S), Stacked(stack, E, S), P!ReduceList
    PROVE  Keeps(E, S)
<1>. USE Productions
<1>1. CASE P!Becomes("param", "Param", P!ast_decl(P!Val(2).type, P!Val(1).name, P!NullNode))
  <2>1. P!StmtShape(P!ast_decl(P!Val(2).type, P!Val(1).name, P!NullNode), E, S)
    BY <1>1, Operands DEF P!Becomes, P!StmtShape, P!ast_decl
  <2>2. P!ast_decl(P!Val(2).type, P!Val(1).name, P!NullNode).kind = "decl" BY DEF P!ast_decl
  <2>. QED BY <1>1, <2>1, <2>2, MakesStmt
<1>2. CASE P!Becomes("params0", "ParamList", P!ast_block(<<>>))
  <2>1. Carries(P!Sym("ParamList", P!ast_block(<<>>)), E, S)
    BY Blocks DEF Carries, P!Sym, P!Tokens, P!Partial, P!Lists
  <2>. QED BY <1>2, <2>1, Moves
<1>3. CASE P!Becomes("params1", "ParamList", P!ast_block(<<P!Val(1)>>))
  <2>1. Carries(P!Sym("ParamList", P!ast_block(<<P!Val(1)>>)), E, S)
    <3>1. Block(P!ast_block(<<P!Val(1)>>), Decls(S)) BY <1>3, Operands, Blocks DEF P!Becomes
    <3>. QED BY <3>1 DEF Carries, P!Sym, P!Tokens, P!Partial, P!Lists
  <2>. QED BY <1>3, <2>1, Moves
<1>4. CASE P!Becomes("params", "ParamList", P!add_stmt(P!Val(3), P!Val(1)))
  <2>1. Carries(P!Sym("ParamList", P!add_stmt(P!Val(3), P!Val(1))), E, S)
    <3>1. Block(P!add_stmt(P!Val(3), P!Val(1)), Decls(S)) BY <1>4, Operands, Blocks DEF P!Becomes
    <3>. QED BY <3>1 DEF Carries, P!Sym, P!Tokens, P!Partial, P!Lists
  <2>. QED BY <1>4, <2>1, Moves
<1>5. CASE P!Becomes("args0", "ArgList", P!ast_block(<<>>))
  <2>1. Carries(P!Sym("ArgList", P!ast_block(<<>>)), E, S)
    BY Blocks DEF Carries, P!Sym, P!Tokens, P!Partial, P!Lists
  <2>. QED BY <1>5, <2>1, Moves
<1>6. CASE P!Becomes("args1", "ArgList", P!ast_block(<<P!ast_expr(P!Val(1))>>))
  <2>. DEFINE d == P!ast_expr(P!Val(1))
              T == S \cup {d}
              l == P!ast_block(<<d>>)
  <2>1. P!StmtShape(d, E, S) /\ d.kind = "expr"
    BY <1>6, Operands DEF P!Becomes, P!StmtShape, P!ast_expr
  <2>2. Grammar(E, T) /\ S \subseteq T /\ d \in Arguments(T) BY <2>1, AddStmt DEF Arguments
  <2>. HIDE DEF d, T
  <2>3. Block(l, Arguments(T))
    BY <2>2, Blocks
  <2>. HIDE DEF l
  <2>4. Carries(P!Sym("ArgList", l), E, T) BY <2>3 DEF Carries, P!Sym, P!Tokens, P!Partial, P!Lists
  <2>5. Len(P!Rhs["args1"]) # Len(stack) BY <1>6, Above DEF P!Becomes
  <2>6. Stacked(stack', E, T) BY <1>6, <2>2, <2>4, <2>5, Reduced DEF d, l
  <2>. QED BY <2>2, <2>6 DEF Keeps
<1>7. CASE P!Becomes("args", "ArgList", P!add_stmt(P!Val(3), P!ast_expr(P!Val(1))))
  <2>. DEFINE d == P!ast_expr(P!Val(1))
              T == S \cup {d}
              l == P!add_stmt(P!Val(3), d)
  <2>1. P!StmtShape(d, E, S) /\ d.kind = "expr"
    BY <1>7, Operands DEF P!Becomes, P!StmtShape, P!ast_expr
  <2>2. Grammar(E, T) /\ S \subseteq T /\ d \in Arguments(T) BY <2>1, AddStmt DEF Arguments
  <2>. HIDE DEF d, T
  <2>3. Block(l, Arguments(T))
    <3>1. Block(P!Val(3), Arguments(S)) BY <1>7, Operands DEF P!Becomes
    <3>2. Block(P!Val(3), Arguments(T)) BY <2>2, <3>1, SeqGrows DEF Block
    <3>. QED BY <2>2, <3>2, Blocks
  <2>. HIDE DEF l
  <2>4. Carries(P!Sym("ArgList", l), E, T) BY <2>3 DEF Carries, P!Sym, P!Tokens, P!Partial, P!Lists
  <2>5. Len(P!Rhs["args"]) # Len(stack) BY <1>7, Above DEF P!Becomes
  <2>6. Stacked(stack', E, T) BY <1>7, <2>2, <2>4, <2>5, Reduced DEF d, l
  <2>. QED BY <2>2, <2>6 DEF Keeps
<1>. QED BY <1>1, <1>2, <1>3, <1>4, <1>5, <1>6, <1>7 DEF P!ReduceList

(* The arguments of a call are the expressions of its statements.          *)
LEMMA ArgsAre ==
    ASSUME NEW E, NEW S, Grammar(E, S), NEW v, Block(v, Arguments(S))
    PROVE  P!ArgsOf(v) \in Seq(E)
<1>. DEFINE n == Len(v.stmts)
<1>1. /\ v.stmts \in Seq(Arguments(S)) /\ n \in Nat /\ DOMAIN v.stmts = 1 .. n
      /\ \A i \in 1 .. n : v.stmts[i] \in Arguments(S)
  BY LenProperties, ElementOfSeq DEF Block
<1>2. \A d \in Arguments(S) : d.expr \in E BY DEF Grammar, Arguments, P!StmtShape
<1>3. P!ArgsOf(v) = [i \in 1 .. n |-> v.stmts[i].expr] BY <1>1 DEF P!ArgsOf
<1>. HIDE DEF n
<1>4. P!ArgsOf(v) \in [1 .. n -> E] BY <1>1, <1>2, <1>3
<1>. QED BY <1>1, <1>4

(* A reduction to an expression leaves trees on the stack.                 *)
LEMMA ExprReductions ==
    ASSUME NEW E, NEW S, Grammar(E, S), Stacked(stack, E, S), P!ReduceExpr
    PROVE  Keeps(E, S)
<1>. USE Productions
<1>1. CASE P!Becomes("assign", "Expr", P!ast_assign(P!Val(3).name, P!Val(1)))
  <2>1. P!ExprShape(P!ast_assign(P!Val(3).name, P!Val(1)), E)
    BY <1>1, Operands DEF P!Becomes, P!ExprShape, P!ast_assign
  <2>. QED BY <1>1, <2>1, MakesExpr
<1>2. CASE P!Becomes("binary", "Expr", P!ast_binary(P!Val(2).op, P!Val(3), P!Val(1)))
  <2>1. P!ExprShape(P!ast_binary(P!Val(2).op, P!Val(3), P!Val(1)), E)
    BY <1>2, Operands DEF P!Becomes, P!ExprShape, P!ast_binary
  <2>. QED BY <1>2, <2>1, MakesExpr
<1>3. CASE P!Becomes("unary", "Expr", P!ast_unary(P!Val(2).op, P!Val(1)))
  <2>1. P!ExprShape(P!ast_unary(P!Val(2).op, P!Val(1)), E)
    BY <1>3, Operands DEF P!Becomes, P!ExprShape, P!ast_unary
  <2>. QED BY <1>3, <2>1, MakesExpr
<1>4. CASE P!Becomes("paren", "Expr", P!Val(2))
  <2>1. P!ExprShape(P!Val(2), E)
    BY <1>4, Operands DEF P!Becomes, Grammar
  <2>. QED BY <1>4, <2>1, MakesExpr
<1>5. CASE P!Becomes("ident", "Expr", P!Val(1))
  <2>1. P!ExprShape(P!Val(1), E)
    BY <1>5, Operands DEF P!Becomes, P!ExprShape
  <2>. QED BY <1>5, <2>1, MakesExpr
<1>6. CASE P!Becomes("call", "Expr", P!ast_call(P!Val(4).name, P!ArgsOf(P!Val(2))))
  <2>1. P!ExprShape(P!ast_call(P!Val(4).name, P!ArgsOf(P!Val(2))), E)
    <3>1. P!Val(4).name \in Names /\ P!ArgsOf(P!Val(2)) \in Seq(E)
      BY <1>6, Operands, ArgsAre DEF P!Becomes
    <3>. QED BY <3>1 DEF P!ExprShape, P!ast_call
  <2>. QED BY <1>6, <2>1, MakesExpr
<1>7. CASE P!Becomes("literal", "Expr", P!Val(1))
  <2>1. P!ExprShape(P!Val(1), E)
    BY <1>7, Operands DEF P!Becomes, P!ExprShape
  <2>. QED BY <1>7, <2>1, MakesExpr
<1>. QED BY <1>1, <1>2, <1>3, <1>4, <1>5, <1>6, <1>7 DEF P!ReduceExpr

-----------------------------------------------------------------------------
(* The invariant after a step: trees that grew, and tokens yet to come.     *)
Remaining == \E n \in 0 .. Len(input) : rest = SubSeq(input, n + 1, Len(input))

(* What is left to show of a step that reads at most a token and does not  *)
(* end the parse.                                                          *)
LEMMA Follows ==
    ASSUME ParserInv, NEW E, NEW S, Trees(E, S), Keeps(E, S),
           g_params_buf' = g_params_buf \/ g_params_buf' \in Seq(Decls(S)),
           UNCHANGED <<input, g_program_ast, parsing>>, Remaining', g_parse_errors' \in Nat
    PROVE  ParserInv'
<1>1. PICK F, T : E \subseteq F /\ S \subseteq T /\ Grammar(F, T) /\ Stacked(stack', F, T)
  BY DEF Keeps
<1>2. g_params_buf' \in Seq(Decls(T)) BY <1>1, SeqGrows DEF Trees
<1>3. g_program_ast' = P!NullNode \/ Block(g_program_ast', T) BY <1>1, SeqGrows DEF Trees, Block
<1>4. \E A, B : /\ Grammar(A, B) /\ Stacked(stack', A, B) /\ g_params_buf' \in Seq(Decls(B))
                /\ g_program_ast' = P!NullNode \/ Block(g_program_ast', B)
  BY <1>1, <1>2, <1>3
<1>. QED BY <1>4 DEF ParserInv, Trees, Remaining

(* The stack is another one, the trees are the same.                       *)
LEMMA SameTrees ==
    ASSUME NEW E, NEW S, Trees(E, S), Stacked(stack', E, S)
    PROVE  Keeps(E, S)
BY DEF Keeps, Trees

(* A symbol on top of a stack that is not empty.                           *)
LEMMA Pushed ==
    ASSUME NEW E, NEW S, NEW st, Stacked(st, E, S), st # <<>>, NEW y, Carries(y, E, S)
    PROVE  Stacked(Append(st, y), E, S)
<1>1. PICK A : st \in Seq(A) BY DEF Stacked, IsSeq
<1>2. st \in Seq(A \cup {y}) BY <1>1, SeqMonotonic
<1>. DEFINE t == Append(st, y)
            n == Len(st)
<1>3. /\ n \in Nat \ {0} /\ DOMAIN st = 1 .. n /\ IsSeq(t) /\ DOMAIN t = 1 .. n + 1
      /\ t[n + 1] = y /\ \A i \in 1 .. n : t[i] = st[i]
  BY <1>2, AppendProperties, LenProperties, EmptySeq DEF IsSeq
<1>4. ASSUME NEW i \in DOMAIN t PROVE Carries(t[i], E, S)
  <2>1. CASE i = n + 1 BY <1>3, <2>1
  <2>2. CASE i # n + 1
    <3>1. i \in 1 .. n BY <1>3, <2>2
    <3>. QED BY <1>3, <3>1 DEF Stacked
  <2>. QED BY <2>1, <2>2
<1>5. t[1].s = "StmtList"
  <2>1. 1 \in 1 .. n BY <1>3
  <2>. QED BY <1>3, <2>1 DEF Stacked
<1>. QED BY <1>3, <1>4, <1>5 DEF Stacked

(* The next token.                                                         *)
LEMMA NextToken ==
    ASSUME ParserInv, rest # <<>>, NEW E, NEW S
    PROVE  /\ Carries(P!Lookahead, E, S) /\ P!la \in P!Tokens
           /\ (rest' = Tail(rest) /\ input' = input => Remaining')
<1>1. PICK n \in 0 .. Len(input) : rest = SubSeq(input, n + 1, Len(input)) BY DEF ParserInv
<1>2. input \in Seq({input[i] : i \in DOMAIN input}) /\ \A i \in DOMAIN input : P!IsToken(input[i])
  BY DEF ParserInv, TokenText
<1>. DEFINE I == {input[i] : i \in DOMAIN input}
            m == Len(input)
<1>3. m \in Nat /\ DOMAIN input = 1 .. m /\ n \in Nat /\ n <= m BY <1>2, LenProperties
<1>4. /\ rest \in Seq(I) /\ Len(rest) = IF n + 1 <= m THEN m - (n + 1) + 1 ELSE 0
      /\ \A i \in 1 .. m - (n + 1) + 1 : rest[i] = input[n + 1 + i - 1]
  <2>1. \A i \in n + 1 .. m : input[i] \in I BY <1>3
  <2>. QED BY <1>1, <1>3, <2>1, SubSeqProperties
<1>. HIDE DEF I, m
<1>5. n < m
  <2>1. Len(rest) \in Nat \ {0} BY <1>4, EmptySeq
  <2>. QED BY <1>3, <1>4, <2>1
<1>6. /\ Tail(rest) \in Seq(I) /\ Len(Tail(rest)) = Len(rest) - 1 /\ Head(rest) = rest[1]
      /\ \A i \in 1 .. Len(Tail(rest)) : Tail(rest)[i] = rest[i + 1]
  BY <1>4, HeadTailProperties
<1>. DEFINE k == Len(rest)
<1>7. k = m - n BY <1>3, <1>4, <1>5
<1>. HIDE DEF k
<1>8. \A i \in 1 .. k : rest[i] = input[n + i]
  <2>1. ASSUME NEW i \in 1 .. k PROVE rest[i] = input[n + i]
    <3>1. i \in 1 .. m - (n + 1) + 1 /\ n + 1 + i - 1 = n + i BY <1>3, <1>7
    <3>. QED BY <1>4, <3>1
  <2>. QED BY <2>1
<1>9. Head(rest) = input[n + 1] /\ n + 1 \in DOMAIN input BY <1>3, <1>5, <1>6, <1>7, <1>8
<1>10. P!IsToken(P!Lookahead) BY <1>2, <1>9 DEF P!Lookahead
<1>11. Carries(P!Lookahead, E, S) /\ P!la \in P!Tokens
  BY <1>10 DEF P!IsToken, Carries, P!la, P!Tokens, P!Partial, P!Lists
<1>12. Tail(rest) = SubSeq(input, n + 1 + 1, m)
  <2>. DEFINE u == SubSeq(input, n + 1 + 1, m)
              l == Len(u)
  <2>1. /\ u \in Seq(I) /\ l = IF n + 1 + 1 <= m THEN m - (n + 1 + 1) + 1 ELSE 0
        /\ \A i \in 1 .. m - (n + 1 + 1) + 1 : u[i] = input[n + 1 + 1 + i - 1]
    <3>1. \A i \in n + 1 + 1 .. m : input[i] \in I BY <1>3 DEF I
    <3>. QED BY <1>3, <3>1, SubSeqProperties
  <2>. HIDE DEF u, l
  <2>2. l = m - n - 1 /\ Len(Tail(rest)) = m - n - 1 BY <1>3, <1>5, <1>6, <1>7, <2>1 DEF k
  <2>3. ASSUME NEW i \in 1 .. l PROVE u[i] = Tail(rest)[i]
    <3>1. /\ i \in 1 .. m - (n + 1 + 1) + 1 /\ n + 1 + 1 + i - 1 = n + (i + 1)
          /\ i \in 1 .. Len(Tail(rest)) /\ i + 1 \in 1 .. k
      BY <1>3, <1>7, <2>2
    <3>. QED BY <1>6, <1>8, <2>1, <3>1
  <2>. QED BY <1>6, <2>1, <2>2, <2>3, SeqEqual DEF u, l
<1>13. n + 1 \in 0 .. m BY <1>3, <1>5
<1>. QED BY <1>11, <1>12, <1>13 DEF Remaining, m

(* While there is nothing to reduce the stack is not empty.                *)
LEMMA NotEmpty ==
    ASSUME P!Handles = {}
    PROVE  stack # <<>>
<1>1. SUFFICES ASSUME stack = <<>> PROVE FALSE OBVIOUS
<1>2. "stmts0" \in DOMAIN P!Rhs /\ P!Rhs["stmts0"] = <<>> BY DEF P!Rhs
<1>3. Len(<<>>) = 0 /\ DOMAIN <<>> = {} OBVIOUS
<1>4. P!OnTop(P!Rhs["stmts0"]) BY <1>1, <1>2, <1>3 DEF P!OnTop
<1>5. P!Handle("stmts0") BY <1>1, <1>4 DEF P!Handle, P!Applies, P!Waits
<1>. QED BY <1>2, <1>5 DEF P!Handles

(* The end of the file is not shifted.                                     *)
LEMMA ShiftsToken ==
    ASSUME P!Shiftable
    PROVE  rest # <<>>
<1>1. SUFFICES ASSUME rest = <<>> PROVE FALSE OBVIOUS
<1>2. P!la = "$end" BY <1>1 DEF P!la, P!Lookahead, P!EndOfFile, P!Mark, P!Sym
<1>3. ~P!StartsExpr /\ P!la \notin P!StmtStart BY <1>2 DEF P!StartsExpr, P!ExprStart, P!StmtStart
<1>4. P!AfterExpr \in {";", ")"} BY DEF P!AfterExpr
<1>. QED BY <1>2, <1>3, <1>4 DEF P!Shiftable

-----------------------------------------------------------------------------
(* The actions of yyparse.                                                 *)
LEMMA ShiftKeeps == ParserInv /\ P!Shift => ParserInv'
<1>1. SUFFICES ASSUME ParserInv, P!Shift PROVE ParserInv' OBVIOUS
<1>2. PICK E, S : Trees(E, S) BY <1>1 DEF ParserInv
<1>3. /\ rest # <<>> /\ stack # <<>> /\ stack' = Append(stack, P!Shifted)
      /\ rest' = Tail(rest) /\ input' = input
  BY <1>1, ShiftsToken, NotEmpty DEF P!Shift
<1>4. Carries(P!Lookahead, E, S) /\ Remaining' BY <1>1, <1>3, NextToken
<1>5. Carries(P!Shifted, E, S)
  <2>1. CASE P!la = "not" \/ (P!la = "binop" /\ P!Name(1) # "Expr")
    <3>. DEFINE op == IF P!la = "not" THEN "not" ELSE "neg"
    <3>1. P!Shifted = P!Sym("unop", [kind |-> "op", op |-> op]) BY <2>1 DEF P!Shifted
    <3>2. op \in P!UnOps BY DEF P!UnOps
    <3>. HIDE DEF op
    <3>. QED BY <3>1, <3>2 DEF Carries, P!Sym, P!Tokens, P!Partial, P!Lists
  <2>2. CASE ~(P!la = "not" \/ (P!la = "binop" /\ P!Name(1) # "Expr"))
    BY <1>4, <2>2 DEF P!Shifted
  <2>. QED BY <2>1, <2>2
<1>6. Stacked(stack', E, S) BY <1>2, <1>3, <1>5, Pushed DEF Trees
<1>7. g_parse_errors' \in Nat BY <1>1 DEF P!Shift, P!Lexed, ParserInv
<1>8. UNCHANGED <<input, g_params_buf, g_program_ast, parsing>> BY <1>1 DEF P!Shift
<1>. QED BY <1>1, <1>2, <1>4, <1>6, <1>7, <1>8, SameTrees, Follows

(* A reduction.                                                            *)
LEMMA ReduceKeeps == ParserInv /\ P!Reduce => ParserInv'
<1>1. SUFFICES ASSUME ParserInv, P!Reduce PROVE ParserInv' OBVIOUS
<1>2. PICK E, S : Trees(E, S) BY <1>1 DEF ParserInv
<1>3. Keeps(E, S) BY <1>1, <1>2, StmtReductions, ListReductions, ExprReductions DEF Trees, P!Reduce
<1>4. UNCHANGED <<input, rest, g_params_buf, g_program_ast, g_parse_errors, parsing>>
  BY <1>1 DEF P!Reduce, P!parser
<1>5. Remaining' /\ g_parse_errors' \in Nat BY <1>1, <1>4 DEF ParserInv, Remaining
<1>. QED BY <1>1, <1>2, <1>3, <1>4, <1>5, Follows

(* The parameters are put aside: they are declarations.                    *)
LEMMA BeginKeeps == ParserInv /\ P!BeginFunction => ParserInv'
<1>1. SUFFICES ASSUME ParserInv, P!BeginFunction PROVE ParserInv' OBVIOUS
<1>2. PICK E, S : Trees(E, S) BY <1>1 DEF ParserInv
<1>3. P!Handle("midrule") /\ P!Becomes("midrule", "$@1", P!NullNode)
      /\ g_params_buf' = P!Val(2).stmts
  BY <1>1 DEF P!BeginFunction, P!Becomes
<1>4. Carries(P!Sym("$@1", P!NullNode), E, S) BY DEF Carries, P!Sym, P!Tokens, P!Partial, P!Lists
<1>5. Keeps(E, S) BY <1>2, <1>3, <1>4, Moves, Productions DEF Trees
<1>6. P!OnTop(<<"TYPE", "id", "(", "ParamList", ")">>) BY <1>3 DEF P!Handle, P!Applies
<1>7. 5 <= Len(stack) /\ P!Name(2) = "ParamList" BY <1>6, Tops
<1>8. Len(stack) \in Nat BY <1>2, IsSeqFacts DEF Trees, Stacked
<1>9. Carries(P!Sym("ParamList", P!Val(2)), E, S) BY <1>2, <1>7, <1>8, NthCarries DEF Trees
<1>10. g_params_buf' \in Seq(Decls(S)) BY <1>3, <1>9, Means DEF Block
<1>11. UNCHANGED <<input, rest, g_program_ast, g_parse_errors, parsing>> BY <1>1 DEF P!BeginFunction
<1>12. Remaining' /\ g_parse_errors' \in Nat BY <1>1, <1>11 DEF ParserInv, Remaining
<1>. QED BY <1>1, <1>2, <1>5, <1>10, <1>11, <1>12, Follows

(* The body becomes a statement, and then the function.                    *)
LEMMA EndKeeps == ParserInv /\ P!EndFunction => ParserInv'
<1>1. SUFFICES ASSUME ParserInv, P!EndFunction PROVE ParserInv' OBVIOUS
<1>2. PICK E, S : Trees(E, S) BY <1>1 DEF ParserInv
<1>. DEFINE d == P!ast_function(P!Val(7).type, P!Val(6).name, g_params_buf, P!Val(1))
            T == S \cup {P!Val(1)}
            U == T \cup {d}
<1>3. P!Becomes("function", "Stmt", d) /\ P!Handle("function") BY <1>1 DEF P!EndFunction, P!Becomes
<1>4. P!Val(7).type \in P!TypeTags /\ P!Val(6).name \in Names /\ Block(P!Val(1), S)
  BY <1>2, <1>3, Operands DEF Trees
<1>5. Grammar(E, T) BY <1>2, <1>4, BlockShape, AddStmt DEF Trees
<1>6. g_params_buf \in Seq(Decls(T)) BY <1>2, SeqGrows DEF Trees
<1>7. P!StmtShape(d, E, T) BY <1>4, <1>6 DEF P!StmtShape, P!ast_function, Block, Decls
<1>8. Grammar(E, U) BY <1>5, <1>7, AddStmt
<1>9. Carries(P!Sym("Stmt", d), E, U) BY DEF Carries, P!Sym, P!Tokens, P!Partial, P!Lists
<1>10. S \subseteq U OBVIOUS
<1>. HIDE DEF d, U
<1>11. "function" \in DOMAIN P!Rhs BY Productions
<1>12. Len(P!Rhs["function"]) # Len(stack) BY <1>2, <1>3, <1>11, Above DEF Trees
<1>13. Stacked(stack', E, U) BY <1>2, <1>3, <1>9, <1>10, <1>11, <1>12, Reduced DEF Trees
<1>14. Keeps(E, S) BY <1>8, <1>10, <1>13 DEF Keeps
<1>15. g_params_buf' \in Seq(Decls(S)) BY <1>1, EmptySeq DEF P!EndFunction
<1>16. UNCHANGED <<input, rest, g_program_ast, g_parse_errors, parsing>> BY <1>1 DEF P!EndFunction
<1>17. Remaining' /\ g_parse_errors' \in Nat BY <1>1, <1>16 DEF ParserInv, Remaining
<1>. QED BY <1>1, <1>2, <1>14, <1>15, <1>16, <1>17, Follows

(* The root is the list of statements that is the whole stack.             *)
LEMMA AcceptKeeps == ParserInv /\ P!Accept => ParserInv'
<1>1. SUFFICES ASSUME ParserInv, P!Accept PROVE ParserInv' OBVIOUS
<1>2. PICK E, S : Trees(E, S) BY <1>1 DEF ParserInv
<1>3. P!Name(1) = "StmtList" /\ 1 <= Len(stack) BY <1>1, Tops DEF P!Accept
<1>4. Len(stack) \in Nat BY <1>2, IsSeqFacts DEF Trees, Stacked
<1>5. Carries(P!Sym("StmtList", P!Val(1)), E, S) BY <1>2, <1>3, <1>4, NthCarries DEF Trees
<1>6. Block(P!Val(1), S) BY <1>5, Means
<1>7. P!Val(1) # P!NullNode BY <1>6 DEF Block, P!NullNode
<1>8. UNCHANGED <<input, rest, stack, g_params_buf, g_parse_errors>> /\ parsing' = "accepted"
      /\ g_program_ast' = P!Val(1)
  BY <1>1 DEF P!Accept
<1>9. \E A, B : /\ Grammar(A, B) /\ Stacked(stack', A, B) /\ g_params_buf' \in Seq(Decls(B))
                /\ g_program_ast' = P!NullNode \/ Block(g_program_ast', B)
  BY <1>2, <1>6, <1>8 DEF Trees
<1>. QED BY <1>1, <1>7, <1>8, <1>9 DEF ParserInv, Trees

(* Recovery keeps the list of statements at the bottom.                    *)
LEMMA KeptIs ==
    ASSUME NEW E, NEW S, Stacked(stack, E, S), stack # <<>>
    PROVE  Stacked(Append(P!Kept, P!Mark("error")), E, S)
<1>. DEFINE before == {j \in DOMAIN stack :
                          \/ stack[j].s \in {"StmtList", "else"}
                          \/ /\ stack[j].s = ")"
                             /\ ~(j > 1 /\ stack[j - 1].s = "ParamList")
                             /\ ~(j > 1 /\ stack[j - 1].s = "ArgList")}
            n == Len(stack)
            m == CHOOSE j \in before : \A k \in before : k <= j
<1>1. IsSeq(stack) /\ n \in Nat \ {0} /\ DOMAIN stack = 1 .. n BY IsSeqFacts DEF Stacked
<1>2. 1 \in before BY <1>1 DEF Stacked
<1>3. before \subseteq 1 .. n BY <1>1
<1>. HIDE DEF before
<1>4. \E j \in before : \A k \in before : k <= j
  <2>. DEFINE rev == {n - j : j \in before}
  <2>1. rev \subseteq Nat /\ n - 1 \in rev BY <1>1, <1>2, <1>3
  <2>2. PICK x \in rev : \A y \in rev : x <= y BY <2>1, LeastNumber
  <2>3. PICK j \in before : x = n - j BY <2>2
  <2>4. ASSUME NEW k \in before PROVE k <= j
    <3>1. n - j <= n - k BY <2>2, <2>3
    <3>. QED BY <1>1, <1>3, <3>1
  <2>. QED BY <2>4
<1>5. m \in before BY <1>4
<1>6. P!Kept = SubSeq(stack, 1, m) BY DEF P!Kept, before
<1>. HIDE DEF m
<1>7. m \in 1 .. n /\ m \in 0 .. n BY <1>1, <1>3, <1>5
<1>. DEFINE y == P!Mark("error")
            t == Append(P!Kept, y)
<1>8. /\ IsSeq(t) /\ DOMAIN t = 1 .. m + 1 /\ t[m + 1] = y /\ \A i \in 1 .. m : t[i] = stack[i]
  BY <1>1, <1>6, <1>7, Spliced
<1>9. Carries(y, E, S) BY DEF Carries, P!Mark, P!Sym, P!Tokens, P!Partial, P!Lists
<1>. HIDE DEF t, y
<1>10. ASSUME NEW i \in DOMAIN t PROVE Carries(t[i], E, S)
  <2>1. CASE i = m + 1 BY <1>8, <1>9, <2>1
  <2>2. CASE i # m + 1
    <3>1. i \in 1 .. m /\ i \in DOMAIN stack BY <1>1, <1>7, <1>8, <2>2
    <3>. QED BY <1>8, <3>1 DEF Stacked
  <2>. QED BY <2>1, <2>2
<1>11. t[1].s = "StmtList"
  <2>1. 1 \in 1 .. m BY <1>7
  <2>. QED BY <1>8, <2>1 DEF Stacked
<1>. QED BY <1>8, <1>10, <1>11 DEF Stacked, t, y

(* A syntax error: what is kept still begins with a list of statements.    *)
LEMMA ErrorKeeps == ParserInv /\ P!SyntaxError => ParserInv'
<1>1. SUFFICES ASSUME ParserInv, P!SyntaxError PROVE ParserInv' OBVIOUS
<1>2. PICK E, S : Trees(E, S) BY <1>1 DEF ParserInv
<1>3. stack # <<>> /\ stack' = Append(P!Kept, P!Mark("error"))
  BY <1>1, NotEmpty DEF P!SyntaxError, P!Wrong
<1>4. Stacked(stack', E, S) BY <1>2, <1>3, KeptIs DEF Trees
<1>5. UNCHANGED <<input, rest, g_params_buf, g_program_ast, parsing>> BY <1>1 DEF P!SyntaxError
<1>6. Remaining' /\ g_parse_errors' \in Nat
  BY <1>1, <1>5 DEF P!SyntaxError, P!yyerror, ParserInv, Remaining
<1>. QED BY <1>1, <1>2, <1>4, <1>5, <1>6, SameTrees, Follows

(* A token is discarded.                                                   *)
LEMMA DiscardKeeps == ParserInv /\ P!Discard => ParserInv'
<1>1. SUFFICES ASSUME ParserInv, P!Discard PROVE ParserInv' OBVIOUS
<1>2. PICK E, S : Trees(E, S) BY <1>1 DEF ParserInv
<1>3. UNCHANGED <<input, stack, g_params_buf, g_program_ast, parsing>> /\ rest # <<>>
      /\ rest' = Tail(rest)
  BY <1>1 DEF P!Discard
<1>4. Remaining' BY <1>1, <1>3, NextToken
<1>5. g_parse_errors' \in Nat BY <1>1 DEF P!Discard, P!Lexed, ParserInv
<1>6. Stacked(stack', E, S) BY <1>2, <1>3 DEF Trees
<1>. QED BY <1>1, <1>2, <1>3, <1>4, <1>5, <1>6, SameTrees, Follows

(* "error ;" becomes a statement that is no node.                          *)
LEMMA ResumeKeeps == ParserInv /\ P!Resume => ParserInv'
<1>1. SUFFICES ASSUME ParserInv, P!Resume PROVE ParserInv' OBVIOUS
<1>2. PICK E, S : Trees(E, S) BY <1>1 DEF ParserInv
<1>3. P!Becomes("recovered", "Stmt", P!NullNode) BY <1>1 DEF P!Resume
<1>4. Carries(P!Sym("Stmt", P!NullNode), E, S) BY DEF Carries, P!Sym, P!Tokens, P!Partial, P!Lists
<1>5. Keeps(E, S) BY <1>2, <1>3, <1>4, Moves, Productions DEF Trees
<1>6. UNCHANGED <<input, rest, g_params_buf, g_program_ast, parsing>> BY <1>1 DEF P!Resume
<1>7. Remaining' /\ g_parse_errors' \in Nat
  BY <1>1, <1>6 DEF P!Resume, P!yyerror, ParserInv, Remaining
<1>. QED BY <1>1, <1>2, <1>5, <1>6, <1>7, Follows

(* A step that changes the status alone.                                   *)
LEMMA StatusKeeps ==
    ASSUME ParserInv, UNCHANGED <<input, rest, stack, P!parser>>,
           parsing' \in {"parsing", "unreadable", "aborted", "exited"} \/ parsing' = parsing
    PROVE  ParserInv'
<1>1. UNCHANGED <<input, rest, stack, g_params_buf, g_program_ast, g_parse_errors>> BY DEF P!parser
<1>. QED BY <1>1 DEF ParserInv, Trees

(* A sequence is all of itself.                                            *)
LEMMA WholeSeq ==
    ASSUME NEW A, NEW x \in Seq(A)
    PROVE  x = SubSeq(x, 0 + 1, Len(x))
<1>. DEFINE m == Len(x)
            u == SubSeq(x, 1, m)
<1>1. m \in Nat /\ DOMAIN x = 1 .. m /\ \A i \in 1 .. m : x[i] \in A
  BY LenProperties, ElementOfSeq
<1>2. /\ u \in Seq(A) /\ Len(u) = IF 1 <= m THEN m - 1 + 1 ELSE 0
      /\ \A i \in 1 .. m - 1 + 1 : u[i] = x[1 + i - 1]
  BY <1>1, SubSeqProperties
<1>. HIDE DEF m, u
<1>3. Len(u) = m BY <1>1, <1>2
<1>4. ASSUME NEW i \in 1 .. m PROVE x[i] = u[i]
  <2>1. i \in 1 .. m - 1 + 1 /\ 1 + i - 1 = i BY <1>1
  <2>. QED BY <1>2, <2>1
<1>5. x = u BY <1>3, <1>4, <1>2, SeqEqual DEF m
<1>6. 0 + 1 = 1 OBVIOUS
<1>. QED BY <1>5, <1>6 DEF u, m

(* The invariant holds at the start, of no trees.                          *)
LEMMA InitIInv ==
    ASSUME P!TokensAssumption
    PROVE  P!Init => ParserInv
<1>1. SUFFICES ASSUME P!Init PROVE ParserInv OBVIOUS
<1>2. input \in Files /\ rest = input /\ stack = <<>> /\ g_params_buf = <<>>
      /\ g_program_ast = P!NullNode /\ g_parse_errors = 0 /\ parsing = "opening"
  BY <1>1 DEF P!Init, P!Start
<1>3. TokenText(input) /\ input \in Seq({input[i] : i \in DOMAIN input})
  BY <1>2, P!TokensAssumption DEF TokenText
<1>4. Len(input) \in Nat BY <1>3, LenProperties
<1>5. input = SubSeq(input, 0 + 1, Len(input)) /\ 0 \in 0 .. Len(input)
  BY <1>3, <1>4, WholeSeq
<1>6. Grammar({}, {}) BY DEF Grammar
<1>7. Stacked(stack, {}, {})
  <2>1. IsSeq(<<>>) /\ DOMAIN <<>> = {} BY EmptySeq DEF IsSeq
  <2>. QED BY <1>2, <2>1 DEF Stacked
<1>8. Trees({}, {}) BY <1>2, <1>6, <1>7, EmptySeq DEF Trees
<1>. QED BY <1>2, <1>3, <1>5, <1>8 DEF ParserInv

(* Every step keeps it.                                                    *)
LEMMA NextIInv == ParserInv /\ [P!Next]_(P!vars) => ParserInv'
<1>1. SUFFICES ASSUME ParserInv, [P!Next]_(P!vars) PROVE ParserInv' OBVIOUS
<1>2. CASE P!Shift BY <1>1, <1>2, ShiftKeeps
<1>3. CASE P!Reduce BY <1>1, <1>3, ReduceKeeps
<1>4. CASE P!BeginFunction BY <1>1, <1>4, BeginKeeps
<1>5. CASE P!EndFunction BY <1>1, <1>5, EndKeeps
<1>6. CASE P!Accept BY <1>1, <1>6, AcceptKeeps
<1>7. CASE P!SyntaxError BY <1>1, <1>7, ErrorKeeps
<1>8. CASE P!Discard BY <1>1, <1>8, DiscardKeeps
<1>9. CASE P!Resume BY <1>1, <1>9, ResumeKeeps
<1>10. CASE P!Abort \/ P!Exit \/ P!Open BY <1>1, <1>10, StatusKeeps DEF P!Abort, P!Exit, P!Open
<1>11. CASE P!Finish \/ UNCHANGED P!vars BY <1>1, <1>11, StatusKeeps DEF P!Finish, P!vars, P!parser
<1>. QED BY <1>1, <1>2, <1>3, <1>4, <1>5, <1>6, <1>7, <1>8, <1>9, <1>10, <1>11 DEF P!Next, P!yyparse

(* It always holds.                                                        *)
LEMMA Invariant ==
    ASSUME P!TokensAssumption
    PROVE  P!Spec => []ParserInv
BY InitIInv, NextIInv, PTL DEF P!Spec

-----------------------------------------------------------------------------
(* What the symbols carry is what the type invariant asks of them.         *)
LEMMA InvTypes == ParserInv => P!TypeOK
<1>1. SUFFICES ASSUME ParserInv PROVE P!TypeOK OBVIOUS
<1>2. PICK E, S : Trees(E, S) BY <1>1 DEF ParserInv
<1>3. P!NullNode \notin S BY <1>2 DEF Trees, Grammar, P!StmtShape, P!NullNode
<1>4. \A v, T : Block(v, T) /\ T \subseteq S => P!NullNode \notin {v.stmts[k] : k \in DOMAIN v.stmts}
  <2>1. SUFFICES ASSUME NEW v, NEW T, Block(v, T), T \subseteq S, NEW k \in DOMAIN v.stmts
                 PROVE  v.stmts[k] # P!NullNode
    OBVIOUS
  <2>2. v.stmts[k] \in T BY <2>1, LenProperties, ElementOfSeq DEF Block
  <2>. QED BY <1>3, <2>1, <2>2
<1>5. ASSUME NEW i \in DOMAIN stack
      PROVE  /\ stack[i].s \in P!Tokens \cup P!Partial
             /\ stack[i].s = "Param" => stack[i].v.kind = "decl"
             /\ stack[i].s \in P!Lists =>
                   /\ stack[i].v.kind = "block"
                   /\ P!NullNode \notin {stack[i].v.stmts[k] : k \in DOMAIN stack[i].v.stmts}
             /\ stack[i].s = "Expr" =>
                   stack[i].v.kind \in P!Literals \cup {"ident", "unary", "binary", "call", "assign"}
  <2>1. Carries(stack[i], E, S) BY <1>2 DEF Trees, Stacked
  <2>2. stack[i].s \in P!Lists => \E T : Block(stack[i].v, T) /\ T \subseteq S
    BY <2>1 DEF Carries, P!Lists, Decls, Arguments
  <2>3. \A e \in E : e.kind \in P!Literals \cup {"ident", "unary", "binary", "call", "assign"}
    BY <1>2 DEF Trees, Grammar, P!ExprShape
  <2>. QED BY <1>4, <2>1, <2>2, <2>3 DEF Carries, Decls, Block
<1>6. ASSUME NEW k \in DOMAIN g_params_buf PROVE g_params_buf[k].kind = "decl"
  <2>1. g_params_buf[k] \in Decls(S) BY <1>2, LenProperties, ElementOfSeq DEF Trees
  <2>. QED BY <2>1 DEF Decls
<1>7. g_program_ast.kind \in {"null", "block"} BY <1>2 DEF Trees, Block, P!NullNode
<1>. QED BY <1>1, <1>5, <1>6, <1>7 DEF ParserInv, P!TypeOK

(* parser.y, whatever the tokens: every symbol of the stack has the value  *)
(* its production makes, the parameters put aside are declarations, and no *)
(* list holds a NULL.                                                      *)
THEOREM ParserTypes ==
    ASSUME P!TokensAssumption
    PROVE  P!Spec => []P!TypeOK
BY Invariant, InvTypes, PTL

(* When syntax_parse_path succeeds, its tree is one of the grammar: a block*)
(* of statements of the shapes the analyzer and the IR builder assume, down*)
(* to the last operand.                                                    *)
Grammatical ==
    P!parse_ok => \E E, S : Grammar(E, S) /\ Block(g_program_ast, S)

(* Recovery, empty statements and the parameters put aside in the middle of*)
(* a function never lead to a tree of another shape that is handed on.     *)
THEOREM TreesHandedOn ==
    ASSUME P!TokensAssumption
    PROVE  P!Spec => []Grammatical
<1>1. ParserInv => Grammatical BY DEF ParserInv, Trees, Grammatical, P!parse_ok
<1>. QED BY <1>1, Invariant, PTL
=============================================================================
