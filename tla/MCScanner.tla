----------------------------- MODULE MCScanner -----------------------------
(***************************************************************************)
(* The scanner on texts of two lexemes with blanks or a comment between    *)
(* them, of three lexemes with nothing between them, and on every short    *)
(* text over the characters that begin, end and break lexemes.             *)
(***************************************************************************)
EXTENDS Scanner, SequencesExt

MCLetters == {"i", "f", "e", "n", "x", "_"}
MCDigits  == {"1", "2"}
MCDigitValue == [d \in MCDigits |-> IF d = "1" THEN 1 ELSE 2]
MCKeywords   == (<<"i", "f">> :> "IF")
MCOperators  ==
    (<<"=">> :> "ASSIGN") @@ (<<"!">> :> "NOT") @@ (<<"<">> :> "LT") @@ (<<"-">> :> "MINUS")
    @@ (<<"*">> :> "TIMES") @@ (<<"/">> :> "DIVIDE") @@ (<<"(">> :> "LPAREN") @@ (<<";">> :> "SEMICOLON")
    @@ (<<"=", "=">> :> "EQ") @@ (<<"!", "=">> :> "NE") @@ (<<"<", "=">> :> "LE") @@ (<<"&", "&">> :> "AND")

-----------------------------------------------------------------------------
(* A lexeme and the token it is.                                           *)
Lexeme(x, s, v) == [x |-> x, s |-> s, v |-> v]
Word(x)   == Lexeme(x, "IDENT", x)
Number(x, v) == Lexeme(x, "INT_LIT", v)
Float(x)  == Lexeme(x, "FLOAT_LIT", x)
Op(x)     == Lexeme(x, MCOperators[x], x)

(* A string is written with escapes for what cannot stand for itself.      *)
Escape(c) ==
    CASE c = "\n" -> <<"\\", "n">>
      [] c = "\"" -> <<"\\", "\"">>
      [] c = "\\" -> <<"\\", "\\">>
      [] OTHER    -> <<c>>
String(v) ==
    Lexeme(<<"\"">> \o FlattenSeq([i \in DOMAIN v |-> Escape(v[i])]) \o <<"\"">>, "STRING_LIT", v)

Words   == {Word(<<"x">>), Word(<<"_", "2">>), Word(<<"e", "1">>), Word(<<"i", "f", "f">>),
            Lexeme(<<"i", "f">>, "IF", <<"i", "f">>)}
Ints    == {Number(<<"2">>, 2), Number(<<"1", "2", "2">>, 122)}
Floats  == {Float(<<"1", ".", "2">>), Float(<<"1", ".", "2", "e", "-", "1", "1">>)}
Ops     == {Op(x) : x \in DOMAIN MCOperators}
Strings == {String(<<>>), String(<<"/", "*">>), String(<<"\\", "n", "\"">>), String(<<"\n", "x", "\\">>)}
Lexemes == Words \cup Ints \cup Floats \cup Ops \cup Strings

(* Between two of these there must be something: words and numbers run     *)
(* into each other, "=" completes an operator, and "/" begins a comment.   *)
Begin(l) == l.x[1]
Glued(l, k) ==
    \/ l \in Words /\ k \in Words \cup Ints \cup Floats
    \/ l \in Ints \cup Floats /\ k \in Ints \cup Floats
    \/ l = Float(<<"1", ".", "2">>) /\ k = Word(<<"e", "1">>)
    \/ l \in {Op(<<"=">>), Op(<<"!">>), Op(<<"<">>)} /\ Begin(k) = "="
    \/ l = Op(<<"/">>) /\ Begin(k) \in {"/", "*"}

Blanks   == {<<" ", "\t">>, <<"\n">>, <<"\r", "\n">>, <<"\r">>}
Comments ==
    {<<"/", "/">> \o b \o <<"\n">> : b \in {<<>>, <<"/", "*">>, <<"\"", "\r">>}}
    \cup {<<"/", "*">> \o b \o <<"*", "/">> : b \in {<<>>, <<"*">>, <<"/", "/">>, <<"\n", "x", " ", "\"", "/">>}}

Few     == {Word(<<"x">>), Lexeme(<<"i", "f">>, "IF", <<"i", "f">>), Number(<<"2">>, 2), Float(<<"1", ".", "2">>),
            Op(<<"=">>), Op(<<"=", "=">>), Op(<<"*">>), Op(<<"(">>),
            String(<<>>), String(<<"\\", "n", "\"">>)}

(* Texts, each with the lexemes it is written from.                        *)
Written(ls, x) == [text |-> x, lexemes |-> ls]
Pairs ==
    {Written(<<l, k>>, l.x \o b \o k.x) : l, k \in Lexemes, b \in Blanks}
    \cup {Written(<<l, k>>, l.x \o b \o k.x) : l \in Lexemes \ {Op(<<"/">>)}, k \in Few, b \in Comments}
    \cup {Written(<<l, l>>, l.x \o b \o c \o d \o l.x) : l \in {Word(<<"x">>)}, b, d \in Blanks, c \in Comments}
Triples ==
    {Written(ls, FlattenSeq([i \in 1 .. 3 |-> ls[i].x])) :
        ls \in {<<l, k, m>> \in Few \X Few \X Few : ~Glued(l, k) /\ ~Glued(k, m)}}

(* Texts nobody wrote: any few characters.                                 *)
AnyOf(C, n)  == UNION {[1 .. i -> C] : i \in 0 .. n}
Characters ==
    AnyOf({"/", "*", "\"", "\n", "\\"}, 5) \cup AnyOf({"1", ".", "e", "-"}, 5) \cup AnyOf({"=", "&", "x", "\r"}, 3)
    \cup {<<"/", "*">> \o x : x \in AnyOf({"/", "*", "\r", "\n"}, 5)}
    \cup {<<"/", "/">> \o x : x \in AnyOf({"/", "*", "\r", "\n"}, 4)}
    \cup {<<"\"">> \o x \o <<"\"">> : x \in AnyOf({"\\", "*", "n"}, 4)}

VARIABLE written           \* what the file was written from
MCFiles  == Pairs \cup Triples \cup {Written(<<>>, x) : x \in Characters}
MCInputs == {w.text : w \in MCFiles}

MCInit == written \in MCFiles /\ text = written.text /\ Init
MCNext == Next /\ UNCHANGED written
MCSpec == MCInit /\ [][MCNext]_<<vars, written>>

-----------------------------------------------------------------------------
(* What is read is what was written: the lexemes one by one, with their    *)
(* values, whatever stands next to them, and no error.                     *)
TokensRead ==
    Done /\ written.lexemes # <<>> =>
        /\ status = "ended" /\ g_parse_errors = 0
        /\ Len(tokens) = Len(written.lexemes)
        /\ \A i \in DOMAIN tokens :
              tokens[i].s = written.lexemes[i].s /\ tokens[i].v = written.lexemes[i].v
=============================================================================
