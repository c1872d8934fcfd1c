------------------------------- MODULE Scanner -------------------------------
(***************************************************************************)
(* The scanner flex makes of scanner.l: at each step the longest prefix of *)
(* the remaining text that a pattern of the current start condition        *)
(* matches, and of several patterns the first.                             *)
(*                                                                         *)
(* A text is a sequence of characters.  Which words are keywords and which *)
(* characters are operators are constants: the words and operators of the  *)
(* language, or enough of them.                                            *)
(***************************************************************************)
EXTENDS Integers, Sequences, FiniteSets, FiniteSetsExt, TLC

CONSTANTS Inputs,                  \* the files
          Letters, Digits,         \* of [a-zA-Z_] and [0-9]
          DigitValue,              \* the values of the digits
          Keywords, Operators,     \* their lexemes, mapped to token names
          IntBits, LongBits        \* the widths of int and long

(* A file is a sequence.  A keyword or an operator is a token of its own:   *)
(* "string" is KW_STRING, a literal STRING_LIT.                            *)
ASSUME ScannerAssumption ==
    /\ \A x \in Inputs : x \in Seq({x[i] : i \in DOMAIN x})
    /\ \A x \in DOMAIN Keywords : Keywords[x] \notin {"ERROR", "STRING_LIT"}
    /\ \A x \in DOMAIN Operators : Operators[x] \notin {"ERROR", "STRING_LIT"}
    /\ Letters \cap Digits = {}
    /\ DigitValue \in [Digits -> 0 .. 9]
    /\ \A x \in DOMAIN Keywords : x # <<>> /\ \A i \in DOMAIN x : x[i] \in Letters
    /\ IntBits \in Nat \ {0} /\ LongBits \in Nat /\ IntBits <= LongBits

VARIABLES text,            \* the file
          at,              \* the number of characters read
          start,           \* the start condition
          yycolumn,
          tokens,          \* those returned, with their place in the text
          g_parse_errors,
          status
vars == <<text, at, start, yycolumn, tokens, g_parse_errors, status>>

-----------------------------------------------------------------------------
(* The patterns.                                                           *)
Blank    == {"\t", " "}
NewLines == {<<"\r", "\n">>, <<"\n">>, <<"\r">>}
AllIn(x, S) == \A i \in DOMAIN x : x[i] \in S

IsInt(x) == x # <<>> /\ AllIn(x, Digits)
IsExponent(x) ==
    /\ x # <<>> /\ x[1] \in {"e", "E"}
    /\ \/ IsInt(Tail(x))
       \/ Len(x) > 1 /\ x[2] \in {"+", "-"} /\ IsInt(SubSeq(x, 3, Len(x)))
IsFloat(x) ==
    \E d \in DOMAIN x, e \in 1 .. Len(x) :
        /\ x[d] = "." /\ d < e
        /\ IsInt(SubSeq(x, 1, d - 1)) /\ IsInt(SubSeq(x, d + 1, e))
        /\ e = Len(x) \/ IsExponent(SubSeq(x, e + 1, Len(x)))

(* A character behind an odd number of backslashes is escaped.             *)
Escaped(x, i) ==
    \E k \in 1 .. i - 1 :
        /\ \A j \in i - k .. i - 1 : x[j] = "\\"
        /\ i - k = 1 \/ x[i - k - 1] # "\\"
        /\ k % 2 = 1
(* Slip: any quote ends the literal.                                       *)
Slip_IsString(x) ==
    Len(x) > 1 /\ x[1] = "\"" /\ \A i \in 2 .. Len(x) : x[i] = "\"" <=> i = Len(x)
IsString(x) ==
    /\ Len(x) > 1 /\ x[1] = "\""
    /\ \A i \in 2 .. Len(x) :
          /\ (x[i] = "\"" /\ ~Escaped(x, i)) <=> i = Len(x)
          /\ Escaped(x, i) => x[i] # "\n"

IsIdent(x) == x # <<>> /\ x[1] \in Letters /\ AllIn(x, Letters \cup Digits)
IsLineComment(x) == Len(x) > 1 /\ x[1] = "/" /\ x[2] = "/" /\ \A i \in DOMAIN x : x[i] # "\n"

Initial(x) ==
    IF x \in DOMAIN Keywords              THEN "keyword"
    ELSE IF IsFloat(x)                    THEN "float"
    ELSE IF IsInt(x)                      THEN "int"
    ELSE IF IsString(x)                   THEN "string"
    ELSE IF IsIdent(x)                    THEN "ident"
    ELSE IF x # <<>> /\ AllIn(x, Blank)   THEN "blank"
    ELSE IF x \in NewLines                THEN "newline"
    ELSE IF IsLineComment(x)              THEN "line"
    ELSE IF x = <<"/", "*">>              THEN "open"
    ELSE IF x \in DOMAIN Operators        THEN "operator"
    ELSE IF Len(x) = 1                    THEN "unknown"
    ELSE "none"
Comment(x) ==
    IF x = <<"*", "/">>                   THEN "close"
    ELSE IF x \in {<<"\r", "\n">>, <<"\n">>} THEN "newline"
    ELSE IF Len(x) = 1                    THEN "inside"
    ELSE "none"

Rule(x) == IF start = "INITIAL" THEN Initial(x) ELSE Comment(x)

-----------------------------------------------------------------------------
(* A match, and what the actions do with it.                               *)
Ahead(n) == SubSeq(text, at + 1, at + n)
yyleng   == Max({n \in 1 .. Len(text) - at : Rule(Ahead(n)) # "none"})
yytext   == Ahead(yyleng)

Scanning == status = "scanning"
Match(rules) ==
    /\ Scanning /\ at < Len(text) /\ Rule(yytext) \in rules
    /\ at' = at + yyleng
    /\ UNCHANGED <<text, status>>

ADVANCE_COLUMN == yycolumn' = yycolumn + yyleng

Return(name, value) ==
    tokens' = Append(tokens, [s |-> name, v |-> value, from |-> at + 1, to |-> at + yyleng])

(* strtol stops at LONG_MAX; int keeps the low bits.                       *)
strtol(x) ==
    LET n == MapThenSumSet(LAMBDA i : DigitValue[x[i]] * 10 ^ (Len(x) - i), DOMAIN x)
    IN  Min({n, 2 ^ (LongBits - 1) - 1})
ToInt(n) ==
    LET low == n % 2 ^ IntBits
    IN  IF low < 2 ^ (IntBits - 1) THEN low ELSE low - 2 ^ IntBits

(* process_string_literal: what it writes in front of the terminator.  (\0  *)
(* writes one more: what is behind it stays in the buffer, and no reader of *)
(* a C string sees it.)                                                    *)
Named  == [n |-> "\n", t |-> "\t", r |-> "\r", f |-> "\f", b |-> "BS", v |-> "VT"] @@ ("0" :> "NUL")
Quoted == {"\\", "\"", "'"}
(* Slip: an unknown escape is copied with two backslashes.                 *)
Slip_Unescape(c) ==
    CASE c \in DOMAIN Named -> <<Named[c]>>
      [] c \in Quoted         -> <<c>>
      [] OTHER                -> <<"\\", "\\", c>>
Unescape(c) ==
    CASE c \in DOMAIN Named -> <<Named[c]>>
      [] c \in Quoted         -> <<c>>
      [] OTHER                -> <<"\\", c>>
Decoded(x, str, i) ==                      \* what is written from x[i] on
    IF i >= Len(x)           THEN <<>>
    ELSE IF x[i] # "\\"      THEN <<x[i]>> \o str[i + 1]
    ELSE IF i + 1 >= Len(x)  THEN <<>>
    ELSE Unescape(x[i + 1]) \o str[i + 2]
process_string_literal(x) ==
    LET str[i \in 2 .. Len(x) + 1] == Decoded(x, str, i) IN str[2]

-----------------------------------------------------------------------------
(* The actions of the start condition INITIAL.                             *)
Token(rule, name, value) ==
    /\ Match({rule})
    /\ Return(name, value)
    /\ ADVANCE_COLUMN
    /\ UNCHANGED <<start, g_parse_errors>>

ScanToken ==
    \/ Token("keyword", Keywords[yytext], yytext)
    \/ Token("float", "FLOAT_LIT", yytext)
    \/ Token("int", "INT_LIT", ToInt(strtol(yytext)))
    \/ Token("string", "STRING_LIT", process_string_literal(yytext))
    \/ Token("ident", "IDENT", yytext)
    \/ Token("operator", Operators[yytext], yytext)

(* Slip: a line comment does not move the column.                          *)
Slip_Skip ==
    /\ Match({"blank", "line"})
    /\ IF Rule(yytext) = "blank" THEN ADVANCE_COLUMN ELSE UNCHANGED yycolumn
    /\ UNCHANGED <<start, tokens, g_parse_errors>>

Skip ==
    /\ Match({"blank", "line"})
    /\ ADVANCE_COLUMN
    /\ UNCHANGED <<start, tokens, g_parse_errors>>

NewLine ==
    /\ Match({"newline"})
    /\ yycolumn' = 1
    /\ UNCHANGED <<start, tokens, g_parse_errors>>

(* Slip: the character is reported and skipped.                            *)
Slip_Unknown ==
    /\ Match({"unknown"})
    /\ g_parse_errors' = g_parse_errors + 1
    /\ ADVANCE_COLUMN
    /\ UNCHANGED <<start, tokens>>

Unknown ==
    /\ Match({"unknown"})
    /\ g_parse_errors' = g_parse_errors + 1
    /\ Return("ERROR", yytext)
    /\ ADVANCE_COLUMN
    /\ UNCHANGED start

OpenComment ==
    /\ Match({"open"})
    /\ start' = "COMMENT"
    /\ ADVANCE_COLUMN
    /\ UNCHANGED <<tokens, g_parse_errors>>

(* Those of COMMENT.                                                       *)
InComment ==
    /\ Match({"inside"})
    /\ ADVANCE_COLUMN
    /\ UNCHANGED <<start, tokens, g_parse_errors>>

(* Slip: BEGIN(INITIAL) is forgotten.                                      *)
Slip_CloseComment ==
    /\ Match({"close"})
    /\ ADVANCE_COLUMN
    /\ UNCHANGED <<start, tokens, g_parse_errors>>

CloseComment ==
    /\ Match({"close"})
    /\ start' = "INITIAL"
    /\ ADVANCE_COLUMN
    /\ UNCHANGED <<tokens, g_parse_errors>>

(* The end of the file: in a comment, the scanner ends the process.        *)
EndOfFile ==
    /\ Scanning /\ at = Len(text)
    /\ status' = IF start = "COMMENT" THEN "exited" ELSE "ended"
    /\ UNCHANGED <<text, at, start, yycolumn, tokens, g_parse_errors>>

Done   == status \in {"ended", "exited"}
Finish == Done /\ UNCHANGED vars

Init ==
    /\ text \in Inputs /\ at = 0
    /\ start = "INITIAL" /\ yycolumn = 1
    /\ tokens = <<>> /\ g_parse_errors = 0
    /\ status = "scanning"

Next ==
    \/ ScanToken \/ Skip \/ NewLine \/ Unknown
    \/ OpenComment \/ InComment \/ CloseComment
    \/ EndOfFile \/ Finish

Spec == Init /\ [][Next]_vars

-----------------------------------------------------------------------------
(* Properties.                                                             *)
TypeOK ==
    /\ text \in Inputs /\ at \in 0 .. Len(text)
    /\ start \in {"INITIAL", "COMMENT"} /\ yycolumn \in Nat \ {0}
    /\ \A i \in DOMAIN tokens :
          /\ tokens[i].from \in 1 .. at /\ tokens[i].to \in tokens[i].from .. at
          /\ i > 1 => tokens[i - 1].to < tokens[i].from
    /\ g_parse_errors = Cardinality({i \in DOMAIN tokens : tokens[i].s = "ERROR"})
    /\ status \in {"scanning", "ended", "exited"}

InToken(p) == \E i \in DOMAIN tokens : tokens[i].from <= p /\ p <= tokens[i].to

(* Where a character stands, told from the characters and the tokens alone *)
(* and from where the one before it stands: in code, in a line comment, or *)
(* at which place of a block comment.                                      *)
Place(before, p) ==
    CASE before \in {"code", "closed"} ->
            IF ~InToken(p) /\ text[p] = "/" /\ p < Len(text) /\ text[p + 1] \in {"/", "*"}
            THEN IF text[p + 1] = "/" THEN "line" ELSE "slash"
            ELSE "code"
      [] before = "line"  -> IF text[p] = "\n" THEN "code" ELSE "line"
      [] before = "slash" -> "opened"
      [] before = "opened" -> "block"
      [] before = "block" -> IF text[p - 1] = "*" /\ text[p] = "/" THEN "closed" ELSE "block"
Where[p \in 0 .. at] == IF p = 0 THEN "code" ELSE Place(Where[p - 1], p)
Commented(p) == Where[p] # "code"

(* Nothing but blanks, line breaks and comments is left out: every other   *)
(* character is in a token, if only in the token ERROR, and no character   *)
(* of a comment is.                                                        *)
Accounted(p) ==
    IF InToken(p) THEN ~Commented(p) ELSE Commented(p) \/ text[p] \in Blank \cup {"\r", "\n"}
NothingSkipped == \A p \in 1 .. at : Accounted(p)

(* The column is the distance from the last line break, whatever comments, *)
(* tokens and errors are in between; but a string literal may go on over a *)
(* line break, and that one does not count, nor does a lone carriage       *)
(* return in a comment.                                                    *)
BreaksLine(p) == ~InToken(p) /\ (text[p] = "\n" \/ (text[p] = "\r" /\ ~Commented(p)))
LineBreaks    == {p \in 1 .. at : BreaksLine(p)}
ColumnTracked == yycolumn = at - Max(LineBreaks \cup {0}) + 1

(* A string literal fits the buffer process_string_literal allocates for   *)
(* it, of the length of the lexeme, with its terminator.                   *)
StringFits ==
    \A i \in DOMAIN tokens :
        tokens[i].s = "STRING_LIT" => Len(tokens[i].v) + 1 <= tokens[i].to - tokens[i].from + 1
=============================================================================
