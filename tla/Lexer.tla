-------------------------------- MODULE Lexer --------------------------------
(***************************************************************************)
(* The scanner (compiler/src/Lexer/Lexer.cpp, Token/Token.cpp).  A file is *)
(* a sequence of lines, a line a sequence of characters, a token the       *)
(* stretch of its line it was cut from and its type.  One step is one      *)
(* round of the loop in Lexer::consumeLine; positions count from 1.  The   *)
(* backquote is written "bt".                                              *)
(***************************************************************************)
EXTENDS Integers, Sequences, FiniteSets, SequencesExt, TLC

CONSTANTS Alphabets,  \* records [chars, width, lines]: files of that many lines over these characters
          Keywords    \* the words of stringTypeMap

VARIABLES file, lineNo, i, startIndex, tokenQueue, status

vars == <<file, lineNo, i, startIndex, tokenQueue, status>>

Digits     == {"0", "1", "2", "3", "4", "5", "6", "7", "8", "9"}
HexLetters == {"a", "b", "c", "d", "e", "f"}     \* those of [A-f] that the inputs use
Letters    == HexLetters \cup {"o", "x", "_"}
Blank      == {" ", "\t"}

\* The characters of a word as one string.
text(w) == FoldLeft(LAMBDA s, c : s \o c, "", w)
From(w, k, S) == \A n \in k .. Len(w) : w[n] \in S

identifierRegex(w) == w # <<>> /\ w[1] \in Letters /\ From(w, 2, Letters \cup Digits)
integerRegex(w)    == w # <<>> /\ From(w, 1, Digits)
hexRegex(w)        == Len(w) > 2 /\ w[1] = "0" /\ w[2] = "x" /\ From(w, 3, Digits \cup HexLetters)
binRegex(w)        == Len(w) > 2 /\ w[1] = "0" /\ w[2] = "b" /\ From(w, 3, {"0", "1"})
floatRegex(w)      == \E d \in 1 .. Len(w) - 1 :
                        w[d] = "." /\ \A n \in 1 .. Len(w) : n # d => w[n] \in Digits

typeFromStringMatch(w) ==
  CASE w \in Keywords     -> "KEYWORD"
    [] integerRegex(w)    -> "INT_LITERAL"
    [] hexRegex(w)        -> "HEX_LITERAL"
    [] binRegex(w)        -> "BIN_LITERAL"
    [] floatRegex(w)      -> "FLOAT_LITERAL"
    [] identifierRegex(w) -> "IDENTIFIER"
    [] OTHER              -> "INVALID"

\* The operators by their first character: what may follow it, longest first.
Punctuators ==
  LET alone(c) == <<c, <<>> >>
  IN  {alone(c) : c \in {"(", ")", "{", "}", ",", "bt", "~", "]", "%", ";", ".", "?"}}
      \cup {<<":", <<":", "=">> >>, <<"=", <<"=">> >>, <<"!", <<"=">> >>, <<"+", <<"=">> >>,
            <<"-", <<"=", ">">> >>, <<"|", <<"=">> >>, <<"^", <<"=">> >>, <<"<", <<"<", "=", "-">> >>,
            <<">", <<">", "=">> >>, <<"*", <<"=", "bt">> >>, <<"/", <<"=">> >>, <<"&", <<"=">> >>,
            <<"[", <<"]">> >>}

At(l, n) == IF n \in 1 .. Len(l) THEN l[n] ELSE "NUL"

\* Lexer::consumePunctuatorOrStringLtrl: the length and the type of what
\* begins at position n; -1 where the closing quote is missing.  The type of
\* an operator is its text.
stringEnd(l, n) ==
  LET ends == {k \in n + 1 .. Len(l) : l[k] = "\"" /\ l[k - 1] # "\\"}
  IN  IF ends = {} THEN -1 ELSE CHOOSE k \in ends : \A m \in ends : k <= m

charLiteral(l, n) ==
  CASE At(l, n + 1) = "\\" /\ At(l, n + 2) = "'" -> <<3, "INVALID">>
    [] At(l, n + 2) = "'"                        -> <<3, "CHAR_LITERAL">>
    [] At(l, n + 1) = "\\" /\ At(l, n + 3) = "'" -> <<4, "CHAR_LITERAL">>
    [] OTHER                                     -> <<1, "INVALID">>

operatorLength(l, n) ==
  LET p == CHOOSE q \in Punctuators : q[1] = l[n]
  IN  CASE l[n] = "[" /\ At(l, n + 1) = "]" /\ At(l, n + 2) = "bt" -> 3
        [] At(l, n + 1) \in ToSet(p[2])                           -> 2
        [] OTHER                                                  -> 1

consumePunctuatorOrStringLtrl(l, n) ==
  CASE l[n] = "'"                             -> charLiteral(l, n)
    [] l[n] = "\"" /\ stringEnd(l, n) = -1    -> <<-1, "INVALID">>
    [] l[n] = "\""                            -> <<stringEnd(l, n) - n + 1, "STR_LITERAL">>
    [] l[n] \in Blank                         -> <<1, "SPACE">>
    [] \E p \in Punctuators : p[1] = l[n]     -> <<operatorLength(l, n),
                                                   text(SubSeq(l, n, n + operatorLength(l, n) - 1))>>
    [] OTHER                                  -> <<1, "NONE">>

\* Lexer::consumeLine works on the line with a blank behind it.
line == file[lineNo] \o <<" ">>

Token(type, a, b) ==
  [type |-> type, string |-> SubSeq(line, a, b), line |-> lineNo, from |-> a, to |-> b]

\* What Lexer::pushPrecedingToken pushes before position n, if anything.
preceding(n) ==
  IF startIndex = n THEN <<>>
  ELSE <<Token(typeFromStringMatch(SubSeq(line, startIndex, n - 1)), startIndex, n - 1)>>

\* In front of a dot Lexer::pushPrecedingTokenIfIdentifier takes any word for
\* an identifier, a keyword included.
precedingIdentifier(n) ==
  IF startIndex = n THEN <<>> ELSE <<Token("IDENTIFIER", startIndex, n - 1)>>

\* Mutant: whatever stands in front of a dot is cut off as an identifier.
cutAtDot_Always(n) == TRUE

cutAtDot(n) == startIndex = n \/ identifierRegex(SubSeq(line, startIndex, n - 1))

\* Token::initializeUnescapedString: what a literal w stands for.
toEscapedCharacter(c) ==
  CASE c = "n" -> "\n" [] c = "b" -> "BS" [] c = "t" -> "\t" [] c = "0" -> "NUL" [] OTHER -> c

\* Mutant: the character behind a backslash is looked at once more.
unescapedString_NoSkip(w) ==
  LET from[n \in 1 .. Len(w) + 1] ==
        IF n >= Len(w)      THEN <<>>
        ELSE IF w[n] = "\\" THEN <<toEscapedCharacter(w[n + 1])>> \o from[n + 1]
                            ELSE <<w[n]>> \o from[n + 1]
  IN  from[2]

unescapedString(w) ==
  LET from[n \in 1 .. Len(w) + 1] ==
        IF n >= Len(w)       THEN <<>>
        ELSE IF w[n] = "\\" THEN <<toEscapedCharacter(w[n + 1])>> \o from[n + 2]
                             ELSE <<w[n]>> \o from[n + 1]
  IN  from[2]

\* Token::toInt: std::stoul takes the base from the prefix, and the longest
\* run of digits of that base.
DigitValue(c) ==
  CASE c = "1" -> 1 [] c = "2" -> 2 [] c = "3" -> 3 [] c = "4" -> 4 [] c = "5" -> 5 [] c = "6" -> 6
    [] c = "7" -> 7 [] c = "8" -> 8 [] c = "9" -> 9 [] c = "a" -> 10 [] c = "b" -> 11 [] c = "c" -> 12
    [] c = "d" -> 13 [] c = "e" -> 14 [] c = "f" -> 15 [] OTHER -> 0
ValueIn(base, w) == FoldLeft(LAMBDA v, c : base * v + DigitValue(c), 0, w)

stoul(base, w) ==
  LET valid == {n \in 0 .. Len(w) : From(SubSeq(w, 1, n), 1, {c \in Digits \cup HexLetters : DigitValue(c) < base})}
  IN  ValueIn(base, SubSeq(w, 1, CHOOSE n \in valid : \A m \in valid : m <= n))

toInt(w) ==
  CASE Len(w) > 1 /\ w[1] = "0" /\ w[2] = "b" -> stoul(2, SubSeq(w, 3, Len(w)))
    [] Len(w) > 1 /\ w[1] = "0" /\ w[2] = "x" -> stoul(16, SubSeq(w, 3, Len(w)))
    [] Len(w) > 1 /\ w[1] = "0"               -> stoul(8, w)
    [] OTHER                                   -> stoul(10, w)
------------------------------------------------------------------------------
Init ==
  /\ \E a \in Alphabets : file \in [1 .. a.lines -> [1 .. a.width -> a.chars]]
  /\ lineNo = 1 /\ i = 1 /\ startIndex = 0
  /\ tokenQueue = <<>>
  /\ status = IF file = <<>> THEN "read" ELSE "scanning"

\* readLine: the next line, or the end of the file.
nextLine ==
  /\ lineNo' = lineNo + 1 /\ i' = 1 /\ startIndex' = 0
  /\ status' = IF lineNo = Len(file) THEN "read" ELSE "scanning"

atEnd == i > Len(line)
word  == startIndex # 0
found == consumePunctuatorOrStringLtrl(line, i)

endOfLine ==
  /\ atEnd
  /\ nextLine /\ UNCHANGED <<file, tokenQueue>>

comment ==
  /\ ~atEnd /\ line[i] = "#"
  /\ nextLine /\ UNCHANGED <<file, tokenQueue>>

skipBlank ==
  /\ ~atEnd /\ line[i] = " " /\ ~word
  /\ i' = i + 1
  /\ UNCHANGED <<file, lineNo, startIndex, tokenQueue, status>>

begin ==
  /\ ~atEnd /\ line[i] \notin {"#", " "} /\ ~word
  /\ startIndex' = i
  /\ UNCHANGED <<file, lineNo, i, tokenQueue, status>>

scanning == ~atEnd /\ line[i] # "#" /\ word

lexerError ==
  /\ scanning /\ found[1] = -1
  /\ status' = "error"
  /\ UNCHANGED <<file, lineNo, i, startIndex, tokenQueue>>

dot ==
  /\ scanning /\ found[2] = "."
  /\ IF cutAtDot(i)
     THEN /\ tokenQueue' = tokenQueue \o precedingIdentifier(i) \o <<Token(".", i, i)>>
          /\ startIndex' = 0
     ELSE UNCHANGED <<tokenQueue, startIndex>>
  /\ i' = i + 1
  /\ UNCHANGED <<file, lineNo, status>>

punctuator ==
  /\ scanning /\ found[1] # -1 /\ found[2] \notin {"NONE", "."}
  /\ tokenQueue' = tokenQueue \o preceding(i)
                   \o IF found[2] = "SPACE" THEN <<>> ELSE <<Token(found[2], i, i + found[1] - 1)>>
  /\ startIndex' = 0
  /\ i' = i + found[1]
  /\ UNCHANGED <<file, lineNo, status>>

other ==
  /\ scanning /\ found[2] = "NONE"
  /\ i' = i + 1
  /\ UNCHANGED <<file, lineNo, startIndex, tokenQueue, status>>

\* Lexer::consume puts END_OF_FILE behind the last token.
endOfFile ==
  /\ status = "read"
  /\ tokenQueue' = Append(tokenQueue, [type |-> "END_OF_FILE", string |-> <<>>, line |-> lineNo, from |-> 0, to |-> 0])
  /\ status' = "done"
  /\ UNCHANGED <<file, lineNo, i, startIndex>>

consumeLine ==
  /\ status = "scanning"
  /\ endOfLine \/ comment \/ skipBlank \/ begin \/ lexerError \/ dot \/ punctuator \/ other

Next == consumeLine \/ endOfFile
Spec == Init /\ [][Next]_vars /\ WF_vars(Next)
------------------------------------------------------------------------------
(***************************************************************************)
(* What the documents promise: the text is cut from left to right, each    *)
(* time at the end of the longest lexeme.  Comments and literals are those *)
(* of docs/LanguageGuide.md ("Comments" to "String literals"), words and   *)
(* operators those of the guide and of compiler/src/Parser/README.md.      *)
(***************************************************************************)
escaping(w, k) ==          \* k is a backslash that escapes what follows it
  /\ w[k] = "\\"
  /\ Cardinality({m \in 2 .. k : \A n \in m .. k : w[n] = "\\"}) % 2 = 1

madeOf(w, a, b, S) == a <= b /\ ToSet(SubSeq(w, a, b)) \subseteq S

\* A float has digits on both sides of its dot: `.234` is none in the guide
\* (LanguageGuide.md:171-176), though it is one in Parser/README.md:39.
wordType(w) ==
  LET n == Len(w)
  IN  CASE w \in Keywords                                                 -> "KEYWORD"
        [] madeOf(w, 1, n, Digits)                                        -> "INT_LITERAL"
        [] n > 2 /\ text(SubSeq(w, 1, 2)) = "0x" /\ madeOf(w, 3, n, Digits \cup HexLetters) -> "HEX_LITERAL"
        [] n > 2 /\ text(SubSeq(w, 1, 2)) = "0b" /\ madeOf(w, 3, n, {"0", "1"}) -> "BIN_LITERAL"
        [] \E d \in 1 .. n : w[d] = "." /\ madeOf(w, 1, d - 1, Digits) /\ madeOf(w, d + 1, n, Digits) -> "FLOAT_LITERAL"
        [] w[1] \notin Digits /\ madeOf(w, 1, n, Letters \cup Digits)      -> "IDENTIFIER"
        [] OTHER                                                          -> "INVALID"

\* The operators of the documents, each with its place there.
documentedAssignments ==   \* LanguageGuide.md:497, Parser/README.md:19
  {"=", "<-", "*=", "/=", "%=", "+=", "-=", "<<=", ">>=", "&=", "^=", "|="}
documentedBinary ==        \* LanguageGuide.md:663-674, Parser/README.md:23-24
  {"*", "/", "%", "+", "-", "<<", ">>", "&", "^", "|", "||", "&&", ">", "<", ">=", "<=", "==", "!="}
documentedUnary == {"-", "~", "!"}          \* LanguageGuide.md:680-683, Parser/README.md:21
documentedCasts == {"bt", "*bt", "[]bt"}    \* Parser/README.md:28-32
grammarSymbols ==          \* those between quotes in Parser/README.md:26-178
  {"(", ")", "{", "}", "[", "]", "[]", ",", ":", "::", ":=", ";", ".", "?", "->"}
documentedOperators ==
  documentedAssignments \cup documentedBinary \cup documentedUnary \cup documentedCasts \cup grammarSymbols

operatorText(w) == Len(w) <= 3 /\ text(w) \in documentedOperators

lexemeType(w) ==
  LET n == Len(w)
  IN  CASE w[1] = "#"                 -> "COMMENT"
        [] n = 1 /\ w[1] \in Blank    -> "SPACE"
        [] operatorText(w)            -> text(w)
        [] n > 1 /\ w[1] = "\"" /\ w[n] = "\"" /\ ~escaping(w, n - 1)
                 /\ \A k \in 2 .. n - 1 : w[k] = "\"" => escaping(w, k - 1) -> "STR_LITERAL"
        [] w[1] = "'" /\ w[n] = "'" /\ ((n = 3 /\ w[2] # "\\") \/ (n = 4 /\ w[2] = "\\")) -> "CHAR_LITERAL"
        [] OTHER                      -> wordType(w)

wordTypes   == {"KEYWORD", "IDENTIFIER", "INT_LITERAL", "HEX_LITERAL", "BIN_LITERAL", "FLOAT_LITERAL"}
numberTypes == wordTypes \ {"KEYWORD", "IDENTIFIER"}

\* The lexemes of a line in order, "INVALID" last where there is none.
lexemes(l) ==
  LET from[n \in 1 .. Len(l) + 1] ==
        IF n > Len(l) THEN <<>>
        ELSE LET ends == {e \in n .. Len(l) : lexemeType(SubSeq(l, n, e)) # "INVALID"}
                 e    == CHOOSE k \in ends : \A m \in ends : m <= k
             IN  IF ends = {} THEN <<[type |-> "INVALID", from |-> n, to |-> n]>>
                 ELSE <<[type |-> lexemeType(SubSeq(l, n, e)), from |-> n, to |-> e]>> \o from[e + 1]
  IN  from[1]

touching(ls, A, B) == \E k \in 1 .. Len(ls) - 1 : ls[k].type \in A /\ ls[k + 1].type \in B

\* No lexeme somewhere, or a number that runs into a word or a dot.
meaningless(ls) ==
  \/ \E k \in DOMAIN ls : ls[k].type = "INVALID"
  \/ touching(ls, numberTypes, wordTypes \cup {"."})

\* Operators the documents list and the scanner cuts in two.
unknownOperators == {"%=", "<<=", ">>=", "||", "&&"}

\* Where the scanner deviates: it does not know some operators, loses a word
\* that a comment touches, takes a keyword in front of a dot for an identifier,
\* a quote behind an escaped backslash for an escaped quote, and refuses the
\* escaped quote as a character.
deviates(l) ==
  LET ls == lexemes(l)
  IN  \/ \E k \in DOMAIN ls : ls[k].type \in unknownOperators
      \/ touching(ls, wordTypes \cup {"INVALID", "."}, {"COMMENT"})
      \/ touching(ls, {"KEYWORD"}, {"."})
      \/ \E k \in DOMAIN ls : ls[k].type = "INVALID" /\ \E n \in ls[k].from .. Len(l) : l[n] = "#"
      \/ \E n \in 1 .. Len(l) - 1 : l[n] = "\\" /\ (l[n + 1] = "\\" \/ (n > 1 /\ l[n - 1] = "'" /\ l[n + 1] = "'"))

tokensOf(n)  == SelectSeq(tokenQueue, LAMBDA t : t.line = n /\ t.type # "END_OF_FILE")
refused      == status = "error" \/ \E k \in DOMAIN tokenQueue : tokenQueue[k].type = "INVALID"
finished     == status \in {"done", "error"}
------------------------------------------------------------------------------
\* Longest match from left to right gives the tokens of every line, with their
\* places; a file is refused exactly if a line of it has no such reading
\* (Lexer::consumeLine).  Lines where the scanner deviates aside.
LexesAsMeant ==
  finished /\ (\A n \in DOMAIN file : ~deviates(file[n])) =>
    IF \E n \in DOMAIN file : meaningless(lexemes(file[n])) THEN refused
    ELSE /\ status = "done"
         /\ \A n \in DOMAIN file :
              LET ls == SelectSeq(lexemes(file[n]), LAMBDA x : x.type \notin {"SPACE", "COMMENT"})
                  ts == tokensOf(n)
              IN  /\ Len(ts) = Len(ls)
                  /\ \A k \in DOMAIN ls : /\ ts[k].type = ls[k].type
                                         /\ ts[k].from = ls[k].from /\ ts[k].to = ls[k].to

\* A string or character stands for its characters with every pair of a
\* backslash and its successor replaced, and the closing quote is never part
\* of such a pair (Token::initializeUnescapedString); an integer has the value
\* its digits write in the base of its prefix, one with a leading zero aside
\* (Token::toInt).
LiteralsMeanTheirText ==
  status = "done" => \A k \in {n \in DOMAIN tokenQueue : tokenQueue[n].line \in DOMAIN file} :
    LET t == tokenQueue[k]
        w == t.string
    IN  /\ t.type \in {"STR_LITERAL", "CHAR_LITERAL"} =>
             LET read == {n \in 2 .. Len(w) - 1 : ~escaping(w, n)}
                 kept == SetToSortSeq(read, <)
             IN  /\ unescapedString(w) = [n \in DOMAIN kept |->
                       IF kept[n] > 2 /\ escaping(w, kept[n] - 1) THEN toEscapedCharacter(w[kept[n]]) ELSE w[kept[n]]]
                 /\ ~escaping(w, Len(w) - 1) \/ Len(w) = 2
        /\ t.type = "INT_LITERAL" /\ (w[1] # "0" \/ Len(w) = 1) => toInt(w) = ValueIn(10, w)
        /\ t.type = "HEX_LITERAL" => toInt(w) = ValueIn(16, SubSeq(w, 3, Len(w)))
        /\ t.type = "BIN_LITERAL" => toInt(w) = ValueIn(2, SubSeq(w, 3, Len(w)))

\* The places of the tokens never run backwards, and END_OF_FILE comes last
\* and only when everything is read.
TypeOK ==
  /\ status \in {"scanning", "read", "done", "error"}
  /\ \A k \in 1 .. Len(tokenQueue) - 1 :
       LET t == tokenQueue[k]  u == tokenQueue[k + 1]
       IN  t.line < u.line \/ (t.line = u.line /\ t.to < u.from)
  /\ \A k \in DOMAIN tokenQueue : tokenQueue[k].type = "END_OF_FILE" <=> (status = "done" /\ k = Len(tokenQueue))
==============================================================================
