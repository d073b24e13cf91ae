-------------------------------- MODULE Strings -------------------------------
(***************************************************************************)
(* stdlib/String.shtk and Char.shtk.  A String is a List of characters     *)
(* with a '\0' behind its text, and length() is one less than the list's.  *)
(* Characters are their codes.  Reading a list behind its end panics.      *)
(* libc's atoi and strcmp are modelled by what they do.                    *)
(***************************************************************************)
EXTENDS Arrays

gives(x) == <<"gives", x>>
panics   == <<"panics">>
endless  == <<"never ends">>

Ascii      == 0 .. 127
isSpace(c) == c \in {32, 12, 10, 13, 9, 11}
isUpper(c) == 65 <= c /\ c <= 90
isLower(c) == 97 <= c /\ c <= 122
isDigit(c) == 48 <= c /\ c <= 57
isAlphaNumeric(c) == isUpper(c) \/ isLower(c) \/ isDigit(c)
charLower(c) == IF isUpper(c) THEN c + 32 ELSE c
charUpper(c) == IF isLower(c) THEN c - 32 ELSE c

length(s)    == minus(Len(s), 1)
places(s)    == 0 .. length(s) - 1
string(cs, lengthIncNull) == [SubSeq(cs, 1, lengthIncNull) EXCEPT ![lengthIncNull] = 0]
clone(s)     == string(s, length(s) + 1)
subscriptItem(s, i) == IF i < Len(s) THEN gives(s[i + 1]) ELSE panics
setChar(s, i, c)    == IF i < Len(s) THEN gives([s EXCEPT ![i + 1] = c]) ELSE panics

isAll(s, class) == \A i \in places(s) : s[i + 1] \in class
isInteger(s)   == \A i \in places(s) : (s[i + 1] = 45 /\ i = 0) \/ isDigit(s[i + 1])
isNumber(s)    ==
  /\ \A i \in places(s) : (s[i + 1] = 45 /\ i = 0) \/ s[i + 1] = 46 \/ isDigit(s[i + 1])
  /\ Cardinality({i \in places(s) : s[i + 1] = 46}) <= 1
withCase(s, case) == [k \in DOMAIN clone(s) |-> IF k <= length(s) THEN case[s[k]] ELSE s[k]]

\* How a comparison of other with s from offset on ends: at the first place
\* that differs, or that s does not have.
_startsWithOffset(s, other, offset) ==
  LET stops == {i \in places(other) : offset + i >= Len(s) \/ s[offset + i + 1] # other[i + 1]}
  IN  IF stops = {} THEN "yes" ELSE IF offset + Min(stops) >= Len(s) THEN "panic" ELSE "no"
startsWith(s, other) == length(s) >= length(other) /\ _startsWithOffset(s, other, 0) = "yes"
endsWith(s, other)   == length(s) >= length(other) /\ _startsWithOffset(s, other, length(s) - length(other)) = "yes"

\* Mutant: the last place other may be found at is left out.
find_Short(s, other, start) ==
  LET found == {i \in start .. length(s) - length(other) - 1 : _startsWithOffset(s, other, i) = "yes"}
  IN  IF length(s) < length(other) \/ found = {} THEN none ELSE some(Min(found))

find(s, other, start) ==
  LET found == {i \in start .. length(s) - length(other) : _startsWithOffset(s, other, i) = "yes"}
  IN  IF length(s) < length(other) \/ found = {} THEN none ELSE some(Min(found))

inString(s, other) ==
  LET ends == {i \in 0 .. Len(s) : i <= minus(length(s), length(other)) /\ _startsWithOffset(s, other, i) # "no"}
  IN  IF ends = {} THEN gives(FALSE)
      ELSE IF _startsWithOffset(s, other, Min(ends)) = "panic" THEN panics ELSE gives(TRUE)
inChar(s, c) == \E i \in places(s) : s[i + 1] = c

subString(s, from, to) ==
  IF from > to \/ to > length(s) THEN none
  ELSE some(string(SubSeq(s, from + 1, Len(s)), to - from + 1))
subscriptSubString(s, from, to) == LET r == subString(s, from, to) IN IF r = none THEN panics ELSE gives(r[2])
piece(s, from, to) == subString(s, from, to)[2]      \* where it does not panic

strip(s) ==
  LET start == Min({i \in 0 .. length(s) : i = length(s) \/ ~isSpace(s[i + 1])})
      end   == Max({i \in places(s) : i <= start \/ ~isSpace(s[i + 1])})
  IN  IF length(s) = 0 THEN s ELSE piece(s, start, end + 1)

split(s, delimiter) ==
  LET step(r, i) == IF s[i] = delimiter THEN [list |-> Append(r.list, piece(s, r.last, i - 1)), last |-> i] ELSE r
      r == FoldLeft(step, [list |-> <<>>, last |-> 0], [i \in 1 .. length(s) |-> i])
  IN  Append(r.list, piece(s, r.last, length(s)))

\* new._list._length -= 1, and then the other list behind.
add(s, other) == SubSeq(clone(s), 1, length(s)) \o other

RECURSIVE replaceFrom(_, _, _, _, _)
replaceFrom(s, old, new, result, previous) ==
  LET index == find(s, old, previous)
  IN  IF index = none THEN gives(add(result, piece(s, previous, length(s))))
      ELSE IF index[2] + length(old) = previous THEN endless
      ELSE replaceFrom(s, old, new,
             add(IF previous # index[2] THEN add(result, piece(s, previous, index[2])) ELSE result, new),
             index[2] + length(old))
replace(s, old, new) == replaceFrom(s, old, new, <<0>>, 0)

digitsValue(ds) == FoldLeft(LAMBDA n, c : 10 * n + (c - 48), 0, ds)
atoi(s) ==
  LET sign == IF s[1] = 45 THEN 1 ELSE 0
      ends == Min({k \in sign + 1 .. Len(s) : ~isDigit(s[k])})
      n    == digitsValue(SubSeq(s, sign + 1, ends - 1))
  IN  IF sign = 1 THEN -n ELSE n
parseInt(s) == IF isInteger(s) THEN some(atoi(s)) ELSE none

strcmp(s, other) ==
  LET differ == {k \in 1 .. Min({Len(s), Len(other)}) : s[k] # other[k]}
  IN  IF differ = {} THEN 0 ELSE s[Min(differ)] - other[Min(differ)]
equal(s, other)    == strcmp(s, other) = 0
lessThan(s, other) == strcmp(s, other) < 0
lessThanOrEqual(s, other) == lessThan(s, other) \/ equal(s, other)

answerOfString(q) ==
  LET s == q.self \o <<0>>  other == q.other \o <<0>>
  IN  CASE q.method = "clone" -> clone(s) [] q.method = "strip" -> strip(s)
        [] q.method = "upper" -> withCase(s, [c \in Ascii |-> charUpper(c)]) [] q.method = "lower" -> withCase(s, [c \in Ascii |-> charLower(c)])
        [] q.method = "isSpace" -> isAll(s, {c \in Ascii : isSpace(c)})
        [] q.method = "isUpper" -> isAll(s, {c \in Ascii : isUpper(c)})
        [] q.method = "isLower" -> isAll(s, {c \in Ascii : isLower(c)}) [] q.method = "isAlphaNumeric" -> isAll(s, {c \in Ascii : isAlphaNumeric(c)})
        [] q.method = "isInteger" -> isInteger(s) [] q.method = "isNumber" -> isNumber(s) [] q.method = "parseInt" -> parseInt(s)
        [] q.method = "[]" -> subscriptItem(s, q.from) [] q.method = "setChar" -> setChar(s, q.from, q.to)
        [] q.method = "[[]]" -> subscriptSubString(s, q.from, q.to) [] q.method = "split" -> split(s, q.to)
        [] q.method = "startsWith" -> startsWith(s, other) [] q.method = "endsWith" -> endsWith(s, other)
        [] q.method = "in" -> inString(s, other) [] q.method = "inChar" -> inChar(s, q.to)
        [] q.method = "find" -> find(s, other, q.from) [] q.method = "+" -> add(s, other)
        [] q.method = "==" -> equal(s, other) [] q.method = "<" -> lessThan(s, other) [] q.method = "<=" -> lessThanOrEqual(s, other)
        [] q.method = "replace" -> replace(s, other, q.by \o <<0>>)
------------------------------------------------------------------------------
(***************************************************************************)
(* What the methods mean, said of texts (docs/LanguageGuide.md:1654).      *)
(***************************************************************************)
text(s)    == Front(s)
ofText(t)  == t \o <<0>>
isAt(t, u, i) == i + Len(u) <= Len(t) /\ SubSeq(t, i + 1, i + Len(u)) = u
foundIn(t, u) == {i \in 0 .. Len(t) : isAt(t, u, i)}
bare(t)    == t = <<>> \/ (~isSpace(t[1]) /\ ~isSpace(Last(t)))
blank(t)   == \A k \in DOMAIN t : isSpace(t[k])
before(t, u) == \/ IsStrictPrefix(t, u)
                \/ \E k \in DOMAIN t \cap DOMAIN u : t[k] < u[k] /\ SubSeq(t, 1, k - 1) = SubSeq(u, 1, k - 1)
unsigned(t) == IF t # <<>> /\ t[1] = 45 THEN Tail(t) ELSE t
digits(t)   == t # <<>> /\ \A k \in DOMAIN t : isDigit(t[k])

RECURSIVE replaced(_, _, _)
replaced(t, u, n) ==
  IF foundIn(t, u) = {} THEN t
  ELSE LET i == Min(foundIn(t, u))
       IN  SubSeq(t, 1, i) \o n \o replaced(SubSeq(t, i + Len(u) + 1, Len(t)), u, n)

\* Whether an answer to a question is right; q has the method, the texts
\* self, other and by, and the numbers from and to.
aboutOne(q, t, answer) ==
  CASE q.method = "clone"      -> answer = ofText(t)
    [] q.method = "strip"      -> \E i, j \in 0 .. Len(t) :
                                    /\ i <= j /\ answer = ofText(SubSeq(t, i + 1, j)) /\ bare(text(answer))
                                    /\ blank(SubSeq(t, 1, i)) /\ blank(SubSeq(t, j + 1, Len(t)))
    [] q.method = "upper"      -> answer = ofText([k \in DOMAIN t |-> IF t[k] \in 97 .. 122 THEN t[k] - 32 ELSE t[k]])
    [] q.method = "lower"      -> answer = ofText([k \in DOMAIN t |-> IF t[k] \in 65 .. 90 THEN t[k] + 32 ELSE t[k]])
    [] q.method = "isSpace"    -> answer = blank(t)
    [] q.method = "isUpper"    -> answer = \A k \in DOMAIN t : t[k] \in 65 .. 90
    [] q.method = "isLower"    -> answer = \A k \in DOMAIN t : t[k] \in 97 .. 122
    [] q.method = "isAlphaNumeric" -> answer = \A k \in DOMAIN t : t[k] \in (48 .. 57) \cup (65 .. 90) \cup (97 .. 122)
    [] q.method = "isInteger"  -> answer = digits(unsigned(t))
    [] q.method = "isNumber"   -> answer = (digits(unsigned(t)) \/
                                    \E k \in DOMAIN unsigned(t) : unsigned(t)[k] = 46 /\ digits(RemoveAt(unsigned(t), k)))
    [] q.method = "parseInt"   -> IF ~digits(unsigned(t)) THEN answer = none
                                  ELSE answer = some(IF t[1] = 45 THEN -digitsValue(Tail(t)) ELSE digitsValue(t))
    [] q.method = "[]"         -> answer = IF q.from < Len(t) THEN gives(t[q.from + 1]) ELSE panics
    [] q.method = "setChar"    -> answer = IF q.from < Len(t) THEN gives(ofText([t EXCEPT ![q.from + 1] = q.to])) ELSE panics
    [] q.method = "inChar"     -> answer = (q.to \in ToSet(t))
    [] q.method = "[[]]"       -> answer = IF q.from <= q.to /\ q.to <= Len(t)
                                           THEN gives(ofText(SubSeq(t, q.from + 1, q.to))) ELSE panics
    [] q.method = "split"      ->
         LET parts == [k \in DOMAIN answer |-> text(answer[k])]
         IN  /\ \A k \in DOMAIN answer : answer[k] = ofText(parts[k]) /\ q.to \notin ToSet(parts[k])
             /\ FoldLeft(LAMBDA r, p : r \o <<q.to>> \o p, parts[1], Tail(parts)) = t
aboutTwo(q, t, u, answer) ==
  CASE q.method = "startsWith" -> answer = isAt(t, u, 0)
    [] q.method = "endsWith"   -> answer = (Len(u) <= Len(t) /\ isAt(t, u, Len(t) - Len(u)))
    [] q.method = "in"         -> answer = gives(foundIn(t, u) # {})
    [] q.method = "find"       -> LET found == foundIn(t, u) \ (0 .. q.from - 1)
                                  IN  answer = IF found = {} THEN none ELSE some(Min(found))
    [] q.method = "+"          -> answer = ofText(t \o u)
    [] q.method = "=="         -> answer = (t = u)
    [] q.method = "<"          -> answer = before(t, u)
    [] q.method = "<="         -> answer = (t = u \/ before(t, u))
    [] q.method = "replace"    -> answer = gives(ofText(replaced(t, u, q.by)))
aboutTwoTexts == {"startsWith", "endsWith", "in", "find", "+", "==", "<", "<=", "replace"}
stringAnswerIsRight(q, answer) ==
  IF q.method \in aboutTwoTexts THEN aboutTwo(q, q.self, q.other, answer) ELSE aboutOne(q, q.self, answer)

\* Where the methods deviate: in panics on a longer pattern (String.shtk:239) and replace never ends on an
\* empty one (:301); a sign, or nothing, is a number (:106, :120); the '\0' can be read and overwritten (:49).
stringSlip(q) ==
  \/ q.method = "in" /\ Len(q.other) > Len(q.self)
  \/ q.method = "replace" /\ q.other = <<>>
  \/ q.method \in {"isInteger", "isNumber", "parseInt"} /\ \A k \in DOMAIN q.self : ~isDigit(q.self[k])
  \/ q.method \in {"[]", "setChar"} /\ q.from = Len(q.self)
===============================================================================
