----------------------------- MODULE MCCollections ----------------------------
(***************************************************************************)
(* Three variables over two counters and three blocks; and calls over      *)
(* short texts, arrays of four places and four changes of a dict.          *)
(***************************************************************************)
EXTENDS Collections

CONSTANTS v1, v2, v3, o1, o2, MaxPending

MCVariable == {v1, v2, v3}
MCObject   == {o1, o2}
Alike      == Permutations(MCVariable) \cup Permutations(MCObject)
FewPending == \A o \in Object : pending[o] <= MaxPending
MCArrays   == {<<>>, <<2, 1>>}

ask(method, self, other, by, from, to) ==
  [of |-> "string", method |-> method, self |-> self, other |-> other, by |-> by, from |-> from, to |-> to]
upTo(n, S)  == UNION {[1 .. k -> S] : k \in 0 .. n}
letters     == upTo(3, {97, 98})
signs       == upTo(3, {32, 45, 46, 48, 57, 65, 97})
stringQuestions ==
  {ask(f, s, <<>>, <<>>, 0, 0) : s \in signs, f \in
     {"clone", "strip", "upper", "lower", "isSpace", "isUpper", "isLower", "isAlphaNumeric", "isInteger", "isNumber", "parseInt"}}
  \cup {ask(f, s, t, <<>>, 0, 0) : s, t \in letters, f \in {"startsWith", "endsWith", "in", "+", "==", "<", "<="}}
  \cup {ask("find", s, t, <<>>, k, 0) : s \in upTo(4, {97, 98}), t \in letters, k \in 0 .. 4}
  \cup {ask("replace", s, t, n, 0, 0) : s \in upTo(4, {97, 98}), t \in letters, n \in upTo(2, {97})}
  \cup {ask(f, s, <<>>, <<>>, k, c) : s \in letters, k \in 0 .. 4, c \in {97, 100}, f \in {"[]", "setChar", "inChar"}}
  \cup {ask("[[]]", s, <<>>, <<>>, k, n) : s \in letters, k, n \in 0 .. 4}
  \cup {ask("split", s, <<>>, <<>>, 0, 97) : s \in upTo(4, {97, 98})}

arrayQuestion(method, a, x) == [of |-> "array", method |-> method, items |-> a, item |-> x]
arrayQuestions ==
  {arrayQuestion(f, a, x) : f \in {"search", "count"}, a \in upTo(3, 1 .. 2), x \in 0 .. 2}
  \cup {arrayQuestion(f, a, 0) : f \in {"sort", "reverse"}, a \in upTo(5, 1 .. 3)}
  \cup {arrayQuestion("binarySearch", a, x) : a \in {b \in upTo(5, 1 .. 3) : ordered(b)}, x \in 0 .. 4}

calls ==
  {[call |-> "insert", key |-> k, item |-> x] : k \in 1 .. 3, x \in 7 .. 8}
  \cup {[call |-> "remove", key |-> k, item |-> 0] : k \in 1 .. 3} \cup {[call |-> c, key |-> 0, item |-> 0] : c \in {"clear", "clone"}}
MCQuestions == stringQuestions \cup arrayQuestions \cup {[of |-> "dict", calls |-> cs] : cs \in upTo(4, calls)}
===============================================================================
