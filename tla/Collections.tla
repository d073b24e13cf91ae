------------------------------ MODULE Collections -----------------------------
(***************************************************************************)
(* The collections of the standard library.  A run is either one of        *)
(* counted references alone (Ownership), or of variables that share lists  *)
(* (SharedLists), or a call of a method of an array, a string or a dict,   *)
(* whose lists nobody else shares.                                         *)
(***************************************************************************)
EXTENDS SharedLists, Strings

(***************************************************************************)
(* stdlib/Dict.shtk: a Dict is a List of pairs of a key and its value,     *)
(* searched from the front.                                                *)
(***************************************************************************)
pair(key, item) == [first |-> key, second |-> item]

_getIndex(items, key) ==
  LET found == {k \in DOMAIN items : items[k].first = key}
  IN  IF found = {} THEN none ELSE some(Min(found))
get(items, key)  == LET k == _getIndex(items, key) IN IF k = none THEN none ELSE some(items[k[2]].second)
keyExists(items, key) == _getIndex(items, key) # none
keys(items)      == [k \in DOMAIN items |-> items[k].first]
values(items)    == [k \in DOMAIN items |-> items[k].second]
getList(items, ks) == [k \in DOMAIN ks |-> get(items, ks[k])]
subscriptKeys(items, ks) ==
  IF \A k \in DOMAIN ks : keyExists(items, ks[k]) THEN gives([k \in DOMAIN ks |-> get(items, ks[k])[2]]) ELSE panics

\* A call that changes the dict: what it returns, and the items behind it.
returning(result, items) == [result |-> result, items |-> items]
insert(items, key, item) ==
  LET k == _getIndex(items, key)
  IN  IF k = none THEN returning(none, Append(items, pair(key, item)))
      ELSE returning(some(items[k[2]].second), [items EXCEPT ![k[2]].second = item])
swapRemove(items, k) == Front([items EXCEPT ![k] = Last(items)])
remove(items, key) ==
  LET k == _getIndex(items, key)
  IN  IF k = none THEN returning(none, items)
      ELSE returning(some(items[k[2]].second), swapRemove(items, k[2]))

dict(items) == FoldLeft(LAMBDA r, p : insert(r, p.first, p.second).items, <<>>, items)

applied(items, op) ==
  CASE op.call = "insert" -> insert(items, op.key, op.item)
    [] op.call = "remove" -> remove(items, op.key)
    [] op.call = "clear"  -> returning(none, <<>>)
    [] op.call = "clone"  -> returning(none, dict(items))

\* The state behind each of some calls.
afterCalls(ops) ==
  FoldLeft(LAMBDA r, op : Append(r, applied(Last(r).items, op)), <<returning(none, <<>>)>>, ops)
------------------------------------------------------------------------------
(***************************************************************************)
(* A Dict is a function of its keys.                                       *)
(***************************************************************************)
meantBy(d, op) ==
  CASE op.call = "insert" -> [k \in DOMAIN d \cup {op.key} |-> IF k = op.key THEN op.item ELSE d[k]]
    [] op.call = "remove" -> [k \in DOMAIN d \ {op.key} |-> d[k]]
    [] op.call = "clear"  -> [k \in {} |-> 0]
    [] op.call = "clone"  -> d
was(d, key) == IF key \in DOMAIN d THEN some(d[key]) ELSE none

\* Every call returns what the key had before it, and all look-ups behind the calls tell the same function.
dictAnswerIsRight(ops, states) ==
  LET meant == FoldLeft(LAMBDA ds, op : Append(ds, meantBy(Last(ds), op)), <<[k \in {} |-> 0]>>, ops)
      d     == Last(meant)
      items == Last(states).items
  IN  /\ \A n \in DOMAIN ops : ops[n].call \in {"insert", "remove"} => states[n + 1].result = was(meant[n], ops[n].key)
      /\ ToSet(keys(items)) = DOMAIN d /\ Len(keys(items)) = Cardinality(DOMAIN d)
      /\ \A n \in DOMAIN items : values(items)[n] = d[keys(items)[n]]
      /\ \A ks \in {keys(items), <<1, 2>>} :
           /\ getList(items, ks) = [n \in DOMAIN ks |-> was(d, ks[n])]
           /\ subscriptKeys(items, ks) = (IF ToSet(ks) \subseteq DOMAIN d THEN gives([n \in DOMAIN ks |-> d[ks[n]]])
                                          ELSE panics)

------------------------------------------------------------------------------
CONSTANT Questions       \* records with the receiver in "of", a method and its arguments

VARIABLES question, answer

collectionVars == <<vars, listVars, question, answer>>

nothingAsked == [of |-> "nobody"]
unanswered   == [given |-> FALSE]

emptyHeap == fields = [v \in Variable |-> NoList] /\ heap = <<>> /\ doing = <<>>
CollectionsInit ==
  /\ answer = unanswered
  /\ \/ question = nothingAsked /\ Init /\ emptyHeap /\ phase = "references"
     \/ question = nothingAsked /\ SharedInit
     \/ question \in Questions /\ owner = [v \in Variable |-> NoObject] /\ Init /\ emptyHeap /\ phase = "asked"

counted == phase = "references" /\ Next /\ UNCHANGED <<listVars, question, answer>>
shared  == SharedNext /\ UNCHANGED <<question, answer>>

answers(q) ==
  CASE q.of = "string" -> answerOfString(q)
    [] q.of = "dict"   -> afterCalls(q.calls)
    [] q.of = "array"  -> CASE q.method = "sort"    -> sortInPlace(q.items)
                            [] q.method = "reverse" -> reverseInPlace(q.items)
                            [] q.method = "search"  -> search(q.items, q.item)
                            [] q.method = "count"   -> countOf(q.items, q.item)
                            [] q.method = "binarySearch" -> binarySearch(q.items, q.item)
call ==
  /\ phase = "asked" /\ answer = unanswered
  /\ answer' = [given |-> TRUE, is |-> answers(question)]
  /\ UNCHANGED <<vars, listVars, question>>

CollectionsNext == counted \/ shared \/ call
CollectionsSpec == CollectionsInit /\ [][CollectionsNext]_collectionVars

------------------------------------------------------------------------------
\* Every method answers what the guide says of texts, sequences and functions: the bounds of String's loops,
\* which are differences of ulongs (String.shtk:214, :227), the '\0' that every new string ends with (:23),
\* the partition of the quick sort (ArrayUtils.shtk:6), swapRemove below Dict.remove (Dict.shtk:117).  The
\* calls that stringSlip and wrapsBelowZero name are left out.
AnswersAsMeant ==
  answer.given =>
    CASE question.of = "string" -> stringSlip(question) \/ stringAnswerIsRight(question, answer.is)
      [] question.of = "dict"   -> dictAnswerIsRight(question.calls, answer.is)
      [] question.of = "array"  ->
           \/ wrapsBelowZero(question.method, question.items, question.item)
           \/ arrayAnswerIsRight(question.method, question.items, question.item, answer.is)
===============================================================================
