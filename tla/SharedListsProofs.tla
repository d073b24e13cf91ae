--------------------------- MODULE SharedListsProofs ---------------------------
(***************************************************************************)
(* Lists that share their blocks, for any variables, counters, elements    *)
(* and growth: every step keeps to the discipline of Ownership, while no   *)
(* list strays no method leaves its block and no block is lost, and what   *)
(* the variables show is what References promises.                         *)
(***************************************************************************)
EXTENDS SharedLists, OwnershipProofs, SequenceTheorems

Element    == Value \cup {Junk} \cup UNION {Range(a) : a \in Arrays}
ListRecord == [ptr : Nat, capacity : Nat, length : Nat]
Block      == [live : BOOLEAN, slots : Seq(Element)]
CallState  == [heap : Seq(Block), list : ListRecord, went : {"running", "panic", "wild"}]

\* A list whose block is live, has the slots the list knows of and room for its elements.
Holds(h, r) == isLive(h, r.ptr) /\ Len(h[r.ptr].slots) = r.capacity /\ r.length <= r.capacity

\* How a call may stand: only a list with no room at all goes astray.
Sound(s) ==
    /\ s \in CallState
    /\ s.went = "running" => Holds(s.heap, s.list)
    /\ s.went = "wild" => s.list.capacity = 0

(***************************************************************************)
(* What a method may do to memory, from heap h with the list at p to heap  *)
(* g with the list at q: it leaves the other blocks alone, and the list    *)
(* keeps its block or frees it and takes a new one.                        *)
(***************************************************************************)
Along(h, p, g, q) ==
    /\ DOMAIN h \subseteq DOMAIN g
    /\ \A k \in DOMAIN h : k # p => g[k] = h[k]
    /\ \A k \in DOMAIN g : g[k].live => k = q \/ (k \in DOMAIN h /\ k # p)
    /\ q = p \/ q \notin DOMAIN h

------------------------------------------------------------------------------

LEMMA ArrayElements == \A a \in Arrays : a \in Seq(Element) /\ Len(a) \in Nat
<1> SUFFICES ASSUME NEW a \in Arrays PROVE a \in Seq(Element)
  OBVIOUS
<1>1. a \in Seq(Range(a)) /\ Range(a) \subseteq Element
  BY ArraysAreLists DEF Element
<1> QED
  BY <1>1

LEMMA OfSize ==
    ASSUME NEW s \in Seq(Element), NEW n \in Nat
    PROVE  ofSize(s, n) \in Seq(Element) /\ Len(ofSize(s, n)) = n
<1>1. Junk \in Element
  BY DEF Element
<1> QED
  BY <1>1 DEF ofSize

LEMMA AlongItself == ASSUME NEW h, NEW p PROVE Along(h, p, h, p)
BY DEF Along

LEMMA AlongOn ==
    ASSUME NEW h, NEW p, NEW g, NEW q, NEW f, NEW r, Along(h, p, g, q), Along(g, q, f, r)
    PROVE  Along(h, p, f, r)
BY DEF Along

(***************************************************************************)
(* realloc in place, and realloc to a new block.                           *)
(***************************************************************************)
LEMMA InPlace ==
    ASSUME NEW h \in Seq(Block), NEW p, isLive(h, p), NEW b \in Block, b.live
    PROVE  LET g == [h EXCEPT ![p] = b]
           IN  g \in Seq(Block) /\ Along(h, p, g, p) /\ isLive(g, p) /\ g[p] = b
BY DEF Along, isLive

LEMMA MovedAway ==
    ASSUME NEW h \in Seq(Block), NEW p, isLive(h, p), NEW b \in Block, b.live
    PROVE  LET g == Append([h EXCEPT ![p] = freed], b)
               q == Len(h) + 1
           IN  g \in Seq(Block) /\ q \in Nat /\ Along(h, p, g, q) /\ isLive(g, q) /\ g[q] = b
<1> DEFINE f == [h EXCEPT ![p] = freed]
           g == Append(f, b)
           q == Len(h) + 1
<1>1. freed \in Block /\ ~freed.live
  BY DEF freed, Block
<1>2. f \in Seq(Block) /\ Len(f) = Len(h) /\ DOMAIN f = DOMAIN h
  BY <1>1 DEF isLive
<1>3. f[p] = freed /\ \A k \in DOMAIN h : k # p => f[k] = h[k]
  BY DEF isLive
<1>4. DOMAIN h = 1 .. Len(h) /\ Len(h) \in Nat
  OBVIOUS
<1> HIDE DEF f
<1>5. /\ g \in Seq(Block) /\ DOMAIN g = 1 .. Len(h) + 1
      /\ g[q] = b /\ \A k \in 1 .. Len(h) : g[k] = f[k]
  BY <1>2
<1> HIDE DEF g
<1>6. \A k \in DOMAIN g : g[k].live => k = q \/ (k \in DOMAIN h /\ k # p)
  BY <1>1, <1>3, <1>4, <1>5
<1>7. q \notin DOMAIN h /\ q \in DOMAIN g /\ DOMAIN h \subseteq DOMAIN g
  BY <1>4, <1>5
<1>8. \A k \in DOMAIN h : k # p => g[k] = h[k]
  BY <1>3, <1>4, <1>5
<1>9. Along(h, p, g, q) /\ isLive(g, q)
  BY <1>5, <1>6, <1>7, <1>8 DEF Along, isLive
<1> QED
  BY <1>4, <1>5, <1>9 DEF f, g

LEMMA Expand ==
    ASSUME NEW s \in CallState, s.went = "running", Holds(s.heap, s.list),
           NEW n \in Nat, n = 0 => s.list.capacity = 0,
           NEW t \in expand(s, n)
    PROVE  /\ t \in CallState /\ Along(s.heap, s.list.ptr, t.heap, t.list.ptr)
           /\ isLive(t.heap, t.list.ptr) /\ t.went \in {"running", "panic"}
           /\ t.list.length = s.list.length /\ t.list.capacity = n
           /\ Len(t.heap[t.list.ptr].slots) = n
<1> DEFINE h == s.heap
           p == s.list.ptr
           grown == block(ofSize(h[p].slots, n))
<1>1. h \in Seq(Block) /\ s.list \in ListRecord /\ isLive(h, p) /\ p \in DOMAIN h /\ p \in Nat
  BY DEF CallState, Holds, isLive, ListRecord
<1>2. h[p] \in Block
  BY <1>1
<1>3. h[p].slots \in Seq(Element)
  BY <1>2 DEF Block
<1>4. grown \in Block /\ grown.live /\ Len(grown.slots) = n
  BY <1>3, OfSize DEF block, Block
<1> DEFINE at(a) == [s.list EXCEPT !.ptr = a, !.capacity = n]
           inPlace == [h EXCEPT ![p] = grown]
           away == Append([h EXCEPT ![p] = freed], grown)
<1>5. \/ n = 0 /\ t = ended(s, "panic")
      \/ n = 0 /\ t = [s EXCEPT !.heap = inPlace]
      \/ t = [s EXCEPT !.heap = inPlace, !.list = at(p)]
      \/ t = [s EXCEPT !.heap = away, !.list = at(Len(h) + 1)]
  BY <1>1 DEF expand
<1>6. inPlace \in Seq(Block) /\ Along(h, p, inPlace, p) /\ isLive(inPlace, p) /\ inPlace[p] = grown
  BY <1>1, <1>4, InPlace
<1>7. /\ away \in Seq(Block) /\ Len(h) + 1 \in Nat /\ Along(h, p, away, Len(h) + 1)
      /\ isLive(away, Len(h) + 1) /\ away[Len(h) + 1] = grown
  BY <1>1, <1>4, MovedAway
<1>8. ASSUME NEW a \in Nat
      PROVE  at(a) \in ListRecord /\ at(a).ptr = a /\ at(a).capacity = n /\ at(a).length = s.list.length
  BY <1>1 DEF ListRecord
<1> HIDE DEF grown, at, inPlace, away
<1>9. CASE n = 0 /\ t = ended(s, "panic")
  <2>1. t.heap = h /\ t.list = s.list /\ t.went = "panic" /\ t \in CallState
    BY <1>9 DEF ended, CallState
  <2> QED
    BY <1>1, <1>9, <2>1, AlongItself DEF Holds
<1>10. CASE n = 0 /\ t = [s EXCEPT !.heap = inPlace]
  <2>1. t.heap = inPlace /\ t.list = s.list /\ t.went = "running" /\ t \in CallState
    BY <1>6, <1>10 DEF CallState
  <2> QED
    BY <1>4, <1>6, <1>10, <2>1
<1>11. CASE t = [s EXCEPT !.heap = inPlace, !.list = at(p)]
  <2>1. at(p) \in ListRecord
    BY <1>1, <1>8
  <2>2. t.heap = inPlace /\ t.list = at(p) /\ t.went = "running" /\ t \in CallState
    BY <1>6, <1>11, <2>1 DEF CallState
  <2> QED
    BY <1>1, <1>4, <1>6, <1>8, <2>2
<1>12. CASE t = [s EXCEPT !.heap = away, !.list = at(Len(h) + 1)]
  <2>1. at(Len(h) + 1) \in ListRecord
    BY <1>7, <1>8
  <2>2. t.heap = away /\ t.list = at(Len(h) + 1) /\ t.went = "running" /\ t \in CallState
    BY <1>7, <1>12, <2>1 DEF CallState
  <2> QED
    BY <1>4, <1>7, <1>8, <2>2
<1> QED
  BY <1>5, <1>9, <1>10, <1>11, <1>12

(***************************************************************************)
(* memcpy into the list's block: within the slots the list knows of it     *)
(* changes contents only, beyond them the run goes wild.                   *)
(***************************************************************************)
LEMMA MemcpyOffset ==
    ASSUME NEW s \in CallState, s.went = "running", isLive(s.heap, s.list.ptr),
           NEW new \in Seq(Element), NEW offset \in Nat
    PROVE  LET t == memcpyOffset(s, new, offset)
           IN  /\ t \in CallState /\ t.list = s.list /\ isLive(t.heap, t.list.ptr)
               /\ Along(s.heap, s.list.ptr, t.heap, t.list.ptr)
               /\ Len(t.heap[t.list.ptr].slots) = Len(s.heap[s.list.ptr].slots)
               /\ t.went \in {"running", "wild"}
               /\ offset + Len(new) <= Len(s.heap[s.list.ptr].slots) => t.went = "running"
               /\ new # <<>> /\ offset + Len(new) > Len(s.heap[s.list.ptr].slots) => t.went = "wild"
<1> PICK t : t = memcpyOffset(s, new, offset)
  OBVIOUS
<1> DEFINE h == s.heap
           p == s.list.ptr
           b == h[p]
           inside == new = <<>> \/ offset + Len(new) <= Len(b.slots)
<1>1. h \in Seq(Block) /\ s.list \in ListRecord /\ p \in DOMAIN h
  BY DEF CallState, isLive
<1>2. b \in Block /\ b.live
  BY <1>1 DEF isLive
<1>3. b.slots \in Seq(Element)
  BY <1>2 DEF Block
<1>4. CASE ~inside
  <2>1. t = ended(s, "wild")
    BY <1>1, <1>4 DEF memcpyOffset
  <2>2. t \in CallState /\ t.list = s.list /\ t.heap = s.heap /\ t.went = "wild"
    BY <2>1 DEF ended, CallState
  <2> QED
    BY <1>4, <2>2, AlongItself
<1>5. CASE inside
  <2> DEFINE slots == [k \in DOMAIN b.slots |->
                         IF k \in offset + 1 .. offset + Len(new) THEN new[k - offset] ELSE b.slots[k]]
             c == [b EXCEPT !.slots = slots]
             g == [h EXCEPT ![p] = c]
  <2>1. t = [s EXCEPT !.heap[p].slots = slots]
    BY <1>1, <1>5 DEF memcpyOffset
  <2>2. slots \in Seq(Element) /\ Len(slots) = Len(b.slots)
    <3>1. \A k \in offset + 1 .. offset + Len(new) : new[k - offset] \in Element
      OBVIOUS
    <3>2. \A k \in DOMAIN b.slots : b.slots[k] \in Element
      BY <1>3
    <3>3. Len(b.slots) \in Nat /\ DOMAIN b.slots = 1 .. Len(b.slots)
      <4> HIDE DEF b, slots
      <4> QED
        BY <1>3
    <3> HIDE DEF b
    <3>4. slots \in [1 .. Len(b.slots) -> Element]
      BY <3>1, <3>2, <3>3
    <3>5. \A n \in Nat : \A f \in [1 .. n -> Element] : f \in Seq(Element) /\ Len(f) = n
      OBVIOUS
    <3> HIDE DEF slots
    <3> QED
      BY <3>3, <3>4, <3>5
  <2> HIDE DEF slots
  <2>3. c \in Block /\ c.live /\ c.slots = slots
    BY <1>2, <2>2 DEF Block
  <2>4. t = [s EXCEPT !.heap = g]
    BY <2>1
  <2>5. g \in Seq(Block) /\ Along(h, p, g, p) /\ isLive(g, p) /\ g[p] = c
    BY <1>1, <2>3, InPlace
  <2> HIDE DEF c, g
  <2>6. t.heap = g /\ t.list = s.list /\ t.went = "running" /\ t \in CallState
    BY <2>4, <2>5 DEF CallState
  <2>7. isLive(t.heap, t.list.ptr) /\ Along(h, p, t.heap, t.list.ptr)
    BY <2>5, <2>6
  <2>8. Len(t.heap[t.list.ptr].slots) = Len(b.slots)
    BY <2>2, <2>3, <2>5, <2>6
  <2>9. ~(new # <<>> /\ offset + Len(new) > Len(b.slots))
    <3> HIDE DEF b
    <3>1. Len(b.slots) \in Nat
      BY <1>3
    <3> QED
      BY <1>5, <3>1
  <2> QED
    BY <2>6, <2>7, <2>8, <2>9
<1> QED
  BY <1>4, <1>5

LEMMA WithLength ==
    ASSUME NEW s \in CallState, NEW n \in Nat
    PROVE  LET t == withLength(s, n)
           IN  /\ t \in CallState /\ t.heap = s.heap /\ t.went = s.went
               /\ t.list.ptr = s.list.ptr /\ t.list.capacity = s.list.capacity
               /\ t.list.length = IF s.went = "running" THEN n ELSE s.list.length
<1> PICK t : t = withLength(s, n)
  OBVIOUS
<1>1. CASE s.went = "running"
  <2>1. s.list \in ListRecord
    BY DEF CallState
  <2> DEFINE r == [s.list EXCEPT !.length = n]
  <2>2. r \in ListRecord /\ r.ptr = s.list.ptr /\ r.capacity = s.list.capacity /\ r.length = n
    BY <2>1 DEF ListRecord
  <2>3. t = [s EXCEPT !.list = r]
    BY <1>1 DEF withLength
  <2> HIDE DEF r
  <2>4. t \in CallState /\ t.list = r /\ t.heap = s.heap /\ t.went = s.went
    BY <2>2, <2>3 DEF CallState
  <2> QED
    BY <1>1, <2>2, <2>4
<1>2. CASE s.went # "running"
  BY <1>2 DEF withLength
<1> QED
  BY <1>1, <1>2

(***************************************************************************)
(* A list that is full grows before it is made longer; one with no room at *)
(* all doubles its capacity to nothing.                                    *)
(***************************************************************************)
LEMMA IncrementLength ==
    ASSUME NEW s \in CallState, s.went = "running", Holds(s.heap, s.list),
           NEW u \in _incrementLength(s)
    PROVE  /\ u \in CallState /\ Along(s.heap, s.list.ptr, u.heap, u.list.ptr)
           /\ isLive(u.heap, u.list.ptr) /\ u.went \in {"running", "panic"}
           /\ u.list.capacity = Len(u.heap[u.list.ptr].slots)
           /\ s.list.capacity = 0 => u.list.capacity = 0
           /\ u.went = "running" =>
                /\ u.list.length \in Nat /\ u.list.length > 0
                /\ s.list.capacity # 0 => u.list.length <= u.list.capacity
<1>1. /\ s.list.length \in Nat /\ s.list.capacity \in Nat /\ s.list.length <= s.list.capacity
      /\ isLive(s.heap, s.list.ptr) /\ s.list.capacity = Len(s.heap[s.list.ptr].slots)
  BY DEF Holds, CallState, ListRecord
<1>2. PICK t : /\ u = withLength(t, t.list.length + 1)
               /\ s.list.length = s.list.capacity => t \in expand(s, s.list.length * 2)
               /\ s.list.length # s.list.capacity => t = s
  BY DEF _incrementLength
<1>3. /\ t \in CallState /\ Along(s.heap, s.list.ptr, t.heap, t.list.ptr)
      /\ isLive(t.heap, t.list.ptr) /\ t.went \in {"running", "panic"}
      /\ t.list.length = s.list.length /\ t.list.capacity = Len(t.heap[t.list.ptr].slots)
      /\ s.list.capacity = 0 => t.list.capacity = 0
      /\ s.list.capacity # 0 => s.list.length < t.list.capacity
  <2>1. CASE s.list.length = s.list.capacity
    <3>1. s.list.length * 2 \in Nat /\ (s.list.length * 2 = 0 => s.list.capacity = 0)
      <4>1. \A c \in Nat : c * 2 \in Nat /\ (c * 2 = 0 => c = 0)
        OBVIOUS
      <4> QED
        BY <1>1, <2>1, <4>1
    <3>2. t \in expand(s, s.list.length * 2)
      BY <1>2, <2>1
    <3>3. /\ t \in CallState /\ Along(s.heap, s.list.ptr, t.heap, t.list.ptr)
          /\ isLive(t.heap, t.list.ptr) /\ t.went \in {"running", "panic"}
          /\ t.list.length = s.list.length /\ t.list.capacity = s.list.length * 2
          /\ Len(t.heap[t.list.ptr].slots) = s.list.length * 2
      BY <3>1, <3>2, Expand
    <3>4. s.list.capacity # 0 => s.list.length < s.list.length * 2
      BY <1>1, <2>1
    <3>5. s.list.capacity = 0 => s.list.length * 2 = 0
      BY <2>1
    <3> QED
      BY <3>3, <3>4, <3>5
  <2>2. CASE s.list.length # s.list.capacity
    <3>1. t = s
      BY <1>2, <2>2
    <3> QED
      BY <1>1, <2>2, <3>1, AlongItself
  <2> QED
    BY <2>1, <2>2
<1>4. t.list.length + 1 \in Nat
  BY <1>1, <1>3
<1>5. /\ u \in CallState /\ u.heap = t.heap /\ u.went = t.went
      /\ u.list.ptr = t.list.ptr /\ u.list.capacity = t.list.capacity
      /\ u.went = "running" => u.list.length = t.list.length + 1
  BY <1>2, <1>3, <1>4, WithLength
<1>6. u.list.capacity \in Nat
  BY <1>5 DEF CallState, ListRecord
<1> QED
  BY <1>1, <1>3, <1>5, <1>6

\* What every method leaves behind.
Allowed(s, t) == Sound(t) /\ Along(s.heap, s.list.ptr, t.heap, t.list.ptr)

LEMMA SetItemAllowed ==
    ASSUME NEW s \in CallState, s.went = "running", isLive(s.heap, s.list.ptr),
           s.list.capacity = Len(s.heap[s.list.ptr].slots),
           s.list.capacity # 0 => s.list.length <= s.list.capacity,
           NEW i \in Nat, NEW x \in Value, NEW t, t = setItem(s, i, x)
    PROVE  /\ t.went = "wild" => s.list.capacity = 0
           /\ s.list.length <= s.list.capacity => Allowed(s, t)
           /\ t \in CallState /\ t.list = s.list /\ t.went \in {"running", "wild", "panic"}
           /\ Along(s.heap, s.list.ptr, t.heap, t.list.ptr)
           /\ isLive(t.heap, t.list.ptr) /\ Len(t.heap[t.list.ptr].slots) = t.list.capacity
<1>1. s.list.length \in Nat /\ s.list.capacity \in Nat
  BY DEF CallState, ListRecord
<1>2. CASE i >= s.list.length
  <2>1. t = ended(s, "panic")
    BY <1>2 DEF setItem
  <2>2. t \in CallState /\ t.list = s.list /\ t.heap = s.heap /\ t.went = "panic"
    BY <2>1 DEF ended, CallState
  <2> QED
    BY <2>2, AlongItself DEF Allowed, Sound
<1>3. CASE i < s.list.length
  <2>1. t = memcpyOffset(s, <<x>>, i)
    BY <1>1, <1>3 DEF setItem
  <2>2. <<x>> \in Seq(Element) /\ <<x>> # <<>> /\ Len(<<x>>) = 1
    BY DEF Element
  <2> DEFINE new == <<x>>
  <2> HIDE DEF new
  <2>5. new \in Seq(Element) /\ new # <<>> /\ Len(new) = 1 /\ t = memcpyOffset(s, new, i)
    BY <2>1, <2>2 DEF new
  <2>3. /\ t \in CallState /\ t.list = s.list /\ isLive(t.heap, t.list.ptr)
        /\ Along(s.heap, s.list.ptr, t.heap, t.list.ptr)
        /\ Len(t.heap[t.list.ptr].slots) = Len(s.heap[s.list.ptr].slots)
        /\ t.went \in {"running", "wild"}
        /\ i + 1 <= Len(s.heap[s.list.ptr].slots) => t.went = "running"
    <3>1. /\ t \in CallState /\ t.list = s.list /\ isLive(t.heap, t.list.ptr)
          /\ Along(s.heap, s.list.ptr, t.heap, t.list.ptr)
          /\ Len(t.heap[t.list.ptr].slots) = Len(s.heap[s.list.ptr].slots)
          /\ t.went \in {"running", "wild"}
      BY <2>5, MemcpyOffset
    <3>2. \A k \in Nat : k + Len(new) <= Len(s.heap[s.list.ptr].slots) => memcpyOffset(s, new, k).went = "running"
      BY <2>5, MemcpyOffset
    <3> QED
      BY <2>5, <3>1, <3>2
  <2>4. t.went = "wild" => s.list.capacity = 0
    BY <1>1, <1>3, <2>3
  <2> QED
    BY <1>1, <2>3, <2>4 DEF Allowed, Sound, Holds
<1> QED
  BY <1>1, <1>2, <1>3

LEMMA AppendAllowed ==
    ASSUME NEW s \in CallState, s.went = "running", Holds(s.heap, s.list),
           NEW x \in Value, NEW t \in append(s, x)
    PROVE  Allowed(s, t)
<1>1. PICK u \in _incrementLength(s) : t = setItem(u, u.list.length - 1, x)
  BY DEF append
<1>2. /\ u \in CallState /\ Along(s.heap, s.list.ptr, u.heap, u.list.ptr)
      /\ isLive(u.heap, u.list.ptr) /\ u.went \in {"running", "panic"}
      /\ u.list.capacity = Len(u.heap[u.list.ptr].slots)
      /\ s.list.capacity = 0 => u.list.capacity = 0
      /\ u.went = "running" =>
           /\ u.list.length \in Nat /\ u.list.length > 0
           /\ s.list.capacity # 0 => u.list.length <= u.list.capacity
  BY IncrementLength
<1>3. CASE u.went = "panic"
  <2>1. t = u
    BY <1>1, <1>3 DEF setItem
  <2> QED
    BY <1>2, <1>3, <2>1 DEF Allowed, Sound
<1>4. CASE u.went = "running"
  <2>1. u.list.length - 1 \in Nat /\ u.list.capacity \in Nat
    BY <1>2, <1>4 DEF CallState, ListRecord
  <2>2. u.list.capacity # 0 => u.list.length <= u.list.capacity
    BY <1>2, <1>4
  <2>3. /\ t.went = "wild" => u.list.capacity = 0
        /\ t \in CallState /\ t.list = u.list
        /\ Along(u.heap, u.list.ptr, t.heap, t.list.ptr)
        /\ isLive(t.heap, t.list.ptr) /\ Len(t.heap[t.list.ptr].slots) = t.list.capacity
        /\ t.went \in {"running", "wild", "panic"}
    <3> DEFINE i == u.list.length - 1
    <3>1. t = setItem(u, i, x) /\ i \in Nat
      BY <1>1, <2>1
    <3> HIDE DEF i
    <3>2. /\ u \in CallState /\ u.went = "running" /\ isLive(u.heap, u.list.ptr)
          /\ u.list.capacity = Len(u.heap[u.list.ptr].slots)
      BY <1>2, <1>4
    <3> QED
      BY <2>2, <3>1, <3>2, SetItemAllowed
  <2>4. Along(s.heap, s.list.ptr, t.heap, t.list.ptr)
    BY <1>2, <2>3, AlongOn
  <2>5. t.went = "running" => Holds(t.heap, t.list)
    <3>1. CASE u.list.capacity # 0
      BY <2>2, <2>3, <3>1 DEF Holds
    <3>2. CASE u.list.capacity = 0
      <4>1. u.list.length - 1 < u.list.length /\ u.list.length - 1 + 1 = u.list.length /\ <<x>> \in Seq(Element)
            /\ <<x>> # <<>> /\ Len(<<x>>) = 1 /\ ~(u.list.length <= 0)
        BY <1>2, <1>4 DEF Element
      <4>2. t = memcpyOffset(u, <<x>>, u.list.length - 1)
        BY <1>1, <1>2, <1>4, <4>1 DEF setItem
      <4>3. t.went = "wild"
        BY <1>2, <1>4, <2>1, <3>2, <4>1, <4>2, MemcpyOffset
      <4> QED
        BY <4>3
    <3> QED
      BY <3>1, <3>2
  <2> QED
    BY <1>2, <2>3, <2>4, <2>5 DEF Allowed, Sound
<1> QED
  BY <1>2, <1>3, <1>4

LEMMA AppendArrayAllowed ==
    ASSUME NEW s \in CallState, s.went = "running", Holds(s.heap, s.list),
           NEW a \in Arrays, NEW u \in appendArray(s, a)
    PROVE  Allowed(s, u)
<1>1. /\ s.list.length \in Nat /\ s.list.capacity \in Nat /\ s.list.length <= s.list.capacity
      /\ isLive(s.heap, s.list.ptr) /\ s.list.capacity = Len(s.heap[s.list.ptr].slots)
  BY DEF Holds, CallState, ListRecord
<1>2. a \in Seq(Element) /\ Len(a) \in Nat
  BY ArrayElements
<1> DEFINE newLength == s.list.length + Len(a)
<1>3. newLength \in Nat /\ newLength * 2 \in Nat /\ s.list.length <= newLength
  BY <1>1, <1>2
<1>4. PICK t : /\ u = withLength(memcpyOffset(t, a, s.list.length), newLength)
               /\ newLength >= s.list.capacity => t \in expand(s, newLength * 2)
               /\ ~(newLength >= s.list.capacity) => t = s
  BY DEF appendArray
<1>5. /\ t \in CallState /\ Along(s.heap, s.list.ptr, t.heap, t.list.ptr)
      /\ isLive(t.heap, t.list.ptr) /\ t.went \in {"running", "panic"}
      /\ t.list.capacity = Len(t.heap[t.list.ptr].slots) /\ newLength <= t.list.capacity
  <2>1. CASE newLength >= s.list.capacity
    <3>1. newLength * 2 = 0 => s.list.capacity = 0
      <4>1. ASSUME NEW c \in Nat, NEW n \in Nat, n >= c, n * 2 = 0 PROVE c = 0
        BY <4>1
      <4> HIDE DEF newLength
      <4> QED
        BY <1>1, <1>3, <2>1, <4>1
    <3>2. t \in expand(s, newLength * 2)
      BY <1>4, <2>1
    <3>3. /\ t \in CallState /\ Along(s.heap, s.list.ptr, t.heap, t.list.ptr)
          /\ isLive(t.heap, t.list.ptr) /\ t.went \in {"running", "panic"}
          /\ t.list.capacity = newLength * 2
          /\ Len(t.heap[t.list.ptr].slots) = newLength * 2
      BY <1>3, <3>1, <3>2, Expand
    <3> HIDE DEF newLength
    <3> QED
      BY <1>3, <3>3
  <2>2. CASE ~(newLength >= s.list.capacity)
    <3>1. t = s
      BY <1>4, <2>2
    <3> HIDE DEF newLength
    <3>2. newLength <= s.list.capacity
      BY <1>1, <1>3, <2>2
    <3> QED
      BY <1>1, <3>1, <3>2, AlongItself
  <2> QED
    BY <2>1, <2>2
<1> DEFINE m == memcpyOffset(t, a, s.list.length)
<1>6. /\ m \in CallState /\ m.list.ptr = t.list.ptr /\ m.list.capacity = t.list.capacity
      /\ Along(s.heap, s.list.ptr, m.heap, m.list.ptr)
      /\ m.went \in {"running", "panic"}
      /\ isLive(m.heap, m.list.ptr) /\ Len(m.heap[m.list.ptr].slots) = t.list.capacity
  <2>1. CASE t.went = "panic"
    <3>1. m = t
      BY <2>1 DEF memcpyOffset
    <3> QED
      BY <1>5, <2>1, <3>1
  <2>2. CASE t.went = "running"
    <3>1. /\ m \in CallState /\ m.list = t.list /\ isLive(m.heap, m.list.ptr)
          /\ Along(t.heap, t.list.ptr, m.heap, m.list.ptr)
          /\ Len(m.heap[m.list.ptr].slots) = Len(t.heap[t.list.ptr].slots)
          /\ s.list.length + Len(a) <= Len(t.heap[t.list.ptr].slots) => m.went = "running"
      BY <1>1, <1>2, <1>5, <2>2, MemcpyOffset
    <3>2. m.went = "running"
      BY <1>5, <3>1
    <3>3. Along(s.heap, s.list.ptr, m.heap, m.list.ptr)
      BY <1>5, <3>1, AlongOn
    <3> QED
      BY <1>5, <3>1, <3>2, <3>3
  <2> QED
    BY <1>5, <2>1, <2>2
<1> HIDE DEF m, newLength
<1>7. /\ u \in CallState /\ u.heap = m.heap /\ u.went = m.went
      /\ u.list.ptr = m.list.ptr /\ u.list.capacity = m.list.capacity
      /\ u.went = "running" => u.list.length = newLength
  <2>1. u = withLength(m, newLength)
    BY <1>4 DEF m
  <2> QED
    BY <1>3, <1>6, <2>1, WithLength
<1> QED
  BY <1>3, <1>5, <1>6, <1>7 DEF Allowed, Sound, Holds

LEMMA PopAllowed ==
    ASSUME NEW s \in CallState, s.went = "running", Holds(s.heap, s.list)
    PROVE  Allowed(s, pop(s)) /\ Allowed(s, clear(s))
<1>1. /\ s.list.length \in Nat /\ s.list.capacity \in Nat /\ s.list.length <= s.list.capacity
      /\ isLive(s.heap, s.list.ptr) /\ s.list.capacity = Len(s.heap[s.list.ptr].slots)
  BY DEF Holds, CallState, ListRecord
<1>2. ASSUME NEW n \in Nat, n <= s.list.length PROVE Allowed(s, withLength(s, n))
  <2> DEFINE t == withLength(s, n)
  <2>1. /\ t \in CallState /\ t.heap = s.heap /\ t.went = "running"
        /\ t.list.ptr = s.list.ptr /\ t.list.capacity = s.list.capacity /\ t.list.length = n
    BY WithLength
  <2> HIDE DEF t
  <2>2. Allowed(s, t)
    BY <1>1, <1>2, <2>1, AlongItself DEF Allowed, Sound, Holds
  <2> QED
    BY <2>2 DEF t
<1>3. Allowed(s, s)
  BY AlongItself DEF Allowed, Sound
<1>4. pop(s) = IF s.list.length = 0 THEN s ELSE withLength(s, s.list.length - 1)
  BY <1>1 DEF pop
<1>5. s.list.length # 0 => s.list.length - 1 \in Nat /\ s.list.length - 1 <= s.list.length
  BY <1>1
<1>6. Allowed(s, pop(s))
  BY <1>2, <1>3, <1>4, <1>5
<1> QED
  BY <1>1, <1>2, <1>6 DEF clear

------------------------------------------------------------------------------
(***************************************************************************)
(* What the variables, and a statement under way, hold of the heap: pairs  *)
(* of a counter and a list.                                                *)
(***************************************************************************)
Held == [counter : Object, list : ListRecord]
held(o, r) == [counter |-> o, list |-> r]

(***************************************************************************)
(* The lists that are held are of live counters and live blocks; a block   *)
(* has one counter and a counter one list; and no live block is lost.      *)
(***************************************************************************)
Memory(S, h, st) ==
    /\ S \subseteq Held
    /\ \A x \in S : st[x.counter] = "live" /\ Holds(h, x.list)
    /\ \A x, y \in S : x.counter = y.counter \/ x.list.ptr = y.list.ptr => x = y
    /\ \A p \in DOMAIN h : h[p].live => \E x \in S : x.list.ptr = p

\* A new counter with a new block.
LEMMA MemoryGrows ==
    ASSUME NEW S, NEW h \in Seq(Block), NEW st, Memory(S, h, st),
           NEW o \in Object, st = [q \in Object |-> st[q]], st[o] # "live",
           NEW b \in Block, b.live,
           NEW r \in ListRecord, r.ptr = Len(h) + 1, r.capacity = Len(b.slots), r.length <= r.capacity
    PROVE  Memory(S \cup {held(o, r)}, Append(h, b), [st EXCEPT ![o] = "live"])
<1> DEFINE g == Append(h, b)
           T == S \cup {held(o, r)}
           su == [st EXCEPT ![o] = "live"]
<1>1. /\ DOMAIN h = 1 .. Len(h) /\ DOMAIN g = 1 .. Len(h) + 1 /\ Len(h) \in Nat
      /\ g[Len(h) + 1] = b /\ \A p \in DOMAIN h : g[p] = h[p]
  OBVIOUS
<1>2. Len(h) + 1 \notin DOMAIN h /\ Len(h) + 1 \in DOMAIN g /\ DOMAIN h \subseteq DOMAIN g
  BY <1>1
<1>3. held(o, r) \in Held /\ held(o, r).counter = o /\ held(o, r).list = r
  BY DEF held, Held
<1> HIDE DEF g
<1>4. Holds(g, r)
  BY <1>1, <1>2 DEF Holds, isLive
<1>5. ASSUME NEW x \in S
      PROVE  /\ x.counter # o /\ x.list.ptr # r.ptr
             /\ su[x.counter] = "live" /\ Holds(g, x.list)
  <2>1. st[x.counter] = "live" /\ x.list.ptr \in DOMAIN h /\ x.counter \in Object
    BY DEF Memory, Holds, isLive, Held
  <2>2. x.counter # o /\ x.list.ptr # r.ptr /\ su[x.counter] = "live"
    BY <1>2, <2>1
  <2>3. Holds(g, x.list)
    BY <1>1, <1>2, <2>1 DEF Memory, Holds, isLive
  <2> QED
    BY <2>2, <2>3
<1>6. ASSUME NEW p \in DOMAIN g, g[p].live PROVE \E x \in T : x.list.ptr = p
  <2>1. CASE p \in DOMAIN h
    BY <1>1, <1>6, <2>1 DEF Memory
  <2>2. CASE p = Len(h) + 1
    BY <1>3, <2>2
  <2> QED
    BY <1>1, <2>1, <2>2
<1>7. su[o] = "live"
  OBVIOUS
<1>8. \A x \in T : su[x.counter] = "live" /\ Holds(g, x.list)
  BY <1>3, <1>4, <1>5, <1>7
<1>9. T \subseteq Held
  BY <1>3 DEF Memory
<1>10. \A x, y \in T : x.counter = y.counter \/ x.list.ptr = y.list.ptr => x = y
  <2> DEFINE y == held(o, r)
  <2>1. \A x \in S : x.counter # y.counter /\ x.list.ptr # y.list.ptr
    BY <1>3, <1>5
  <2>2. \A x, z \in S : x.counter = z.counter \/ x.list.ptr = z.list.ptr => x = z
    BY DEF Memory
  <2> HIDE DEF y
  <2>3. \A x, z \in S \cup {y} : x.counter = z.counter \/ x.list.ptr = z.list.ptr => x = z
    BY <2>1, <2>2
  <2> QED
    BY <2>3 DEF y
<1> QED
  BY <1>6, <1>8, <1>9, <1>10 DEF Memory, g

\* The last holder of a counter frees the block.
LEMMA MemoryFreed ==
    ASSUME NEW S, NEW h \in Seq(Block), NEW st, Memory(S, h, st), st = [q \in Object |-> st[q]],
           NEW x \in S
    PROVE  Memory(S \ {x}, [h EXCEPT ![x.list.ptr] = freed], [st EXCEPT ![x.counter] = "freed"])
<1> DEFINE g == [h EXCEPT ![x.list.ptr] = freed]
           su == [st EXCEPT ![x.counter] = "freed"]
<1>1. /\ DOMAIN g = DOMAIN h /\ g[x.list.ptr] = freed /\ ~freed.live
      /\ \A p \in DOMAIN h : p # x.list.ptr => g[p] = h[p]
  BY DEF Memory, Holds, isLive, freed
<1> HIDE DEF g
<1>2. ASSUME NEW y \in S \ {x} PROVE su[y.counter] = "live" /\ Holds(g, y.list)
  <2>1. y.counter # x.counter /\ y.list.ptr # x.list.ptr /\ y.list.ptr \in DOMAIN h /\ y.counter \in Object
    BY DEF Memory, Holds, isLive, Held
  <2>2. su[y.counter] = "live"
    BY <2>1 DEF Memory
  <2>3. Holds(g, y.list)
    BY <1>1, <2>1 DEF Memory, Holds, isLive
  <2> QED
    BY <2>2, <2>3
<1>3. ASSUME NEW p \in DOMAIN g, g[p].live PROVE \E y \in S \ {x} : y.list.ptr = p
  BY <1>1, <1>3 DEF Memory
<1>4. \A y, z \in S \ {x} : y.counter = z.counter \/ y.list.ptr = z.list.ptr => y = z
  BY DEF Memory
<1>5. S \ {x} \subseteq Held
  BY DEF Memory
<1> QED
  BY <1>2, <1>3, <1>4, <1>5 DEF Memory, g

\* A method changes the list of one counter.
LEMMA MemoryChanged ==
    ASSUME NEW S, NEW h \in Seq(Block), NEW st, Memory(S, h, st), NEW x \in S,
           NEW r \in ListRecord, NEW g \in Seq(Block),
           Along(h, x.list.ptr, g, r.ptr), Holds(g, r)
    PROVE  Memory((S \ {x}) \cup {held(x.counter, r)}, g, st)
<1> DEFINE y == held(x.counter, r)
           T == (S \ {x}) \cup {y}
<1>1. y \in Held /\ y.counter = x.counter /\ y.list = r
  BY DEF held, Held, Memory
<1>2. ASSUME NEW z \in S \ {x}
      PROVE  /\ z.counter # y.counter /\ z.list.ptr # y.list.ptr
             /\ st[z.counter] = "live" /\ Holds(g, z.list)
  <2>1. /\ z.counter # x.counter /\ z.list.ptr # x.list.ptr /\ z.list.ptr \in DOMAIN h
        /\ st[z.counter] = "live"
    BY DEF Memory, Holds, isLive
  <2>2. g[z.list.ptr] = h[z.list.ptr] /\ z.list.ptr \in DOMAIN g
    BY <2>1 DEF Along
  <2>3. Holds(g, z.list)
    BY <2>2 DEF Memory, Holds, isLive
  <2>4. z.list.ptr # r.ptr
    BY <2>1 DEF Along
  <2> QED
    BY <1>1, <2>1, <2>3, <2>4
<1> HIDE DEF y
<1>3. ASSUME NEW p \in DOMAIN g, g[p].live PROVE \E z \in T : z.list.ptr = p
  <2>1. CASE p = r.ptr
    BY <1>1, <2>1
  <2>2. CASE p # r.ptr
    <3>1. p \in DOMAIN h /\ p # x.list.ptr /\ h[p].live
      BY <1>3, <2>2 DEF Along
    <3>2. PICK z \in S : z.list.ptr = p
      BY <3>1 DEF Memory
    <3> QED
      BY <3>1, <3>2
  <2> QED
    BY <2>1, <2>2
<1>4. \A z \in T : st[z.counter] = "live" /\ Holds(g, z.list)
  BY <1>1, <1>2 DEF Memory
<1>5. \A z, w \in T : z.counter = w.counter \/ z.list.ptr = w.list.ptr => z = w
  BY <1>1, <1>2 DEF Memory
<1>6. T \subseteq Held
  BY <1>1 DEF Memory
<1> QED
  BY <1>3, <1>4, <1>5, <1>6 DEF Memory, y

------------------------------------------------------------------------------
\* The references that are on their way to a variable: one of each of these counters.
onlyPending(S) == pending = [q \in Object |-> IF q \in S THEN 1 ELSE 0]

\* The steps of a statement: of one that assigns to a variable which owns a list, or to one which owns
\* none; what is left of them; and of one that lets a variable go.
replacing(v, o, r) == <<<<"retain", o>>, <<"release", v>>, <<"store", v, o, r>>>>
filling(v, o, r)   == <<<<"retain", o>>, <<"store", v, o, r>>>>
dropping(v, o, r)  == <<<<"release", v>>, <<"store", v, o, r>>>>
arriving(v, o, r)  == <<<<"store", v, o, r>>>>
leaving(v)         == <<<<"release", v>>>>

\* The statement under way, which stores r of counter o in v.
Storing(v, o, r) ==
    \/ /\ doing = replacing(v, o, r)
       /\ owner[v] # NoObject /\ onlyPending({})
    \/ /\ doing = filling(v, o, r)
       /\ owner[v] = NoObject /\ onlyPending({})
    \/ /\ doing = dropping(v, o, r)
       /\ owner[v] # NoObject /\ onlyPending({o})
    \/ /\ doing = arriving(v, o, r)
       /\ owner[v] = NoObject /\ onlyPending({o})

Statement ==
    \/ doing = <<>> /\ onlyPending({})
    \/ \E v \in Variable : doing = leaving(v) /\ owner[v] # NoObject /\ onlyPending({})
    \/ \E v \in Variable, o \in Object, r \in ListRecord : Storing(v, o, r)

\* What a row of steps ends in storing, and what the variables hold.
carriedBy(d) ==
    LET end == d[Len(d)]
    IN  IF d # <<>> /\ end[1] = "store" THEN {held(end[3], end[4])} ELSE {}
owned == {held(owner[v], fields[v]) : v \in {w \in Variable : owner[w] # NoObject}}

(***************************************************************************)
(* The inductive invariant: the discipline's own, and while the run goes   *)
(* on, that memory is as the variables and the statement under way say.    *)
(***************************************************************************)
SharedIInv ==
    /\ IInv
    /\ fields \in [Variable -> ListRecord]
    /\ heap \in Seq(Block)
    /\ phase = "wild" => roomless
    /\ phase = "running" => Statement /\ Memory(owned \cup carriedBy(doing), heap, status)

\* Rows of one, two and three steps.
LEMMA Rows ==
    ASSUME NEW a, NEW b, NEW c
    PROVE  /\ <<a>> # <<>> /\ Len(<<a>>) = 1 /\ <<a>>[1] = a /\ Head(<<a>>) = a /\ Tail(<<a>>) = <<>>
           /\ <<a, b>> # <<>> /\ Len(<<a, b>>) = 2 /\ <<a, b>>[2] = b /\ Head(<<a, b>>) = a /\ Tail(<<a, b>>) = <<b>>
           /\ <<a, b, c>> # <<>> /\ Len(<<a, b, c>>) = 3 /\ <<a, b, c>>[3] = c
           /\ Head(<<a, b, c>>) = a /\ Tail(<<a, b, c>>) = <<b, c>>
OBVIOUS

\* Two sequences with the same elements are equal.
LEMMA SameSequence ==
    ASSUME NEW S, NEW s \in Seq(S), NEW t \in Seq(S), Len(s) = Len(t),
           \A k \in 1 .. Len(s) : s[k] = t[k]
    PROVE  s = t
OBVIOUS

LEMMA JoinedRows ==
    ASSUME NEW a, NEW b, NEW c
    PROVE  <<a>> \o <<>> \o <<b>> = <<a, b>> /\ <<a>> \o <<b>> \o <<c>> = <<a, b, c>>
<1> DEFINE S == {a, b, c}
<1>1. <<a>> \in Seq(S) /\ <<b>> \in Seq(S) /\ <<c>> \in Seq(S) /\ <<>> \in Seq(S)
  OBVIOUS
<1>2. <<a>> \o <<>> = <<a>>
  BY <1>1
<1>3. <<a, b>> \in Seq(S) /\ <<a, b, c>> \in Seq(S)
  OBVIOUS
<1>4. <<a>> \o <<b>> = <<a, b>>
  <2> DEFINE t == <<a>> \o <<b>>
             u == <<a, b>>
  <2>1. t \in Seq(S) /\ Len(t) = 2 /\ t[1] = a /\ t[2] = b
    BY <1>1
  <2>2. u \in Seq(S) /\ Len(u) = 2 /\ u[1] = a /\ u[2] = b
    BY <1>3
  <2>3. 1 .. 2 = {1, 2}
    OBVIOUS
  <2> HIDE DEF t, u
  <2>4. t = u
    BY <2>1, <2>2, <2>3, SameSequence
  <2> QED
    BY <2>4 DEF t, u
<1>5. <<a, b>> \o <<c>> = <<a, b, c>>
  <2> DEFINE t == <<a, b>> \o <<c>>
             u == <<a, b, c>>
  <2>1. t \in Seq(S) /\ Len(t) = 3 /\ t[1] = a /\ t[2] = b /\ t[3] = c
    BY <1>1, <1>3
  <2>2. u \in Seq(S) /\ Len(u) = 3 /\ u[1] = a /\ u[2] = b /\ u[3] = c
    BY <1>3
  <2>3. 1 .. 3 = {1, 2, 3}
    OBVIOUS
  <2> HIDE DEF t, u
  <2>4. t = u
    BY <2>1, <2>2, <2>3, SameSequence
  <2> QED
    BY <2>4 DEF t, u
<1> QED
  BY <1>2, <1>4, <1>5

LEMMA StepFields ==
    ASSUME NEW v, NEW o, NEW r
    PROVE  /\ <<"retain", o>>[1] = "retain" /\ <<"retain", o>>[2] = o
           /\ <<"release", v>>[1] = "release" /\ <<"release", v>>[2] = v
           /\ <<"store", v, o, r>>[1] = "store" /\ <<"store", v, o, r>>[2] = v
           /\ <<"store", v, o, r>>[3] = o /\ <<"store", v, o, r>>[4] = r
OBVIOUS

(***************************************************************************)
(* How a statement goes on, what it carries, and what tells statements     *)
(* apart.                                                                  *)
(***************************************************************************)
LEMMA Steps ==
    ASSUME NEW v, NEW o, NEW r
    PROVE  /\ Head(replacing(v, o, r)) = <<"retain", o>> /\ Tail(replacing(v, o, r)) = dropping(v, o, r)
           /\ Head(filling(v, o, r)) = <<"retain", o>> /\ Tail(filling(v, o, r)) = arriving(v, o, r)
           /\ Head(dropping(v, o, r)) = <<"release", v>> /\ Tail(dropping(v, o, r)) = arriving(v, o, r)
           /\ Head(arriving(v, o, r)) = <<"store", v, o, r>> /\ Tail(arriving(v, o, r)) = <<>>
           /\ Head(leaving(v)) = <<"release", v>> /\ Tail(leaving(v)) = <<>>
           /\ replacing(v, o, r) # <<>> /\ filling(v, o, r) # <<>> /\ dropping(v, o, r) # <<>>
           /\ arriving(v, o, r) # <<>> /\ leaving(v) # <<>>
BY Rows DEF replacing, filling, dropping, arriving, leaving

LEMMA FirstSteps ==
    ASSUME NEW v, NEW o, NEW r
    PROVE  /\ Head(replacing(v, o, r))[1] = "retain" /\ Head(filling(v, o, r))[1] = "retain"
           /\ Head(dropping(v, o, r))[1] = "release" /\ Head(leaving(v))[1] = "release"
           /\ Head(arriving(v, o, r))[1] = "store"
BY Steps, StepFields

LEMMA Carried ==
    ASSUME NEW v, NEW o, NEW r
    PROVE  /\ carriedBy(<<>>) = {} /\ carriedBy(leaving(v)) = {}
           /\ carriedBy(replacing(v, o, r)) = {held(o, r)} /\ carriedBy(filling(v, o, r)) = {held(o, r)}
           /\ carriedBy(dropping(v, o, r)) = {held(o, r)} /\ carriedBy(arriving(v, o, r)) = {held(o, r)}
<1> DEFINE a == <<"retain", o>>
           b == <<"release", v>>
           c == <<"store", v, o, r>>
<1>1. b[1] # "store" /\ c[1] = "store" /\ c[3] = o /\ c[4] = r
  BY StepFields
<1>2. /\ replacing(v, o, r) = <<a, b, c>> /\ filling(v, o, r) = <<a, c>>
      /\ dropping(v, o, r) = <<b, c>> /\ arriving(v, o, r) = <<c>> /\ leaving(v) = <<b>>
  BY DEF replacing, filling, dropping, arriving, leaving
<1> HIDE DEF a, b, c
<1>3. carriedBy(<<>>) = {} /\ carriedBy(<<b>>) = {}
  BY <1>1, Rows DEF carriedBy
<1>4. /\ carriedBy(<<a, b, c>>) = {held(o, r)} /\ carriedBy(<<a, c>>) = {held(o, r)}
      /\ carriedBy(<<b, c>>) = {held(o, r)} /\ carriedBy(<<c>>) = {held(o, r)}
  BY <1>1, Rows DEF carriedBy
<1> QED
  BY <1>2, <1>3, <1>4

LEMMA Assigning ==
    ASSUME NEW v \in Variable, NEW o, NEW r
    PROVE  assigning(v, o, r) =
             IF owner[v] # NoObject
               THEN replacing(v, o, r)
               ELSE filling(v, o, r)
BY JoinedRows DEF assigning, replacing, filling

------------------------------------------------------------------------------
\* Between two statements nothing is on its way.
LEMMA BetweenStatements ==
    ASSUME SharedIInv, ready
    PROVE  /\ onlyPending({}) /\ Memory(owned, heap, status) /\ phase = "running" /\ doing = <<>>
           /\ IInv /\ TypeOK /\ fields \in [Variable -> ListRecord] /\ heap \in Seq(Block)
<1>1. doing = <<>> /\ phase = "running" /\ Statement /\ Memory(owned \cup carriedBy(doing), heap, status)
  BY DEF ready, SharedIInv
<1>2. carriedBy(doing) = {}
  BY <1>1, Carried
<1>3. onlyPending({})
  <2>1. \A v \in Variable : doing # leaving(v)
    BY <1>1, Steps
  <2>2. \A v \in Variable, o \in Object, r \in ListRecord : ~Storing(v, o, r)
    BY <1>1, Steps DEF Storing
  <2> QED
    BY <1>1, <2>1, <2>2 DEF Statement
<1> QED
  BY <1>1, <1>2, <1>3 DEF SharedIInv, IInv

\* The statement that has begun to store a list.
LEMMA BeginsToStore ==
    ASSUME ready, onlyPending({}), pending' = pending, owner' = owner,
           NEW v \in Variable, NEW o \in Object, NEW r \in ListRecord,
           doing' = assigning(v, o, r)
    PROVE  Statement' /\ carriedBy(doing') = {held(o, r)}
<1>1. doing' = IF owner[v] # NoObject
                 THEN replacing(v, o, r)
                 ELSE filling(v, o, r)
  BY Assigning
<1>2. Storing(v, o, r)'
  BY <1>1 DEF Storing, onlyPending
<1>3. Statement'
  BY <1>2 DEF Statement
<1>4. CASE owner[v] # NoObject
  BY <1>1, <1>3, <1>4, Carried
<1>5. CASE owner[v] = NoObject
  BY <1>1, <1>3, <1>5, Carried
<1> QED
  BY <1>4, <1>5

LEMMA MakePreserves ==
    ASSUME SharedIInv, ready, NEW v \in Variable,
           NEW s \in Seq(Element), NEW c \in Nat, Len(s) <= c, make(v, s, c)
    PROVE  SharedIInv' /\ Next
<1>1. PICK o \in Object :
        /\ Create(o) /\ heap' = Append(heap, block(ofSize(s, c)))
        /\ doing' = assigning(v, o, record(Len(heap) + 1, c, Len(s)))
        /\ fields' = fields /\ phase' = phase
  BY DEF make
<1> DEFINE b == block(ofSize(s, c))
           r == record(Len(heap) + 1, c, Len(s))
<1>2. /\ onlyPending({}) /\ Memory(owned, heap, status) /\ phase = "running" /\ doing = <<>>
      /\ IInv /\ TypeOK /\ fields \in [Variable -> ListRecord] /\ heap \in Seq(Block)
  BY BetweenStatements
<1>3. Len(heap) \in Nat /\ Len(s) \in Nat
  BY <1>2
<1>4. b \in Block /\ b.live /\ Len(b.slots) = c
  BY OfSize DEF block, Block
<1>5. r \in ListRecord /\ r.ptr = Len(heap) + 1 /\ r.capacity = c /\ r.length = Len(s)
  BY <1>3 DEF record, ListRecord
<1> HIDE DEF b, r
<1>6. /\ owner' = owner /\ pending' = pending /\ status[o] # "live"
      /\ status' = [status EXCEPT ![o] = "live"] /\ status = [q \in Object |-> status[q]]
  BY <1>1, <1>2 DEF Create, TypeOK
<1>7. Memory(owned \cup {held(o, r)}, Append(heap, b), [status EXCEPT ![o] = "live"])
  BY <1>2, <1>4, <1>5, <1>6, MemoryGrows
<1>8. doing' = assigning(v, o, r) /\ heap' = Append(heap, b)
  BY <1>1 DEF b, r
<1>9. Statement' /\ carriedBy(doing') = {held(o, r)}
  BY <1>2, <1>5, <1>6, <1>8, BeginsToStore
<1>10. owned' = owned
  BY <1>1, <1>6 DEF owned
<1>11. Memory(owned' \cup carriedBy(doing'), heap', status')
  BY <1>6, <1>7, <1>8, <1>9, <1>10
<1>12. Next
  BY <1>1 DEF Next
<1>13. IInv'
  BY <1>2, <1>12, NextIInv
<1>14. heap' \in Seq(Block)
  BY <1>2, <1>4, <1>8
<1> QED
  BY <1>1, <1>2, <1>9, <1>11, <1>12, <1>13, <1>14 DEF SharedIInv

LEMMA ListPreserves ==
    ASSUME SharedIInv, NEW v \in Variable, List(v) \/ FromPreAllocated(v)
    PROVE  SharedIInv' /\ [Next]_vars
<1>1. ready
  BY DEF List, FromPreAllocated
<1>2. PICK a \in Arrays : make(v, a, Len(a) * 2 + 1) \/ make(v, a, Len(a))
  BY DEF List, FromPreAllocated
<1>3. a \in Seq(Element) /\ Len(a) \in Nat /\ Len(a) * 2 + 1 \in Nat /\ Len(a) <= Len(a) * 2 + 1
  BY ArrayElements
<1> QED
  BY <1>1, <1>2, <1>3, MakePreserves

\* What is read of a list that is held.
LEMMA Contents ==
    ASSUME NEW h \in Seq(Block), NEW r \in ListRecord, Holds(h, r)
    PROVE  LET c == contents(h, r)  slots == h[r.ptr].slots
           IN  /\ fits(h, r) /\ c \in Seq(Element) /\ Len(c) = r.length
               /\ r.length \in Nat /\ slots \in Seq(Element) /\ r.length <= Len(slots)
               /\ \A k \in 1 .. r.length : c[k] = slots[k]
<1> DEFINE c == contents(h, r)
           slots == h[r.ptr].slots
<1>1. h[r.ptr] \in Block /\ r.length \in Nat /\ r.length <= Len(slots)
  BY DEF Holds, isLive, ListRecord
<1>2. slots \in Seq(Element)
  BY <1>1 DEF Block
<1>3. fits(h, r)
  BY DEF Holds, fits
<1>4. (r.length = 0 => c = <<>>) /\ (r.length # 0 => c = SubSeq(slots, 1, r.length))
  BY DEF contents
<1> HIDE DEF c, slots
<1>5. CASE r.length = 0
  <2>1. c = <<>>
    BY <1>4, <1>5
  <2> QED
    BY <1>1, <1>2, <1>3, <1>5, <2>1 DEF c, slots
<1>6. CASE r.length # 0
  <2>1. ASSUME NEW n \in Nat, n <= Len(slots)
        PROVE  /\ SubSeq(slots, 1, n) \in Seq(Element) /\ Len(SubSeq(slots, 1, n)) = n
               /\ \A k \in 1 .. n : SubSeq(slots, 1, n)[k] = slots[k]
    BY <1>2, <2>1
  <2>2. /\ SubSeq(slots, 1, r.length) \in Seq(Element) /\ Len(SubSeq(slots, 1, r.length)) = r.length
        /\ \A k \in 1 .. r.length : SubSeq(slots, 1, r.length)[k] = slots[k]
    BY <1>1, <2>1
  <2> QED
    BY <1>1, <1>2, <1>3, <1>4, <1>6, <2>2 DEF c, slots
<1> QED
  BY <1>5, <1>6

LEMMA ClonePreserves ==
    ASSUME SharedIInv, NEW v \in Variable, Clone(v)
    PROVE  SharedIInv' /\ [Next]_vars
<1>1. ready
  BY DEF Clone
<1>2. PICK w \in Variable :
        /\ owner[w] # NoObject
        /\ IF fits(heap, fields[w]) THEN cloneOf(v, w)
           ELSE phase' = "wild" /\ UNCHANGED <<vars, fields, heap, doing>>
  BY DEF Clone
<1>3. /\ Memory(owned, heap, status) /\ TypeOK
      /\ fields \in [Variable -> ListRecord] /\ heap \in Seq(Block)
  BY <1>1, BetweenStatements
<1> DEFINE r == fields[w]
           c == contents(heap, r)
<1>4. r \in ListRecord /\ r.length \in Nat /\ r.ptr \in Nat /\ held(owner[w], r) \in owned
  BY <1>2, <1>3 DEF ListRecord, owned
<1>5. held(owner[w], r).list = r
  BY DEF held
<1>6. Holds(heap, r)
  BY <1>3, <1>4, <1>5 DEF Memory
<1> HIDE DEF r
<1>7. fits(heap, r) /\ c \in Seq(Element) /\ Len(c) = r.length
  BY <1>3, <1>4, <1>6, Contents
<1>8. make(v, c, r.length * 2 + 1)
  BY <1>2, <1>7 DEF cloneOf, r
<1> HIDE DEF c
<1>9. r.length * 2 + 1 \in Nat /\ Len(c) <= r.length * 2 + 1
  BY <1>4, <1>7
<1> QED
  BY <1>1, <1>7, <1>8, <1>9, MakePreserves

LEMMA CopyPreserves ==
    ASSUME SharedIInv, NEW v \in Variable, Copy(v)
    PROVE  SharedIInv' /\ [Next]_vars
<1>1. PICK w \in Variable : owner[w] # NoObject /\ doing' = assigning(v, owner[w], fields[w])
  BY DEF Copy
<1>2. /\ owner' = owner /\ pending' = pending /\ status' = status /\ heap' = heap
      /\ fields' = fields /\ UNCHANGED vars /\ phase' = "running" /\ ready
  BY DEF Copy, vars, ready
<1>3. /\ onlyPending({}) /\ Memory(owned, heap, status) /\ IInv /\ TypeOK
      /\ fields \in [Variable -> ListRecord] /\ heap \in Seq(Block)
  BY <1>2, BetweenStatements
<1>4. owner[w] \in Object /\ fields[w] \in ListRecord
  BY <1>1, <1>3 DEF TypeOK
<1>5. Statement' /\ carriedBy(doing') = {held(owner[w], fields[w])}
  BY <1>1, <1>2, <1>3, <1>4, BeginsToStore
<1>6. owned' = owned /\ held(owner[w], fields[w]) \in owned
  BY <1>1, <1>2 DEF owned
<1>7. owned' \cup carriedBy(doing') = owned
  BY <1>5, <1>6
<1>8. Memory(owned' \cup carriedBy(doing'), heap', status')
  BY <1>2, <1>3, <1>7
<1>9. IInv'
  BY <1>2, <1>3, NextIInv
<1> QED
  BY <1>2, <1>3, <1>5, <1>8, <1>9 DEF SharedIInv

LEMMA LeavePreserves ==
    ASSUME SharedIInv, NEW v \in Variable, Leave(v)
    PROVE  SharedIInv' /\ [Next]_vars
<1>1. /\ owner' = owner /\ pending' = pending /\ status' = status /\ heap' = heap
      /\ fields' = fields /\ UNCHANGED vars /\ phase' = "running" /\ ready
      /\ owner[v] # NoObject /\ doing' = leaving(v)
  BY DEF Leave, vars, ready, leaving
<1>2. /\ onlyPending({}) /\ Memory(owned, heap, status) /\ IInv
      /\ fields \in [Variable -> ListRecord] /\ heap \in Seq(Block)
  BY <1>1, BetweenStatements
<1>3. Statement'
  BY <1>1, <1>2 DEF Statement, onlyPending
<1>4. owned' = owned /\ carriedBy(doing') = {}
  BY <1>1, Carried DEF owned
<1>5. owned' \cup carriedBy(doing') = owned
  BY <1>4
<1>6. Memory(owned' \cup carriedBy(doing'), heap', status')
  BY <1>1, <1>2, <1>5
<1>7. IInv'
  BY <1>1, <1>2, NextIInv
<1> QED
  BY <1>1, <1>2, <1>3, <1>6, <1>7 DEF SharedIInv

------------------------------------------------------------------------------
\* How the steps of a statement go.  The value that is copied is retained.
LEMMA Retaining ==
    ASSUME SharedIInv, RetainStep
    PROVE  \E v \in Variable, o \in Object, r \in ListRecord :
             /\ \/ doing = replacing(v, o, r) /\ doing' = dropping(v, o, r) /\ owner[v] # NoObject
                \/ doing = filling(v, o, r) /\ doing' = arriving(v, o, r) /\ owner[v] = NoObject
             /\ onlyPending({}) /\ Retain(o)
             /\ phase = "running" /\ phase' = phase /\ heap' = heap /\ fields' = fields
<1>1. /\ phase = "running" /\ doing # <<>> /\ Head(doing)[1] = "retain" /\ doing' = Tail(doing)
      /\ heap' = heap /\ fields' = fields
  BY DEF RetainStep, next
<1>2. Statement /\ Memory(owned \cup carriedBy(doing), heap, status)
  BY <1>1 DEF SharedIInv
<1>3. PICK v \in Variable, o \in Object, r \in ListRecord :
        \/ /\ doing = replacing(v, o, r)
           /\ owner[v] # NoObject /\ onlyPending({})
        \/ /\ doing = filling(v, o, r)
           /\ owner[v] = NoObject /\ onlyPending({})
  <2>1. \A v \in Variable : doing # leaving(v)
    BY <1>1, FirstSteps
  <2>2. PICK v \in Variable, o \in Object, r \in ListRecord : Storing(v, o, r)
    BY <1>1, <1>2, <2>1 DEF Statement
  <2>3. /\ doing # dropping(v, o, r)
        /\ doing # arriving(v, o, r)
    BY <1>1, FirstSteps
  <2> QED
    BY <2>2, <2>3 DEF Storing
<1>4. Head(doing) = <<"retain", o>> /\ carriedBy(doing) = {held(o, r)}
  BY <1>3, Steps, Carried
<1>5. Head(doing)[2] = o
  BY <1>4, StepFields
<1>6. status[o] = "live"
  <2>1. held(o, r) \in owned \cup carriedBy(doing) /\ held(o, r).counter = o
    BY <1>4 DEF held
  <2> QED
    BY <1>2, <2>1 DEF Memory
<1>7. Retain(o) /\ phase' = phase
  BY <1>5, <1>6 DEF RetainStep
<1>8. \/ doing = replacing(v, o, r) /\ doing' = dropping(v, o, r) /\ owner[v] # NoObject
      \/ doing = filling(v, o, r) /\ doing' = arriving(v, o, r) /\ owner[v] = NoObject
  BY <1>1, <1>3, Steps
<1> QED
  BY <1>1, <1>3, <1>7, <1>8

LEMMA RetainPreserves ==
    ASSUME SharedIInv, RetainStep
    PROVE  SharedIInv' /\ [Next]_vars
<1>1. PICK v \in Variable, o \in Object, r \in ListRecord :
        /\ \/ doing = replacing(v, o, r) /\ doing' = dropping(v, o, r) /\ owner[v] # NoObject
           \/ doing = filling(v, o, r) /\ doing' = arriving(v, o, r) /\ owner[v] = NoObject
        /\ onlyPending({}) /\ Retain(o)
        /\ phase = "running" /\ phase' = phase /\ heap' = heap /\ fields' = fields
  BY Retaining
<1>2. /\ Memory(owned \cup carriedBy(doing), heap, status) /\ IInv
      /\ fields \in [Variable -> ListRecord] /\ heap \in Seq(Block)
  BY <1>1 DEF SharedIInv
<1>3. owner' = owner /\ status' = status /\ pending' = [pending EXCEPT ![o] = @ + 1]
  BY <1>1 DEF Retain
<1>4. onlyPending({o})'
  <2>1. pending = [q \in Object |-> 0]
    BY <1>1 DEF onlyPending
  <2> QED
    BY <1>3, <2>1 DEF onlyPending
<1>5. Storing(v, o, r)'
  BY <1>1, <1>3, <1>4 DEF Storing
<1>6. carriedBy(doing) = {held(o, r)} /\ carriedBy(doing') = {held(o, r)}
  BY <1>1, Carried
<1>7. owned' = owned /\ Statement'
  BY <1>1, <1>3, <1>5 DEF owned, Statement
<1>8. Memory(owned' \cup carriedBy(doing'), heap', status')
  BY <1>1, <1>2, <1>3, <1>6, <1>7
<1>9. Next
  BY <1>1 DEF Next
<1>10. IInv'
  BY <1>2, <1>9, NextIInv
<1> QED
  BY <1>1, <1>2, <1>7, <1>8, <1>9, <1>10 DEF SharedIInv

\* It is stored last.
LEMMA Arriving ==
    ASSUME SharedIInv, StoreStep
    PROVE  \E v \in Variable, o \in Object, r \in ListRecord :
             /\ doing = arriving(v, o, r) /\ doing' = <<>>
             /\ owner[v] = NoObject /\ onlyPending({o}) /\ Store(v, o)
             /\ fields' = [fields EXCEPT ![v] = r]
             /\ phase = "running" /\ phase' = phase /\ heap' = heap
<1>1. /\ phase = "running" /\ doing # <<>> /\ Head(doing)[1] = "store" /\ doing' = Tail(doing)
      /\ heap' = heap /\ phase' = phase
  BY DEF StoreStep, next
<1>2. PICK v \in Variable, o \in Object, r \in ListRecord :
        doing = arriving(v, o, r) /\ owner[v] = NoObject /\ onlyPending({o})
  <2>1. \A v \in Variable : doing # leaving(v)
    BY <1>1, FirstSteps
  <2>2. PICK v \in Variable, o \in Object, r \in ListRecord : Storing(v, o, r)
    BY <1>1, <2>1 DEF SharedIInv, Statement
  <2>3. /\ doing # replacing(v, o, r)
        /\ doing # filling(v, o, r)
        /\ doing # dropping(v, o, r)
    BY <1>1, FirstSteps
  <2> QED
    BY <2>2, <2>3 DEF Storing
<1>3. Head(doing) = <<"store", v, o, r>> /\ doing' = <<>>
  BY <1>1, <1>2, Steps
<1>4. Head(doing)[2] = v /\ Head(doing)[3] = o /\ Head(doing)[4] = r
  BY <1>3, StepFields
<1>5. Store(v, o) /\ fields' = [fields EXCEPT ![v] = r]
  BY <1>4 DEF StoreStep
<1> QED
  BY <1>1, <1>2, <1>3, <1>5

LEMMA StorePreserves ==
    ASSUME SharedIInv, StoreStep
    PROVE  SharedIInv' /\ [Next]_vars
<1>1. PICK v \in Variable, o \in Object, r \in ListRecord :
        /\ doing = arriving(v, o, r) /\ doing' = <<>>
        /\ owner[v] = NoObject /\ onlyPending({o}) /\ Store(v, o)
        /\ fields' = [fields EXCEPT ![v] = r]
        /\ phase = "running" /\ phase' = phase /\ heap' = heap
  BY Arriving
<1>2. /\ Memory(owned \cup carriedBy(doing), heap, status) /\ IInv /\ TypeOK
      /\ fields \in [Variable -> ListRecord] /\ heap \in Seq(Block)
  BY <1>1 DEF SharedIInv, IInv
<1>3. carriedBy(doing) = {held(o, r)}
  BY <1>1, Carried
<1>4. /\ owner' = [owner EXCEPT ![v] = o] /\ status' = status
      /\ pending' = [q \in Object |-> pending[q] + (IF owner[v] = q THEN 1 ELSE 0)
                                                - (IF q = o THEN 1 ELSE 0)]
  BY <1>1 DEF Store
<1>5. onlyPending({})'
  <2>1. \A q \in Object : owner[v] # q /\ pending[q] = (IF q = o THEN 1 ELSE 0)
    BY <1>1, NoObjectIsNone DEF onlyPending
  <2>2. \A q \in Object : pending'[q] = 0
    BY <1>4, <2>1
  <2> QED
    BY <1>4, <2>2 DEF onlyPending
<1>6. Statement'
  BY <1>1, <1>5 DEF Statement
<1>7. owned' = owned \cup {held(o, r)}
  <2>1. owner'[v] = o /\ fields'[v] = r /\ o # NoObject
    BY <1>1, <1>2, <1>4, NoObjectIsNone DEF TypeOK
  <2>2. \A w \in Variable : w # v => owner'[w] = owner[w] /\ fields'[w] = fields[w]
    BY <1>1, <1>2, <1>4 DEF TypeOK
  <2>3. ASSUME NEW x \in owned' PROVE x \in owned \cup {held(o, r)}
    <3>1. PICK w \in Variable : owner'[w] # NoObject /\ x = held(owner'[w], fields'[w])
      BY <2>3 DEF owned
    <3> QED
      BY <2>1, <2>2, <3>1 DEF owned
  <2>4. ASSUME NEW x \in owned PROVE x \in owned'
    <3>1. PICK w \in Variable : owner[w] # NoObject /\ x = held(owner[w], fields[w])
      BY <2>4 DEF owned
    <3>2. w # v
      BY <1>1, <3>1
    <3> QED
      BY <2>2, <3>1, <3>2 DEF owned
  <2>5. held(o, r) \in owned'
    BY <2>1 DEF owned
  <2> QED
    BY <2>3, <2>4, <2>5
<1>8. owned' \cup carriedBy(doing') = owned \cup carriedBy(doing)
  <2>1. carriedBy(doing') = {}
    BY <1>1, Carried
  <2> QED
    BY <1>3, <1>7, <2>1
<1>9. Next
  BY <1>1 DEF Next
<1>10. IInv'
  BY <1>2, <1>9, NextIInv
<1>11. Memory(owned' \cup carriedBy(doing'), heap', status')
  BY <1>1, <1>2, <1>4, <1>8
<1>12. fields' \in [Variable -> ListRecord]
  BY <1>1, <1>2
<1> QED
  BY <1>1, <1>2, <1>6, <1>9, <1>10, <1>11, <1>12 DEF SharedIInv

\* A variable's counter is 1 if it is the last holder; else another variable holds it, or the reference
\* on its way is to it.
LEMMA LastHolder ==
    ASSUME IInv, NEW v \in Variable, owner[v] # NoObject
    PROVE  /\ owner[v] \in Object
           /\ count[owner[v]] = 1 =>
                /\ \A w \in Variable : owner[w] = owner[v] => w = v
                /\ pending[owner[v]] = 0
           /\ count[owner[v]] # 1 =>
                \/ \E w \in Variable : w # v /\ owner[w] = owner[v]
                \/ pending[owner[v]] # 0
<1> DEFINE o == owner[v]
           S == Owners(o)
<1>1. o \in Object /\ count[o] \in Nat /\ count[o] > 0 /\ pending[o] \in Nat
  BY OwnedIsCounted DEF IInv, TypeOK
<1>2. IsFiniteSet(S) /\ Cardinality(S) \in Nat
  BY HoldingFinite, OwnersIsHolding
<1>3. count[o] = Cardinality(S) + pending[o]
  BY <1>1 DEF IInv, CountIsExact
<1>4. v \in S /\ \A w \in Variable : w \in S <=> owner[w] = o
  BY DEF Owners
<1>5. S # {} /\ S \subseteq Variable
  BY <1>4 DEF Owners
<1> HIDE DEF S, o
<1>6. Cardinality(S) > 0
  BY <1>2, <1>5, FS_EmptySet
<1>7. CASE count[o] = 1
  <2>1. Cardinality(S) = 1 /\ pending[o] = 0
    BY <1>1, <1>2, <1>3, <1>6, <1>7
  <2>2. PICK u : S = {u}
    BY <1>2, <2>1, FS_Singleton
  <2> QED
    BY <1>1, <1>4, <1>7, <2>1, <2>2 DEF o
<1>8. CASE count[o] # 1
  <2>1. CASE S = {v}
    <3>1. Cardinality(S) = 1
      BY <2>1, FS_Singleton
    <3>2. pending[o] # 0
      BY <1>1, <1>2, <1>3, <1>8, <3>1
    <3> QED
      BY <1>1, <1>8, <3>2 DEF o
  <2>2. CASE S # {v}
    <3>1. \E w \in S : w # v
      BY <1>4, <2>2
    <3> QED
      BY <1>1, <1>4, <1>5, <1>8, <3>1 DEF o
  <2> QED
    BY <2>1, <2>2
<1> QED
  BY <1>7, <1>8 DEF o

\* Before, what the variable owned is released, and freed with the last holder.
LEMMA Releasing ==
    ASSUME SharedIInv, ReleaseStep
    PROVE  \E v \in Variable :
             /\ owner[v] # NoObject /\ Release(v)
             /\ \/ doing = leaving(v) /\ doing' = <<>> /\ onlyPending({})
                \/ \E o \in Object, r \in ListRecord :
                     doing = dropping(v, o, r) /\ doing' = arriving(v, o, r) /\ onlyPending({o})
             /\ isLive(heap, fields[v].ptr)
             /\ fields' = [fields EXCEPT ![v] = NoList]
             /\ heap' = (IF count[owner[v]] = 1 THEN [heap EXCEPT ![fields[v].ptr] = freed] ELSE heap)
             /\ phase = "running" /\ phase' = phase
<1>1. /\ phase = "running" /\ doing # <<>> /\ Head(doing)[1] = "release" /\ doing' = Tail(doing)
  BY DEF ReleaseStep, next
<1>2. Statement /\ Memory(owned \cup carriedBy(doing), heap, status)
  BY <1>1 DEF SharedIInv
<1>3. PICK v \in Variable :
        /\ owner[v] # NoObject
        /\ \/ doing = leaving(v) /\ onlyPending({})
           \/ \E o \in Object, r \in ListRecord : doing = dropping(v, o, r) /\ onlyPending({o})
  <2>1. CASE \E v \in Variable : doing = leaving(v) /\ owner[v] # NoObject /\ onlyPending({})
    BY <2>1
  <2>2. CASE \E v \in Variable, o \in Object, r \in ListRecord : Storing(v, o, r)
    <3>1. PICK v \in Variable, o \in Object, r \in ListRecord : Storing(v, o, r)
      BY <2>2
    <3>2. /\ doing # replacing(v, o, r)
          /\ doing # filling(v, o, r)
          /\ doing # arriving(v, o, r)
      BY <1>1, FirstSteps
    <3> QED
      BY <3>1, <3>2 DEF Storing
  <2> QED
    BY <1>1, <1>2, <2>1, <2>2 DEF Statement
<1>4. /\ Head(doing)[2] = v
      /\ \/ doing = leaving(v) /\ doing' = <<>> /\ onlyPending({})
         \/ \E o \in Object, r \in ListRecord :
              doing = dropping(v, o, r) /\ doing' = arriving(v, o, r) /\ onlyPending({o})
  <2>1. /\ Head(leaving(v)) = <<"release", v>> /\ Tail(leaving(v)) = <<>>
        /\ \A o, r : Head(dropping(v, o, r)) = <<"release", v>> /\ Tail(dropping(v, o, r)) = arriving(v, o, r)
    BY Steps
  <2>2. Head(doing) = <<"release", v>>
    BY <1>3, <2>1
  <2>3. Head(doing)[2] = v
    BY <2>2
  <2> QED
    BY <1>1, <1>3, <2>1, <2>3
<1>5. status[owner[v]] = "live" /\ isLive(heap, fields[v].ptr)
  <2> DEFINE x == held(owner[v], fields[v])
  <2>1. x \in owned \cup carriedBy(doing) /\ x.counter = owner[v] /\ x.list = fields[v]
    BY <1>3 DEF owned, held
  <2> QED
    BY <1>2, <2>1 DEF Memory, Holds
<1>6. /\ Release(v) /\ fields' = [fields EXCEPT ![v] = NoList] /\ phase' = phase
      /\ heap' = (IF count[owner[v]] = 1 THEN [heap EXCEPT ![fields[v].ptr] = freed] ELSE heap)
  BY <1>4, <1>5 DEF ReleaseStep
<1> QED
  BY <1>1, <1>3, <1>4, <1>5, <1>6

LEMMA ReleasePreserves ==
    ASSUME SharedIInv, ReleaseStep
    PROVE  SharedIInv' /\ [Next]_vars
<1>1. PICK v \in Variable :
        /\ owner[v] # NoObject /\ Release(v)
        /\ \/ doing = leaving(v) /\ doing' = <<>> /\ onlyPending({})
           \/ \E o \in Object, r \in ListRecord :
                doing = dropping(v, o, r) /\ doing' = arriving(v, o, r) /\ onlyPending({o})
        /\ isLive(heap, fields[v].ptr)
        /\ fields' = [fields EXCEPT ![v] = NoList]
        /\ heap' = (IF count[owner[v]] = 1 THEN [heap EXCEPT ![fields[v].ptr] = freed] ELSE heap)
        /\ phase = "running" /\ phase' = phase
  BY Releasing
<1>2. /\ Memory(owned \cup carriedBy(doing), heap, status) /\ IInv /\ TypeOK
      /\ fields \in [Variable -> ListRecord] /\ heap \in Seq(Block)
  BY <1>1 DEF SharedIInv, IInv
<1> DEFINE q == owner[v]
           x == held(q, fields[v])
           p == fields[v].ptr
           frees == count[q] = 1
           carried == carriedBy(doing)
           shown == owned \cup carried
<1>3. x \in shown /\ x.counter = q /\ x.list = fields[v]
  BY <1>1 DEF owned, held
<1>4. /\ owner' = [owner EXCEPT ![v] = NoObject] /\ pending' = pending
      /\ status' = (IF frees THEN [status EXCEPT ![q] = "freed"] ELSE status)
  BY <1>1 DEF Release
<1>5. /\ owner'[v] = NoObject
      /\ \A w \in Variable : w # v => owner'[w] = owner[w] /\ fields'[w] = fields[w]
  BY <1>1, <1>2, <1>4 DEF TypeOK
<1>6. Statement' /\ carriedBy(doing') = carried
  <2> HIDE DEF q, x, p, frees, shown
  <2>1. CASE doing = leaving(v) /\ doing' = <<>> /\ onlyPending({})
    <3>1. onlyPending({})'
      BY <1>4, <2>1 DEF onlyPending
    <3> QED
      BY <2>1, <3>1, Carried DEF Statement
  <2>2. ASSUME NEW o \in Object, NEW r \in ListRecord,
               doing = dropping(v, o, r), doing' = arriving(v, o, r), onlyPending({o})
        PROVE  Statement' /\ carriedBy(doing') = carried
    <3>1. onlyPending({o})'
      BY <1>4, <2>2 DEF onlyPending
    <3>2. Storing(v, o, r)'
      BY <1>5, <2>2, <3>1 DEF Storing
    <3>3. Statement'
      BY <3>2 DEF Statement
    <3>4. carriedBy(doing') = {held(o, r)} /\ carriedBy(doing) = {held(o, r)}
      BY <2>2, Carried
    <3> QED
      BY <3>3, <3>4
  <2> QED
    BY <1>1, <2>1, <2>2
<1>7. carried = {} \/ \E o \in Object : pending = [b \in Object |-> IF b = o THEN 1 ELSE 0]
                                         /\ \E r \in ListRecord : carried = {held(o, r)}
  BY <1>1, Carried DEF onlyPending
<1>8. (carried = {} => \A b \in Object : pending[b] = 0) /\ q \in Object
  <2>1. ASSUME carried = {} PROVE onlyPending({})
    <3>1. \A o, r : carried # {held(o, r)}
      BY <2>1
    <3>2. \A o, r : carriedBy(dropping(v, o, r)) = {held(o, r)}
      BY Carried
    <3>3. \A o, r : doing # dropping(v, o, r)
      BY <2>1, <3>1, <3>2
    <3> QED
      BY <1>1, <3>3
  <2> QED
    BY <1>1, <1>2, <2>1 DEF onlyPending, TypeOK
<1>9. \A y \in carried : pending[y.counter] = 1
  BY <1>7 DEF held
<1>10. pending[q] # 0 => \E y \in carried : y.counter = q
  BY <1>7, <1>8 DEF held
<1>11. /\ \A y \in owned' : \E w \in Variable : w # v /\ owner[w] # NoObject /\ y = held(owner[w], fields[w])
       /\ \A w \in Variable : w # v /\ owner[w] # NoObject => held(owner[w], fields[w]) \in owned'
  BY <1>5 DEF owned
<1>12. /\ \A y \in owned : y = x \/ \E w \in Variable : w # v /\ owner[w] # NoObject /\ y = held(owner[w], fields[w])
       /\ \A w \in Variable : owner[w] # NoObject => held(owner[w], fields[w]) \in owned
  BY DEF owned
<1>13. \A y \in shown : y.counter = q => y = x
  BY <1>2, <1>3 DEF Memory
<1> HIDE DEF shown, carried
<1>14. Memory(owned' \cup carriedBy(doing'), heap', status')
  <2>1. CASE frees
    <3>1. /\ \A w \in Variable : owner[w] = q => w = v
          /\ pending[q] = 0
      BY <1>1, <1>2, <2>1, LastHolder
    <3>2. \A w, y : y = held(owner[w], fields[w]) => y.counter = owner[w]
      BY DEF held
    <3>3. x \notin owned' /\ x \notin carried
      BY <1>3, <1>9, <1>11, <3>1, <3>2
    <3>4. owned' \cup carried = shown \ {x}
      BY <1>11, <1>12, <3>3 DEF shown
    <3>5. status = [b \in Object |-> status[b]]
      BY <1>2 DEF TypeOK
    <3>6. Memory(shown, heap, status)
      BY <1>2 DEF shown, carried
    <3>7. Memory(shown \ {x}, [heap EXCEPT ![x.list.ptr] = freed], [status EXCEPT ![x.counter] = "freed"])
      BY <1>2, <1>3, <3>5, <3>6, MemoryFreed
    <3> QED
      BY <1>1, <1>3, <1>4, <1>6, <2>1, <3>4, <3>7
  <2>2. CASE ~frees
    <3>1. \/ \E w \in Variable : w # v /\ owner[w] = q
          \/ pending[q] # 0
      BY <1>1, <1>2, <2>2, LastHolder
    <3>2. x \in owned' \cup carried
      <4>1. CASE pending[q] # 0
        BY <1>10, <1>13, <4>1 DEF shown
      <4>2. CASE \E w \in Variable : w # v /\ owner[w] = q
        <5>1. PICK w \in Variable : w # v /\ owner[w] = q
          BY <4>2
        <5>2. held(owner[w], fields[w]) \in owned /\ held(owner[w], fields[w]) \in owned'
          BY <1>1, <1>11, <1>12, <5>1
        <5>3. held(owner[w], fields[w]).counter = q
          BY <5>1 DEF held
        <5> QED
          BY <1>13, <5>2, <5>3 DEF shown
      <4> QED
        BY <3>1, <4>1, <4>2
    <3>3. owned' \cup carried = shown
      BY <1>3, <1>11, <1>12, <3>2 DEF shown
    <3> QED
      BY <1>1, <1>2, <1>4, <1>6, <2>2, <3>3 DEF shown, carried
  <2> QED
    BY <2>1, <2>2
<1>15. Next
  BY <1>1 DEF Next
<1>16. IInv'
  BY <1>2, <1>15, NextIInv
<1>17. heap' \in Seq(Block)
  <2>1. freed \in Block /\ p \in DOMAIN heap
    BY <1>1 DEF freed, Block, isLive
  <2> QED
    BY <1>1, <1>2, <2>1
<1>18. fields' \in [Variable -> ListRecord]
  BY <1>1, <1>2 DEF NoList, record, ListRecord
<1> QED
  BY <1>1, <1>6, <1>14, <1>15, <1>16, <1>17, <1>18 DEF SharedIInv

------------------------------------------------------------------------------
LEMMA CallBegins ==
    ASSUME SharedIInv, ready, NEW v \in Variable, owner[v] # NoObject
    PROVE  /\ here(v) \in CallState /\ here(v).went = "running" /\ Holds(here(v).heap, here(v).list)
           /\ here(v).heap = heap /\ here(v).list = fields[v]
           /\ held(owner[v], fields[v]) \in owned
<1>1. /\ Memory(owned, heap, status) /\ fields \in [Variable -> ListRecord] /\ heap \in Seq(Block)
  BY BetweenStatements
<1>2. held(owner[v], fields[v]) \in owned /\ held(owner[v], fields[v]).list = fields[v]
  BY DEF owned, held
<1>3. Holds(heap, fields[v])
  BY <1>1, <1>2 DEF Memory
<1> QED
  BY <1>1, <1>2, <1>3 DEF here, CallState

\* A counter with one owner at most has no other.
LEMMA OnlyHolder ==
    ASSUME NEW v \in Variable, ~(Cardinality(Owners(owner[v])) > 1)
    PROVE  \A w \in Variable : owner[w] = owner[v] => w = v
<1> DEFINE S == Owners(owner[v])
<1>1. v \in S /\ \A w \in Variable : w \in S <=> owner[w] = owner[v]
  BY DEF Owners
<1>2. IsFiniteSet(S) /\ Cardinality(S) \in Nat
  BY HoldingFinite, OwnersIsHolding
<1>3. ~(Cardinality(S) > 1)
  OBVIOUS
<1> HIDE DEF S
<1>4. Cardinality(S) = 1
  BY <1>1, <1>2, <1>3, FS_EmptySet
<1>5. \E u : S = {u}
  BY <1>2, <1>4, FS_Singleton
<1> QED
  BY <1>1, <1>5

\* A method that leaves what a method may leave keeps the invariant: one that changes the list of a
\* variable which shares it ends the run, astray.
LEMMA CallPreserves ==
    ASSUME SharedIInv, NEW v \in Variable, NEW outcomes, called(v, outcomes),
           \A t \in outcomes : Allowed(here(v), t)
    PROVE  SharedIInv' /\ [Next]_vars
<1>1. ready /\ owner[v] # NoObject /\ UNCHANGED vars /\ doing' = doing
  BY DEF called
<1>2. PICK t \in outcomes :
        /\ heap' = t.heap
        /\ fields' = [fields EXCEPT ![v] = t.list]
        /\ phase' = IF t.went = "running" /\ t.list # fields[v] /\ Cardinality(Owners(owner[v])) > 1
                    THEN "strayed" ELSE t.went
  BY DEF called
<1>3. owner' = owner /\ pending' = pending /\ status' = status /\ count' = count
  BY <1>1 DEF vars
<1>4. /\ onlyPending({}) /\ Memory(owned, heap, status) /\ doing = <<>>
      /\ IInv /\ TypeOK /\ fields \in [Variable -> ListRecord] /\ heap \in Seq(Block)
  BY <1>1, BetweenStatements
<1> DEFINE x == held(owner[v], fields[v])
           r == t.list
<1>5. x \in owned /\ here(v).heap = heap /\ here(v).list = fields[v]
  BY <1>1, CallBegins
<1>6. /\ t \in CallState /\ (t.went = "running" => Holds(t.heap, r)) /\ (t.went = "wild" => r.capacity = 0)
      /\ Along(heap, fields[v].ptr, t.heap, r.ptr)
  BY <1>2, <1>5 DEF Allowed, Sound
<1>7. r \in ListRecord /\ t.heap \in Seq(Block)
  BY <1>6 DEF CallState
<1>8. fields'[v] = r /\ \A w \in Variable : w # v => fields'[w] = fields[w]
  BY <1>2, <1>4
<1>9. phase' = "wild" => roomless'
  <2>1. phase' = "wild" => r.capacity = 0
    BY <1>2, <1>6
  <2> QED
    BY <1>1, <1>3, <1>8, <2>1 DEF roomless
<1>10. ASSUME phase' = "running" PROVE Memory(owned', heap', status')
  <2>1. t.went = "running" /\ (r = fields[v] \/ ~(Cardinality(Owners(owner[v])) > 1))
    BY <1>2, <1>10
  <2>2. x.counter = owner[v] /\ x.list = fields[v]
    BY DEF held
  <2>3. Memory((owned \ {x}) \cup {held(owner[v], r)}, t.heap, status)
    BY <1>4, <1>5, <1>6, <1>7, <2>1, <2>2, MemoryChanged
  <2>4. owned' = (owned \ {x}) \cup {held(owner[v], r)}
    <3>1. CASE r = fields[v]
      <4>1. fields' = fields
        BY <1>2, <1>4, <3>1
      <4>2. owned' = owned
        BY <1>3, <4>1 DEF owned
      <4> QED
        BY <1>5, <3>1, <4>2
    <3>2. CASE r # fields[v]
      <4>1. \A w \in Variable : owner[w] = owner[v] => w = v
        BY <1>4, <2>1, <3>2, OnlyHolder
      <4>2. \A w : held(owner[w], fields[w]).counter = owner[w]
        BY DEF held
      <4>3. ASSUME NEW y \in owned' PROVE y \in (owned \ {x}) \cup {held(owner[v], r)}
        <5>1. PICK w \in Variable : owner[w] # NoObject /\ y = held(owner[w], fields'[w])
          BY <1>3, <4>3 DEF owned
        <5>2. CASE w = v
          BY <1>8, <5>1, <5>2
        <5>3. CASE w # v
          <6>1. y = held(owner[w], fields[w]) /\ y \in owned
            BY <1>8, <5>1, <5>3 DEF owned
          <6>2. y # x
            BY <4>1, <4>2, <5>3, <6>1
          <6> QED
            BY <6>1, <6>2
        <5> QED
          BY <5>2, <5>3
      <4>4. ASSUME NEW y \in owned, y # x PROVE y \in owned'
        <5>1. PICK w \in Variable : owner[w] # NoObject /\ y = held(owner[w], fields[w])
          BY <4>4 DEF owned
        <5>2. w # v
          BY <4>4, <5>1
        <5> QED
          BY <1>3, <1>8, <5>1, <5>2 DEF owned
      <4>5. held(owner[v], r) \in owned'
        BY <1>1, <1>3, <1>8 DEF owned
      <4> QED
        BY <4>3, <4>4, <4>5
    <3> QED
      BY <3>1, <3>2
  <2> QED
    BY <1>2, <1>3, <2>3, <2>4
<1>11. carriedBy(doing') = {} /\ Statement'
  <2>1. doing' = <<>> /\ onlyPending({})'
    BY <1>1, <1>3, <1>4 DEF onlyPending
  <2> QED
    BY <2>1, Carried DEF Statement
<1>12. phase' = "running" => Memory(owned' \cup carriedBy(doing'), heap', status')
  <2>1. owned' \cup carriedBy(doing') = owned'
    BY <1>11
  <2> QED
    BY <1>10, <2>1
<1>13. IInv'
  BY <1>1, <1>4, NextIInv
<1>14. fields' \in [Variable -> ListRecord] /\ heap' \in Seq(Block)
  BY <1>2, <1>4, <1>7
<1> QED
  BY <1>1, <1>9, <1>11, <1>12, <1>13, <1>14 DEF SharedIInv

LEMMA MethodPreserves ==
    ASSUME SharedIInv, NEW v \in Variable,
           AppendItem(v) \/ AppendItems(v) \/ SetItem(v) \/ Pop(v) \/ Clear(v)
    PROVE  SharedIInv' /\ [Next]_vars
<1> DEFINE s == here(v)
<1>1. ready /\ owner[v] # NoObject
  BY DEF AppendItem, AppendItems, SetItem, Pop, Clear, called
<1>2. /\ s \in CallState /\ s.went = "running" /\ Holds(s.heap, s.list)
      /\ s.list = fields[v]
  BY <1>1, CallBegins
<1>3. CASE AppendItem(v)
  <2>1. PICK x \in Value : called(v, append(s, x))
    BY <1>3 DEF AppendItem
  <2> HIDE DEF s
  <2>2. \A t \in append(s, x) : Allowed(s, t)
    BY <1>2, AppendAllowed
  <2> QED
    BY <2>1, <2>2, CallPreserves DEF s
<1>4. CASE AppendItems(v)
  <2>1. PICK a \in Arrays : called(v, appendArray(s, a))
    BY <1>4 DEF AppendItems
  <2> HIDE DEF s
  <2>2. \A t \in appendArray(s, a) : Allowed(s, t)
    BY <1>2, AppendArrayAllowed
  <2> QED
    BY <2>1, <2>2, CallPreserves DEF s
<1>5. CASE SetItem(v)
  <2>1. PICK x \in Value, index \in 0 .. fields[v].length : called(v, {setItem(s, index, x)})
    BY <1>5 DEF SetItem
  <2>2. index \in Nat
    OBVIOUS
  <2> HIDE DEF s
  <2>3. Allowed(s, setItem(s, index, x))
    <3>1. /\ isLive(s.heap, s.list.ptr) /\ s.list.capacity = Len(s.heap[s.list.ptr].slots)
          /\ s.list.length <= s.list.capacity
      BY <1>2 DEF Holds
    <3> DEFINE t == setItem(s, index, x)
    <3>2. t = setItem(s, index, x)
      OBVIOUS
    <3> HIDE DEF t
    <3>3. Allowed(s, t)
      BY <1>2, <2>2, <3>1, <3>2, SetItemAllowed
    <3> QED
      BY <3>3 DEF t
  <2>4. \A t \in {setItem(s, index, x)} : Allowed(s, t)
    BY <2>3
  <2> QED
    BY <2>1, <2>4, CallPreserves DEF s
<1>6. CASE Pop(v) \/ Clear(v)
  <2>1. called(v, {pop(s)}) \/ called(v, {clear(s)})
    BY <1>6 DEF Pop, Clear
  <2> HIDE DEF s
  <2>2. /\ \A t \in {pop(s)} : Allowed(s, t)
        /\ \A t \in {clear(s)} : Allowed(s, t)
    BY <1>2, PopAllowed
  <2> QED
    BY <2>1, <2>2, CallPreserves DEF s
<1> QED
  BY <1>3, <1>4, <1>5, <1>6

------------------------------------------------------------------------------
LEMMA SharedInitIInv == SharedInit => SharedIInv
<1> SUFFICES ASSUME SharedInit PROVE SharedIInv
  OBVIOUS
<1>1. /\ owner = [v \in Variable |-> NoObject] /\ Init /\ fields = [v \in Variable |-> NoList]
      /\ heap = <<>> /\ doing = <<>> /\ phase = "running"
  BY DEF SharedInit
<1>2. onlyPending({})
  BY <1>1 DEF Init, onlyPending
<1>3. owned = {} /\ carriedBy(doing) = {}
  BY <1>1, Carried DEF owned
<1>4. owned \cup carriedBy(doing) = {} /\ heap \in Seq(Block) /\ DOMAIN heap = {}
  BY <1>1, <1>3
<1>5. Memory(owned \cup carriedBy(doing), heap, status)
  BY <1>4 DEF Memory
<1>6. NoList \in ListRecord
  BY DEF NoList, record, ListRecord
<1> QED
  BY <1>1, <1>2, <1>4, <1>5, <1>6, InitIInv DEF SharedIInv, Statement

LEMMA SharedNextIInv ==
    ASSUME SharedIInv, [SharedNext]_<<vars, listVars>>
    PROVE  SharedIInv' /\ [Next]_vars
<1>1. CASE SharedNext
  <2>1. CASE RetainStep \/ ReleaseStep \/ StoreStep
    BY <2>1, RetainPreserves, ReleasePreserves, StorePreserves
  <2>2. ASSUME NEW v \in Variable, List(v) \/ FromPreAllocated(v) \/ Copy(v) \/ Clone(v) \/ Leave(v)
        PROVE  SharedIInv' /\ [Next]_vars
    BY <2>2, ListPreserves, CopyPreserves, ClonePreserves, LeavePreserves
  <2>3. ASSUME NEW v \in Variable, AppendItem(v) \/ AppendItems(v) \/ SetItem(v) \/ Pop(v) \/ Clear(v)
        PROVE  SharedIInv' /\ [Next]_vars
    BY <2>3, MethodPreserves
  <2> QED
    BY <1>1, <2>1, <2>2, <2>3 DEF SharedNext
<1>2. CASE UNCHANGED <<vars, listVars>>
  <2>1. /\ UNCHANGED vars /\ owner' = owner /\ pending' = pending /\ status' = status
        /\ fields' = fields /\ heap' = heap /\ doing' = doing /\ phase' = phase
    BY <1>2 DEF vars, listVars
  <2>2. owned' = owned /\ roomless' = roomless /\ Statement' = Statement
    BY <2>1 DEF owned, roomless, Statement, Storing, onlyPending
  <2>3. IInv'
    BY <2>1, NextIInv DEF SharedIInv
  <2> QED
    BY <2>1, <2>2, <2>3 DEF SharedIInv
<1> QED
  BY <1>1, <1>2

(***************************************************************************)
(* The invariant always holds: what the variables and the statement under  *)
(* way hold is of live counters and live blocks, one counter to a block.   *)
(***************************************************************************)
THEOREM SharedInductive == SharedSpec => []SharedIInv
  BY SharedInitIInv, SharedNextIInv, PTL DEF SharedSpec

(***************************************************************************)
(* Every step of lists that share their blocks is a step of the reference  *)
(* counting discipline, or changes no counter: copies, clones, scopes and  *)
(* assignments of lists (List.shtk:74, ReferenceCounter.shtk) implement    *)
(* Ownership.                                                              *)
(***************************************************************************)
THEOREM KeepsToDiscipline == SharedSpec => Spec
<1>1. SharedInit => Init
  BY DEF SharedInit
<1>2. SharedIInv /\ [SharedNext]_<<vars, listVars>> => [Next]_vars
  BY SharedNextIInv
<1> QED
  BY <1>1, <1>2, SharedInductive, PTL DEF SharedSpec, Spec

(***************************************************************************)
(* So the counter of a list's block is the number of variables that hold   *)
(* the list, and none of them outlives its counter.                        *)
(***************************************************************************)
THEOREM ListsAreCounted == SharedSpec => []CountIsExact /\ []OwnedIsLive
  BY KeepsToDiscipline, CountsReferences, NoUseAfterFree, PTL

(***************************************************************************)
(* SharedSafely: while no list strays and none is left with no room at     *)
(* all, no method of List.shtk leaves its block, no block is freed twice,  *)
(* every variable's block is live and every live block is some variable's, *)
(* with the capacity its list knows of.                                    *)
(***************************************************************************)
THEOREM SharedlySafe == SharedSpec => []SharedSafely
<1>1. SharedIInv => SharedSafely
  <2> SUFFICES ASSUME SharedIInv, ~roomless PROVE
        /\ phase # "wild"
        /\ doing = <<>> /\ phase = "running" =>
             /\ CopiesStayLive
             /\ \A p \in DOMAIN heap : heap[p].live =>
                  \E v \in Variable : owner[v] # NoObject /\ fields[v].ptr = p /\ Len(heap[p].slots) = fields[v].capacity
    BY DEF SharedSafely
  <2>1. phase # "wild"
    BY DEF SharedIInv
  <2>2. ASSUME ready
        PROVE  /\ CopiesStayLive
               /\ \A p \in DOMAIN heap : heap[p].live =>
                    \E v \in Variable : owner[v] # NoObject /\ fields[v].ptr = p /\ Len(heap[p].slots) = fields[v].capacity
    <3>1. Memory(owned, heap, status)
      BY <2>2, BetweenStatements
    <3>2. \A o, r : held(o, r).list = r
      BY DEF held
    <3>3. ASSUME NEW v \in Variable, owner[v] # NoObject PROVE isLive(heap, fields[v].ptr)
      <4>1. held(owner[v], fields[v]) \in owned
        BY <3>3 DEF owned
      <4> QED
        BY <3>1, <3>2, <4>1 DEF Memory, Holds
    <3>4. ASSUME NEW p \in DOMAIN heap, heap[p].live
          PROVE  \E v \in Variable : owner[v] # NoObject /\ fields[v].ptr = p /\ Len(heap[p].slots) = fields[v].capacity
      <4>1. PICK x \in owned : x.list.ptr = p
        BY <3>1, <3>4 DEF Memory
      <4>2. PICK v \in Variable : owner[v] # NoObject /\ x = held(owner[v], fields[v])
        BY DEF owned
      <4>3. x.list = fields[v] /\ Holds(heap, x.list)
        BY <3>1, <3>2, <4>2 DEF Memory
      <4> QED
        BY <4>1, <4>2, <4>3 DEF Holds
    <3> QED
      BY <3>3, <3>4 DEF CopiesStayLive
  <2> QED
    BY <2>1, <2>2 DEF ready
<1> QED
  BY <1>1, SharedInductive, PTL

------------------------------------------------------------------------------
(***************************************************************************)
(* Lists are copied by reference: what a statement or a method of List     *)
(* does to what the variables show is what it would do to names of one     *)
(* list.                                                                   *)
(*                                                                         *)
(* First what each method does to the elements of the list it is called    *)
(* on; then that the variables which do not share that list show what they *)
(* did, because their blocks are others (Memory); and that the steps which *)
(* a statement is made of show nothing in between.                         *)
(***************************************************************************)
slotsOf(s) == s.heap[s.list.ptr].slots
textOf(s)  == contents(s.heap, s.list)

\* A call that can go on: what its list shows.
Standing(s) == s \in CallState /\ s.went = "running" /\ Holds(s.heap, s.list)

LEMMA Stands ==
    ASSUME NEW s, Standing(s)
    PROVE  /\ s.heap \in Seq(Block) /\ s.list \in ListRecord /\ isLive(s.heap, s.list.ptr)
           /\ textOf(s) \in Seq(Element) /\ Len(textOf(s)) = s.list.length
           /\ slotsOf(s) \in Seq(Element) /\ s.list.capacity = Len(slotsOf(s))
           /\ s.list.length \in Nat /\ s.list.capacity \in Nat /\ s.list.length <= s.list.capacity
           /\ \A k \in 1 .. s.list.length : textOf(s)[k] = slotsOf(s)[k]
<1>1. s.heap \in Seq(Block) /\ s.list \in ListRecord
  BY DEF Standing, CallState
<1>2. /\ isLive(s.heap, s.list.ptr) /\ s.list.capacity = Len(slotsOf(s)) /\ s.list.length <= s.list.capacity
  BY DEF Standing, Holds, slotsOf
<1>3. s.list.length \in Nat /\ s.list.capacity \in Nat
  BY <1>1 DEF ListRecord
<1>4. /\ textOf(s) \in Seq(Element) /\ Len(textOf(s)) = s.list.length /\ slotsOf(s) \in Seq(Element)
      /\ \A k \in 1 .. s.list.length : textOf(s)[k] = slotsOf(s)[k]
  BY <1>1, Contents DEF Standing, textOf, slotsOf
<1> QED
  BY <1>1, <1>2, <1>3, <1>4

\* A list shows the elements that its first slots hold.
LEMMA Reads ==
    ASSUME NEW s, Standing(s), NEW x \in Seq(Element), Len(x) = s.list.length,
           \A k \in 1 .. s.list.length : slotsOf(s)[k] = x[k]
    PROVE  textOf(s) = x
<1> DEFINE c == textOf(s)
<1>1. c \in Seq(Element) /\ Len(c) = Len(x) /\ \A k \in 1 .. Len(c) : c[k] = x[k]
  BY Stands
<1> HIDE DEF c
<1>2. c = x
  BY <1>1, SameSequence
<1> QED
  BY <1>2 DEF c

(***************************************************************************)
(* realloc keeps what the list shows, wherever it puts the block.          *)
(***************************************************************************)
LEMMA ExpandKeeps ==
    ASSUME NEW s, Standing(s), NEW n \in Nat, s.list.length <= n,
           NEW t \in expand(s, n), t.went = "running"
    PROVE  \A k \in 1 .. s.list.length : slotsOf(t)[k] = slotsOf(s)[k]
<1> DEFINE h == s.heap
           p == s.list.ptr
           old == slotsOf(s)
           grown == block(ofSize(old, n))
           at(a) == [s.list EXCEPT !.ptr = a, !.capacity = n]
           inPlace == [h EXCEPT ![p] = grown]
           away == Append([h EXCEPT ![p] = freed], grown)
<1>1. /\ h \in Seq(Block) /\ s.list \in ListRecord /\ isLive(h, p) /\ p \in DOMAIN h /\ s \in CallState
      /\ old \in Seq(Element) /\ Len(old) = s.list.capacity /\ s.list.length <= s.list.capacity
      /\ s.list.length \in Nat /\ s.list.capacity \in Nat
  BY Stands DEF Standing, isLive
<1>2. grown = block(ofSize(h[p].slots, n))
  BY DEF slotsOf
<1>3. \/ t = ended(s, "panic")
      \/ t = [s EXCEPT !.heap = inPlace]
      \/ t = [s EXCEPT !.heap = inPlace, !.list = at(p)]
      \/ t = [s EXCEPT !.heap = away, !.list = at(Len(h) + 1)]
  BY <1>1, <1>2 DEF expand
<1>4. \A k \in 1 .. s.list.length : ofSize(old, n)[k] = old[k]
  <2> HIDE DEF old
  <2>1. ASSUME NEW k \in 1 .. s.list.length PROVE k \in 1 .. n /\ k <= Len(old)
    BY <1>1
  <2> QED
    BY <2>1 DEF ofSize
<1>5. grown \in Block /\ grown.live /\ grown.slots = ofSize(old, n)
  BY <1>1, OfSize DEF block, Block
<1>6. inPlace[p] = grown
  BY <1>1
<1>7. away[Len(h) + 1] = grown
  BY <1>1, <1>5, MovedAway
<1>8. ASSUME NEW a PROVE at(a).ptr = a
  BY <1>1 DEF ListRecord
<1> HIDE DEF grown, at, inPlace, away
<1>9. t.heap[t.list.ptr] = grown
  <2>1. t # ended(s, "panic")
    BY <1>1 DEF ended, CallState
  <2>2. CASE t = [s EXCEPT !.heap = inPlace]
    BY <1>1, <1>6, <2>2 DEF CallState
  <2>3. CASE t = [s EXCEPT !.heap = inPlace, !.list = at(p)]
    <3>1. t.heap = inPlace /\ t.list = at(p)
      BY <1>1, <2>3 DEF CallState
    <3> QED
      BY <1>6, <1>8, <3>1
  <2>4. CASE t = [s EXCEPT !.heap = away, !.list = at(Len(h) + 1)]
    <3>1. t.heap = away /\ t.list = at(Len(h) + 1)
      BY <1>1, <2>4 DEF CallState
    <3> QED
      BY <1>7, <1>8, <3>1
  <2> QED
    BY <1>3, <2>1, <2>2, <2>3, <2>4
<1> QED
  BY <1>4, <1>5, <1>9 DEF slotsOf

(***************************************************************************)
(* memcpy writes the elements it is given and no other slot.               *)
(***************************************************************************)
LEMMA MemcpyWrites ==
    ASSUME NEW s \in CallState, s.went = "running", isLive(s.heap, s.list.ptr),
           NEW new \in Seq(Element), NEW offset \in Nat,
           memcpyOffset(s, new, offset).went = "running"
    PROVE  \A k \in 1 .. Len(slotsOf(s)) :
             slotsOf(memcpyOffset(s, new, offset))[k] =
               IF k \in offset + 1 .. offset + Len(new) THEN new[k - offset] ELSE slotsOf(s)[k]
<1> PICK t : t = memcpyOffset(s, new, offset)
  OBVIOUS
<1> DEFINE h == s.heap
           p == s.list.ptr
           b == h[p]
           slots == [k \in DOMAIN b.slots |->
                       IF k \in offset + 1 .. offset + Len(new) THEN new[k - offset] ELSE b.slots[k]]
           c == [b EXCEPT !.slots = slots]
           g == [h EXCEPT ![p] = c]
<1>1. h \in Seq(Block) /\ p \in DOMAIN h
  BY DEF CallState, isLive
<1>2. b \in Block
  BY <1>1
<1>3. b.slots \in Seq(Element)
  BY <1>2 DEF Block
<1>4. t = [s EXCEPT !.heap[p].slots = slots]
  <2>1. t # ended(s, "wild")
    BY DEF ended, CallState
  <2> QED
    BY <1>1, <2>1 DEF memcpyOffset
<1>5. DOMAIN b.slots = 1 .. Len(b.slots)
  BY <1>3
<1> HIDE DEF slots
<1>6. c.slots = slots
  BY <1>2 DEF Block
<1>7. t = [s EXCEPT !.heap = g]
  BY <1>4
<1>8. g[p] = c
  BY <1>1
<1> HIDE DEF c, g
<1>9. t.heap = g /\ t.list = s.list
  BY <1>7 DEF CallState
<1>10. slotsOf(t) = slots /\ slotsOf(s) = b.slots
  BY <1>6, <1>8, <1>9 DEF slotsOf
<1> QED
  BY <1>5, <1>10 DEF slots

LEMMA IncrementKeeps ==
    ASSUME NEW s, Standing(s), NEW u \in _incrementLength(s), u.went = "running"
    PROVE  /\ u.list.length = s.list.length + 1
           /\ \A k \in 1 .. s.list.length : slotsOf(u)[k] = slotsOf(s)[k]
<1>1. s \in CallState /\ s.went = "running" /\ Holds(s.heap, s.list)
  BY DEF Standing
<1>2. /\ s.list.length \in Nat /\ s.list.capacity \in Nat /\ s.list.length <= s.list.capacity
  BY Stands
<1>3. PICK t : /\ u = withLength(t, t.list.length + 1)
               /\ s.list.length = s.list.capacity => t \in expand(s, s.list.length * 2)
               /\ s.list.length # s.list.capacity => t = s
  BY DEF _incrementLength
<1>4. /\ t \in CallState /\ t.list.length = s.list.length
      /\ t.went = "running" => \A k \in 1 .. s.list.length : slotsOf(t)[k] = slotsOf(s)[k]
  <2>1. CASE s.list.length = s.list.capacity
    <3>1. \A c \in Nat : c * 2 \in Nat /\ (c * 2 = 0 => c = 0) /\ c <= c * 2
      OBVIOUS
    <3> DEFINE n == s.list.length * 2
    <3>2. n \in Nat /\ (n = 0 => s.list.capacity = 0) /\ s.list.length <= n /\ t \in expand(s, n)
      BY <1>2, <1>3, <2>1, <3>1
    <3> HIDE DEF n
    <3>3. t \in CallState /\ t.list.length = s.list.length
      BY <1>1, <3>2, Expand
    <3>4. t.went = "running" => \A k \in 1 .. s.list.length : slotsOf(t)[k] = slotsOf(s)[k]
      BY <3>2, ExpandKeeps
    <3> QED
      BY <3>3, <3>4
  <2>2. CASE s.list.length # s.list.capacity
    BY <1>1, <1>3, <2>2
  <2> QED
    BY <2>1, <2>2
<1>5. t.list.length + 1 \in Nat
  BY <1>2, <1>4
<1>6. /\ u.heap = t.heap /\ u.went = t.went /\ u.list.ptr = t.list.ptr
      /\ u.list.length = IF t.went = "running" THEN t.list.length + 1 ELSE t.list.length
  BY <1>3, <1>4, <1>5, WithLength
<1>7. slotsOf(u) = slotsOf(t)
  BY <1>6 DEF slotsOf
<1> QED
  BY <1>4, <1>6, <1>7

\* append: the element is shown last.
LEMMA AppendText ==
    ASSUME NEW s, Standing(s), NEW x \in Value, NEW t \in append(s, x), t.went = "running"
    PROVE  textOf(t) = textOf(s) \o <<x>>
<1>1. s \in CallState /\ s.went = "running" /\ Holds(s.heap, s.list)
  BY DEF Standing
<1>2. Standing(t)
  BY <1>1, AppendAllowed DEF Allowed, Sound, Standing
<1>3. PICK u \in _incrementLength(s) : t = setItem(u, u.list.length - 1, x)
  BY DEF append
<1>4. u \in CallState /\ isLive(u.heap, u.list.ptr) /\ u.went \in {"running", "panic"}
  BY <1>1, IncrementLength
<1>5. u.went = "running"
  BY <1>3, <1>4 DEF setItem
<1>6. /\ u.list.length = s.list.length + 1
      /\ \A k \in 1 .. s.list.length : slotsOf(u)[k] = slotsOf(s)[k]
  BY <1>5, IncrementKeeps
<1> DEFINE n == s.list.length
           new == <<x>>
           y == textOf(s)
<1>7. n \in Nat /\ y \in Seq(Element) /\ Len(y) = n /\ \A k \in 1 .. n : y[k] = slotsOf(s)[k]
  BY Stands
<1>8. new \in Seq(Element) /\ Len(new) = 1 /\ new[1] = x
  BY DEF Element
<1>9. t = memcpyOffset(u, new, n)
  <2>1. u.list.length - 1 = n /\ ~(n >= u.list.length)
    BY <1>6, <1>7
  <2>2. t = setItem(u, n, x)
    BY <1>3, <2>1
  <2> QED
    BY <1>5, <2>1, <2>2 DEF setItem
<1> HIDE DEF n, new, y
<1>10. t.list = u.list /\ Len(slotsOf(t)) = Len(slotsOf(u))
  BY <1>4, <1>5, <1>7, <1>8, <1>9, MemcpyOffset DEF slotsOf
<1>11. \A k \in 1 .. Len(slotsOf(u)) :
         slotsOf(t)[k] = IF k \in n + 1 .. n + Len(new) THEN new[k - n] ELSE slotsOf(u)[k]
  <2>1. memcpyOffset(u, new, n).went = "running"
    BY <1>9
  <2>2. \A k \in 1 .. Len(slotsOf(u)) :
          slotsOf(memcpyOffset(u, new, n))[k] = IF k \in n + 1 .. n + Len(new) THEN new[k - n] ELSE slotsOf(u)[k]
    BY <1>4, <1>5, <1>7, <1>8, <2>1, MemcpyWrites
  <2> QED
    BY <1>9, <2>2
<1>12. t.list.length = n + 1 /\ Len(slotsOf(u)) \in Nat /\ n + 1 <= Len(slotsOf(u))
  BY <1>2, <1>6, <1>10, Stands DEF n
<1> DEFINE z == y \o new
<1>13. /\ z \in Seq(Element) /\ Len(z) = Len(y) + Len(new)
       /\ \A k \in 1 .. Len(y) + Len(new) : z[k] = IF k <= Len(y) THEN y[k] ELSE new[k - Len(y)]
  BY <1>7, <1>8, ConcatProperties
<1> HIDE DEF z
<1>14. z \in Seq(Element) /\ Len(z) = n + 1
       /\ \A k \in 1 .. n + 1 : z[k] = IF k <= n THEN y[k] ELSE new[k - n]
  BY <1>7, <1>8, <1>13
<1>15. ASSUME NEW k \in 1 .. n + 1 PROVE slotsOf(t)[k] = z[k]
  <2>1. CASE k <= n
    <3>1. k \in 1 .. n /\ k \notin n + 1 .. n + Len(new) /\ k \in 1 .. Len(slotsOf(u))
      BY <1>7, <1>8, <1>12, <2>1
    <3>2. slotsOf(t)[k] = slotsOf(u)[k]
      BY <1>11, <3>1
    <3> QED
      BY <1>6, <1>7, <1>14, <2>1, <3>1, <3>2 DEF n
  <2>2. CASE k = n + 1
    <3>1. k \in n + 1 .. n + Len(new) /\ k \in 1 .. Len(slotsOf(u)) /\ k - n = 1 /\ ~(k <= n)
      BY <1>7, <1>8, <1>12, <2>2
    <3>2. slotsOf(t)[k] = new[k - n]
      BY <1>11, <3>1
    <3> QED
      BY <1>14, <3>1, <3>2
  <2> QED
    BY <1>7, <2>1, <2>2
<1>16. textOf(t) = z
  BY <1>2, <1>12, <1>14, <1>15, Reads
<1> QED
  BY <1>16 DEF z, y, new

\* appendArray: the elements of the array are shown behind.
LEMMA AppendArrayText ==
    ASSUME NEW s, Standing(s), NEW a \in Arrays, NEW u \in appendArray(s, a), u.went = "running"
    PROVE  textOf(u) = textOf(s) \o a
<1>1. s \in CallState /\ s.went = "running" /\ Holds(s.heap, s.list)
  BY DEF Standing
<1>2. Standing(u)
  BY <1>1, AppendArrayAllowed DEF Allowed, Sound, Standing
<1> DEFINE n == s.list.length
           y == textOf(s)
           z == y \o a
           total == n + Len(a)
<1>3. /\ n \in Nat /\ y \in Seq(Element) /\ Len(y) = n /\ \A k \in 1 .. n : y[k] = slotsOf(s)[k]
      /\ a \in Seq(Element) /\ Len(a) \in Nat
  BY Stands, ArrayElements
<1>4. s.list.capacity \in Nat /\ n <= s.list.capacity
  BY Stands
<1>5. PICK t : /\ u = withLength(memcpyOffset(t, a, n), total)
               /\ total >= s.list.capacity => t \in expand(s, total * 2)
               /\ ~(total >= s.list.capacity) => t = s
  BY DEF appendArray
<1> HIDE DEF n, y, z
<1>6. total \in Nat /\ n <= total
  BY <1>3
<1> HIDE DEF total
<1>7. /\ t \in CallState /\ isLive(t.heap, t.list.ptr) /\ t.went \in {"running", "panic"}
      /\ t.went = "running" => \A k \in 1 .. n : slotsOf(t)[k] = slotsOf(s)[k]
  <2>1. CASE total >= s.list.capacity
    <3>1. \A c, m \in Nat : m >= c => m * 2 \in Nat /\ (m * 2 = 0 => c = 0) /\ m <= m * 2
      OBVIOUS
    <3> DEFINE m == total * 2
    <3>2. m \in Nat /\ (m = 0 => s.list.capacity = 0) /\ total <= m /\ t \in expand(s, m)
      BY <1>4, <1>5, <1>6, <2>1, <3>1
    <3> HIDE DEF m
    <3>3. s.list.length <= m
      BY <1>3, <1>6, <3>2 DEF n
    <3>4. t \in CallState /\ isLive(t.heap, t.list.ptr) /\ t.went \in {"running", "panic"}
      BY <1>1, <3>2, Expand
    <3>5. t.went = "running" => \A k \in 1 .. n : slotsOf(t)[k] = slotsOf(s)[k]
      BY <3>2, <3>3, ExpandKeeps DEF n
    <3> QED
      BY <3>4, <3>5
  <2>2. CASE ~(total >= s.list.capacity)
    BY <1>1, <1>5, <2>2, Stands
  <2> QED
    BY <2>1, <2>2
<1> DEFINE m == memcpyOffset(t, a, n)
<1>8. m \in CallState
  BY <1>3, <1>7, MemcpyOffset DEF memcpyOffset
<1> HIDE DEF m
<1>9. u = withLength(m, total)
  BY <1>5 DEF m
<1>10. u.heap = m.heap /\ u.went = m.went /\ u.list.ptr = m.list.ptr
  BY <1>6, <1>8, <1>9, WithLength
<1>11. m.went = "running" /\ u.list.length = total /\ slotsOf(u) = slotsOf(m)
  <2>1. m.went = "running"
    BY <1>10
  <2> QED
    BY <1>6, <1>8, <1>9, <1>10, <2>1, WithLength DEF slotsOf
<1>12. t.went = "running"
  BY <1>7, <1>11 DEF m, memcpyOffset
<1>13. Len(slotsOf(m)) = Len(slotsOf(t))
  BY <1>3, <1>7, <1>12, MemcpyOffset DEF slotsOf, m
<1>14. \A k \in 1 .. Len(slotsOf(t)) :
         slotsOf(m)[k] = IF k \in n + 1 .. n + Len(a) THEN a[k - n] ELSE slotsOf(t)[k]
  <2>1. memcpyOffset(t, a, n).went = "running"
    BY <1>11 DEF m
  <2> QED
    BY <1>3, <1>7, <1>12, <2>1, MemcpyWrites DEF m
<1>15. Len(slotsOf(t)) \in Nat /\ total <= Len(slotsOf(t))
  BY <1>2, <1>11, <1>13, Stands
<1>16. /\ z \in Seq(Element) /\ Len(z) = total
       /\ \A k \in 1 .. total : z[k] = IF k <= n THEN y[k] ELSE a[k - n]
  BY <1>3, ConcatProperties DEF z, total
<1>17. ASSUME NEW k \in 1 .. total PROVE slotsOf(u)[k] = z[k]
  <2>1. k \in 1 .. Len(slotsOf(t))
    BY <1>6, <1>15
  <2>2. CASE k <= n
    <3>1. k \in 1 .. n /\ k \notin n + 1 .. n + Len(a)
      BY <1>3, <2>2
    <3>2. slotsOf(m)[k] = slotsOf(t)[k]
      BY <1>14, <2>1, <3>1
    <3> QED
      BY <1>3, <1>7, <1>11, <1>12, <1>16, <2>2, <3>1, <3>2
  <2>3. CASE ~(k <= n)
    <3>1. k \in n + 1 .. n + Len(a)
      BY <1>3, <2>3 DEF total
    <3>2. slotsOf(m)[k] = a[k - n]
      BY <1>14, <2>1, <3>1
    <3> QED
      BY <1>11, <1>16, <2>3, <3>2
  <2> QED
    BY <2>2, <2>3
<1>18. textOf(u) = z
  BY <1>2, <1>11, <1>16, <1>17, Reads
<1> QED
  BY <1>18 DEF z, y

\* setItem: the element is shown at its index.
LEMMA SetItemText ==
    ASSUME NEW s, Standing(s), NEW i \in Nat, NEW x \in Value,
           setItem(s, i, x).went = "running"
    PROVE  /\ i + 1 \in DOMAIN textOf(s) /\ setItem(s, i, x).list = s.list
           /\ textOf(setItem(s, i, x)) = [textOf(s) EXCEPT ![i + 1] = x]
<1> PICK t : t = setItem(s, i, x)
  OBVIOUS
<1> DEFINE n == s.list.length
           new == <<x>>
           y == textOf(s)
           z == [y EXCEPT ![i + 1] = x]
<1>1. /\ s \in CallState /\ s.went = "running" /\ Holds(s.heap, s.list) /\ isLive(s.heap, s.list.ptr)
      /\ n \in Nat /\ y \in Seq(Element) /\ Len(y) = n /\ \A k \in 1 .. n : y[k] = slotsOf(s)[k]
      /\ slotsOf(s) \in Seq(Element) /\ n <= Len(slotsOf(s)) /\ s.list.capacity = Len(slotsOf(s))
  BY Stands DEF Standing
<1>2. t \in CallState /\ t.list = s.list /\ Allowed(s, t)
  BY <1>1, SetItemAllowed DEF slotsOf
<1>3. Standing(t)
  BY <1>2 DEF Allowed, Sound, Standing
<1>4. i < n
  <2>1. t # ended(s, "panic")
    BY <1>1 DEF ended, CallState
  <2> QED
    BY <1>1, <2>1 DEF setItem
<1>5. new \in Seq(Element) /\ Len(new) = 1 /\ new[1] = x /\ x \in Element
  BY DEF Element
<1>6. t = memcpyOffset(s, new, i)
  BY <1>1, <1>4 DEF setItem
<1> HIDE DEF new, n
<1>7. \A k \in 1 .. Len(slotsOf(s)) :
        slotsOf(t)[k] = IF k \in i + 1 .. i + Len(new) THEN new[k - i] ELSE slotsOf(s)[k]
  <2>1. memcpyOffset(s, new, i).went = "running"
    BY <1>6
  <2>2. \A k \in 1 .. Len(slotsOf(s)) :
          slotsOf(memcpyOffset(s, new, i))[k] = IF k \in i + 1 .. i + Len(new) THEN new[k - i] ELSE slotsOf(s)[k]
    BY <1>1, <1>5, <2>1, MemcpyWrites
  <2> QED
    BY <1>6, <2>2
<1> HIDE DEF y
<1>8. /\ i + 1 \in DOMAIN y /\ z \in Seq(Element) /\ Len(z) = n
      /\ \A k \in 1 .. n : z[k] = IF k = i + 1 THEN x ELSE y[k]
  BY <1>1, <1>4, <1>5
<1> HIDE DEF z
<1>9. ASSUME NEW k \in 1 .. n PROVE slotsOf(t)[k] = z[k]
  <2>1. k \in 1 .. Len(slotsOf(s)) /\ Len(slotsOf(s)) \in Nat
    BY <1>1
  <2>2. CASE k = i + 1
    <3>1. k \in i + 1 .. i + Len(new) /\ k - i = 1
      BY <1>5, <2>2
    <3> QED
      BY <1>5, <1>7, <1>8, <2>1, <2>2, <3>1
  <2>3. CASE k # i + 1
    <3>1. k \notin i + 1 .. i + Len(new)
      BY <1>5, <2>3
    <3> QED
      BY <1>1, <1>7, <1>8, <2>1, <2>3, <3>1
  <2> QED
    BY <2>2, <2>3
<1>10. textOf(t) = z
  BY <1>2, <1>3, <1>8, <1>9, Reads DEF n
<1> QED
  BY <1>2, <1>8, <1>10 DEF z, y

\* pop and clear: the last element, or none, is shown no more.
LEMMA PopText ==
    ASSUME NEW s, Standing(s), NEW n \in Nat, n <= s.list.length
    PROVE  textOf(withLength(s, n)) = SubSeq(textOf(s), 1, n)
<1> PICK t : t = withLength(s, n)
  OBVIOUS
<1>1. /\ s \in CallState /\ s.went = "running" /\ Holds(s.heap, s.list)
  BY DEF Standing
<1>2. /\ t \in CallState /\ t.heap = s.heap /\ t.went = "running"
      /\ t.list.ptr = s.list.ptr /\ t.list.capacity = s.list.capacity /\ t.list.length = n
  BY <1>1, WithLength
<1> DEFINE y == textOf(s)
           z == SubSeq(y, 1, n)
<1>3. /\ y \in Seq(Element) /\ Len(y) = s.list.length /\ s.list.length \in Nat
      /\ s.list.length <= s.list.capacity /\ s.list.capacity \in Nat
      /\ \A k \in 1 .. s.list.length : y[k] = slotsOf(s)[k]
  BY Stands
<1>4. Standing(t)
  <2>1. n <= s.list.capacity
    BY <1>3
  <2> QED
    BY <1>1, <1>2, <2>1 DEF Standing, Holds
<1> HIDE DEF y
<1>5. z \in Seq(Element) /\ Len(z) = n /\ \A k \in 1 .. n : z[k] = y[k]
  BY <1>3
<1>6. slotsOf(t) = slotsOf(s)
  BY <1>2 DEF slotsOf
<1> HIDE DEF z
<1>7. textOf(t) = z
  <2>1. \A k \in 1 .. n : k \in 1 .. s.list.length
    BY <1>3
  <2> QED
    BY <1>2, <1>3, <1>4, <1>5, <1>6, <2>1, Reads
<1> QED
  BY <1>7 DEF y, z

------------------------------------------------------------------------------
(***************************************************************************)
(* What the variables show, as functions.                                  *)
(***************************************************************************)
textAt(h, r) == IF fits(h, r) THEN contents(h, r) ELSE <<Junk>>
names == [v \in Variable |-> nameOf(v)]
texts == [v \in Variable |-> textAt(heap, listOf(v))]

\* The same of any row of steps.
storedIn(d, v)    == {k \in DOMAIN d : d[k][1] = "store" /\ d[k][2] = v}
nameIn(d, ow, v)  == IF storedIn(d, v) = {} THEN ow[v] ELSE d[CHOOSE k \in storedIn(d, v) : TRUE][3]
listIn(d, f, v)   == IF storedIn(d, v) = {} THEN f[v] ELSE d[CHOOSE k \in storedIn(d, v) : TRUE][4]

\* The k-th of these steps, and no other, stores, r of counter o in v.
StoresAt(d, k, v, o, r) ==
    d[k] = <<"store", v, o, r>> /\ \A w : storedIn(d, w) = IF w = v THEN {k} ELSE {}

LEMMA StoredIn ==
    ASSUME NEW v, NEW o, NEW r
    PROVE  /\ \A w : storedIn(<<>>, w) = {} /\ storedIn(leaving(v), w) = {}
           /\ StoresAt(replacing(v, o, r), 3, v, o, r) /\ StoresAt(filling(v, o, r), 2, v, o, r)
           /\ StoresAt(dropping(v, o, r), 2, v, o, r) /\ StoresAt(arriving(v, o, r), 1, v, o, r)
<1> DEFINE a == <<"retain", o>>
           b == <<"release", v>>
           c == <<"store", v, o, r>>
<1>1. a[1] # "store" /\ b[1] # "store" /\ c[1] = "store" /\ c[2] = v
  BY StepFields
<1>2. /\ replacing(v, o, r) = <<a, b, c>> /\ filling(v, o, r) = <<a, c>>
      /\ dropping(v, o, r) = <<b, c>> /\ arriving(v, o, r) = <<c>> /\ leaving(v) = <<b>>
  BY DEF replacing, filling, dropping, arriving, leaving
<1> HIDE DEF a, b, c
<1>3. /\ DOMAIN <<>> = {} /\ DOMAIN <<b>> = {1} /\ DOMAIN <<c>> = {1}
      /\ DOMAIN <<a, c>> = {1, 2} /\ DOMAIN <<b, c>> = {1, 2} /\ DOMAIN <<a, b, c>> = {1, 2, 3}
  OBVIOUS
<1>4. ASSUME NEW w
      PROVE  /\ storedIn(<<>>, w) = {} /\ storedIn(<<b>>, w) = {}
             /\ storedIn(<<c>>, w) = (IF w = v THEN {1} ELSE {})
             /\ storedIn(<<a, c>>, w) = (IF w = v THEN {2} ELSE {})
             /\ storedIn(<<b, c>>, w) = (IF w = v THEN {2} ELSE {})
             /\ storedIn(<<a, b, c>>, w) = (IF w = v THEN {3} ELSE {})
  <2>1. storedIn(<<>>, w) = {} /\ storedIn(<<b>>, w) = {}
    BY <1>1, <1>3 DEF storedIn
  <2>2. storedIn(<<c>>, w) = IF w = v THEN {1} ELSE {}
    BY <1>1, <1>3 DEF storedIn
  <2>3. /\ storedIn(<<a, c>>, w) = (IF w = v THEN {2} ELSE {})
        /\ storedIn(<<b, c>>, w) = (IF w = v THEN {2} ELSE {})
    BY <1>1, <1>3 DEF storedIn
  <2>4. storedIn(<<a, b, c>>, w) = IF w = v THEN {3} ELSE {}
    BY <1>1, <1>3 DEF storedIn
  <2> QED
    BY <2>1, <2>2, <2>3, <2>4
<1>5. <<c>>[1] = c /\ <<a, c>>[2] = c /\ <<b, c>>[2] = c /\ <<a, b, c>>[3] = c
  OBVIOUS
<1>6. StoresAt(<<c>>, 1, v, o, r) /\ StoresAt(<<a, c>>, 2, v, o, r)
  BY <1>4, <1>5 DEF StoresAt, c
<1>7. StoresAt(<<b, c>>, 2, v, o, r) /\ StoresAt(<<a, b, c>>, 3, v, o, r)
  BY <1>4, <1>5 DEF StoresAt, c
<1> QED
  BY <1>2, <1>4, <1>6, <1>7

\* The rows that end in storing r of counter o in v.
storing(v, o, r) == {replacing(v, o, r), filling(v, o, r), dropping(v, o, r), arriving(v, o, r)}

\* While a variable is assigned to it shows what it is going to hold, the others what they hold.
LEMMA ShownName ==
    ASSUME NEW ow, NEW v, NEW o, NEW r, NEW w, NEW d, d \in storing(v, o, r)
    PROVE  nameIn(d, ow, w) = IF w = v THEN o ELSE ow[w]
<1>1. PICK k : StoresAt(d, k, v, o, r)
  BY StoredIn DEF storing
<1>2. d[k][3] = o
  BY <1>1, StepFields DEF StoresAt
<1>3. (CHOOSE j \in {k} : TRUE) = k
  OBVIOUS
<1> QED
  BY <1>1, <1>2, <1>3 DEF nameIn, StoresAt

LEMMA ShownList ==
    ASSUME NEW f, NEW v, NEW o, NEW r, NEW w, NEW d, d \in storing(v, o, r)
    PROVE  listIn(d, f, w) = IF w = v THEN r ELSE f[w]
<1>1. PICK k : StoresAt(d, k, v, o, r)
  BY StoredIn DEF storing
<1>2. d[k][4] = r
  BY <1>1, StepFields DEF StoresAt
<1>3. (CHOOSE j \in {k} : TRUE) = k
  OBVIOUS
<1> QED
  BY <1>1, <1>2, <1>3 DEF listIn, StoresAt

LEMMA ShownBetween ==
    ASSUME NEW ow, NEW f, NEW v, NEW w
    PROVE  /\ nameIn(<<>>, ow, w) = ow[w] /\ listIn(<<>>, f, w) = f[w]
           /\ nameIn(leaving(v), ow, w) = ow[w] /\ listIn(leaving(v), f, w) = f[w]
<1>1. storedIn(<<>>, w) = {} /\ storedIn(leaving(v), w) = {}
  BY StoredIn
<1> QED
  BY <1>1 DEF nameIn, listIn

LEMMA ShownIs ==
    \A v : /\ nameOf(v) = nameIn(doing, owner, v) /\ listOf(v) = listIn(doing, fields, v)
           /\ nameOf(v)' = nameIn(doing', owner', v) /\ listOf(v)' = listIn(doing', fields', v)
BY DEF nameOf, listOf, stores, nameIn, listIn, storedIn

\* What a list shows is a matter of its block alone, or of nothing when it is empty.
LEMMA SameText ==
    ASSUME NEW h, NEW g, NEW r,
           \/ r.length = 0
           \/ r.ptr \in DOMAIN h /\ r.ptr \in DOMAIN g /\ g[r.ptr] = h[r.ptr]
    PROVE  textAt(g, r) = textAt(h, r)
BY DEF textAt, fits, contents, isLive

------------------------------------------------------------------------------
\* A variable that owns nothing shows nothing.
Emptied   == \A v \in Variable : owner[v] = NoObject => fields[v].length = 0
ShownIInv == SharedIInv /\ Emptied

LEMMA StaysEmptied ==
    ASSUME SharedIInv, Emptied, [SharedNext]_<<vars, listVars>>
    PROVE  Emptied'
<1>1. TypeOK /\ fields \in [Variable -> ListRecord]
  BY DEF SharedIInv, IInv
<1>2. NoList.length = 0
  BY DEF NoList, record
<1>3. CASE RetainStep
  BY <1>3, Retaining DEF Retain, Emptied
<1>4. CASE ReleaseStep
  <2>1. PICK v \in Variable : Release(v) /\ fields' = [fields EXCEPT ![v] = NoList]
    BY <1>4, Releasing
  <2> QED
    BY <1>1, <1>2, <2>1 DEF Release, Emptied, TypeOK
<1>5. CASE StoreStep
  <2>1. PICK v \in Variable, o \in Object : Store(v, o) /\ \E r : fields' = [fields EXCEPT ![v] = r]
    BY <1>5, Arriving
  <2> QED
    BY <1>1, <2>1, NoObjectIsNone DEF Store, Emptied, TypeOK
<1>6. ASSUME NEW v \in Variable, List(v) \/ FromPreAllocated(v) \/ Copy(v) \/ Clone(v) \/ Leave(v)
      PROVE  Emptied'
  <2>1. owner' = owner /\ fields' = fields
    BY <1>6 DEF List, FromPreAllocated, Copy, Clone, Leave, cloneOf, make, Create, vars
  <2> QED
    BY <2>1 DEF Emptied
<1>7. ASSUME NEW v \in Variable, AppendItem(v) \/ AppendItems(v) \/ SetItem(v) \/ Pop(v) \/ Clear(v)
      PROVE  Emptied'
  <2>1. PICK outcomes : called(v, outcomes)
    BY <1>7 DEF AppendItem, AppendItems, SetItem, Pop, Clear
  <2>2. owner' = owner /\ owner[v] # NoObject /\ \E r : fields' = [fields EXCEPT ![v] = r]
    BY <2>1 DEF called, vars
  <2> QED
    BY <1>1, <2>2 DEF Emptied
<1>8. CASE UNCHANGED <<vars, listVars>>
  BY <1>8 DEF vars, listVars, Emptied
<1> QED
  BY <1>3, <1>4, <1>5, <1>6, <1>7, <1>8 DEF SharedNext

\* What a variable shows is held, or it shows nothing.
LEMMA ShownIsHeld ==
    ASSUME ShownIInv, phase = "running", NEW w \in Variable
    PROVE  \/ nameOf(w) = NoObject /\ listOf(w).length = 0
           \/ nameOf(w) \in Object /\ held(nameOf(w), listOf(w)) \in owned \cup carriedBy(doing)
<1>1. Statement /\ Emptied /\ owner \in [Variable -> Object \cup {NoObject}]
  BY DEF ShownIInv, SharedIInv, IInv, TypeOK
<1>2. owner[w] # NoObject => held(owner[w], fields[w]) \in owned
  BY DEF owned
<1>3. CASE nameOf(w) = owner[w] /\ listOf(w) = fields[w]
  BY <1>1, <1>2, <1>3 DEF Emptied
<1>4. ASSUME NEW v \in Variable, doing \in {<<>>, leaving(v)}
      PROVE  nameOf(w) = owner[w] /\ listOf(w) = fields[w]
  <2>1. /\ nameIn(<<>>, owner, w) = owner[w] /\ listIn(<<>>, fields, w) = fields[w]
        /\ nameIn(leaving(v), owner, w) = owner[w] /\ listIn(leaving(v), fields, w) = fields[w]
    BY ShownBetween
  <2> QED
    BY <1>4, <2>1, ShownIs
<1>5. ASSUME NEW v \in Variable, NEW o \in Object, NEW r \in ListRecord, Storing(v, o, r)
      PROVE  \/ nameOf(w) = owner[w] /\ listOf(w) = fields[w]
             \/ nameOf(w) = o /\ listOf(w) = r /\ carriedBy(doing) = {held(o, r)}
  <2>1. doing \in storing(v, o, r)
    BY <1>5 DEF Storing, storing
  <2>2. carriedBy(doing) = {held(o, r)}
    BY <1>5, Carried DEF Storing
  <2>3. /\ nameIn(doing, owner, w) = IF w = v THEN o ELSE owner[w]
        /\ listIn(doing, fields, w) = IF w = v THEN r ELSE fields[w]
    BY <2>1, ShownName, ShownList
  <2> QED
    BY <2>2, <2>3, ShownIs
<1>6. CASE \E v \in Variable, o \in Object, r \in ListRecord : Storing(v, o, r)
  <2>1. PICK v \in Variable, o \in Object, r \in ListRecord : Storing(v, o, r)
    BY <1>6
  <2>2. \/ nameOf(w) = owner[w] /\ listOf(w) = fields[w]
        \/ nameOf(w) = o /\ listOf(w) = r /\ carriedBy(doing) = {held(o, r)}
    BY <1>5, <2>1
  <2> QED
    BY <1>3, <2>2
<1>7. CASE \E v \in Variable : doing \in {<<>>, leaving(v)}
  BY <1>3, <1>4, <1>7
<1> QED
  BY <1>1, <1>6, <1>7 DEF Statement

------------------------------------------------------------------------------
(***************************************************************************)
(* The steps of a statement.  What it stores is shown from its beginning.  *)
(***************************************************************************)
LEMMA Binds ==
    ASSUME NEW v \in Variable, NEW o, NEW s,
           names' = [names EXCEPT ![v] = o], texts' = [texts EXCEPT ![v] = s]
    PROVE  Reference!bind(v, o, s)
BY DEF Reference!bind, names, texts, textAt

LEMMA ShowsTheSame ==
    ASSUME names' = names, texts' = texts
    PROVE  UNCHANGED Reference!vars
BY DEF Reference!vars, names, texts, textAt

LEMMA Showing ==
    /\ names = [v \in Variable |-> nameOf(v)] /\ names' = [v \in Variable |-> nameOf(v)']
    /\ texts = [v \in Variable |-> textAt(heap, listOf(v))]
    /\ texts' = [v \in Variable |-> textAt(heap', listOf(v)')]
BY DEF names, texts, textAt

\* Between statements a variable shows what it holds.
LEMMA ShowsItsOwn ==
    ASSUME doing = <<>>, NEW w
    PROVE  nameOf(w) = owner[w] /\ listOf(w) = fields[w]
<1>1. nameIn(<<>>, owner, w) = owner[w] /\ listIn(<<>>, fields, w) = fields[w]
  BY ShownBetween
<1> QED
  BY <1>1, ShownIs

LEMMA Begins ==
    ASSUME ready, NEW v \in Variable, NEW o, NEW r, doing' = assigning(v, o, r),
           owner' = owner, fields' = fields,
           \A w \in Variable : textAt(heap', fields[w]) = textAt(heap, fields[w])
    PROVE  /\ names' = [names EXCEPT ![v] = o]
           /\ texts' = [texts EXCEPT ![v] = textAt(heap', r)]
<1>1. doing' \in storing(v, o, r)
  BY Assigning DEF storing
<1>2. ASSUME NEW w \in Variable
      PROVE  /\ nameOf(w)' = IF w = v THEN o ELSE nameOf(w)
             /\ listOf(w)' = IF w = v THEN r ELSE listOf(w)
             /\ listOf(w) = fields[w]
  <2>1. nameOf(w) = owner[w] /\ listOf(w) = fields[w]
    BY ShowsItsOwn DEF ready
  <2>2. /\ nameIn(doing', owner', w) = IF w = v THEN o ELSE owner'[w]
        /\ listIn(doing', fields', w) = IF w = v THEN r ELSE fields'[w]
    BY <1>1, ShownName, ShownList
  <2> QED
    BY <2>1, <2>2, ShownIs
<1>3. names' = [names EXCEPT ![v] = o]
  BY <1>2, Showing
<1>4. texts' = [texts EXCEPT ![v] = textAt(heap', r)]
  BY <1>2, Showing
<1> QED
  BY <1>3, <1>4

LEMMA RetainShows ==
    ASSUME ShownIInv, RetainStep
    PROVE  UNCHANGED Reference!vars
<1>1. PICK v \in Variable, o \in Object, r \in ListRecord :
        /\ \/ doing = replacing(v, o, r) /\ doing' = dropping(v, o, r) /\ owner[v] # NoObject
           \/ doing = filling(v, o, r) /\ doing' = arriving(v, o, r) /\ owner[v] = NoObject
        /\ Retain(o) /\ heap' = heap /\ fields' = fields
  BY Retaining DEF ShownIInv
<1>2. owner' = owner
  BY <1>1 DEF Retain
<1>3. doing \in storing(v, o, r) /\ doing' \in storing(v, o, r)
  BY <1>1 DEF storing
<1>4. ASSUME NEW w \in Variable PROVE nameOf(w)' = nameOf(w) /\ listOf(w)' = listOf(w)
  <2>1. /\ nameIn(doing, owner, w) = IF w = v THEN o ELSE owner[w]
        /\ listIn(doing, fields, w) = IF w = v THEN r ELSE fields[w]
        /\ nameIn(doing', owner', w) = IF w = v THEN o ELSE owner'[w]
        /\ listIn(doing', fields', w) = IF w = v THEN r ELSE fields'[w]
    BY <1>3, ShownName, ShownList
  <2> QED
    BY <1>1, <1>2, <2>1, ShownIs
<1>5. names' = names /\ texts' = texts
  BY <1>1, <1>4, Showing
<1> QED
  BY <1>5, ShowsTheSame

LEMMA StoreShows ==
    ASSUME ShownIInv, StoreStep
    PROVE  UNCHANGED Reference!vars
<1>1. PICK v \in Variable, o \in Object, r \in ListRecord :
        /\ doing = arriving(v, o, r) /\ doing' = <<>> /\ Store(v, o)
        /\ fields' = [fields EXCEPT ![v] = r] /\ heap' = heap
  BY Arriving DEF ShownIInv
<1>2. /\ owner' = [owner EXCEPT ![v] = o] /\ owner \in [Variable -> Object \cup {NoObject}]
      /\ fields \in [Variable -> ListRecord]
  BY <1>1 DEF Store, ShownIInv, SharedIInv, IInv, TypeOK
<1>3. ASSUME NEW w \in Variable PROVE nameOf(w)' = nameOf(w) /\ listOf(w)' = listOf(w)
  <2>1. doing \in storing(v, o, r)
    BY <1>1 DEF storing
  <2>2. /\ nameIn(doing, owner, w) = IF w = v THEN o ELSE owner[w]
        /\ listIn(doing, fields, w) = IF w = v THEN r ELSE fields[w]
    BY <2>1, ShownName, ShownList
  <2>3. nameIn(<<>>, owner', w) = owner'[w] /\ listIn(<<>>, fields', w) = fields'[w]
    BY ShownBetween
  <2>4. /\ owner'[w] = IF w = v THEN o ELSE owner[w]
        /\ fields'[w] = IF w = v THEN r ELSE fields[w]
    BY <1>1, <1>2
  <2> QED
    BY <1>1, <2>2, <2>3, <2>4, ShownIs
<1>4. names' = names /\ texts' = texts
  BY <1>1, <1>3, Showing
<1> QED
  BY <1>4, ShowsTheSame

\* What is released is shown by no other variable: the last holder's block is its own.
LEMMA ReleaseShows ==
    ASSUME ShownIInv, ReleaseStep
    PROVE  UNCHANGED Reference!vars \/ \E v \in Variable : Reference!Leave(v)
<1>1. PICK v \in Variable :
        /\ owner[v] # NoObject /\ Release(v)
        /\ \/ doing = leaving(v) /\ doing' = <<>> /\ onlyPending({})
           \/ \E o \in Object, r \in ListRecord :
                doing = dropping(v, o, r) /\ doing' = arriving(v, o, r) /\ onlyPending({o})
        /\ isLive(heap, fields[v].ptr)
        /\ fields' = [fields EXCEPT ![v] = NoList]
        /\ heap' = (IF count[owner[v]] = 1 THEN [heap EXCEPT ![fields[v].ptr] = freed] ELSE heap)
        /\ phase = "running"
  BY Releasing DEF ShownIInv
<1>2. /\ Memory(owned \cup carriedBy(doing), heap, status) /\ IInv /\ Emptied
      /\ owner \in [Variable -> Object \cup {NoObject}]
      /\ fields \in [Variable -> ListRecord] /\ heap \in Seq(Block)
  BY <1>1 DEF ShownIInv, SharedIInv, IInv, TypeOK
<1>3. owner' = [owner EXCEPT ![v] = NoObject]
  BY <1>1 DEF Release
<1> DEFINE q == owner[v]
           p == fields[v].ptr
           x == held(q, fields[v])
<1>4. x \in owned /\ x.counter = q /\ x.list = fields[v]
  BY <1>1 DEF owned, held
<1>5. ASSUME NEW w \in Variable, nameOf(w) # q
      PROVE  textAt(heap', listOf(w)) = textAt(heap, listOf(w))
  <2> DEFINE r == listOf(w)
             y == held(nameOf(w), r)
  <2>1. CASE r.length = 0
    BY <2>1, SameText
  <2>2. CASE r.length # 0
    <3>1. y \in owned \cup carriedBy(doing)
      BY <1>1, <2>2, ShownIsHeld
    <3>2. y.counter = nameOf(w) /\ y.list = r
      BY DEF held
    <3> HIDE DEF y, x
    <3>3. r.ptr # p /\ isLive(heap, r.ptr)
      BY <1>2, <1>4, <1>5, <3>1, <3>2 DEF Memory, Holds
    <3>4. r.ptr \in DOMAIN heap /\ r.ptr \in DOMAIN heap' /\ heap'[r.ptr] = heap[r.ptr]
      BY <1>1, <1>2, <3>3 DEF isLive
    <3> QED
      BY <3>4, SameText
  <2> QED
    BY <2>1, <2>2
<1>6. CASE doing = leaving(v) /\ doing' = <<>> /\ onlyPending({})
  <2>1. ASSUME NEW w \in Variable
        PROVE  /\ nameOf(w) = owner[w] /\ listOf(w) = fields[w]
               /\ nameOf(w)' = owner'[w] /\ listOf(w)' = fields'[w]
    <3>1. /\ nameIn(leaving(v), owner, w) = owner[w] /\ listIn(leaving(v), fields, w) = fields[w]
          /\ nameIn(<<>>, owner', w) = owner'[w] /\ listIn(<<>>, fields', w) = fields'[w]
      BY ShownBetween, ZenonT(30)
    <3> QED
      BY <1>6, <3>1, ShownIs
  <2>2. ASSUME NEW w \in Variable, w # v PROVE textAt(heap', fields[w]) = textAt(heap, fields[w])
    <3>1. CASE owner[w] # q
      BY <1>5, <2>1, <3>1
    <3>2. CASE owner[w] = q
      <4>1. heap' = heap
        BY <1>1, <1>2, <2>2, <3>2, LastHolder
      <4> QED
        BY <4>1
    <3> QED
      BY <3>1, <3>2
  <2>3. textAt(heap', NoList) = <<>>
    BY DEF textAt, fits, contents, NoList, record
  <2>4. names' = [names EXCEPT ![v] = NoObject]
    BY <1>2, <1>3, <2>1, Showing
  <2>5. texts' = [texts EXCEPT ![v] = <<>>]
    <3>1. \A w \in Variable : fields'[w] = IF w = v THEN NoList ELSE fields[w]
      BY <1>1, <1>2
    <3> QED
      BY <2>1, <2>2, <2>3, <3>1, Showing
  <2>6. Reference!bind(v, NoObject, <<>>)
    BY <2>4, <2>5, Binds
  <2> QED
    BY <2>6 DEF Reference!Leave
<1>7. ASSUME NEW o \in Object, NEW r \in ListRecord,
             doing = dropping(v, o, r), doing' = arriving(v, o, r), onlyPending({o})
      PROVE  UNCHANGED Reference!vars
  <2>1. ASSUME NEW w \in Variable
        PROVE  /\ nameOf(w) = (IF w = v THEN o ELSE owner[w]) /\ listOf(w) = (IF w = v THEN r ELSE fields[w])
               /\ nameOf(w)' = nameOf(w) /\ listOf(w)' = listOf(w)
    <3>1. doing \in storing(v, o, r) /\ doing' \in storing(v, o, r)
      BY <1>7 DEF storing
    <3>2. /\ nameIn(doing, owner, w) = IF w = v THEN o ELSE owner[w]
          /\ listIn(doing, fields, w) = IF w = v THEN r ELSE fields[w]
          /\ nameIn(doing', owner', w) = IF w = v THEN o ELSE owner'[w]
          /\ listIn(doing', fields', w) = IF w = v THEN r ELSE fields'[w]
      BY <3>1, ShownName, ShownList
    <3>3. w # v => owner'[w] = owner[w] /\ fields'[w] = fields[w]
      BY <1>1, <1>2, <1>3
    <3> QED
      BY <3>2, <3>3, ShownIs
  <2>2. ASSUME NEW w \in Variable PROVE textAt(heap', listOf(w)) = textAt(heap, listOf(w))
    <3>1. CASE nameOf(w) # q
      BY <1>5, <3>1
    <3>2. CASE nameOf(w) = q
      <4>1. heap' = heap
        <5>1. CASE w = v
          <6>1. pending[q] # 0
            BY <1>7, <2>1, <3>2, <5>1 DEF onlyPending
          <6> QED
            BY <1>1, <1>2, <6>1, LastHolder
        <5>2. CASE w # v
          BY <1>1, <1>2, <2>1, <3>2, <5>2, LastHolder
        <5> QED
          BY <5>1, <5>2
      <4> QED
        BY <4>1
    <3> QED
      BY <3>1, <3>2
  <2>3. names' = names /\ texts' = texts
    BY <2>1, <2>2, Showing
  <2> QED
    BY <2>3, ShowsTheSame
<1> QED
  BY <1>1, <1>6, <1>7

------------------------------------------------------------------------------
(***************************************************************************)
(* The statements, where they begin.                                       *)
(***************************************************************************)
LEMMA MakeShows ==
    ASSUME ShownIInv, ready, NEW v \in Variable,
           NEW s \in Seq(Element), NEW c \in Nat, Len(s) <= c, make(v, s, c)
    PROVE  \E o \in Object : Reference!New(v, o, s)
<1>1. PICK o \in Object :
        /\ Create(o) /\ heap' = Append(heap, block(ofSize(s, c)))
        /\ doing' = assigning(v, o, record(Len(heap) + 1, c, Len(s)))
        /\ fields' = fields
  BY DEF make
<1> DEFINE b == block(ofSize(s, c))
           r == record(Len(heap) + 1, c, Len(s))
<1>2. /\ Memory(owned, heap, status) /\ doing = <<>> /\ heap \in Seq(Block) /\ Emptied
      /\ fields \in [Variable -> ListRecord]
  BY BetweenStatements DEF ShownIInv
<1>3. owner' = owner /\ status[o] # "live"
  BY <1>1 DEF Create
<1>4. Len(heap) \in Nat /\ Len(s) \in Nat
  BY <1>2
<1>5. b \in Block /\ b.live /\ b.slots = ofSize(s, c) /\ Len(b.slots) = c
  BY OfSize DEF block, Block
<1>6. r \in ListRecord /\ r.ptr = Len(heap) + 1 /\ r.capacity = c /\ r.length = Len(s)
  BY <1>4 DEF record, ListRecord
<1>7. doing' = assigning(v, o, r) /\ heap' = Append(heap, b)
  BY <1>1
<1> HIDE DEF b, r
<1>8. /\ heap' \in Seq(Block) /\ heap'[Len(heap) + 1] = b /\ Len(heap) + 1 \in DOMAIN heap'
      /\ \A p \in DOMAIN heap : p \in DOMAIN heap' /\ heap'[p] = heap[p]
  BY <1>2, <1>5, <1>7
<1>9. ASSUME NEW w \in Variable
      PROVE  textAt(heap', fields[w]) = textAt(heap, fields[w]) /\ owner[w] # o
  <2>1. CASE owner[w] = NoObject
    BY <1>2, <2>1, SameText, NoObjectIsNone DEF Emptied
  <2>2. CASE owner[w] # NoObject
    <3>1. held(owner[w], fields[w]) \in owned
      BY <2>2 DEF owned
    <3>2. held(owner[w], fields[w]).counter = owner[w] /\ held(owner[w], fields[w]).list = fields[w]
      BY DEF held
    <3>3. status[owner[w]] = "live" /\ fields[w].ptr \in DOMAIN heap
      BY <1>2, <3>1, <3>2 DEF Memory, Holds, isLive
    <3> QED
      BY <1>3, <1>8, <3>3, SameText
  <2> QED
    BY <2>1, <2>2
<1>10. textAt(heap', r) = s
  <2> DEFINE t == [heap |-> heap', list |-> r, went |-> "running"]
  <2>1. Standing(t)
    BY <1>5, <1>6, <1>8 DEF Standing, CallState, Holds, isLive
  <2>2. slotsOf(t) = ofSize(s, c) /\ t.list.length = Len(s)
    BY <1>5, <1>6, <1>8 DEF slotsOf
  <2>3. \A k \in 1 .. Len(s) : ofSize(s, c)[k] = s[k]
    <3>1. \A k \in 1 .. Len(s) : k \in 1 .. c /\ k <= Len(s)
      BY <1>4
    <3> QED
      BY <3>1 DEF ofSize
  <2> HIDE DEF t
  <2>4. textOf(t) = s
    BY <2>1, <2>2, <2>3, Reads
  <2>5. Holds(heap', r) /\ contents(heap', r) = s
    BY <2>1, <2>4 DEF t, textOf, Standing
  <2>6. fits(heap', r)
    BY <1>6, <1>8, <2>5, Contents
  <2> QED
    BY <2>5, <2>6 DEF textAt
<1>11. Reference!bind(v, o, s)
  <2>1. /\ names' = [names EXCEPT ![v] = o]
        /\ texts' = [texts EXCEPT ![v] = textAt(heap', r)]
    BY <1>1, <1>3, <1>7, <1>9, Begins
  <2> QED
    BY <1>10, <2>1, Binds
<1>12. \A w \in Variable : nameOf(w) # o
  BY <1>2, <1>9, ShowsItsOwn
<1> QED
  BY <1>11, <1>12 DEF Reference!New

LEMMA ListShows ==
    ASSUME ShownIInv, NEW v \in Variable, List(v) \/ FromPreAllocated(v)
    PROVE  \E o \in Object, s \in Arrays : Reference!New(v, o, s)
<1>1. ready
  BY DEF List, FromPreAllocated
<1>2. PICK a \in Arrays : make(v, a, Len(a) * 2 + 1) \/ make(v, a, Len(a))
  BY DEF List, FromPreAllocated
<1>3. a \in Seq(Element) /\ Len(a) \in Nat /\ Len(a) * 2 + 1 \in Nat /\ Len(a) <= Len(a) * 2 + 1
  BY ArrayElements
<1> QED
  BY <1>1, <1>2, <1>3, MakeShows

\* A variable that owns a list can be called on.
LEMMA CallStands ==
    ASSUME SharedIInv, ready, NEW w \in Variable, owner[w] # NoObject
    PROVE  /\ Standing(here(w)) /\ textOf(here(w)) = texts[w]
           /\ fits(heap, fields[w]) /\ texts[w] = contents(heap, fields[w])
           /\ names[w] = owner[w] /\ here(w).list = fields[w] /\ here(w).heap = heap
<1>1. /\ Standing(here(w)) /\ here(w).heap = heap /\ here(w).list = fields[w]
  BY CallBegins DEF Standing
<1>2. nameOf(w) = owner[w] /\ listOf(w) = fields[w]
  BY ShowsItsOwn DEF ready
<1>3. fits(heap, fields[w])
  BY <1>1, Contents DEF Standing, CallState
<1>4. textOf(here(w)) = contents(heap, fields[w])
  BY <1>1 DEF textOf
<1> QED
  BY <1>1, <1>2, <1>3, <1>4 DEF names, texts, textAt

LEMMA CloneShows ==
    ASSUME ShownIInv, NEW v \in Variable, Clone(v), phase' = "running"
    PROVE  \E o \in Object, w \in Variable : Reference!New(v, o, texts[w])
<1>1. ready
  BY DEF Clone
<1>2. PICK w \in Variable :
        /\ owner[w] # NoObject
        /\ IF fits(heap, fields[w]) THEN cloneOf(v, w)
           ELSE phase' = "wild" /\ UNCHANGED <<vars, fields, heap, doing>>
  BY DEF Clone
<1> DEFINE c == contents(heap, fields[w])
<1>3. cloneOf(v, w)
  BY <1>2
<1>4. /\ texts[w] = c /\ texts[w] = textOf(here(w)) /\ Standing(here(w)) /\ here(w).list = fields[w]
  BY <1>1, <1>2, CallStands DEF ShownIInv
<1>5. c \in Seq(Element) /\ Len(c) = fields[w].length /\ fields[w].length \in Nat
  BY <1>4, Stands
<1>6. make(v, c, fields[w].length * 2 + 1)
  BY <1>3 DEF cloneOf
<1> HIDE DEF c
<1>7. fields[w].length * 2 + 1 \in Nat /\ Len(c) <= fields[w].length * 2 + 1
  BY <1>5
<1>8. \E o \in Object : Reference!New(v, o, c)
  BY <1>1, <1>5, <1>6, <1>7, MakeShows
<1> QED
  BY <1>4, <1>8

LEMMA CopyShows ==
    ASSUME ShownIInv, NEW v \in Variable, Copy(v)
    PROVE  \E w \in Variable : Reference!Assign(v, w)
<1>1. PICK w \in Variable : owner[w] # NoObject /\ doing' = assigning(v, owner[w], fields[w])
  BY DEF Copy
<1>2. ready /\ owner' = owner /\ fields' = fields /\ heap' = heap
  BY DEF Copy, vars
<1>3. names[w] = owner[w] /\ texts[w] = contents(heap, fields[w]) /\ fits(heap, fields[w])
  BY <1>1, <1>2, CallStands DEF ShownIInv
<1>4. textAt(heap', fields[w]) = texts[w]
  BY <1>2, <1>3 DEF textAt
<1>5. /\ names' = [names EXCEPT ![v] = names[w]]
      /\ texts' = [texts EXCEPT ![v] = texts[w]]
  <2>1. \A u \in Variable : textAt(heap', fields[u]) = textAt(heap, fields[u])
    BY <1>2
  <2>2. /\ names' = [names EXCEPT ![v] = owner[w]]
        /\ texts' = [texts EXCEPT ![v] = textAt(heap', fields[w])]
    BY <1>1, <1>2, <2>1, Begins
  <2> QED
    BY <1>3, <1>4, <2>2
<1>6. Reference!bind(v, names[w], texts[w])
  BY <1>5, Binds
<1> QED
  BY <1>1, <1>3, <1>6 DEF Reference!Assign, names, texts, textAt

LEMMA LeaveShows ==
    ASSUME NEW v \in Variable, Leave(v)
    PROVE  UNCHANGED Reference!vars
<1>1. doing = <<>> /\ owner' = owner /\ fields' = fields /\ heap' = heap /\ doing' = leaving(v)
  BY DEF Leave, ready, vars, leaving
<1>2. ASSUME NEW w \in Variable PROVE nameOf(w)' = nameOf(w) /\ listOf(w)' = listOf(w)
  <2>1. /\ nameIn(leaving(v), owner, w) = owner[w] /\ listIn(leaving(v), fields, w) = fields[w]
    BY ShownBetween
  <2>2. nameOf(w) = owner[w] /\ listOf(w) = fields[w]
    BY <1>1, ShowsItsOwn
  <2> QED
    BY <1>1, <2>1, <2>2, ShownIs
<1>3. names' = names /\ texts' = texts
  BY <1>1, <1>2, Showing
<1> QED
  BY <1>3, ShowsTheSame

------------------------------------------------------------------------------
(***************************************************************************)
(* The methods.  What a method leaves of the list it is called on, every   *)
(* variable that shares the list shows, and no other.                      *)
(***************************************************************************)
LEMMA CallShows ==
    ASSUME ShownIInv, NEW v \in Variable, NEW outcomes, called(v, outcomes), phase' = "running",
           \A t \in outcomes : Allowed(here(v), t)
    PROVE  \E t \in outcomes : t.went = "running" /\ Reference!change(v, textOf(t))
<1>1. /\ ready /\ owner[v] # NoObject /\ owner' = owner /\ doing' = doing
  BY DEF called, vars
<1>2. PICK t \in outcomes :
        /\ heap' = t.heap
        /\ fields' = [fields EXCEPT ![v] = t.list]
        /\ phase' = IF t.went = "running" /\ t.list # fields[v] /\ Cardinality(Owners(owner[v])) > 1
                    THEN "strayed" ELSE t.went
  BY DEF called
<1>3. /\ Memory(owned, heap, status) /\ doing = <<>> /\ Emptied /\ fields \in [Variable -> ListRecord]
      /\ heap \in Seq(Block)
  BY <1>1, BetweenStatements DEF ShownIInv
<1>4. t.went = "running" /\ (t.list = fields[v] \/ ~(Cardinality(Owners(owner[v])) > 1))
  BY <1>2
<1>5. here(v).heap = heap /\ here(v).list = fields[v]
  BY <1>1, CallBegins DEF ShownIInv
<1>6. /\ t \in CallState /\ Holds(t.heap, t.list) /\ Along(heap, fields[v].ptr, t.heap, t.list.ptr)
  BY <1>2, <1>4, <1>5 DEF Allowed, Sound
<1>7. fields'[v] = t.list /\ \A w \in Variable : w # v => fields'[w] = fields[w]
  BY <1>2, <1>3
<1>8. textAt(heap', t.list) = textOf(t)
  BY <1>2, <1>6, Contents DEF textAt, textOf, CallState
<1>9. ASSUME NEW w \in Variable
      PROVE  textAt(heap', fields'[w]) = IF owner[w] = owner[v] THEN textOf(t) ELSE textAt(heap, fields[w])
  <2> DEFINE x == held(owner[v], fields[v])
             y == held(owner[w], fields[w])
  <2>1. /\ x.counter = owner[v] /\ x.list = fields[v] /\ y.counter = owner[w] /\ y.list = fields[w]
        /\ x \in owned /\ (owner[w] # NoObject => y \in owned)
    BY <1>1 DEF held, owned
  <2> HIDE DEF x, y
  <2>2. CASE owner[w] = owner[v]
    <3>1. w # v => fields[w] = fields[v]
      BY <1>1, <1>3, <2>1, <2>2 DEF Memory
    <3>2. w # v => t.list = fields[v]
      BY <1>4, <2>2, OnlyHolder
    <3>3. fields'[w] = t.list
      BY <1>7, <3>1, <3>2
    <3> QED
      BY <1>8, <2>2, <3>3
  <2>3. CASE owner[w] = NoObject
    <3>1. fields[w].length = 0 /\ fields'[w] = fields[w]
      BY <1>1, <1>3, <1>7, <2>3 DEF Emptied
    <3>2. textAt(heap', fields[w]) = textAt(heap, fields[w])
      BY <3>1, SameText
    <3> QED
      BY <1>1, <2>3, <3>1, <3>2
  <2>4. CASE owner[w] # owner[v] /\ owner[w] # NoObject
    <3>1. fields[w].ptr # fields[v].ptr /\ isLive(heap, fields[w].ptr)
      BY <1>3, <2>1, <2>4 DEF Memory, Holds
    <3>2. /\ fields[w].ptr \in DOMAIN heap /\ fields[w].ptr \in DOMAIN heap'
          /\ heap'[fields[w].ptr] = heap[fields[w].ptr]
      BY <1>2, <1>6, <3>1 DEF Along, isLive
    <3>3. textAt(heap', fields[w]) = textAt(heap, fields[w]) /\ fields'[w] = fields[w]
      BY <1>7, <2>4, <3>2, SameText
    <3> QED
      BY <2>4, <3>3
  <2> QED
    BY <2>2, <2>3, <2>4
<1>10. ASSUME NEW w \in Variable
       PROVE  /\ nameOf(w) = owner[w] /\ listOf(w) = fields[w]
              /\ nameOf(w)' = owner[w] /\ listOf(w)' = fields'[w]
  <2>1. nameIn(<<>>, owner', w) = owner'[w] /\ listIn(<<>>, fields', w) = fields'[w]
    BY ShownBetween
  <2>2. nameOf(w) = owner[w] /\ listOf(w) = fields[w]
    BY <1>3, ShowsItsOwn
  <2> QED
    BY <1>1, <1>3, <2>1, <2>2, ShownIs
<1>11. names' = names /\ names[v] # NoObject
  BY <1>1, <1>10, Showing
<1>12. texts' = [w \in Variable |-> IF names[w] = names[v] THEN textOf(t) ELSE texts[w]]
  <2>1. \A w \in Variable : textAt(heap', listOf(w)') = IF names[w] = names[v] THEN textOf(t) ELSE texts[w]
    BY <1>9, <1>10, Showing
  <2> QED
    BY <2>1, Showing
<1>13. Reference!change(v, textOf(t))
  BY <1>11, <1>12 DEF Reference!change, names, texts, textAt
<1> QED
  BY <1>4, <1>13

\* Variables that share a list show the same.
LEMMA SharersShowTheSame ==
    ASSUME SharedIInv, ready, NEW v \in Variable, NEW w \in Variable,
           owner[v] # NoObject, names[w] = names[v]
    PROVE  texts[w] = texts[v]
<1> DEFINE x == held(owner[v], fields[v])
           y == held(owner[w], fields[w])
<1>1. Memory(owned, heap, status) /\ doing = <<>>
  BY BetweenStatements
<1>2. /\ nameOf(v) = owner[v] /\ listOf(v) = fields[v]
      /\ nameOf(w) = owner[w] /\ listOf(w) = fields[w]
  BY <1>1, ShowsItsOwn
<1>3. owner[w] = owner[v]
  BY <1>2, Showing
<1>4. /\ x.counter = owner[v] /\ x.list = fields[v] /\ y.counter = owner[w] /\ y.list = fields[w]
      /\ x \in owned /\ y \in owned
  BY <1>3 DEF held, owned
<1> HIDE DEF x, y
<1>5. fields[w] = fields[v]
  BY <1>1, <1>3, <1>4 DEF Memory
<1> QED
  BY <1>2, <1>5, Showing

LEMMA AppendShows ==
    ASSUME ShownIInv, NEW v \in Variable, AppendItem(v), phase' = "running"
    PROVE  \E x \in Value : Reference!AppendTo(v, <<x>>)
<1> DEFINE s == here(v)
<1>1. ready /\ owner[v] # NoObject
  BY DEF AppendItem, called
<1>2. Standing(s) /\ textOf(s) = texts[v]
  BY <1>1, CallStands DEF ShownIInv
<1>3. PICK x \in Value : called(v, append(s, x))
  BY DEF AppendItem
<1> HIDE DEF s
<1>4. \A t \in append(s, x) : Allowed(s, t)
  BY <1>2, AppendAllowed DEF Standing
<1>5. PICK t \in append(s, x) : t.went = "running" /\ Reference!change(v, textOf(t))
  BY <1>3, <1>4, CallShows DEF s
<1>6. textOf(t) = texts[v] \o <<x>>
  BY <1>2, <1>5, AppendText
<1> QED
  BY <1>5, <1>6 DEF Reference!AppendTo, texts, textAt

LEMMA AppendArrayShows ==
    ASSUME ShownIInv, NEW v \in Variable, AppendItems(v), phase' = "running"
    PROVE  \E a \in Arrays : Reference!AppendTo(v, a)
<1> DEFINE s == here(v)
<1>1. ready /\ owner[v] # NoObject
  BY DEF AppendItems, called
<1>2. Standing(s) /\ textOf(s) = texts[v]
  BY <1>1, CallStands DEF ShownIInv
<1>3. PICK a \in Arrays : called(v, appendArray(s, a))
  BY DEF AppendItems
<1> HIDE DEF s
<1>4. \A t \in appendArray(s, a) : Allowed(s, t)
  BY <1>2, AppendArrayAllowed DEF Standing
<1>5. PICK t \in appendArray(s, a) : t.went = "running" /\ Reference!change(v, textOf(t))
  BY <1>3, <1>4, CallShows DEF s
<1>6. textOf(t) = texts[v] \o a
  BY <1>2, <1>5, AppendArrayText
<1> QED
  BY <1>5, <1>6 DEF Reference!AppendTo, texts, textAt

LEMMA SetItemShows ==
    ASSUME ShownIInv, NEW v \in Variable, SetItem(v), phase' = "running"
    PROVE  \E x \in Value : \E i \in DOMAIN texts[v] : Reference!SetItem(v, i, x)
<1> DEFINE s == here(v)
<1>1. ready /\ owner[v] # NoObject
  BY DEF SetItem, called
<1>2. Standing(s) /\ textOf(s) = texts[v]
  BY <1>1, CallStands DEF ShownIInv
<1>3. PICK x \in Value, index \in 0 .. fields[v].length : called(v, {setItem(s, index, x)})
  BY DEF SetItem
<1>4. index \in Nat
  OBVIOUS
<1> HIDE DEF s
<1> PICK t : t = setItem(s, index, x)
  OBVIOUS
<1>5. Allowed(s, t)
  <2>1. /\ isLive(s.heap, s.list.ptr) /\ s.list.capacity = Len(s.heap[s.list.ptr].slots)
        /\ s.list.length <= s.list.capacity /\ s \in CallState /\ s.went = "running"
    BY <1>2 DEF Standing, Holds
  <2> QED
    BY <1>2, <1>4, <2>1, SetItemAllowed DEF Standing
<1>6. t.went = "running" /\ Reference!change(v, textOf(t))
  <2>1. called(v, {t}) /\ \A u \in {t} : Allowed(s, u)
    BY <1>3, <1>5
  <2>2. \E u \in {t} : u.went = "running" /\ Reference!change(v, textOf(u))
    BY <2>1, CallShows DEF s
  <2> QED
    BY <2>2
<1>7. index + 1 \in DOMAIN texts[v] /\ textOf(t) = [texts[v] EXCEPT ![index + 1] = x]
  BY <1>2, <1>4, <1>6, SetItemText
<1>8. Reference!SetItem(v, index + 1, x)
  BY <1>6, <1>7 DEF Reference!SetItem, texts, textAt
<1> QED
  BY <1>7, <1>8

LEMMA PopShows ==
    ASSUME ShownIInv, NEW v \in Variable, Pop(v), phase' = "running"
    PROVE  UNCHANGED Reference!vars \/ Reference!Pop(v)
<1> DEFINE s == here(v)
<1>1. ready /\ owner[v] # NoObject
  BY DEF Pop, called
<1>2. Standing(s) /\ textOf(s) = texts[v]
  BY <1>1, CallStands DEF ShownIInv
<1>3. called(v, {pop(s)})
  BY DEF Pop
<1> HIDE DEF s
<1> PICK t : t = pop(s)
  OBVIOUS
<1>4. t.went = "running" /\ Reference!change(v, textOf(t))
  <2>1. called(v, {t}) /\ \A u \in {t} : Allowed(s, u)
    BY <1>2, <1>3, PopAllowed DEF Standing
  <2>2. \E u \in {t} : u.went = "running" /\ Reference!change(v, textOf(u))
    BY <2>1, CallShows DEF s
  <2> QED
    BY <2>2
<1>5. /\ texts[v] \in Seq(Element) /\ Len(texts[v]) = s.list.length /\ s.list.length \in Nat
      /\ s.list.capacity = Len(slotsOf(s)) /\ s.list.length <= s.list.capacity
      /\ isLive(s.heap, s.list.ptr)
  BY <1>2, Stands
<1>6. CASE s.list.length = 0
  <2>1. textOf(t) = texts[v]
    BY <1>2, <1>6 DEF pop
  <2>2. names' = names /\ texts' = [w \in Variable |-> IF names[w] = names[v] THEN textOf(t) ELSE texts[w]]
    BY <1>4 DEF Reference!change, names, texts, textAt
  <2>3. \A w \in Variable : names[w] = names[v] => texts[w] = texts[v]
    BY <1>1, SharersShowTheSame DEF ShownIInv
  <2>4. texts' = texts
    BY <2>1, <2>2, <2>3, Showing
  <2> QED
    BY <2>2, <2>4, ShowsTheSame
<1>7. CASE s.list.length # 0
  <2> DEFINE n == s.list.length - 1
  <2>1. n \in Nat /\ n <= s.list.length
    BY <1>5, <1>7
  <2>2. t = withLength(s, n)
    <3>1. ~(s.list.length > Len(s.heap[s.list.ptr].slots))
      BY <1>2, <1>5, Stands DEF slotsOf
    <3> QED
      BY <1>5, <1>7, <3>1 DEF pop
  <2>3. textOf(t) = SubSeq(texts[v], 1, n)
    BY <1>2, <2>1, <2>2, PopText
  <2>4. texts[v] # <<>> /\ n = Len(texts[v]) - 1
    BY <1>5, <1>7
  <2> HIDE DEF n
  <2> QED
    BY <1>4, <2>3, <2>4 DEF Reference!Pop, texts, textAt
<1> QED
  BY <1>6, <1>7

LEMMA ClearShows ==
    ASSUME ShownIInv, NEW v \in Variable, Clear(v), phase' = "running"
    PROVE  Reference!Clear(v)
<1> DEFINE s == here(v)
<1>1. ready /\ owner[v] # NoObject
  BY DEF Clear, called
<1>2. Standing(s) /\ textOf(s) = texts[v]
  BY <1>1, CallStands DEF ShownIInv
<1>3. called(v, {clear(s)})
  BY DEF Clear
<1> HIDE DEF s
<1> PICK t : t = clear(s)
  OBVIOUS
<1>4. t.went = "running" /\ Reference!change(v, textOf(t))
  <2>1. called(v, {t}) /\ \A u \in {t} : Allowed(s, u)
    BY <1>2, <1>3, PopAllowed DEF Standing
  <2>2. \E u \in {t} : u.went = "running" /\ Reference!change(v, textOf(u))
    BY <2>1, CallShows DEF s
  <2> QED
    BY <2>2
<1>5. textOf(t) = <<>>
  <2>1. t = withLength(s, 0) /\ s.list.length >= 0 /\ texts[v] \in Seq(Element)
    BY <1>2, Stands DEF clear
  <2>2. textOf(t) = SubSeq(texts[v], 1, 0)
    BY <1>2, <2>1, PopText
  <2> QED
    BY <2>1, <2>2
<1> QED
  BY <1>4, <1>5 DEF Reference!Clear

------------------------------------------------------------------------------
LEMMA ShownInductive == SharedSpec => []ShownIInv
<1>1. SharedInit => Emptied
  <2>1. NoList.length = 0
    BY DEF NoList, record
  <2> QED
    BY <2>1 DEF SharedInit, Emptied
<1>2. SharedIInv /\ Emptied /\ [SharedNext]_<<vars, listVars>> => Emptied'
  BY StaysEmptied
<1> QED
  BY <1>1, <1>2, SharedInductive, PTL DEF SharedSpec, ShownIInv

LEMMA StepShows ==
    ASSUME ShownIInv, SharedNext, phase' = "running"
    PROVE  Reference!Next(Arrays) \/ UNCHANGED Reference!vars
<1>1. CASE RetainStep \/ StoreStep
  BY <1>1, RetainShows, StoreShows
<1>2. CASE ReleaseStep
  BY <1>2, ReleaseShows DEF Reference!Next
<1>3. ASSUME NEW v \in Variable, List(v) \/ FromPreAllocated(v)
      PROVE  Reference!Next(Arrays)
  BY <1>3, ListShows DEF Reference!Next
<1>4. ASSUME NEW v \in Variable, Clone(v) PROVE Reference!Next(Arrays)
  <2>1. PICK o \in Object, w \in Variable : Reference!New(v, o, texts[w])
    BY <1>4, CloneShows
  <2> QED
    BY <2>1 DEF Reference!Next, texts, textAt
<1>5. ASSUME NEW v \in Variable, Copy(v) PROVE Reference!Next(Arrays)
  BY <1>5, CopyShows DEF Reference!Next
<1>6. ASSUME NEW v \in Variable, Leave(v) PROVE UNCHANGED Reference!vars
  BY <1>6, LeaveShows
<1>7. ASSUME NEW v \in Variable, AppendItem(v) \/ AppendItems(v) PROVE Reference!Next(Arrays)
  BY <1>7, AppendShows, AppendArrayShows DEF Reference!Next
<1>8. ASSUME NEW v \in Variable, SetItem(v) PROVE Reference!Next(Arrays)
  <2>1. PICK x \in Value, i \in DOMAIN texts[v] : Reference!SetItem(v, i, x)
    BY <1>8, SetItemShows
  <2> QED
    BY <2>1 DEF Reference!Next, texts, textAt
<1>9. ASSUME NEW v \in Variable, Pop(v) \/ Clear(v)
      PROVE  Reference!Next(Arrays) \/ UNCHANGED Reference!vars
  BY <1>9, PopShows, ClearShows DEF Reference!Next
<1> QED
  BY <1>1, <1>2, <1>3, <1>4, <1>5, <1>6, <1>7, <1>8, <1>9 DEF SharedNext

(***************************************************************************)
(* CopiedByReference: every statement and every method of List.shtk does   *)
(* to what the variables show what it would do to names of one list        *)
(* (LanguageGuide.md:1680), until a list strays or a check ends the run.   *)
(***************************************************************************)
THEOREM SharedByReference == SharedSpec => CopiedByReference
<1>1. ShownIInv /\ [SharedNext]_<<vars, listVars>>
        => [phase' = "running" => Reference!Next(Arrays) \/ UNCHANGED Reference!vars]_<<vars, listVars>>
  BY StepShows
<1> QED
  BY <1>1, ShownInductive, PTL DEF SharedSpec, CopiedByReference

================================================================================
