----------------------- MODULE RemotableResourceProofs -----------------------
(***************************************************************************)
(* The memory of remotable_resource and noncoll_mem: for every window,     *)
(* page and block size, every set of ranks and every set of requests, the  *)
(* linked list and the freelists account for every byte once, no object is *)
(* reclaimed under its user, and a collection finds every flag.            *)
(*                                                                         *)
(* First what get and add do to the free bytes of a freelist, then what    *)
(* the two resources do to a heap, then the list of headers, and last the  *)
(* invariant of the whole and its steps.                                   *)
(***************************************************************************)
EXTENDS RemotableResource, FiniteSetTheorems, WellFoundedInduction, TLAPS

-----------------------------------------------------------------------------
(* Freelists.                                                               *)

Ranges == [addr : Nat, size : Nat \ {0}]

\* A freelist: ranges in the order of their addresses, no two of which touch.
Ordered(fl) ==
  /\ fl \in Seq(Ranges)
  /\ \A i, j \in DOMAIN fl : i < j => EndOf(fl[i]) < fl[j].addr

\* An ordered freelist is as the model checker looks at it: neighbours only.
LEMMA OrderedIsCoalesced ==
  ASSUME NEW fl, Ordered(fl)
  PROVE  Coalesced(fl)
<1>1. fl \in Seq(Ranges) /\ \A i, j \in DOMAIN fl : i < j => EndOf(fl[i]) < fl[j].addr
  BY DEF Ordered
<1>2. PICK l \in Nat : l = Len(fl) /\ DOMAIN fl = 1..l
  BY <1>1
<1>3. \A i \in 1..l : fl[i] \in Ranges
  BY <1>1, <1>2
<1>4. \A i \in 1..l : fl[i].size > 0
  BY <1>3 DEF Ranges
<1>5. \A i \in 1..(l - 1) : EndOf(fl[i]) < fl[i + 1].addr
  BY <1>1, <1>2
<1>6. QED
  BY <1>2, <1>4, <1>5 DEF Coalesced

-----------------------------------------------------------------------------
(* Numbers, sequences and ranges.                                           *)

\* A nonempty set of numbers has a least element.
LEMMA MinIs ==
  ASSUME NEW S \in SUBSET Nat, S # {}
  PROVE  Min(S) \in S /\ \A j \in S : Min(S) <= j
<1>1. \E x \in S : \A y \in S : ~ (<<y, x>> \in OpToRel(<, Nat))
  BY WFMin, NatLessThanWellFounded, Zenon
<1>2. PICK x \in S : \A y \in S : ~ (<<y, x>> \in OpToRel(<, Nat))
  BY <1>1
<1>3. \A y \in S : ~(y < x)
  BY <1>2 DEF OpToRel
<1>4. \A y \in S : x <= y
  BY <1>3
<1>5. QED
  BY <1>4 DEF Min

\* A list without the element at one position.
LEMMA RemoveAtIs ==
  ASSUME NEW S, NEW s \in Seq(S), NEW i \in 1..Len(s)
  PROVE  /\ RemoveAt(s, i) \in Seq(S)
         /\ DOMAIN RemoveAt(s, i) = 1..(Len(s) - 1)
         /\ \A j \in 1..(Len(s) - 1) : RemoveAt(s, i)[j] = IF j < i THEN s[j] ELSE s[j + 1]
<1>1. PICK n \in Nat : n = Len(s)
  OBVIOUS
<1> DEFINE p == SubSeq(s, 1, i - 1)
           q == SubSeq(s, i + 1, Len(s))
<1>2. p \in Seq(S) /\ Len(p) = i - 1 /\ \A j \in 1..(i - 1) : p[j] = s[j]
  OBVIOUS
<1>3. q \in Seq(S) /\ Len(q) = n - i /\ \A j \in 1..(n - i) : q[j] = s[i + j]
  BY <1>1
<1> HIDE DEF p, q
<1>4. p \o q \in Seq(S) /\ Len(p \o q) = n - 1
  BY <1>1, <1>2, <1>3
<1>5. \A j \in 1..(n - 1) : (p \o q)[j] = IF j < i THEN s[j] ELSE s[j + 1]
  <2>1. TAKE j \in 1..(n - 1)
  <2>2. CASE j < i
    BY <1>1, <1>2, <1>3, <2>2
  <2>3. CASE ~(j < i)
    <3>1. (p \o q)[j] = q[j - (i - 1)]
      BY <1>1, <1>2, <1>3, <2>3
    <3>2. j - (i - 1) \in 1..(n - i) /\ i + (j - (i - 1)) = j + 1
      BY <1>1, <2>3
    <3>3. QED
      BY <1>3, <2>3, <3>1, <3>2
  <2>4. QED
    BY <2>2, <2>3
<1>6. RemoveAt(s, i) = p \o q
  BY DEF RemoveAt, p, q
<1>7. QED
  BY <1>1, <1>4, <1>5, <1>6

\* A list with one more element at a position.
LEMMA InsertAtIs ==
  ASSUME NEW s \in Seq(Ranges), NEW i \in 1..Len(s), NEW e \in Ranges
  PROVE  /\ InsertAt(s, i, e) \in Seq(Ranges)
         /\ DOMAIN InsertAt(s, i, e) = 1..(Len(s) + 1)
         /\ InsertAt(s, i, e)[i] = e
         /\ \A j \in 1..(i - 1) : InsertAt(s, i, e)[j] = s[j]
         /\ \A j \in (i + 1)..(Len(s) + 1) : InsertAt(s, i, e)[j] = s[j - 1]
<1>1. PICK n \in Nat : n = Len(s)
  OBVIOUS
<1> DEFINE p == SubSeq(s, 1, i - 1) \o <<e>>
           q == SubSeq(s, i, Len(s))
<1>2. p \in Seq(Ranges) /\ Len(p) = i /\ p[i] = e /\ \A j \in 1..(i - 1) : p[j] = s[j]
  OBVIOUS
<1>3. q \in Seq(Ranges) /\ Len(q) = n - i + 1 /\ \A j \in 1..(n - i + 1) : q[j] = s[i + j - 1]
  BY <1>1
<1> HIDE DEF p, q
<1>4. p \o q \in Seq(Ranges) /\ Len(p \o q) = n + 1
  <2>1. i + (n - i + 1) = n + 1
    BY <1>1
  <2>2. Len(p \o q) = Len(p) + Len(q)
    BY <1>2, <1>3
  <2>3. p \o q \in Seq(Ranges)
    BY <1>2, <1>3
  <2>4. QED
    BY <1>2, <1>3, <2>1, <2>2, <2>3
<1>5. \A j \in 1..(n + 1) : (p \o q)[j] = IF j < i THEN s[j] ELSE IF j = i THEN e ELSE s[j - 1]
  <2>1. TAKE j \in 1..(n + 1)
  <2>2. CASE j <= i
    <3>1. (p \o q)[j] = p[j]
      BY <1>2, <1>3, <2>2
    <3>2. j = i \/ (j \in 1..(i - 1) /\ j < i)
      BY <2>2
    <3>3. QED
      BY <1>2, <3>1, <3>2
  <2>3. CASE ~(j <= i)
    <3>1. (p \o q)[j] = q[j - i]
      BY <1>1, <1>2, <1>3, <2>3
    <3>2. j - i \in 1..(n - i + 1) /\ i + (j - i) - 1 = j - 1
      BY <1>1, <2>3
    <3>3. QED
      BY <1>3, <2>3, <3>1, <3>2
  <2>4. QED
    BY <2>2, <2>3
<1>6. InsertAt(s, i, e) = p \o q
  BY DEF InsertAt, p, q
<1>7. QED
  BY <1>1, <1>4, <1>5, <1>6

\* The free bytes are those of the ranges.
LEMMA FreeBytesIs ==
  ASSUME NEW fl \in Seq(Ranges), NEW x
  PROVE  x \in FreeBytes(fl) <=> \E i \in DOMAIN fl : x \in Int /\ fl[i].addr <= x /\ x < EndOf(fl[i])
<1>1. \A i \in DOMAIN fl : fl[i] \in Ranges
  OBVIOUS
<1>2. \A i \in DOMAIN fl : fl[i].addr \in Nat /\ fl[i].size \in Nat
  BY <1>1 DEF Ranges
<1>3. \A i \in DOMAIN fl : x \in Bytes(fl[i].addr, fl[i].size) <=> x \in Int /\ fl[i].addr <= x /\ x < EndOf(fl[i])
  BY <1>2 DEF Bytes, EndOf
<1>4. QED
  BY <1>3 DEF FreeBytes

\* The bytes of a range.
LEMMA InBytes ==
  ASSUME NEW a \in Int, NEW n \in Int, NEW x
  PROVE  x \in Bytes(a, n) <=> x \in Int /\ a <= x /\ x < a + n
BY DEF Bytes

\* What an ordered list holds, in the terms that the proofs below use.
LEMMA OrderedIs ==
  ASSUME NEW fl, Ordered(fl)
  PROVE  /\ fl \in Seq(Ranges) /\ Len(fl) \in Nat /\ DOMAIN fl = 1..Len(fl)
         /\ \A i \in 1..Len(fl) : /\ fl[i] \in Ranges
                                 /\ fl[i].addr \in Nat /\ fl[i].size \in Nat \ {0}
                                 /\ EndOf(fl[i]) \in Nat /\ EndOf(fl[i]) = fl[i].addr + fl[i].size
                                 /\ fl[i].addr < EndOf(fl[i])
         /\ \A i, j \in 1..Len(fl) : i < j => EndOf(fl[i]) < fl[j].addr
<1>1. fl \in Seq(Ranges) /\ \A i, j \in DOMAIN fl : i < j => EndOf(fl[i]) < fl[j].addr
  BY DEF Ordered
<1>2. Len(fl) \in Nat /\ DOMAIN fl = 1..Len(fl)
  BY <1>1
<1>3. \A i \in 1..Len(fl) : fl[i] \in Ranges
  BY <1>1, <1>2
<1>4. \A i \in 1..Len(fl) : fl[i].addr \in Nat /\ fl[i].size \in Nat \ {0}
  BY <1>3 DEF Ranges
<1>5. \A i \in 1..Len(fl) : EndOf(fl[i]) = fl[i].addr + fl[i].size
  BY DEF EndOf
<1>6. \A i \in 1..Len(fl) : EndOf(fl[i]) \in Nat /\ fl[i].addr < EndOf(fl[i])
  BY <1>4, <1>5
<1>7. QED
  BY <1>1, <1>2, <1>3, <1>4, <1>5, <1>6

\* The fields of a range.
LEMMA EntryFields ==
  ASSUME NEW a \in Nat, NEW n \in Nat \ {0}
  PROVE  Entry(a, n) \in Ranges /\ Entry(a, n).addr = a /\ Entry(a, n).size = n /\ EndOf(Entry(a, n)) = a + n
BY DEF Entry, Ranges, EndOf

-----------------------------------------------------------------------------
(* get without alignment.                                                   *)

\* The list of which range i has given up its lower n bytes.
TakeAt(fl, i, n) ==
  IF fl[i].size = n THEN RemoveAt(fl, i)
  ELSE [fl EXCEPT ![i] = Entry(fl[i].addr + n, fl[i].size - n)]

\* A range of the list gives up its lower end or all of it.
LEMMA TakeFrom ==
  ASSUME NEW fl, Ordered(fl), NEW i \in DOMAIN fl, NEW n \in Nat \ {0}, fl[i].size >= n,
         NEW g, g = TakeAt(fl, i, n)
  PROVE  /\ Ordered(g)
         /\ Bytes(fl[i].addr, n) \subseteq FreeBytes(fl)
         /\ FreeBytes(g) = FreeBytes(fl) \ Bytes(fl[i].addr, n)
<1>1. fl \in Seq(Ranges) /\ \A h, j \in DOMAIN fl : h < j => EndOf(fl[h]) < fl[j].addr
  BY DEF Ordered
<1>2. PICK l \in Nat : l = Len(fl) /\ DOMAIN fl = 1..l
  BY <1>1
<1>3. \A j \in 1..l : fl[j] \in Ranges /\ fl[j].addr \in Nat /\ fl[j].size \in Nat \ {0}
                      /\ EndOf(fl[j]) = fl[j].addr + fl[j].size /\ EndOf(fl[j]) \in Nat
  BY <1>2, OrderedIs
<1>4. PICK a \in Nat, k \in Nat \ {0} : a = fl[i].addr /\ k = fl[i].size /\ n <= k /\ EndOf(fl[i]) = a + k
  BY <1>2, <1>3
<1>5. \A x : x \in Bytes(a, n) <=> x \in Int /\ a <= x /\ x < a + n
  BY InBytes
<1>6. Bytes(a, n) \subseteq FreeBytes(fl)
  <2>1. ASSUME NEW x \in Bytes(a, n)
        PROVE  x \in Int /\ fl[i].addr <= x /\ x < EndOf(fl[i])
    BY <1>4, <1>5
  <2>2. QED
    BY <1>1, <2>1, FreeBytesIs
<1>7. ASSUME NEW j \in 1..l, j # i, NEW x \in Int, fl[j].addr <= x, x < EndOf(fl[j])
      PROVE  x \notin Bytes(a, n)
  <2>1. CASE j < i
    <3>1. EndOf(fl[j]) < a
      BY <1>1, <1>2, <1>4, <2>1
    <3>2. x < a
      BY <1>3, <1>4, <1>7, <3>1
    <3>3. QED
      BY <1>5, <3>2
  <2>2. CASE i < j
    <3>1. a + k < fl[j].addr
      BY <1>1, <1>2, <1>4, <2>2
    <3>2. a + k < x /\ a + n <= a + k
      BY <1>3, <1>4, <1>7, <3>1
    <3>3. QED
      BY <1>4, <1>5, <3>2
  <2>3. QED
    BY <1>2, <1>7, <2>1, <2>2
<1>8. CASE k = n
  <2>1. g = RemoveAt(fl, i)
    BY <1>4, <1>8 DEF TakeAt
  <2>2. /\ g \in Seq(Ranges) /\ DOMAIN g = 1..(l - 1)
        /\ \A j \in 1..(l - 1) : g[j] = IF j < i THEN fl[j] ELSE fl[j + 1]
    BY <1>1, <1>2, <2>1, RemoveAtIs
  <2>3. ASSUME NEW h \in DOMAIN g, NEW j \in DOMAIN g, h < j
        PROVE  EndOf(g[h]) < g[j].addr
    <3>1. h \in 1..(l - 1) /\ j \in 1..(l - 1)
      BY <2>2
    <3>2. PICK u \in 1..l : u = IF h < i THEN h ELSE h + 1
      BY <3>1
    <3>3. PICK v \in 1..l : v = IF j < i THEN j ELSE j + 1
      BY <3>1
    <3>4. u < v
      BY <1>2, <2>3, <3>1, <3>2, <3>3
    <3>5. g[h] = fl[u] /\ g[j] = fl[v]
      BY <2>2, <3>1, <3>2, <3>3
    <3>6. QED
      BY <1>1, <1>2, <3>4, <3>5
  <2>4. Ordered(g)
    BY <2>2, <2>3 DEF Ordered
  <2>5. ASSUME NEW x \in FreeBytes(g)
        PROVE  x \in FreeBytes(fl) \ Bytes(a, n)
    <3>1. PICK j \in 1..(l - 1) : x \in Int /\ g[j].addr <= x /\ x < EndOf(g[j])
      BY <2>2, FreeBytesIs
    <3>2. PICK v \in 1..l : g[j] = fl[v] /\ v # i
      BY <1>2, <2>2
    <3>3. x \notin Bytes(a, n)
      BY <1>7, <3>1, <3>2
    <3>4. QED
      BY <1>1, <1>2, <3>1, <3>2, <3>3, FreeBytesIs
  <2>6. ASSUME NEW x \in FreeBytes(fl), x \notin Bytes(a, n)
        PROVE  x \in FreeBytes(g)
    <3>1. PICK j \in 1..l : x \in Int /\ fl[j].addr <= x /\ x < EndOf(fl[j])
      BY <1>1, <1>2, FreeBytesIs
    <3>2. j # i
      BY <1>4, <1>5, <1>8, <2>6, <3>1
    <3>3. PICK v \in 1..(l - 1) : v = IF j < i THEN j ELSE j - 1
      BY <1>2, <3>2
    <3>4. g[v] = fl[j]
      BY <1>2, <2>2, <3>2, <3>3
    <3>5. QED
      BY <2>2, <3>1, <3>4, FreeBytesIs
  <2>7. QED
    BY <1>4, <1>6, <2>4, <2>5, <2>6
<1>9. CASE k # n
  <2>1. PICK b \in Nat, m \in Nat \ {0} : b = a + n /\ m = k - n
    BY <1>4, <1>9
  <2>2. g = [fl EXCEPT ![i] = Entry(b, m)] /\ Entry(b, m) \in Ranges
    BY <1>4, <1>9, <2>1, EntryFields DEF TakeAt
  <2>3. /\ g \in Seq(Ranges) /\ DOMAIN g = 1..l
        /\ g[i] = Entry(b, m) /\ \A j \in 1..l : j # i => g[j] = fl[j]
    BY <1>1, <1>2, <2>2
  <2>4. g[i].addr = b /\ EndOf(g[i]) = b + m /\ a <= b /\ b + m = a + k
    <3>1. Entry(b, m).addr = b /\ EndOf(Entry(b, m)) = b + m
      BY EntryFields
    <3>2. a <= b /\ b + m = a + k
      BY <1>4, <2>1
    <3>3. QED
      BY <2>3, <3>1, <3>2
  <2>5. ASSUME NEW h \in DOMAIN g, NEW j \in DOMAIN g, h < j
        PROVE  EndOf(g[h]) < g[j].addr
    <3>1. h \in 1..l /\ j \in 1..l /\ EndOf(fl[h]) < fl[j].addr
      BY <1>1, <1>2, <2>3, <2>5
    <3>2. EndOf(g[h]) = EndOf(fl[h]) /\ fl[j].addr <= g[j].addr
      <4>1. EndOf(g[h]) = EndOf(fl[h])
        BY <1>4, <2>3, <2>4, <3>1
      <4>2. fl[j].addr <= g[j].addr
        <5>1. CASE j = i
          BY <1>4, <2>4, <5>1
        <5>2. CASE j # i
          <6>1. g[j] = fl[j] /\ fl[j].addr \in Nat
            BY <1>3, <2>3, <3>1, <5>2
          <6>2. QED
            BY <6>1
        <5>3. QED
          BY <5>1, <5>2
      <4>3. QED
        BY <4>1, <4>2
    <3>3. g[j] \in Ranges
      BY <2>3
    <3>4. g[j].addr \in Nat
      BY <3>3 DEF Ranges
    <3>5. QED
      BY <1>3, <3>1, <3>2, <3>4
  <2>6. Ordered(g)
    BY <2>3, <2>5 DEF Ordered
  <2>7. ASSUME NEW x \in FreeBytes(g)
        PROVE  x \in FreeBytes(fl) \ Bytes(a, n)
    <3>1. PICK j \in 1..l : x \in Int /\ g[j].addr <= x /\ x < EndOf(g[j])
      BY <2>3, FreeBytesIs
    <3>2. CASE j = i
      <4>1. fl[j].addr <= x /\ x < EndOf(fl[j]) /\ a + n <= x
        BY <1>4, <2>1, <2>4, <3>1, <3>2
      <4>2. x \notin Bytes(a, n)
        BY <1>4, <1>5, <3>1, <4>1
      <4>3. QED
        BY <1>1, <1>2, <3>1, <4>1, <4>2, FreeBytesIs
    <3>3. CASE j # i
      <4>1. g[j] = fl[j]
        BY <2>3, <3>3
      <4>2. x \notin Bytes(a, n)
        BY <1>7, <3>1, <3>3, <4>1
      <4>3. QED
        BY <1>1, <1>2, <3>1, <4>1, <4>2, FreeBytesIs
    <3>4. QED
      BY <3>2, <3>3
  <2>8. ASSUME NEW x \in FreeBytes(fl), x \notin Bytes(a, n)
        PROVE  x \in FreeBytes(g)
    <3>1. PICK j \in 1..l : x \in Int /\ fl[j].addr <= x /\ x < EndOf(fl[j])
      BY <1>1, <1>2, FreeBytesIs
    <3>2. g[j].addr <= x /\ x < EndOf(g[j])
      <4>1. CASE j = i
        BY <1>4, <1>5, <2>1, <2>4, <2>8, <3>1, <4>1
      <4>2. CASE j # i
        BY <2>3, <3>1, <4>2
      <4>3. QED
        BY <4>1, <4>2
    <3>3. QED
      BY <2>3, <3>1, <3>2, FreeBytesIs
  <2>9. QED
    BY <1>4, <1>6, <2>6, <2>7, <2>8
<1>10. QED
  BY <1>8, <1>9

\* get: the bytes that it returns were free, and are not any more.
LEMMA GetIs ==
  ASSUME NEW fl, Ordered(fl), NEW n \in Nat \ {0}
  PROVE  LET s == Get(fl, n) IN
         /\ s.found \in BOOLEAN
         /\ ~s.found => s.fl = fl
         /\ s.found => /\ s.addr \in Nat
                       /\ Ordered(s.fl)
                       /\ Bytes(s.addr, n) \subseteq FreeBytes(fl)
                       /\ FreeBytes(s.fl) = FreeBytes(fl) \ Bytes(s.addr, n)
<1> DEFINE fits == {i \in DOMAIN fl : fl[i].size >= n}
           i == Min(fits)
           g == TakeAt(fl, i, n)
           r == [found |-> TRUE, addr |-> fl[i].addr, fl |-> g]
<1>1. CASE fits = {}
  <2>1. Get(fl, n) = NotFound(fl)
    BY <1>1 DEF Get
  <2>2. QED
    BY <2>1 DEF NotFound
<1>2. CASE fits # {}
  <2>1. fl \in Seq(Ranges)
    BY DEF Ordered
  <2>2. fits \in SUBSET Nat /\ fits \subseteq DOMAIN fl
    BY <2>1
  <2>3. i \in fits
    BY <1>2, <2>2, MinIs
  <2>4. Get(fl, n) = r
    BY <1>2 DEF Get, TakeAt
  <2>5. i \in DOMAIN fl /\ fl[i].size >= n
    BY <2>3
  <2>6. g = TakeAt(fl, i, n)
    OBVIOUS
  <2> HIDE DEF i, g, fits
  <2>7. /\ Ordered(g) /\ Bytes(fl[i].addr, n) \subseteq FreeBytes(fl)
        /\ FreeBytes(g) = FreeBytes(fl) \ Bytes(fl[i].addr, n)
    BY <2>5, <2>6, TakeFrom
  <2>8. fl[i].addr \in Nat
    BY <2>5, OrderedIs
  <2>9. QED
    BY <2>4, <2>7, <2>8
<1>3. QED
  BY <1>1, <1>2

-----------------------------------------------------------------------------
(* add.                                                                     *)

\* The list with e for range i.
Put(fl, i, e) == [fl EXCEPT ![i] = e]

\* A range of the list grows, without reaching its neighbours.
LEMMA GrowIs ==
  ASSUME NEW fl, Ordered(fl), NEW i \in DOMAIN fl, NEW b \in Nat, NEW m \in Nat \ {0},
         b <= fl[i].addr, EndOf(fl[i]) <= b + m,
         \A j \in DOMAIN fl : /\ j < i => EndOf(fl[j]) < b
                              /\ i < j => b + m < fl[j].addr
  PROVE  /\ Ordered(Put(fl, i, Entry(b, m)))
         /\ FreeBytes(Put(fl, i, Entry(b, m))) = FreeBytes(fl) \cup Bytes(b, m)
<1>1. PICK l \in Nat : l = Len(fl) /\ DOMAIN fl = 1..l /\ fl \in Seq(Ranges)
  BY OrderedIs
<1>2. \A j \in 1..l : fl[j].addr \in Nat /\ EndOf(fl[j]) \in Nat
  BY <1>1, OrderedIs
<1>3. \A j, k \in 1..l : j < k => EndOf(fl[j]) < fl[k].addr
  BY <1>1, OrderedIs
<1>4. PICK g : g = Put(fl, i, Entry(b, m))
  OBVIOUS
<1>5. Entry(b, m) \in Ranges /\ Entry(b, m).addr = b /\ EndOf(Entry(b, m)) = b + m
  BY EntryFields
<1>6. /\ g \in Seq(Ranges) /\ DOMAIN g = 1..l
      /\ g[i] = Entry(b, m) /\ \A j \in 1..l : j # i => g[j] = fl[j]
  BY <1>1, <1>4, <1>5 DEF Put
<1>7. g[i].addr = b /\ EndOf(g[i]) = b + m
  BY <1>5, <1>6
<1>8. ASSUME NEW h \in DOMAIN g, NEW j \in DOMAIN g, h < j
      PROVE  EndOf(g[h]) < g[j].addr
  <2>1. h \in 1..l /\ j \in 1..l
    BY <1>6
  <2>2. CASE h = i
    <3>1. g[j] = fl[j] /\ b + m < fl[j].addr
      BY <1>1, <1>6, <1>8, <2>1, <2>2
    <3>2. QED
      BY <1>7, <2>2, <3>1
  <2>3. CASE j = i
    <3>1. g[h] = fl[h] /\ EndOf(fl[h]) < b
      BY <1>1, <1>6, <1>8, <2>1, <2>3
    <3>2. QED
      BY <1>7, <2>3, <3>1
  <2>4. CASE h # i /\ j # i
    BY <1>3, <1>6, <1>8, <2>1, <2>4
  <2>5. QED
    BY <2>2, <2>3, <2>4
<1>9. Ordered(g)
  BY <1>6, <1>8 DEF Ordered
<1>10. ASSUME NEW x \in FreeBytes(g)
       PROVE  x \in FreeBytes(fl) \cup Bytes(b, m)
  <2>1. PICK j \in 1..l : x \in Int /\ g[j].addr <= x /\ x < EndOf(g[j])
    BY <1>6, FreeBytesIs
  <2>2. CASE j = i
    BY <1>7, <2>1, <2>2, InBytes
  <2>3. CASE j # i
    BY <1>1, <1>6, <2>1, <2>3, FreeBytesIs
  <2>4. QED
    BY <2>2, <2>3
<1>11. ASSUME NEW x \in Bytes(b, m)
       PROVE  x \in FreeBytes(g)
  <2>1. x \in Int /\ b <= x /\ x < b + m
    BY <1>11, InBytes
  <2>2. QED
    BY <1>1, <1>6, <1>7, <2>1, FreeBytesIs
<1>12. ASSUME NEW x \in FreeBytes(fl)
       PROVE  x \in FreeBytes(g)
  <2>1. PICK j \in 1..l : x \in Int /\ fl[j].addr <= x /\ x < EndOf(fl[j])
    BY <1>1, FreeBytesIs
  <2>2. CASE j = i
    <3>1. b <= x /\ x < b + m
      BY <1>1, <1>2, <2>1, <2>2
    <3>2. QED
      BY <1>11, <2>1, <3>1, InBytes
  <2>3. CASE j # i
    BY <1>6, <2>1, <2>3, FreeBytesIs
  <2>4. QED
    BY <2>2, <2>3
<1>13. QED
  BY <1>4, <1>9, <1>10, <1>11, <1>12

\* A range goes in before one that it does not reach, after all that precede it.
LEMMA InsertIs ==
  ASSUME NEW fl, Ordered(fl), NEW i \in DOMAIN fl, NEW b \in Nat, NEW m \in Nat \ {0},
         b + m < fl[i].addr, \A j \in DOMAIN fl : j < i => EndOf(fl[j]) < b
  PROVE  /\ Ordered(InsertAt(fl, i, Entry(b, m)))
         /\ FreeBytes(InsertAt(fl, i, Entry(b, m))) = FreeBytes(fl) \cup Bytes(b, m)
<1>1. PICK l \in Nat : l = Len(fl) /\ DOMAIN fl = 1..l /\ fl \in Seq(Ranges)
  BY OrderedIs
<1>2. \A j \in 1..l : fl[j].addr \in Nat /\ EndOf(fl[j]) \in Nat /\ fl[j].addr < EndOf(fl[j])
  BY <1>1, OrderedIs
<1>3. \A j, k \in 1..l : j < k => EndOf(fl[j]) < fl[k].addr
  BY <1>1, OrderedIs
<1>4. PICK g : g = InsertAt(fl, i, Entry(b, m))
  OBVIOUS
<1>5. Entry(b, m) \in Ranges /\ Entry(b, m).addr = b /\ EndOf(Entry(b, m)) = b + m
  BY EntryFields
<1>6. /\ g \in Seq(Ranges) /\ DOMAIN g = 1..(l + 1)
      /\ g[i] = Entry(b, m) /\ i \in 1..l
      /\ \A j \in 1..(i - 1) : g[j] = fl[j]
      /\ \A j \in (i + 1)..(l + 1) : g[j] = fl[j - 1]
  <2>1. fl \in Seq(Ranges) /\ i \in 1..Len(fl) /\ Entry(b, m) \in Ranges
    BY <1>1, <1>5
  <2>2. PICK e \in Ranges : e = Entry(b, m)
    BY <2>1
  <2>3. /\ InsertAt(fl, i, e) \in Seq(Ranges)
        /\ DOMAIN InsertAt(fl, i, e) = 1..(Len(fl) + 1)
        /\ InsertAt(fl, i, e)[i] = e
        /\ \A j \in 1..(i - 1) : InsertAt(fl, i, e)[j] = fl[j]
        /\ \A j \in (i + 1)..(Len(fl) + 1) : InsertAt(fl, i, e)[j] = fl[j - 1]
    BY <2>1, InsertAtIs, SMTT(30)
  <2>4. i \in 1..l /\ i \in 1..(l + 1) /\ l = Len(fl)
    BY <1>1
  <2>5. g = InsertAt(fl, i, e)
    BY <1>4, <2>2
  <2>6. QED
    BY <1>1, <2>2, <2>3, <2>4, <2>5
<1>7. g[i].addr = b /\ EndOf(g[i]) = b + m /\ i \in 1..(l + 1) /\ i \in 1..l
  BY <1>1, <1>5, <1>6
<1>8. \A j \in 1..l : i <= j => b + m < fl[j].addr
  <2>1. TAKE j \in 1..l
  <2>2. CASE j = i
    BY <2>2
  <2>3. CASE i < j
    <3>1. EndOf(fl[i]) < fl[j].addr /\ fl[i].addr < EndOf(fl[i])
      BY <1>2, <1>3, <1>7, <2>3
    <3>2. QED
      BY <1>2, <1>7, <3>1
  <2>4. QED
    BY <1>7, <2>2, <2>3
<1>9. ASSUME NEW h \in DOMAIN g, NEW j \in DOMAIN g, h < j
      PROVE  EndOf(g[h]) < g[j].addr
  <2>1. h \in 1..(l + 1) /\ j \in 1..(l + 1)
    BY <1>6
  <2>2. CASE j < i
    <3>1. h \in 1..l /\ j \in 1..l /\ g[h] = fl[h] /\ g[j] = fl[j]
      BY <1>6, <1>7, <1>9, <2>1, <2>2
    <3>2. QED
      BY <1>3, <1>9, <3>1
  <2>3. CASE j = i
    <3>1. h \in 1..l /\ g[h] = fl[h] /\ EndOf(fl[h]) < b
      BY <1>1, <1>6, <1>7, <1>9, <2>1, <2>3
    <3>2. QED
      BY <1>7, <2>3, <3>1
  <2>4. CASE i < j
    <3>1. j - 1 \in 1..l /\ g[j] = fl[j - 1] /\ i <= j - 1
      BY <1>6, <1>7, <2>1, <2>4
    <3>2. b + m < fl[j - 1].addr
      BY <1>8, <3>1
    <3>3. CASE h < i
      <4>1. h \in 1..l /\ g[h] = fl[h] /\ h < j - 1
        BY <1>6, <1>7, <2>1, <3>1, <3>3
      <4>2. QED
        BY <1>3, <3>1, <4>1
    <3>4. CASE h = i
      BY <1>7, <3>1, <3>2, <3>4
    <3>5. CASE i < h
      <4>1. h - 1 \in 1..l /\ g[h] = fl[h - 1] /\ h - 1 < j - 1
        BY <1>6, <1>7, <1>9, <2>1, <3>5
      <4>2. QED
        BY <1>3, <3>1, <4>1
    <3>6. QED
      BY <1>7, <2>1, <3>3, <3>4, <3>5
  <2>5. QED
    BY <1>7, <2>1, <2>2, <2>3, <2>4
<1>10. Ordered(g)
  BY <1>6, <1>9 DEF Ordered
<1>11. ASSUME NEW x \in FreeBytes(g)
       PROVE  x \in FreeBytes(fl) \cup Bytes(b, m)
  <2>1. PICK j \in 1..(l + 1) : x \in Int /\ g[j].addr <= x /\ x < EndOf(g[j])
    BY <1>6, FreeBytesIs
  <2>2. CASE j = i
    BY <1>7, <2>1, <2>2, InBytes
  <2>3. CASE j # i
    <3>1. PICK k \in 1..l : k = IF j < i THEN j ELSE j - 1
      BY <1>7, <2>3
    <3>2. g[j] = fl[k]
      BY <1>6, <2>3, <3>1
    <3>3. QED
      BY <1>1, <2>1, <3>2, FreeBytesIs
  <2>4. QED
    BY <2>2, <2>3
<1>12. ASSUME NEW x \in Bytes(b, m)
       PROVE  x \in FreeBytes(g)
  <2>1. x \in Int /\ b <= x /\ x < b + m
    BY <1>12, InBytes
  <2>2. QED
    BY <1>6, <1>7, <2>1, FreeBytesIs
<1>13. ASSUME NEW x \in FreeBytes(fl)
       PROVE  x \in FreeBytes(g)
  <2>1. PICK j \in 1..l : x \in Int /\ fl[j].addr <= x /\ x < EndOf(fl[j])
    BY <1>1, FreeBytesIs
  <2>2. PICK k \in 1..(l + 1) : k = IF j < i THEN j ELSE j + 1
    OBVIOUS
  <2>3. g[k] = fl[j]
    <3>1. CASE j < i
      BY <1>6, <2>2, <3>1
    <3>2. CASE ~(j < i)
      <4>1. k = j + 1 /\ ~(k < i) /\ k # i /\ k - 1 = j
        BY <1>7, <2>2, <3>2
      <4>2. QED
        BY <1>6, <4>1
    <3>3. QED
      BY <3>1, <3>2
  <2>4. QED
    BY <1>6, <2>1, <2>3, FreeBytesIs
<1>14. QED
  BY <1>4, <1>10, <1>11, <1>12, <1>13

\* A range goes to the end of the list.
LEMMA AppendIs ==
  ASSUME NEW fl, Ordered(fl), NEW b \in Nat, NEW m \in Nat \ {0},
         \A j \in DOMAIN fl : EndOf(fl[j]) < b
  PROVE  /\ Ordered(Append(fl, Entry(b, m)))
         /\ FreeBytes(Append(fl, Entry(b, m))) = FreeBytes(fl) \cup Bytes(b, m)
<1>1. PICK l \in Nat : l = Len(fl) /\ DOMAIN fl = 1..l /\ fl \in Seq(Ranges)
  BY OrderedIs
<1>2. \A j, k \in 1..l : j < k => EndOf(fl[j]) < fl[k].addr
  BY <1>1, OrderedIs
<1>3. PICK g : g = Append(fl, Entry(b, m))
  OBVIOUS
<1>4. Entry(b, m) \in Ranges /\ Entry(b, m).addr = b /\ EndOf(Entry(b, m)) = b + m
  BY EntryFields
<1>5. /\ g \in Seq(Ranges) /\ DOMAIN g = 1..(l + 1)
      /\ g[l + 1] = Entry(b, m) /\ \A j \in 1..l : g[j] = fl[j]
  BY <1>1, <1>3, <1>4
<1>6. g[l + 1].addr = b /\ EndOf(g[l + 1]) = b + m
  BY <1>4, <1>5
<1>7. ASSUME NEW h \in DOMAIN g, NEW j \in DOMAIN g, h < j
      PROVE  EndOf(g[h]) < g[j].addr
  <2>1. h \in 1..l /\ (j \in 1..l \/ j = l + 1)
    BY <1>5, <1>7
  <2>2. QED
    BY <1>1, <1>2, <1>5, <1>6, <1>7, <2>1
<1>8. Ordered(g)
  BY <1>5, <1>7 DEF Ordered
<1>9. ASSUME NEW x \in FreeBytes(g)
      PROVE  x \in FreeBytes(fl) \cup Bytes(b, m)
  <2>1. PICK j \in 1..(l + 1) : x \in Int /\ g[j].addr <= x /\ x < EndOf(g[j])
    BY <1>5, FreeBytesIs
  <2>2. CASE j = l + 1
    BY <1>6, <2>1, <2>2, InBytes
  <2>3. CASE j # l + 1
    BY <1>1, <1>5, <2>1, <2>3, FreeBytesIs
  <2>4. QED
    BY <2>2, <2>3
<1>10. ASSUME NEW x \in Bytes(b, m)
       PROVE  x \in FreeBytes(g)
  <2>1. x \in Int /\ b <= x /\ x < b + m /\ l + 1 \in DOMAIN g
    BY <1>5, <1>10, InBytes
  <2>2. QED
    BY <1>5, <1>6, <2>1, FreeBytesIs
<1>11. ASSUME NEW x \in FreeBytes(fl)
       PROVE  x \in FreeBytes(g)
  <2>1. PICK j \in 1..l : x \in Int /\ fl[j].addr <= x /\ x < EndOf(fl[j])
    BY <1>1, FreeBytesIs
  <2>2. j \in DOMAIN g /\ g[j] = fl[j]
    BY <1>5
  <2>3. QED
    BY <1>5, <2>1, <2>2, FreeBytesIs
<1>12. QED
  BY <1>3, <1>8, <1>9, <1>10, <1>11

\* A range grows up to the next one, and both become one.
LEMMA JoinIs ==
  ASSUME NEW fl, Ordered(fl), NEW i \in DOMAIN fl, i + 1 \in DOMAIN fl,
         NEW m \in Nat \ {0}, fl[i].addr + m = EndOf(fl[i + 1]), NEW e, e = Entry(fl[i].addr, m),
         NEW g, g = RemoveAt(Put(fl, i, e), i + 1)
  PROVE  /\ Ordered(g)
         /\ FreeBytes(g) = FreeBytes(fl) \cup Bytes(fl[i].addr, m)
<1>1. PICK l \in Nat : l = Len(fl) /\ DOMAIN fl = 1..l /\ fl \in Seq(Ranges)
  BY OrderedIs
<1>2. i \in 1..l /\ i + 1 \in 1..l
  BY <1>1
<1>3. \A j \in 1..l : /\ fl[j] \in Ranges /\ fl[j].addr \in Nat /\ EndOf(fl[j]) \in Nat
                      /\ fl[j].size \in Nat \ {0} /\ EndOf(fl[j]) = fl[j].addr + fl[j].size
                      /\ fl[j].addr < EndOf(fl[j])
  BY <1>1, OrderedIs
<1>4. \A j, k \in 1..l : j < k => EndOf(fl[j]) < fl[k].addr
  BY <1>1, OrderedIs
<1>5. PICK a \in Nat, d \in Nat, n \in Nat \ {0} :
        a = fl[i].addr /\ d = fl[i + 1].addr /\ n = fl[i + 1].size /\ a + m = d + n /\ a < d
  <2>1. fl[i].addr < EndOf(fl[i]) /\ EndOf(fl[i]) < fl[i + 1].addr
    BY <1>2, <1>3, <1>4
  <2>2. fl[i].addr \in Nat /\ EndOf(fl[i]) \in Nat /\ fl[i + 1].addr \in Nat
    BY <1>2, <1>3
  <2>3. fl[i].addr < fl[i + 1].addr
    BY <2>1, <2>2
  <2>4. fl[i].addr + m = fl[i + 1].addr + fl[i + 1].size /\ fl[i + 1].size \in Nat \ {0}
    BY <1>2, <1>3
  <2>5. QED
    BY <2>2, <2>3, <2>4
<1>6. e \in Ranges /\ e.addr = a /\ EndOf(e) = a + m
  BY <1>5, EntryFields
<1> DEFINE f == Put(fl, i, e)
           s == RemoveAt(fl, i + 1)
           t == Put(s, i, e)
<1>7. f \in Seq(Ranges) /\ Len(f) = l /\ f[i] = e /\ \A j \in 1..l : j # i => f[j] = fl[j]
  BY <1>1, <1>2, <1>6 DEF Put
<1>8. g = RemoveAt(f, i + 1)
  OBVIOUS
<1> HIDE DEF f
<1>9. /\ g \in Seq(Ranges) /\ DOMAIN g = 1..(l - 1)
      /\ \A j \in 1..(l - 1) : g[j] = IF j < i + 1 THEN f[j] ELSE f[j + 1]
  <2>1. PICK h \in 1..l : h = i + 1
    BY <1>2
  <2>2. /\ RemoveAt(f, h) \in Seq(Ranges) /\ DOMAIN RemoveAt(f, h) = 1..(Len(f) - 1)
        /\ \A j \in 1..(Len(f) - 1) : RemoveAt(f, h)[j] = IF j < h THEN f[j] ELSE f[j + 1]
    BY <1>7, RemoveAtIs
  <2>3. QED
    BY <1>7, <1>8, <2>1, <2>2
<1>10. /\ s \in Seq(Ranges) /\ DOMAIN s = 1..(l - 1)
       /\ \A j \in 1..(l - 1) : s[j] = IF j < i + 1 THEN fl[j] ELSE fl[j + 1]
  BY <1>1, <1>2, RemoveAtIs
<1>11. s = TakeAt(fl, i + 1, n)
  BY <1>5 DEF TakeAt
<1>12. Ordered(s) /\ FreeBytes(s) = FreeBytes(fl) \ Bytes(d, n) /\ Bytes(d, n) \subseteq FreeBytes(fl)
  <2>1. fl[i + 1].size >= n
    BY <1>5
  <2>2. Ordered(s) /\ FreeBytes(s) = FreeBytes(fl) \ Bytes(fl[i + 1].addr, n) /\ Bytes(fl[i + 1].addr, n) \subseteq FreeBytes(fl)
    BY <1>11, <2>1, TakeFrom
  <2>3. QED
    BY <1>5, <2>2
<1> HIDE DEF s
<1>13. i \in DOMAIN s /\ s[i] = fl[i]
  BY <1>2, <1>10
<1>14. g = t
  <2>1. DOMAIN t = 1..(l - 1) /\ \A j \in 1..(l - 1) : t[j] = IF j = i THEN e ELSE s[j]
    BY <1>10, <1>13 DEF Put
  <2>2. ASSUME NEW j \in 1..(l - 1)
        PROVE  g[j] = t[j]
    <3>1. CASE j = i
      <4>1. g[j] = f[j] /\ t[j] = e
        <5>1. j < i + 1
          BY <1>2, <3>1
        <5>2. QED
          BY <1>9, <2>1, <3>1, <5>1
      <4>2. QED
        BY <1>7, <3>1, <4>1
    <3>2. CASE j < i
      <4>1. j < i + 1 /\ j # i /\ j \in 1..l
        BY <1>2, <3>2
      <4>2. g[j] = f[j] /\ s[j] = fl[j] /\ t[j] = s[j]
        BY <1>9, <1>10, <2>1, <4>1
      <4>3. QED
        BY <1>7, <4>1, <4>2
    <3>3. CASE i < j
      <4>1. j + 1 \in 1..l /\ j + 1 # i /\ ~(j < i + 1)
        BY <1>2, <3>3
      <4>2. g[j] = fl[j + 1] /\ s[j] = fl[j + 1]
        BY <1>7, <1>9, <1>10, <4>1
      <4>3. QED
        BY <2>1, <3>3, <4>2
    <3>4. QED
      BY <1>2, <3>1, <3>2, <3>3
  <2>3. g \in Seq(Ranges) /\ t \in Seq(Ranges)
    BY <1>6, <1>9, <1>10, <1>13 DEF Put
  <2>4. Len(g) = Len(t) /\ \A j \in 1..Len(g) : g[j] = t[j]
    BY <1>9, <2>1, <2>2, <2>3
  <2>5. QED
    BY <2>3, <2>4
<1>15. \A j \in DOMAIN s : /\ j < i => EndOf(s[j]) < a
                           /\ i < j => a + m < s[j].addr
  <2>1. TAKE j \in DOMAIN s
  <2>2. CASE j < i
    <3>1. s[j] = fl[j] /\ j \in 1..l
      BY <1>2, <1>10, <2>2
    <3>2. QED
      BY <1>2, <1>4, <1>5, <2>2, <3>1
  <2>3. CASE i < j
    <3>1. s[j] = fl[j + 1] /\ j + 1 \in 1..l /\ i + 1 < j + 1
      BY <1>2, <1>10, <2>3
    <3>2. EndOf(fl[i + 1]) < fl[j + 1].addr
      BY <1>2, <1>4, <3>1
    <3>3. EndOf(fl[i + 1]) = a + m
      BY <1>2, <1>5
    <3>4. a + m < s[j].addr
      BY <3>1, <3>2, <3>3
    <3>5. ~(j < i)
      BY <1>2, <1>10, <2>3
    <3>6. QED
      BY <3>4, <3>5
  <2>4. j \in Nat /\ i \in Nat
    BY <1>2, <1>10
  <2>5. QED
    BY <2>2, <2>3, <2>4
<1>16. a <= s[i].addr /\ EndOf(s[i]) <= a + m
  <2>1. EndOf(fl[i]) < d
    BY <1>2, <1>4, <1>5
  <2>2. EndOf(fl[i]) \in Nat
    BY <1>2, <1>3
  <2>3. QED
    BY <1>5, <1>13, <2>1, <2>2
<1>17. t = Put(s, i, Entry(a, m))
  BY <1>5
<1>18. Ordered(t) /\ FreeBytes(t) = FreeBytes(s) \cup Bytes(a, m)
  BY <1>12, <1>13, <1>15, <1>16, <1>17, GrowIs
<1>19. Bytes(d, n) \subseteq Bytes(a, m)
  BY <1>5, InBytes
<1>20. QED
  BY <1>5, <1>12, <1>14, <1>18, <1>19

\* add: the list covers the new range, and is ordered again.
THEOREM AddIs ==
  ASSUME NEW fl, Ordered(fl), NEW a \in Nat, NEW n \in Nat, Bytes(a, n) \cap FreeBytes(fl) = {}
  PROVE  /\ Ordered(Add(fl, a, n))
         /\ FreeBytes(Add(fl, a, n)) = FreeBytes(fl) \cup Bytes(a, n)
<1> DEFINE new   == Entry(a, n)
           stops == {j \in DOMAIN fl : EndOf(new) <= fl[j].addr \/ a = EndOf(fl[j])}
           i     == Min(stops)
           joins == i < Len(fl) /\ fl[i + 1].addr = EndOf(new)
<1>1. CASE n = 0
  <2>1. Add(fl, a, n) = fl
    BY <1>1 DEF Add
  <2>2. Bytes(a, n) = {}
    BY <1>1 DEF Bytes
  <2>3. QED
    BY <2>1, <2>2
<1>2. CASE n # 0
  <2>1. PICK l \in Nat : l = Len(fl) /\ DOMAIN fl = 1..l /\ fl \in Seq(Ranges)
    BY OrderedIs
  <2>2. \A j \in 1..l : /\ fl[j] \in Ranges /\ fl[j].addr \in Nat /\ EndOf(fl[j]) \in Nat
                        /\ fl[j].size \in Nat \ {0} /\ EndOf(fl[j]) = fl[j].addr + fl[j].size
                        /\ fl[j].addr < EndOf(fl[j])
    BY <2>1, OrderedIs
  <2>3. \A j, k \in 1..l : j < k => EndOf(fl[j]) < fl[k].addr
    BY <2>1, OrderedIs
  <2>4. EndOf(new) = a + n
    BY <1>2, EntryFields
  <2>5. ASSUME NEW j \in 1..l
        PROVE  a + n <= fl[j].addr \/ EndOf(fl[j]) <= a
    <3>1. PICK b \in Nat, c \in Nat : b = fl[j].addr /\ c = EndOf(fl[j]) /\ b < c
      BY <2>2
    <3>2. \A x \in Int : b <= x /\ x < c => x \in FreeBytes(fl)
      BY <2>1, <3>1, FreeBytesIs
    <3>3. \A x \in Int : a <= x /\ x < a + n => x \in Bytes(a, n)
      BY InBytes
    <3>4. \A x \in Int : ~(b <= x /\ x < c /\ a <= x /\ x < a + n)
      BY <3>2, <3>3
    <3>5. ~(b <= a /\ a < c)
      BY <1>2, <3>4
    <3>6. ~(a <= b /\ b < a + n)
      BY <3>1, <3>4
    <3>7. QED
      BY <3>1, <3>5, <3>6
  <2>6. \A j \in 1..l : j \notin stops => EndOf(fl[j]) < a
    BY <2>1, <2>2, <2>4, <2>5
  <2>7. CASE stops = {}
    <3>1. Add(fl, a, n) = Append(fl, Entry(a, n))
      BY <1>2, <2>7 DEF Add
    <3>2. \A j \in DOMAIN fl : EndOf(fl[j]) < a
      BY <2>1, <2>6, <2>7
    <3>3. QED
      BY <1>2, <3>1, <3>2, AppendIs
  <2>8. CASE stops # {}
    <3>1. stops \in SUBSET Nat /\ stops \subseteq DOMAIN fl
      BY <2>1
    <3>2. i \in stops /\ \A j \in stops : i <= j
      BY <2>8, <3>1, MinIs
    <3>3. i \in 1..l /\ (a + n <= fl[i].addr \/ a = EndOf(fl[i]))
      BY <2>1, <2>4, <3>2
    <3>4. \A j \in 1..l : j < i => EndOf(fl[j]) < a
      <4>1. TAKE j \in 1..l
      <4>2. CASE j < i
        <5>1. ~(i <= j)
          BY <3>3, <4>2
        <5>2. QED
          BY <2>6, <3>2, <5>1
      <4>3. QED
        BY <4>2
    <3>5. Add(fl, a, n) =
            IF EndOf(new) = fl[i].addr THEN Put(fl, i, Entry(a, n + fl[i].size))
            ELSE IF EndOf(new) < fl[i].addr THEN InsertAt(fl, i, new)
            ELSE IF joins THEN RemoveAt([fl EXCEPT ![i].size = @ + n + fl[i + 1].size], i + 1)
            ELSE [fl EXCEPT ![i].size = @ + n]
      <4>1. CASE EndOf(new) = fl[i].addr
        <5>1. fl[i].addr \in Nat /\ EndOf(new) \in Nat
          BY <2>2, <2>4, <3>3
        <5>2. ~(EndOf(new) < fl[i].addr)
          <6>1. PICK u \in Nat : u = EndOf(new)
            BY <5>1
          <6>2. PICK v \in Nat : v = fl[i].addr
            BY <5>1
          <6>3. u = v
            BY <4>1, <6>1, <6>2
          <6>4. ~(u < v)
            BY <6>3
          <6>5. QED
            BY <6>1, <6>2, <6>4
        <5>3. QED
          BY <1>2, <2>8, <4>1, <5>2 DEF Add, Put
      <4>2. CASE EndOf(new) # fl[i].addr /\ EndOf(new) < fl[i].addr
        BY <1>2, <2>8, <4>2 DEF Add
      <4>3. CASE EndOf(new) # fl[i].addr /\ ~(EndOf(new) < fl[i].addr)
        BY <1>2, <2>8, <4>3 DEF Add
      <4>4. QED
        BY <4>1, <4>2, <4>3
    <3> HIDE DEF i, stops, new
    <3>6. PICK b \in Nat, k \in Nat \ {0} : b = fl[i].addr /\ k = fl[i].size /\ EndOf(fl[i]) = b + k
      BY <2>2, <3>3
    <3>7. CASE a + n = b
      <4>1. Add(fl, a, n) = Put(fl, i, Entry(a, n + k))
        BY <2>4, <3>5, <3>6, <3>7 DEF Put
      <4>2. n + k \in Nat \ {0} /\ a <= fl[i].addr /\ EndOf(fl[i]) <= a + (n + k) /\ a + (n + k) = b + k
        BY <1>2, <3>6, <3>7
      <4>3. \A j \in DOMAIN fl : (j < i => EndOf(fl[j]) < a) /\ (i < j => a + (n + k) < fl[j].addr)
        BY <2>1, <2>3, <3>3, <3>4, <3>6, <4>2
      <4>4. PICK m \in Nat \ {0} : m = n + k
        BY <4>2
      <4>5. Ordered(Add(fl, a, n)) /\ FreeBytes(Add(fl, a, n)) = FreeBytes(fl) \cup Bytes(a, n + k)
        <5>1. i \in DOMAIN fl /\ EndOf(fl[i]) <= a + m
              /\ \A j \in DOMAIN fl : (j < i => EndOf(fl[j]) < a) /\ (i < j => a + m < fl[j].addr)
          BY <2>1, <3>3, <4>2, <4>3, <4>4
        <5>2. Ordered(Put(fl, i, Entry(a, m)))
              /\ FreeBytes(Put(fl, i, Entry(a, m))) = FreeBytes(fl) \cup Bytes(a, m)
          BY <4>2, <5>1, GrowIs
        <5>3. QED
          BY <4>1, <4>4, <5>2
      <4>6. \A x \in Bytes(a, n + k) : x \in Bytes(a, n) \/ (x \in Int /\ fl[i].addr <= x /\ x < EndOf(fl[i]))
        BY <3>6, <3>7, InBytes
      <4>7. Bytes(a, n) \subseteq Bytes(a, n + k)
        <5>1. \A x : x \in Bytes(a, n) => x \in Int /\ a <= x /\ x < a + n
          BY InBytes
        <5>2. \A x : x \in Int /\ a <= x /\ x < a + m => x \in Bytes(a, m)
          BY InBytes
        <5>3. a + n <= a + m /\ a + n \in Int /\ a + m \in Int
          BY <3>6, <4>4
        <5>4. \A x \in Bytes(a, n) : x < a + m
          BY <5>1, <5>3
        <5>5. \A x \in Bytes(a, n) : x \in Bytes(a, m)
          BY <5>1, <5>2, <5>4
        <5>6. QED
          BY <4>4, <5>5
      <4>8. Bytes(a, n + k) \subseteq FreeBytes(fl) \cup Bytes(a, n)
        BY <2>1, <3>3, <4>6, FreeBytesIs
      <4>9. QED
        BY <4>5, <4>7, <4>8
    <3>8. CASE a + n < b
      <4>1. Add(fl, a, n) = InsertAt(fl, i, Entry(a, n))
        <5>1. EndOf(new) # fl[i].addr /\ EndOf(new) < fl[i].addr
          BY <2>4, <3>6, <3>8
        <5>2. QED
          BY <3>5, <5>1 DEF new
      <4>2. i \in DOMAIN fl /\ a + n < fl[i].addr /\ \A j \in DOMAIN fl : j < i => EndOf(fl[j]) < a
        BY <2>1, <3>3, <3>4, <3>6, <3>8
      <4>3. QED
        BY <1>2, <4>1, <4>2, InsertIs
    <3>9. CASE ~(a + n <= b)
      <4>1. a = b + k /\ a = EndOf(fl[i]) /\ EndOf(new) # fl[i].addr /\ ~(EndOf(new) < fl[i].addr)
        BY <2>4, <3>3, <3>6, <3>9
      <4>2. \A v : [fl EXCEPT ![i].size = v] = Put(fl, i, Entry(b, v))
        <5>1. fl[i] \in Ranges
          BY <2>2, <3>3
        <5>2. \A v : [fl[i] EXCEPT !.size = v] = Entry(b, v)
          BY <3>6, <5>1 DEF Ranges, Entry
        <5>3. QED
          BY <5>2 DEF Put
      <4>3. \A j \in 1..l : i < j => a + n <= fl[j].addr
        <5>1. TAKE j \in 1..l
        <5>2. CASE i < j
          <6>1. a < fl[j].addr /\ fl[j].addr < EndOf(fl[j])
            BY <2>2, <2>3, <3>3, <4>1, <5>2
          <6>2. ~(EndOf(fl[j]) <= a)
            BY <2>2, <6>1
          <6>3. QED
            BY <2>5, <6>2
        <5>3. QED
          BY <5>2
      <4>4. CASE joins
        <5>1. i + 1 \in 1..l /\ fl[i + 1].addr = a + n
          BY <2>1, <2>4, <3>3, <4>4
        <5>2. PICK d \in Nat \ {0} : d = fl[i + 1].size /\ EndOf(fl[i + 1]) = (a + n) + d
          BY <2>2, <5>1
        <5>3. PICK m \in Nat \ {0} : m = k + n + d /\ b + m = EndOf(fl[i + 1])
          BY <3>6, <4>1, <5>2
        <5>4. [fl EXCEPT ![i].size = @ + n + fl[i + 1].size] = Put(fl, i, Entry(b, m))
          BY <3>6, <4>2, <5>2, <5>3
        <5>5. Add(fl, a, n) = RemoveAt(Put(fl, i, Entry(b, m)), i + 1)
          BY <3>5, <4>1, <4>4, <5>4
        <5>6. PICK g : g = RemoveAt(Put(fl, i, Entry(fl[i].addr, m)), i + 1)
          OBVIOUS
        <5>7. i \in DOMAIN fl /\ i + 1 \in DOMAIN fl /\ fl[i].addr + m = EndOf(fl[i + 1])
          BY <2>1, <3>3, <3>6, <5>1, <5>3
        <5>8. Ordered(g) /\ FreeBytes(g) = FreeBytes(fl) \cup Bytes(fl[i].addr, m)
          BY <5>6, <5>7, JoinIs
        <5>9. Add(fl, a, n) = g
          BY <3>6, <5>5, <5>6
        <5>10. \A x \in Bytes(b, m) : x \in Bytes(a, n) \/ (x \in Int /\ b <= x /\ x < EndOf(fl[i]))
                                      \/ (x \in Int /\ fl[i + 1].addr <= x /\ x < EndOf(fl[i + 1]))
          <6>1. TAKE x \in Bytes(b, m)
          <6>2. x \in Int /\ b <= x /\ x < b + m /\ b + m = (a + n) + d
            BY <5>2, <5>3, <6>1, InBytes
          <6>3. x \in Bytes(a, n) <=> a <= x /\ x < a + n
            BY <6>2, InBytes
          <6>4. QED
            BY <3>6, <4>1, <5>1, <5>2, <6>2, <6>3
        <5>11. Bytes(a, n) \subseteq Bytes(b, m)
          BY <3>6, <4>1, <5>3, InBytes
        <5>12. Bytes(b, m) \subseteq FreeBytes(fl) \cup Bytes(a, n)
          BY <2>1, <3>3, <3>6, <5>1, <5>10, FreeBytesIs
        <5>13. QED
          BY <3>6, <5>8, <5>9, <5>11, <5>12
      <4>5. CASE ~joins
        <5>1. PICK m \in Nat \ {0} : m = k + n /\ b + m = a + n
          BY <3>6, <4>1
        <5>2. [fl EXCEPT ![i].size = @ + n] = Put(fl, i, Entry(b, m))
          BY <3>6, <4>2, <5>1
        <5>3. Add(fl, a, n) = Put(fl, i, Entry(b, m))
          BY <3>5, <4>1, <4>5, <5>2
        <5>4. \A j \in 1..l : i < j => b + m < fl[j].addr
          <6>1. TAKE j \in 1..l
          <6>2. CASE j = i + 1
            <7>1. fl[i + 1].addr # a + n /\ a + n <= fl[i + 1].addr
              BY <2>1, <2>4, <3>3, <4>3, <4>5, <6>2
            <7>2. QED
              BY <2>2, <5>1, <6>2, <7>1
          <6>3. CASE i + 1 < j
            <7>1. i + 1 \in 1..l /\ i < i + 1
              BY <3>3, <6>3
            <7>2. a + n <= fl[i + 1].addr /\ fl[i + 1].addr < EndOf(fl[i + 1]) /\ EndOf(fl[i + 1]) < fl[j].addr
              BY <2>2, <2>3, <4>3, <6>3, <7>1
            <7>3. fl[i + 1].addr \in Nat /\ EndOf(fl[i + 1]) \in Nat /\ fl[j].addr \in Nat
              BY <2>2, <7>1
            <7>4. QED
              BY <5>1, <7>2, <7>3
          <6>4. QED
            BY <3>3, <6>2, <6>3
        <5>5. \A j \in 1..l : j < i => EndOf(fl[j]) < b
          BY <2>3, <3>3, <3>6
        <5>6. i \in DOMAIN fl /\ b <= fl[i].addr /\ EndOf(fl[i]) <= b + m
              /\ \A j \in DOMAIN fl : (j < i => EndOf(fl[j]) < b) /\ (i < j => b + m < fl[j].addr)
          <6>1. i \in DOMAIN fl /\ b <= fl[i].addr /\ EndOf(fl[i]) <= b + m
            <7>1. i \in DOMAIN fl
              BY <2>1, <3>3
            <7>2. b <= b /\ b + k <= b + m
              BY <5>1
            <7>3. QED
              BY <3>6, <7>1, <7>2
          <6>2. QED
            BY <2>1, <5>4, <5>5, <6>1
        <5>7. Ordered(Add(fl, a, n)) /\ FreeBytes(Add(fl, a, n)) = FreeBytes(fl) \cup Bytes(b, m)
          <6>1. Ordered(Put(fl, i, Entry(b, m)))
                /\ FreeBytes(Put(fl, i, Entry(b, m))) = FreeBytes(fl) \cup Bytes(b, m)
            BY <5>6, GrowIs
          <6>2. QED
            BY <5>3, <6>1
        <5>8. \A x \in Bytes(b, m) : x \in Bytes(a, n) \/ (x \in Int /\ b <= x /\ x < EndOf(fl[i]))
          BY <3>6, <4>1, <5>1, InBytes
        <5>9. Bytes(a, n) \subseteq Bytes(b, m)
          BY <3>6, <4>1, <5>1, InBytes
        <5>10. Bytes(b, m) \subseteq FreeBytes(fl) \cup Bytes(a, n)
          BY <2>1, <3>3, <3>6, <5>8, FreeBytesIs
        <5>11. QED
          BY <5>7, <5>9, <5>10
      <4>6. QED
        BY <4>4, <4>5
    <3>10. QED
      BY <3>6, <3>7, <3>8, <3>9
  <2>9. QED
    BY <2>7, <2>8
<1>3. QED
  BY <1>1, <1>2

-----------------------------------------------------------------------------
(* get with an alignment.                                                   *)

\* Division with rest.
LEMMA DivMod ==
  ASSUME NEW a \in Nat, NEW n \in Nat \ {0}
  PROVE  /\ a \div n \in Nat /\ a % n \in 0..(n - 1)
         /\ a = (a \div n) * n + (a % n)
<1>1. a % n \in 0..(n - 1) /\ a \div n \in Nat
  OBVIOUS
<1>2. a - (a % n) = n * (a \div n)
  BY SMTT(30)
<1>3. PICK q \in Nat, m \in 0..(n - 1) : q = a \div n /\ m = a % n
  BY <1>1
<1>4. a - m = n * q /\ n * q = q * n /\ q * n \in Nat
  BY <1>2, <1>3
<1>5. a = q * n + m
  BY <1>4
<1>6. QED
  BY <1>3, <1>5

\* A multiple leaves no rest.
LEMMA Multiple ==
  ASSUME NEW k \in Nat, NEW n \in Nat \ {0}
  PROVE  (k * n) % n = 0
OBVIOUS

\* A number without rest is a multiple.
LEMMA MultipleOf ==
  ASSUME NEW a \in Nat, NEW n \in Nat \ {0}, a % n = 0
  PROVE  \E k \in Nat : a = k * n
<1>1. a = (a \div n) * n + (a % n) /\ a \div n \in Nat
  BY DivMod
<1>2. QED
  BY <1>1

\* The next multiple.
LEMMA RoundUpIs ==
  ASSUME NEW x \in Nat, NEW n \in Nat \ {0}
  PROVE  /\ RoundUp(x, n) \in Nat /\ x <= RoundUp(x, n) /\ RoundUp(x, n) < x + n
         /\ RoundUp(x, n) % n = 0
<1>1. PICK a \in Nat : a = x + n - 1
  OBVIOUS
<1>2. PICK k \in Nat : k = a \div n
  BY DivMod
<1>3. PICK b \in Nat : b = k * n
  OBVIOUS
<1>4. PICK m \in 0..(n - 1) : a = b + m
  BY <1>2, <1>3, DivMod
<1>5. RoundUp(x, n) = b
  BY <1>1, <1>2, <1>3 DEF RoundUp
<1>6. b % n = 0
  BY <1>3, Multiple
<1>7. x <= b /\ b < x + n
  BY <1>1, <1>4
<1>8. QED
  BY <1>5, <1>6, <1>7

\* A multiple of a multiple is a multiple.
LEMMA MultipleOfMultiple ==
  ASSUME NEW a \in Nat, NEW n \in Nat \ {0}, NEW k \in Nat \ {0}, a % n = 0, n % k = 0
  PROVE  a % k = 0
<1>1. PICK p \in Nat : a = p * n
  BY MultipleOf
<1>2. PICK q \in Nat : n = q * k
  BY MultipleOf
<1>3. PICK r \in Nat : r = p * q
  OBVIOUS
<1>4. a = r * k
  <2>1. a = p * (q * k)
    BY <1>1, <1>2
  <2>2. p * (q * k) = (p * q) * k
    OBVIOUS
  <2>3. QED
    BY <1>3, <2>1, <2>2
<1>5. QED
  BY <1>3, <1>4, Multiple

\* What a get of n bytes aligned to k promises about its result r.
Gets(fl, n, k, r) ==
  /\ r.found \in BOOLEAN
  /\ Ordered(r.fl)
  /\ ~r.found => FreeBytes(r.fl) = FreeBytes(fl)
  /\ r.found => /\ r.addr \in Nat /\ r.addr % k = 0
                /\ Bytes(r.addr, n) \subseteq FreeBytes(fl)
                /\ FreeBytes(r.fl) = FreeBytes(fl) \ Bytes(r.addr, n)

\* The ends of the larger piece go back to the list.
LEMMA CutIs ==
  ASSUME NEW fl, Ordered(fl), NEW n \in Nat \ {0}, NEW k \in Nat \ {0}, NEW big,
         big = Get(fl, n + k), big.found
  PROVE  Gets(fl, n, k, Cut(big, n, k))
<1>1. PICK t \in Nat \ {0} : t = n + k
  OBVIOUS
<1>2. PICK f : f = big.fl /\ Ordered(f)
  BY <1>1, GetIs
<1> PICK a \in Nat : /\ a = big.addr
                     /\ Bytes(a, t) \subseteq FreeBytes(fl)
                     /\ FreeBytes(f) = FreeBytes(fl) \ Bytes(a, t)
  BY <1>1, <1>2, GetIs
<1>3. PICK ret \in Nat : ret = RoundUp(a, k) /\ a <= ret /\ ret < a + k /\ ret % k = 0
  BY RoundUpIs
<1>4. PICK h \in Nat, b \in Nat, m \in Nat :
        h = ret - a /\ b = ret + n /\ m = (a + n + k) - (ret + n) /\ a + h = ret /\ b + m = a + t
  BY <1>1, <1>3
<1>5. PICK f1 : f1 = Add(f, a, h)
  OBVIOUS
<1>6. PICK f2 : f2 = Add(f1, b, m)
  OBVIOUS
<1>7. Cut(big, n, k) = [found |-> TRUE, addr |-> ret, fl |-> f2]
  BY <1>2, <1>3, <1>4, <1>5, <1>6 DEF Cut, Apply
<1>8. /\ \A x : x \in Bytes(a, t) <=> x \in Int /\ a <= x /\ x < a + t
      /\ \A x : x \in Bytes(a, h) <=> x \in Int /\ a <= x /\ x < ret
      /\ \A x : x \in Bytes(ret, n) <=> x \in Int /\ ret <= x /\ x < b
      /\ \A x : x \in Bytes(b, m) <=> x \in Int /\ b <= x /\ x < a + t
  BY <1>4, InBytes
<1>9. \A x : /\ x \in Bytes(a, t) <=> x \in Bytes(a, h) \/ x \in Bytes(ret, n) \/ x \in Bytes(b, m)
             /\ ~(x \in Bytes(a, h) /\ x \in Bytes(ret, n))
             /\ ~(x \in Bytes(a, h) /\ x \in Bytes(b, m))
             /\ ~(x \in Bytes(ret, n) /\ x \in Bytes(b, m))
  <2>1. TAKE x
  <2>2. a <= ret /\ ret < b /\ b <= a + t /\ a + t \in Nat
    <3>1. a <= ret
      BY <1>3
    <3>2. ret < b
      BY <1>4
    <3>3. b <= a + t
      BY <1>4
    <3>4. QED
      BY <3>1, <3>2, <3>3
  <2>3. ASSUME x \in Int
        PROVE  /\ a <= x /\ x < a + t <=> (a <= x /\ x < ret) \/ (ret <= x /\ x < b) \/ (b <= x /\ x < a + t)
               /\ ~(x < ret /\ ret <= x) /\ ~(x < ret /\ b <= x) /\ ~(x < b /\ b <= x)
    BY <2>2, <2>3
  <2>4. QED
    BY <1>8, <2>3
<1>10. Bytes(a, h) \cap FreeBytes(f) = {}
  BY <1>2, <1>9
<1>11. Ordered(f1) /\ FreeBytes(f1) = FreeBytes(f) \cup Bytes(a, h)
  BY <1>2, <1>5, <1>10, AddIs
<1>12. Bytes(b, m) \cap FreeBytes(f1) = {}
  BY <1>2, <1>9, <1>11
<1>13. Ordered(f2) /\ FreeBytes(f2) = FreeBytes(f1) \cup Bytes(b, m)
  BY <1>6, <1>11, <1>12, AddIs
<1>14. Bytes(ret, n) \subseteq FreeBytes(fl)
  BY <1>2, <1>9
<1>15. FreeBytes(f2) = FreeBytes(fl) \ Bytes(ret, n)
  BY <1>2, <1>9, <1>11, <1>13
<1>16. QED
  <2>1. PICK r : r = Cut(big, n, k)
    OBVIOUS
  <2>2. r.found = TRUE /\ r.addr = ret /\ r.fl = f2
    BY <1>7, <2>1
  <2>3. Gets(fl, n, k, r)
    BY <1>3, <1>13, <1>14, <1>15, <2>2 DEF Gets
  <2>4. QED
    BY <2>1, <2>3

\* get(size, alignment): what is returned is aligned and was free; when nothing
\* is found, the same bytes are free as before.
THEOREM GetAlignedIs ==
  ASSUME NEW fl, Ordered(fl), NEW n \in Nat \ {0}, NEW k \in Nat \ {0}
  PROVE  Gets(fl, n, k, GetAligned(fl, n, k))
<1>1. PICK s : s = Get(fl, n)
  OBVIOUS
<1>2. s.found \in BOOLEAN
  BY <1>1, GetIs
<1>3. CASE ~s.found
  <2>1. GetAligned(fl, n, k) = s
    BY <1>1, <1>3 DEF GetAligned, Apply
  <2>2. s.fl = fl
    BY <1>1, <1>3, GetIs
  <2>3. QED
    BY <1>2, <1>3, <2>1, <2>2 DEF Gets
<1>4. CASE s.found
  <2>1. /\ s.addr \in Nat /\ Ordered(s.fl) /\ Bytes(s.addr, n) \subseteq FreeBytes(fl)
        /\ FreeBytes(s.fl) = FreeBytes(fl) \ Bytes(s.addr, n)
    BY <1>1, <1>4, GetIs
  <2>2. CASE s.addr % k = 0
    <3>1. GetAligned(fl, n, k) = s
      BY <1>1, <2>2 DEF GetAligned, Apply
    <3>2. QED
      BY <1>2, <1>4, <2>1, <2>2, <3>1 DEF Gets
  <2>3. CASE s.addr % k # 0
    <3>1. PICK back : back = Add(s.fl, s.addr, n)
      OBVIOUS
    <3>2. GetAligned(fl, n, k) = GetLarger(back, n, k)
      BY <1>1, <1>4, <2>3, <3>1 DEF GetAligned, Apply
    <3>3. Bytes(s.addr, n) \cap FreeBytes(s.fl) = {}
      BY <2>1
    <3>4. PICK f : f = s.fl /\ Ordered(f) /\ s.addr \in Nat
      BY <2>1
    <3>5. Ordered(back) /\ FreeBytes(back) = FreeBytes(f) \cup Bytes(s.addr, n)
      BY <3>1, <3>3, <3>4, AddIs
    <3>6. FreeBytes(back) = FreeBytes(fl)
      BY <2>1, <3>4, <3>5
    <3>7. PICK big : big = Get(back, n + k)
      OBVIOUS
    <3>8. PICK r : r = GetLarger(back, n, k)
      OBVIOUS
    <3>9. PICK t \in Nat \ {0} : t = n + k
      OBVIOUS
    <3>10. big.found \in BOOLEAN
      BY <3>5, <3>7, <3>9, GetIs
    <3>11. CASE big.found
      <4>1. r = Cut(big, n, k)
        BY <3>7, <3>8, <3>11 DEF GetLarger, Apply
      <4>2. Gets(back, n, k, r)
        BY <3>5, <3>7, <3>11, <4>1, CutIs
      <4>3. Gets(fl, n, k, r)
        BY <3>6, <4>2 DEF Gets
      <4>4. QED
        BY <3>2, <3>8, <4>3
    <3>12. CASE ~big.found
      <4>1. r = NotFound(back)
        BY <3>7, <3>8, <3>12 DEF GetLarger, Apply
      <4>2. Gets(fl, n, k, r)
        BY <3>5, <3>6, <4>1 DEF Gets, NotFound
      <4>3. QED
        BY <3>2, <3>8, <4>2
    <3>13. QED
      BY <3>10, <3>11, <3>12
  <2>4. QED
    BY <2>2, <2>3
<1>5. QED
  BY <1>2, <1>3, <1>4

-----------------------------------------------------------------------------
(* A get succeeds where there is room.                                      *)

\* Free bytes in a row belong to one range.
LEMMA InOneRange ==
  ASSUME NEW fl, Ordered(fl), NEW a \in Nat, NEW n \in Nat \ {0}, Bytes(a, n) \subseteq FreeBytes(fl)
  PROVE  \E i \in DOMAIN fl : fl[i].addr <= a /\ a + n <= EndOf(fl[i])
<1>1. PICK l \in Nat : l = Len(fl) /\ DOMAIN fl = 1..l /\ fl \in Seq(Ranges)
  BY OrderedIs
<1>2. \A j \in 1..l : fl[j].addr \in Nat /\ EndOf(fl[j]) \in Nat /\ fl[j].addr < EndOf(fl[j])
  BY <1>1, OrderedIs
<1>3. \A j, k \in 1..l : j < k => EndOf(fl[j]) < fl[k].addr
  BY <1>1, OrderedIs
<1>4. \A x \in Int : a <= x /\ x < a + n => \E j \in 1..l : fl[j].addr <= x /\ x < EndOf(fl[j])
  <2>1. \A x \in Int : a <= x /\ x < a + n => x \in FreeBytes(fl)
    BY InBytes
  <2>2. QED
    BY <1>1, <2>1, FreeBytesIs
<1>5. PICK i \in 1..l : fl[i].addr <= a /\ a < EndOf(fl[i])
  BY <1>4
<1>6. PICK b \in Nat : b = fl[i].addr
  BY <1>2
<1>7. PICK c \in Nat : c = EndOf(fl[i])
  BY <1>2
<1>8. b <= a /\ a < c
  BY <1>5, <1>6, <1>7
<1>9. a + n <= c
  <2>1. SUFFICES ASSUME ~(a + n <= c)
                 PROVE  FALSE
    OBVIOUS
  <2>2. PICK j \in 1..l : fl[j].addr <= c /\ c < EndOf(fl[j])
    BY <1>4, <1>8, <2>1
  <2>3. PICK u \in Nat : u = fl[j].addr
    BY <1>2
  <2>4. PICK v \in Nat : v = EndOf(fl[j])
    BY <1>2
  <2>5. u <= c /\ c < v
    BY <2>2, <2>3, <2>4
  <2>6. j # i
    BY <1>7, <2>4, <2>5
  <2>7. CASE j < i
    <3>1. v < b
      BY <1>3, <1>6, <2>4, <2>7
    <3>2. QED
      BY <1>8, <2>5, <3>1
  <2>8. CASE i < j
    <3>1. c < u
      BY <1>3, <1>7, <2>3, <2>8
    <3>2. QED
      BY <2>5, <3>1
  <2>9. QED
    BY <2>6, <2>7, <2>8
<1>10. QED
  BY <1>1, <1>6, <1>7, <1>8, <1>9

\* A get finds room when that many bytes in a row are free.
LEMMA GetFinds ==
  ASSUME NEW fl, Ordered(fl), NEW a \in Nat, NEW n \in Nat \ {0}, Bytes(a, n) \subseteq FreeBytes(fl)
  PROVE  Get(fl, n).found
<1>1. PICK i \in DOMAIN fl : fl[i].addr <= a /\ a + n <= EndOf(fl[i])
  BY InOneRange
<1>2. /\ fl[i].addr \in Nat /\ fl[i].size \in Nat \ {0}
      /\ EndOf(fl[i]) = fl[i].addr + fl[i].size
  BY OrderedIs
<1>3. fl[i].size >= n
  BY <1>1, <1>2
<1>4. {j \in DOMAIN fl : fl[j].size >= n} # {}
  BY <1>3
<1>5. QED
  BY <1>4 DEF Get

\* An aligned get finds room when its alignment fits in as well.
LEMMA GetAlignedFinds ==
  ASSUME NEW fl, Ordered(fl), NEW a \in Nat, NEW n \in Nat \ {0}, NEW k \in Nat \ {0},
         Bytes(a, n + k) \subseteq FreeBytes(fl)
  PROVE  GetAligned(fl, n, k).found
<1>1. PICK s : s = Get(fl, n)
  OBVIOUS
<1>2. PICK t \in Nat \ {0} : t = n + k
  OBVIOUS
<1>3. Bytes(a, n) \subseteq FreeBytes(fl)
  BY InBytes
<1>4. s.found
  BY <1>1, <1>3, GetFinds
<1>5. CASE s.addr % k = 0
  BY <1>1, <1>4, <1>5 DEF GetAligned, Apply
<1>6. CASE s.addr % k # 0
  <2>1. PICK back : back = Add(s.fl, s.addr, n)
    OBVIOUS
  <2>2. GetAligned(fl, n, k) = GetLarger(back, n, k)
    BY <1>1, <1>4, <1>6, <2>1 DEF GetAligned, Apply
  <2>3. /\ s.addr \in Nat /\ Ordered(s.fl) /\ Bytes(s.addr, n) \subseteq FreeBytes(fl)
        /\ FreeBytes(s.fl) = FreeBytes(fl) \ Bytes(s.addr, n)
    BY <1>1, <1>4, GetIs
  <2>4. Bytes(s.addr, n) \cap FreeBytes(s.fl) = {}
    BY <2>3
  <2>5. PICK f : f = s.fl /\ Ordered(f)
    BY <2>3
  <2>6. Ordered(back) /\ FreeBytes(back) = FreeBytes(f) \cup Bytes(s.addr, n)
    BY <2>1, <2>3, <2>4, <2>5, AddIs
  <2>7. Bytes(a, t) \subseteq FreeBytes(back)
    BY <1>2, <2>3, <2>5, <2>6
  <2>8. PICK big : big = Get(back, n + k)
    OBVIOUS
  <2>9. big.found
    BY <1>2, <2>6, <2>7, <2>8, GetFinds
  <2>10. GetLarger(back, n, k) = Cut(big, n, k)
    BY <2>8, <2>9 DEF GetLarger, Apply
  <2>11. Cut(big, n, k).found = TRUE
    BY DEF Cut
  <2>12. QED
    BY <2>2, <2>10, <2>11
<1>7. QED
  BY <1>5, <1>6

-----------------------------------------------------------------------------
(* The heap.                                                                *)

\* Multiples of n less than n apart are the same.
LEMMA MultiplesApart ==
  ASSUME NEW n \in Nat \ {0}, NEW a \in Nat, NEW b \in Nat, a % n = 0, b % n = 0, a < b
  PROVE  a + n <= b
<1>1. PICK j \in Nat : a = j * n
  BY MultipleOf
<1>2. PICK k \in Nat : b = k * n
  BY MultipleOf
<1>3. j < k
  <2>1. SUFFICES ASSUME k <= j
                 PROVE  FALSE
    BY <1>1, <1>2
  <2>2. k * n <= j * n
    BY <2>1
  <2>3. QED
    BY <1>1, <1>2, <2>2
<1>4. (j + 1) * n <= k * n
  BY <1>3
<1>5. (j + 1) * n = j * n + n
  OBVIOUS
<1>6. QED
  BY <1>1, <1>2, <1>4, <1>5

\* A multiple is not rounded.
LEMMA RoundUpMultiple ==
  ASSUME NEW x \in Nat, NEW n \in Nat \ {0}, x % n = 0
  PROVE  RoundUp(x, n) = x
<1>1. PICK y \in Nat : y = RoundUp(x, n) /\ x <= y /\ y < x + n /\ y % n = 0
  BY RoundUpIs
<1>2. ~(x < y)
  <2>1. SUFFICES ASSUME x < y
                 PROVE  FALSE
    OBVIOUS
  <2>2. x + n <= y
    BY <1>1, <2>1, MultiplesApart
  <2>3. QED
    BY <1>1, <2>2
<1>3. QED
  BY <1>1, <1>2

\* The constants are as they are used below.
LEMMA BlockConstants ==
  /\ WinSize \in Nat \ {0} /\ PageSize \in Nat \ {0} /\ BlockSize \in Nat \ {0}
  /\ BlockSize % PageSize = 0 /\ WinSize % PageSize = 0
  /\ NoncollSize \in Nat /\ FlagSize \in Nat /\ NoncollSize <= WinSize /\ FlagSize < NoncollSize
BY BlockAssumption

\* Pages.
LEMMA PagesIs ==
  ASSUME NEW n \in Nat \ {0}
  PROVE  Pages(n) \in Nat \ {0} /\ n <= Pages(n)
<1>1. RoundUp(n, PageSize) \in Nat /\ n <= RoundUp(n, PageSize)
  BY BlockConstants, RoundUpIs
<1>2. QED
  BY <1>1 DEF Pages

\* A block is pages already.
LEMMA BlockIsPages == Pages(BlockSize) = BlockSize
BY BlockConstants, RoundUpMultiple DEF Pages

Heaps == [kind : {"block", "root"}, win : Seq(Ranges), blk : Seq(Ranges)]

\* Both lists of a heap are ordered, and no byte is in both.
HeapOk(hp) ==
  /\ hp \in Heaps
  /\ Ordered(hp.win) /\ Ordered(hp.blk)
  /\ FreeBytes(hp.win) \cap FreeBytes(hp.blk) = {}

\* The free bytes of a heap.
Free(hp) == FreeBytes(hp.win) \cup FreeBytes(hp.blk)

\* A heap whose lists have been replaced.
With(hp, win, blk) == [hp EXCEPT !.win = win, !.blk = blk]

\* A heap whose lists are ordered and share no byte is one.
LEMMA WithLists ==
  ASSUME NEW hp \in Heaps, NEW win, Ordered(win), NEW blk, Ordered(blk),
         FreeBytes(win) \cap FreeBytes(blk) = {},
         NEW h, h = With(hp, win, blk)
  PROVE  /\ HeapOk(h) /\ h.kind = hp.kind /\ h.win = win /\ h.blk = blk
         /\ Free(h) = FreeBytes(win) \cup FreeBytes(blk)
<1>1. win \in Seq(Ranges) /\ blk \in Seq(Ranges)
  BY OrderedIs
<1>2. h \in Heaps /\ h.kind = hp.kind /\ h.win = win /\ h.blk = blk
  BY <1>1 DEF Heaps, With
<1>3. QED
  BY <1>2 DEF HeapOk, Free

\* What an allocation of bytes aligned to k promises about its result s.
Allocates(hp, bytes, k, s) ==
  /\ s.how \in {"ok", "dead", "check"}
  /\ s.how = "ok" =>
       /\ HeapOk(s.heap) /\ s.heap.kind = hp.kind
       /\ s.addr \in Nat /\ s.addr % k = 0
       /\ Occupied(hp, s.addr, bytes) \subseteq Free(hp)
       /\ Free(s.heap) = Free(hp) \ Occupied(hp, s.addr, bytes)

\* A failure changes nothing.
LEMMA FailsIs ==
  ASSUME NEW hp, NEW h, NEW bytes, NEW k, NEW how \in {"dead", "check"}
  PROVE  Allocates(hp, bytes, k, Fails(how, h))
<1>1. Fails(how, h).how = how
  BY DEF Fails
<1>2. QED
  BY <1>1 DEF Allocates

\* A success takes what the two lists give up.
LEMMA AllocatedIs ==
  ASSUME NEW hp, HeapOk(hp), NEW h \in Heaps, h.kind = hp.kind,
         NEW win, Ordered(win), NEW blk, Ordered(blk), FreeBytes(win) \cap FreeBytes(blk) = {},
         NEW a \in Nat, NEW k, a % k = 0, NEW bytes,
         Occupied(hp, a, bytes) \subseteq Free(hp),
         FreeBytes(win) \cup FreeBytes(blk) = Free(hp) \ Occupied(hp, a, bytes)
  PROVE  Allocates(hp, bytes, k, Allocated(h, a, win, blk))
<1>1. PICK g : g = With(h, win, blk)
  OBVIOUS
<1>2. HeapOk(g) /\ g.kind = hp.kind /\ Free(g) = FreeBytes(win) \cup FreeBytes(blk)
  BY <1>1, WithLists
<1>3. PICK s : s = Allocated(h, a, win, blk)
  OBVIOUS
<1>4. s.how = "ok" /\ s.addr = a /\ s.heap = g
  BY <1>1, <1>3 DEF Allocated, With
<1>5. Allocates(hp, bytes, k, s)
  BY <1>2, <1>4 DEF Allocates
<1>6. QED
  BY <1>3, <1>5

\* block_resource: a request of a block or more.
LEMMA AllocateLargeIs ==
  ASSUME NEW hp, HeapOk(hp), hp.kind = "block", NEW bytes \in Nat \ {0}, bytes >= BlockSize,
         NEW k \in Nat \ {0}, k > BlockSize \/ BlockSize % k = 0
  PROVE  Allocates(hp, bytes, k, AllocateLarge(hp, bytes, k))
<1>1. PICK p \in Nat \ {0} : p = Pages(bytes)
  BY PagesIs
<1>2. PICK q \in Nat \ {0} : q = IF k > BlockSize THEN k ELSE BlockSize
  BY BlockConstants
<1>3. PICK win, blk : win = hp.win /\ blk = hp.blk
  OBVIOUS
<1>4. /\ Ordered(win) /\ Ordered(blk) /\ FreeBytes(win) \cap FreeBytes(blk) = {}
      /\ hp \in Heaps /\ Free(hp) = FreeBytes(win) \cup FreeBytes(blk)
  BY <1>3 DEF HeapOk, Free
<1>5. PICK s : s = GetAligned(win, p, q)
  OBVIOUS
<1>6. Gets(win, p, q, s)
  BY <1>4, <1>5, GetAlignedIs
<1>7. AllocateLarge(hp, bytes, k) =
        IF s.found THEN Allocated(hp, s.addr, s.fl, blk) ELSE Fails("dead", hp)
  BY <1>1, <1>2, <1>3, <1>5 DEF AllocateLarge, WinAllocate
<1>8. s.found \in BOOLEAN
  BY <1>6 DEF Gets
<1>9. CASE s.found
  <2>1. PICK f : f = s.fl
    OBVIOUS
  <2>2. /\ Ordered(f) /\ s.addr \in Nat /\ s.addr % q = 0
        /\ Bytes(s.addr, p) \subseteq FreeBytes(win) /\ FreeBytes(f) = FreeBytes(win) \ Bytes(s.addr, p)
    BY <1>6, <1>9, <2>1 DEF Gets
  <2>3. PICK a \in Nat : a = s.addr
    BY <2>2
  <2>4. a % k = 0
    <3>1. CASE k > BlockSize
      BY <1>2, <2>2, <2>3, <3>1
    <3>2. CASE ~(k > BlockSize)
      <4>1. q = BlockSize /\ BlockSize % k = 0
        BY <1>2, <3>2
      <4>2. q % k = 0 /\ a % q = 0
        BY <2>2, <2>3, <4>1
      <4>3. QED
        BY <4>2, MultipleOfMultiple
    <3>3. QED
      BY <3>1, <3>2
  <2>5. Occupied(hp, a, bytes) = Bytes(a, p)
    BY <1>1 DEF Occupied
  <2>6. /\ FreeBytes(f) \cap FreeBytes(blk) = {}
        /\ Occupied(hp, a, bytes) \subseteq Free(hp)
        /\ FreeBytes(f) \cup FreeBytes(blk) = Free(hp) \ Occupied(hp, a, bytes)
    BY <1>4, <2>2, <2>3, <2>5
  <2>7. Allocates(hp, bytes, k, Allocated(hp, a, f, blk))
    BY <1>4, <2>2, <2>4, <2>6, AllocatedIs
  <2>8. QED
    BY <1>7, <1>9, <2>1, <2>3, <2>7
<1>10. CASE ~s.found
  BY <1>7, <1>10, FailsIs
<1>11. QED
  BY <1>8, <1>9, <1>10

\* root_resource.
LEMMA RootAllocateIs ==
  ASSUME NEW hp, HeapOk(hp), hp.kind = "root", NEW bytes \in Nat \ {0}, NEW k \in Nat \ {0}
  PROVE  Allocates(hp, bytes, k, RootAllocate(hp, bytes, k))
<1>1. PICK win, blk : win = hp.win /\ blk = hp.blk
  OBVIOUS
<1>2. /\ Ordered(win) /\ Ordered(blk) /\ FreeBytes(win) \cap FreeBytes(blk) = {}
      /\ hp \in Heaps /\ Free(hp) = FreeBytes(win) \cup FreeBytes(blk)
  BY <1>1 DEF HeapOk, Free
<1>3. PICK s : s = GetAligned(win, bytes, k)
  OBVIOUS
<1>4. Gets(win, bytes, k, s)
  BY <1>2, <1>3, GetAlignedIs
<1>5. RootAllocate(hp, bytes, k) =
        IF s.found THEN Allocated(hp, s.addr, s.fl, blk) ELSE Fails("dead", hp)
  BY <1>1, <1>3 DEF RootAllocate, Apply
<1>6. s.found \in BOOLEAN
  BY <1>4 DEF Gets
<1>7. CASE s.found
  <2>1. PICK f : f = s.fl
    OBVIOUS
  <2>2. /\ Ordered(f) /\ s.addr \in Nat /\ s.addr % k = 0
        /\ Bytes(s.addr, bytes) \subseteq FreeBytes(win)
        /\ FreeBytes(f) = FreeBytes(win) \ Bytes(s.addr, bytes)
    BY <1>4, <1>7, <2>1 DEF Gets
  <2>3. PICK a \in Nat : a = s.addr
    BY <2>2
  <2>4. Occupied(hp, a, bytes) = Bytes(a, bytes)
    BY DEF Occupied
  <2>5. /\ FreeBytes(f) \cap FreeBytes(blk) = {}
        /\ Occupied(hp, a, bytes) \subseteq Free(hp)
        /\ FreeBytes(f) \cup FreeBytes(blk) = Free(hp) \ Occupied(hp, a, bytes)
    BY <1>2, <2>2, <2>3, <2>4
  <2>6. a % k = 0
    BY <2>2, <2>3
  <2>7. Allocates(hp, bytes, k, Allocated(hp, a, f, blk))
    BY <1>2, <2>2, <2>5, <2>6, AllocatedIs
  <2>8. QED
    BY <1>5, <1>7, <2>1, <2>3, <2>7
<1>8. CASE ~s.found
  BY <1>5, <1>8, FailsIs
<1>9. QED
  BY <1>6, <1>7, <1>8

\* What a smaller request needs to be served from a block: the room for its
\* alignment.
Fits(bytes, k) == bytes + k <= BlockSize

\* block_resource: a smaller request that needs a new block.  The check on the
\* block that has just been added holds when the request fits.
LEMMA AllocateBlockIs ==
  ASSUME NEW hp, HeapOk(hp), hp.kind = "block", NEW bytes \in Nat \ {0}, bytes < BlockSize,
         NEW k \in Nat \ {0}
  PROVE  /\ Allocates(hp, bytes, k, AllocateBlock(hp, bytes, k))
         /\ Fits(bytes, k) => AllocateBlock(hp, bytes, k).how # "check"
<1>1. PICK win, blk : win = hp.win /\ blk = hp.blk
  OBVIOUS
<1>2. /\ Ordered(win) /\ Ordered(blk) /\ FreeBytes(win) \cap FreeBytes(blk) = {}
      /\ hp \in Heaps /\ Free(hp) = FreeBytes(win) \cup FreeBytes(blk)
  BY <1>1 DEF HeapOk, Free
<1>3. PICK B \in Nat \ {0} : B = BlockSize
  BY BlockConstants
<1>4. PICK new : new = GetAligned(win, B, B)
  OBVIOUS
<1>5. WinAllocate(hp, BlockSize, BlockSize) = new
  BY <1>1, <1>3, <1>4, BlockIsPages DEF WinAllocate
<1>6. Gets(win, B, B, new)
  BY <1>2, <1>4, GetAlignedIs
<1>7. PICK big : big = Add(blk, new.addr, B)
  OBVIOUS
<1>8. PICK s : s = GetAligned(big, bytes, k)
  OBVIOUS
<1>9. AllocateBlock(hp, bytes, k) =
        IF ~new.found THEN Fails("dead", hp)
        ELSE IF s.found THEN Allocated(hp, s.addr, new.fl, s.fl) ELSE Fails("check", hp)
  BY <1>1, <1>3, <1>5, <1>7, <1>8 DEF AllocateBlock, Apply
<1>10. new.found \in BOOLEAN
  BY <1>6 DEF Gets
<1>11. CASE new.found
  <2>1. PICK f : f = new.fl
    OBVIOUS
  <2>2. PICK a \in Nat : a = new.addr
    BY <1>6, <1>11 DEF Gets
  <2>3. Ordered(f) /\ Bytes(a, B) \subseteq FreeBytes(win) /\ FreeBytes(f) = FreeBytes(win) \ Bytes(a, B)
    BY <1>6, <1>11, <2>1, <2>2 DEF Gets
  <2>4. Bytes(a, B) \cap FreeBytes(blk) = {}
    BY <1>2, <2>3
  <2>5. Ordered(big) /\ FreeBytes(big) = FreeBytes(blk) \cup Bytes(a, B)
    BY <1>2, <1>7, <2>2, <2>4, AddIs
  <2>6. Gets(big, bytes, k, s)
    BY <1>8, <2>5, GetAlignedIs
  <2>7. s.found \in BOOLEAN
    BY <2>6 DEF Gets
  <2>8. CASE s.found
    <3>1. PICK d : d = s.fl
      OBVIOUS
    <3>2. PICK b \in Nat : b = s.addr
      BY <2>6, <2>8 DEF Gets
    <3>3. /\ Ordered(d) /\ b % k = 0 /\ Bytes(b, bytes) \subseteq FreeBytes(big)
          /\ FreeBytes(d) = FreeBytes(big) \ Bytes(b, bytes)
      BY <2>6, <2>8, <3>1, <3>2 DEF Gets
    <3>4. Occupied(hp, b, bytes) = Bytes(b, bytes)
      BY <1>3 DEF Occupied
    <3>5. /\ FreeBytes(f) \cap FreeBytes(d) = {}
          /\ Occupied(hp, b, bytes) \subseteq Free(hp)
          /\ FreeBytes(f) \cup FreeBytes(d) = Free(hp) \ Occupied(hp, b, bytes)
      BY <1>2, <2>3, <2>4, <2>5, <3>3, <3>4
    <3>6. Allocates(hp, bytes, k, Allocated(hp, b, f, d))
      BY <1>2, <2>3, <3>3, <3>5, AllocatedIs
    <3>7. AllocateBlock(hp, bytes, k) = Allocated(hp, b, f, d)
      BY <1>9, <1>11, <2>1, <2>8, <3>1, <3>2
    <3>8. Allocated(hp, b, f, d).how = "ok"
      BY DEF Allocated
    <3>9. QED
      BY <3>6, <3>7, <3>8
  <2>9. CASE ~s.found
    <3>1. AllocateBlock(hp, bytes, k) = Fails("check", hp)
      BY <1>9, <1>11, <2>9
    <3>2. ASSUME Fits(bytes, k)
          PROVE  FALSE
      <4>1. bytes + k <= B
        BY <1>3, <3>2 DEF Fits
      <4>2. Bytes(a, bytes + k) \subseteq Bytes(a, B)
        BY <4>1, InBytes
      <4>3. Bytes(a, bytes + k) \subseteq FreeBytes(big)
        BY <2>5, <4>2
      <4>4. s.found
        BY <1>8, <2>5, <4>3, GetAlignedFinds
      <4>5. QED
        BY <2>9, <4>4
    <3>3. QED
      BY <3>1, <3>2, FailsIs
  <2>10. QED
    BY <2>7, <2>8, <2>9
<1>12. CASE ~new.found
  <2>1. AllocateBlock(hp, bytes, k) = Fails("dead", hp)
    BY <1>9, <1>12
  <2>2. Fails("dead", hp).how = "dead"
    BY DEF Fails
  <2>3. QED
    BY <2>1, <2>2, FailsIs
<1>13. QED
  BY <1>10, <1>11, <1>12

\* block_resource: a smaller request.
LEMMA AllocateSmallIs ==
  ASSUME NEW hp, HeapOk(hp), hp.kind = "block", NEW bytes \in Nat \ {0}, bytes < BlockSize,
         NEW k \in Nat \ {0}
  PROVE  /\ Allocates(hp, bytes, k, AllocateSmall(hp, bytes, k))
         /\ Fits(bytes, k) => AllocateSmall(hp, bytes, k).how # "check"
<1>1. PICK win, blk : win = hp.win /\ blk = hp.blk
  OBVIOUS
<1>2. /\ Ordered(win) /\ Ordered(blk) /\ FreeBytes(win) \cap FreeBytes(blk) = {}
      /\ hp \in Heaps /\ Free(hp) = FreeBytes(win) \cup FreeBytes(blk)
  BY <1>1 DEF HeapOk, Free
<1>3. PICK s : s = GetAligned(blk, bytes, k)
  OBVIOUS
<1>4. Gets(blk, bytes, k, s)
  BY <1>2, <1>3, GetAlignedIs
<1>5. s.found \in BOOLEAN
  BY <1>4 DEF Gets
<1>6. PICK d : d = s.fl /\ Ordered(d)
  BY <1>4 DEF Gets
<1>7. PICK h : h = [hp EXCEPT !.blk = d]
  OBVIOUS
<1>8. AllocateSmall(hp, bytes, k) =
        IF s.found THEN Allocated(hp, s.addr, win, d) ELSE AllocateBlock(h, bytes, k)
  BY <1>1, <1>3, <1>6, <1>7 DEF AllocateSmall, Apply
<1>9. CASE s.found
  <2>1. PICK b \in Nat : b = s.addr
    BY <1>4, <1>9 DEF Gets
  <2>2. /\ b % k = 0 /\ Bytes(b, bytes) \subseteq FreeBytes(blk)
        /\ FreeBytes(d) = FreeBytes(blk) \ Bytes(b, bytes)
    BY <1>4, <1>6, <1>9, <2>1 DEF Gets
  <2>3. Occupied(hp, b, bytes) = Bytes(b, bytes)
    <3>1. ~(bytes >= BlockSize)
      BY BlockConstants
    <3>2. QED
      BY <3>1 DEF Occupied
  <2>4. /\ FreeBytes(win) \cap FreeBytes(d) = {}
        /\ Occupied(hp, b, bytes) \subseteq Free(hp)
        /\ FreeBytes(win) \cup FreeBytes(d) = Free(hp) \ Occupied(hp, b, bytes)
    BY <1>2, <2>2, <2>3
  <2>5. Allocates(hp, bytes, k, Allocated(hp, b, win, d))
    BY <1>2, <1>6, <2>2, <2>4, AllocatedIs
  <2>6. Allocated(hp, b, win, d).how = "ok"
    BY DEF Allocated
  <2>7. QED
    BY <1>8, <1>9, <2>1, <2>5, <2>6
<1>10. CASE ~s.found
  <2>1. FreeBytes(d) = FreeBytes(blk)
    BY <1>4, <1>6, <1>10 DEF Gets
  <2>2. h = With(hp, win, d)
    BY <1>1, <1>2, <1>7 DEF With, Heaps
  <2>3. HeapOk(h) /\ h.kind = hp.kind /\ Free(h) = Free(hp)
    <3>1. FreeBytes(win) \cap FreeBytes(d) = {}
      BY <1>2, <2>1
    <3>2. HeapOk(h) /\ h.kind = hp.kind /\ Free(h) = FreeBytes(win) \cup FreeBytes(d)
      BY <1>2, <1>6, <2>2, <3>1, WithLists
    <3>3. QED
      BY <1>2, <2>1, <3>2
  <2>4. /\ Allocates(h, bytes, k, AllocateBlock(h, bytes, k))
        /\ Fits(bytes, k) => AllocateBlock(h, bytes, k).how # "check"
    BY <2>3, AllocateBlockIs
  <2>5. \A a : Occupied(h, a, bytes) = Occupied(hp, a, bytes)
    BY <2>3 DEF Occupied
  <2>6. Allocates(hp, bytes, k, AllocateBlock(h, bytes, k))
    BY <2>3, <2>4, <2>5 DEF Allocates
  <2>7. QED
    BY <1>8, <1>10, <2>4, <2>6
<1>11. QED
  BY <1>5, <1>9, <1>10

\* do_allocate of either heap; no check fails when the request fits.
LEMMA HeapAllocateIs ==
  ASSUME NEW hp, HeapOk(hp), NEW bytes \in Nat \ {0}, NEW k \in Nat \ {0},
         k > BlockSize \/ BlockSize % k = 0
  PROVE  /\ Allocates(hp, bytes, k, HeapAllocate(hp, bytes, k))
         /\ (bytes >= BlockSize \/ Fits(bytes, k)) => HeapAllocate(hp, bytes, k).how # "check"
<1>1. hp.kind \in {"block", "root"}
  BY DEF HeapOk, Heaps
<1>2. CASE hp.kind = "root"
  <2>1. HeapAllocate(hp, bytes, k) = RootAllocate(hp, bytes, k)
    BY <1>2 DEF HeapAllocate
  <2>2. Allocates(hp, bytes, k, RootAllocate(hp, bytes, k))
    BY <1>2, RootAllocateIs
  <2>3. RootAllocate(hp, bytes, k).how # "check"
    <3>1. PICK s : s = GetAligned(hp.win, bytes, k)
      OBVIOUS
    <3>2. RootAllocate(hp, bytes, k) =
            IF s.found THEN Allocated(hp, s.addr, s.fl, hp.blk) ELSE Fails("dead", hp)
      BY <3>1 DEF RootAllocate, Apply
    <3>3. Allocated(hp, s.addr, s.fl, hp.blk).how = "ok" /\ Fails("dead", hp).how = "dead"
      BY DEF Allocated, Fails
    <3>4. QED
      BY <3>2, <3>3
  <2>4. QED
    BY <2>1, <2>2, <2>3
<1>3. CASE hp.kind = "block" /\ bytes >= BlockSize
  <2>1. HeapAllocate(hp, bytes, k) = AllocateLarge(hp, bytes, k)
    BY <1>3 DEF HeapAllocate
  <2>2. Allocates(hp, bytes, k, AllocateLarge(hp, bytes, k))
    BY <1>3, AllocateLargeIs
  <2>3. AllocateLarge(hp, bytes, k).how # "check"
    BY DEF AllocateLarge, Allocated, Fails
  <2>4. QED
    BY <2>1, <2>2, <2>3
<1>4. CASE hp.kind = "block" /\ ~(bytes >= BlockSize)
  <2>1. HeapAllocate(hp, bytes, k) = AllocateSmall(hp, bytes, k)
    BY <1>4 DEF HeapAllocate
  <2>2. bytes < BlockSize /\ ~(bytes >= BlockSize)
    BY <1>4, BlockConstants
  <2>3. /\ Allocates(hp, bytes, k, AllocateSmall(hp, bytes, k))
        /\ Fits(bytes, k) => AllocateSmall(hp, bytes, k).how # "check"
    BY <1>4, <2>2, AllocateSmallIs
  <2>4. QED
    BY <2>1, <2>2, <2>3
<1>5. QED
  BY <1>1, <1>2, <1>3, <1>4

\* do_deallocate: the bytes are free again.
LEMMA HeapDeallocateIs ==
  ASSUME NEW hp, HeapOk(hp), NEW a \in Nat, NEW bytes \in Nat \ {0},
         Occupied(hp, a, bytes) \cap Free(hp) = {},
         NEW h, h = HeapDeallocate(hp, a, bytes)
  PROVE  /\ HeapOk(h) /\ h.kind = hp.kind
         /\ Free(h) = Free(hp) \cup Occupied(hp, a, bytes)
<1>1. PICK win, blk : win = hp.win /\ blk = hp.blk
  OBVIOUS
<1>2. /\ Ordered(win) /\ Ordered(blk) /\ FreeBytes(win) \cap FreeBytes(blk) = {}
      /\ hp \in Heaps /\ Free(hp) = FreeBytes(win) \cup FreeBytes(blk)
  BY <1>1 DEF HeapOk, Free
<1>3. hp.kind \in {"block", "root"}
  BY <1>2 DEF Heaps
<1>4. PICK p \in Nat \ {0} : p = Pages(bytes)
  BY PagesIs
<1>5. ASSUME NEW n \in Nat, Bytes(a, n) = Occupied(hp, a, bytes), h = [hp EXCEPT !.win = Add(@, a, n)]
      PROVE  /\ HeapOk(h) /\ h.kind = hp.kind
             /\ Free(h) = Free(hp) \cup Occupied(hp, a, bytes)
  <2>1. Bytes(a, n) \cap FreeBytes(win) = {}
    BY <1>2, <1>5
  <2>2. PICK f : f = Add(win, a, n)
    OBVIOUS
  <2>3. Ordered(f) /\ FreeBytes(f) = FreeBytes(win) \cup Bytes(a, n)
    BY <1>2, <2>1, <2>2, AddIs
  <2>4. h = With(hp, f, blk)
    BY <1>1, <1>2, <1>5, <2>2 DEF With, Heaps
  <2>5. FreeBytes(f) \cap FreeBytes(blk) = {}
    BY <1>2, <1>5, <2>3
  <2>6. HeapOk(h) /\ h.kind = hp.kind /\ Free(h) = FreeBytes(f) \cup FreeBytes(blk)
    BY <1>2, <2>3, <2>4, <2>5, WithLists
  <2>7. QED
    BY <1>2, <1>5, <2>3, <2>6
<1>6. CASE hp.kind = "root"
  <2>1. h = [hp EXCEPT !.win = Add(@, a, bytes)]
    BY <1>6 DEF HeapDeallocate, RootDeallocate
  <2>2. Bytes(a, bytes) = Occupied(hp, a, bytes)
    BY <1>6 DEF Occupied
  <2>3. QED
    BY <1>5, <2>1, <2>2
<1>7. CASE hp.kind = "block" /\ bytes >= BlockSize
  <2>1. h = [hp EXCEPT !.win = Add(@, a, p)]
    BY <1>4, <1>7 DEF HeapDeallocate, WinDeallocate
  <2>2. Bytes(a, p) = Occupied(hp, a, bytes)
    BY <1>4, <1>7 DEF Occupied
  <2>3. QED
    BY <1>5, <2>1, <2>2
<1>8. CASE hp.kind = "block" /\ ~(bytes >= BlockSize)
  <2>1. Bytes(a, bytes) = Occupied(hp, a, bytes)
    BY <1>8 DEF Occupied
  <2>2. PICK f : f = Add(blk, a, bytes)
    OBVIOUS
  <2>3. Bytes(a, bytes) \cap FreeBytes(blk) = {}
    BY <1>2, <2>1
  <2>4. Ordered(f) /\ FreeBytes(f) = FreeBytes(blk) \cup Bytes(a, bytes)
    BY <1>2, <2>2, <2>3, AddIs
  <2>5. h = With(hp, win, f)
    BY <1>1, <1>2, <1>8, <2>2 DEF HeapDeallocate, With, Heaps
  <2>6. FreeBytes(win) \cap FreeBytes(f) = {}
    BY <1>2, <2>1, <2>4
  <2>7. HeapOk(h) /\ h.kind = hp.kind /\ Free(h) = FreeBytes(win) \cup FreeBytes(f)
    BY <1>2, <2>4, <2>5, <2>6, WithLists
  <2>8. QED
    BY <1>2, <2>1, <2>4, <2>7
<1>9. QED
  BY <1>3, <1>6, <1>7, <1>8

-----------------------------------------------------------------------------
(* The list of headers.                                                     *)

Nodes == Addrs \cup {ListHead}

\* The null pointer and the list head are no addresses.
LEMMA NotAddrs ==
  /\ Null \notin Addrs /\ ListHead \notin Addrs /\ Null # ListHead
  /\ \A a \in Addrs : a \in Nat
<1>1. \A a \in Addrs : a \in Nat
  BY BlockConstants DEF Addrs
<1>2. QED
  BY <1>1 DEF Null, ListHead

\* No header is in the list twice.
OnceEach(q) == \A i, j \in DOMAIN q : q[i] = q[j] => i = j

\* IsList, of any links.
ListOf(q, nx, pv, en) ==
  /\ \A i \in {0} \cup DOMAIN q : nx[Node(q, i)] = Node(q, i + 1)
  /\ \A i \in DOMAIN q : pv[q[i]] = Node(q, i - 1)
  /\ en = Node(q, Len(q))

\* The headers of a list.
Listed(q) == {q[i] : i \in DOMAIN q}

\* Links of headers.
Links(nx, pv) == nx \in [Nodes -> Addrs \cup {Null}] /\ pv \in [Nodes -> Nodes \cup {Null}]

\* The list with a header more.
WithLast(q, h) == Append(q, h)

\* The links after Link, and after Unlink, of the header h.
LinkNext(nx, en, h) == [nx EXCEPT ![h] = Null, ![en] = h]
LinkPrev(pv, en, h) == [pv EXCEPT ![h] = en]
UnlinkNext(nx, pv, h) == [nx EXCEPT ![pv[h]] = nx[h], ![h] = Null]
UnlinkPrev(nx, pv, h) == [n \in DOMAIN pv |-> IF n = h THEN Null ELSE IF n = nx[h] THEN pv[h] ELSE pv[n]]
UnlinkEnd(nx, pv, en, h) == IF nx[h] # Null THEN en ELSE pv[h]

\* The positions of a list.
LEMMA NodeIs ==
  ASSUME NEW q \in Seq(Addrs)
  PROVE  /\ Len(q) \in Nat /\ DOMAIN q = 1..Len(q)
         /\ Node(q, 0) = ListHead
         /\ \A i \in 1..Len(q) : Node(q, i) = q[i] /\ q[i] \in Addrs
         /\ Node(q, Len(q) + 1) = Null
         /\ \A i \in 0..Len(q) : Node(q, i) \in Nodes /\ Node(q, i) # Null
         /\ \A i \in 1..(Len(q) + 1) : Node(q, i) \in Addrs \cup {Null}
<1>1. PICK l \in Nat : l = Len(q) /\ DOMAIN q = 1..l
  OBVIOUS
<1>2. Node(q, 0) = ListHead
  BY DEF Node
<1>3. \A i \in 1..l : Node(q, i) = q[i] /\ q[i] \in Addrs
  BY <1>1 DEF Node
<1>4. Node(q, l + 1) = Null
  BY <1>1 DEF Node
<1>5. \A i \in 0..l : Node(q, i) \in Nodes /\ Node(q, i) # Null
  <2>1. TAKE i \in 0..l
  <2>2. i = 0 \/ i \in 1..l
    OBVIOUS
  <2>3. QED
    BY <1>2, <1>3, <2>2, NotAddrs DEF Nodes
<1>6. \A i \in 1..(l + 1) : Node(q, i) \in Addrs \cup {Null}
  <2>1. TAKE i \in 1..(l + 1)
  <2>2. i = l + 1 \/ i \in 1..l
    OBVIOUS
  <2>3. QED
    BY <1>3, <1>4, <2>2
<1>7. QED
  BY <1>1, <1>2, <1>3, <1>4, <1>5, <1>6

\* Different positions hold different headers.
LEMMA NodesApart ==
  ASSUME NEW q \in Seq(Addrs), OnceEach(q), NEW i \in 0..Len(q), NEW j \in 0..Len(q), i # j
  PROVE  Node(q, i) # Node(q, j)
<1>1. PICK l \in Nat : l = Len(q) /\ DOMAIN q = 1..l
  OBVIOUS
<1>2. (i = 0 \/ i \in 1..l) /\ (j = 0 \/ j \in 1..l)
  BY <1>1
<1>3. CASE i \in 1..l /\ j \in 1..l
  BY <1>1, <1>3, NodeIs DEF OnceEach
<1>4. CASE i = 0
  BY <1>1, <1>2, <1>4, NodeIs, NotAddrs
<1>5. CASE j = 0
  BY <1>1, <1>2, <1>5, NodeIs, NotAddrs
<1>6. QED
  BY <1>2, <1>3, <1>4, <1>5

\* A header goes to the end.
LEMMA LinkList ==
  ASSUME NEW q \in Seq(Addrs), OnceEach(q), NEW h \in Addrs, h \notin Listed(q),
         NEW nx, NEW pv, NEW en, Links(nx, pv),
         ListOf(q, nx, pv, en),
         NEW nx2, nx2 = LinkNext(nx, en, h),
         NEW pv2, pv2 = LinkPrev(pv, en, h),
         NEW g, g = WithLast(q, h)
  PROVE  /\ g \in Seq(Addrs) /\ OnceEach(g) /\ ListOf(g, nx2, pv2, h)
         /\ Listed(g) = Listed(q) \cup {h}
<1>1. PICK l \in Nat : l = Len(q) /\ DOMAIN q = 1..l
  OBVIOUS
<1>2. g \in Seq(Addrs) /\ Len(g) = l + 1 /\ DOMAIN g = 1..(l + 1) /\ g[l + 1] = h /\ \A i \in 1..l : g[i] = q[i]
  BY <1>1 DEF WithLast
<1>3. \A i \in 1..l : q[i] # h
  BY <1>1 DEF Listed
<1>4. OnceEach(g)
  <2>1. ASSUME NEW i \in 1..(l + 1), NEW j \in 1..(l + 1), g[i] = g[j]
        PROVE  i = j
    <3>1. (i = l + 1 \/ i \in 1..l) /\ (j = l + 1 \/ j \in 1..l)
      OBVIOUS
    <3>2. CASE i \in 1..l /\ j \in 1..l
      BY <1>1, <1>2, <2>1, <3>2 DEF OnceEach
    <3>3. CASE i = l + 1
      BY <1>2, <1>3, <2>1, <3>1, <3>3
    <3>4. CASE j = l + 1
      BY <1>2, <1>3, <2>1, <3>1, <3>4
    <3>5. QED
      BY <3>1, <3>2, <3>3, <3>4
  <2>2. QED
    BY <1>2, <2>1 DEF OnceEach
<1>5. Listed(g) = Listed(q) \cup {h}
  <2>1. \A i \in 1..(l + 1) : i = l + 1 \/ i \in 1..l
    OBVIOUS
  <2>2. l + 1 \in 1..(l + 1) /\ \A i \in 1..l : i \in 1..(l + 1)
    OBVIOUS
  <2>3. QED
    BY <1>1, <1>2, <2>1, <2>2 DEF Listed
<1>6. /\ \A i \in 0..l : Node(g, i) = Node(q, i) /\ Node(g, i) \in Nodes
      /\ Node(g, l + 1) = h /\ Node(g, l + 2) = Null
  <2>1. ASSUME NEW i \in 0..l
        PROVE  Node(g, i) = Node(q, i) /\ Node(g, i) \in Nodes
    <3>1. i = 0 \/ i \in 1..l
      OBVIOUS
    <3>2. i \in 1..l => i \in DOMAIN g /\ i \in DOMAIN q /\ g[i] = q[i]
      BY <1>1, <1>2
    <3>3. Node(g, i) = Node(q, i)
      BY <3>1, <3>2 DEF Node
    <3>4. QED
      BY <1>1, <3>3, NodeIs
  <2>2. Node(g, l + 1) = h
    BY <1>2 DEF Node
  <2>3. Node(g, l + 2) = Null
    BY <1>2 DEF Node
  <2>4. QED
    BY <2>1, <2>2, <2>3
<1>7. en = Node(q, l) /\ en \in Nodes /\ en # h
  <2>1. en = Node(q, l)
    BY <1>1 DEF ListOf
  <2>2. en \in Nodes
    BY <1>1, <2>1, NodeIs
  <2>3. l = 0 \/ l \in 1..l
    OBVIOUS
  <2>4. CASE l = 0
    BY <2>1, <2>4, NodeIs, NotAddrs
  <2>5. CASE l \in 1..l
    BY <1>1, <1>3, <2>1, <2>5, NodeIs
  <2>6. QED
    BY <2>1, <2>2, <2>3, <2>4, <2>5
<1>8. /\ nx2[en] = h /\ nx2[h] = Null
      /\ \A n \in Nodes : n # en /\ n # h => nx2[n] = nx[n]
      /\ pv2[h] = en /\ \A n \in Nodes : n # h => pv2[n] = pv[n]
  BY <1>7 DEF Links, Nodes, LinkNext, LinkPrev
<1>9. ASSUME NEW i \in 0..(l + 1)
      PROVE  nx2[Node(g, i)] = Node(g, i + 1)
  <2>1. CASE i \in 0..(l - 1)
    <3>1. i \in 0..l /\ i + 1 \in 0..l /\ l \in 0..l /\ i # l
      BY <2>1
    <3>2. Node(g, i) = Node(q, i) /\ Node(g, i + 1) = Node(q, i + 1) /\ Node(q, i) \in Nodes
      BY <1>6, <3>1
    <3>3. Node(q, i) # en
      BY <1>1, <1>7, <3>1, NodesApart
    <3>4. Node(q, i) # h
      <4>1. i = 0 \/ i \in 1..l
        BY <3>1
      <4>2. QED
        BY <1>1, <1>3, <4>1, NodeIs, NotAddrs
    <3>5. nx[Node(q, i)] = Node(q, i + 1)
      <4>1. i \in {0} \cup DOMAIN q
        BY <1>1, <3>1
      <4>2. QED
        BY <4>1 DEF ListOf
    <3>6. QED
      BY <1>8, <3>2, <3>3, <3>4, <3>5
  <2>2. CASE i = l
    <3>1. Node(g, i) = en /\ Node(g, i + 1) = h
      BY <1>6, <1>7, <2>2
    <3>2. QED
      BY <1>8, <3>1
  <2>3. CASE i = l + 1
    <3>1. Node(g, i) = h /\ Node(g, i + 1) = Null
      <4>1. i + 1 = l + 2
        BY <2>3
      <4>2. QED
        BY <1>6, <2>3, <4>1
    <3>2. QED
      BY <1>8, <3>1
  <2>4. QED
    BY <2>1, <2>2, <2>3
<1>10. ASSUME NEW i \in 1..(l + 1)
       PROVE  pv2[g[i]] = Node(g, i - 1)
  <2>1. CASE i \in 1..l
    <3>1. g[i] = q[i] /\ g[i] # h /\ g[i] \in Nodes
      BY <1>1, <1>2, <1>3, <2>1, NodeIs DEF Nodes
    <3>2. pv[q[i]] = Node(q, i - 1)
      BY <1>1, <2>1 DEF ListOf
    <3>3. i - 1 \in 0..l
      BY <2>1
    <3>4. QED
      BY <1>6, <1>8, <3>1, <3>2, <3>3
  <2>2. CASE i = l + 1
    <3>1. i - 1 = l /\ l \in 0..l
      BY <2>2
    <3>2. QED
      BY <1>2, <1>6, <1>7, <1>8, <2>2, <3>1
  <2>3. i \in 1..l \/ i = l + 1
    OBVIOUS
  <2>4. QED
    BY <2>1, <2>2, <2>3
<1>11. \A i : i \in {0} \cup DOMAIN g => i \in 0..(l + 1)
  BY <1>2
<1>12. ListOf(g, nx2, pv2, h)
  BY <1>2, <1>6, <1>9, <1>10, <1>11 DEF ListOf
<1>13. QED
  BY <1>2, <1>4, <1>5, <1>12

\* A header leaves the list.
LEMMA UnlinkList ==
  ASSUME NEW q \in Seq(Addrs), OnceEach(q), NEW k \in 1..Len(q), NEW h, h = q[k],
         NEW nx, NEW pv, NEW en, Links(nx, pv),
         ListOf(q, nx, pv, en),
         NEW nx2, nx2 = UnlinkNext(nx, pv, h),
         NEW pv2, pv2 = UnlinkPrev(nx, pv, h),
         NEW en2, en2 = UnlinkEnd(nx, pv, en, h),
         NEW g, g = RemoveAt(q, k)
  PROVE  /\ g \in Seq(Addrs) /\ OnceEach(g) /\ ListOf(g, nx2, pv2, en2)
         /\ Listed(g) = Listed(q) \ {h}
         /\ Len(g) = Len(q) - 1
         /\ nx[h] = Node(q, k + 1)
         /\ \A i \in 0..(k - 1) : Node(g, i) = Node(q, i)
         /\ \A i \in k..Len(q) : Node(g, i) = Node(q, i + 1)
<1>1. PICK l \in Nat : l = Len(q) /\ DOMAIN q = 1..l
  OBVIOUS
<1>2. k \in 1..l
  BY <1>1
<1>3. /\ g \in Seq(Addrs) /\ DOMAIN g = 1..(l - 1)
      /\ \A i \in 1..(l - 1) : g[i] = IF i < k THEN q[i] ELSE q[i + 1]
  BY <1>1, RemoveAtIs
<1>4. Len(g) = l - 1
  <2>1. Len(g) \in Nat /\ DOMAIN g = 1..Len(g)
    BY <1>3
  <2>2. 1..Len(g) = 1..(l - 1) /\ l - 1 \in Nat
    BY <1>2, <1>3, <2>1
  <2>3. QED
    BY <2>1, <2>2
<1>5. /\ \A i \in 1..(l - 1) : i < k => g[i] = q[i]
      /\ \A i \in 1..(l - 1) : k <= i => g[i] = q[i + 1]
  <2>1. \A i \in 1..(l - 1) : k <= i => ~(i < k)
    BY <1>2
  <2>2. QED
    BY <1>3, <2>1
<1>6. /\ \A i \in 0..(k - 1) : Node(g, i) = Node(q, i)
      /\ \A i \in k..l : Node(g, i) = Node(q, i + 1)
  <2>1. ASSUME NEW i \in 0..(k - 1)
        PROVE  Node(g, i) = Node(q, i)
    <3>1. i = 0 \/ (i \in 1..(l - 1) /\ i \in 1..l /\ i < k)
      BY <1>2
    <3>2. QED
      BY <1>1, <1>3, <1>5, <3>1 DEF Node
  <2>2. ASSUME NEW i \in k..l
        PROVE  Node(g, i) = Node(q, i + 1)
    <3>1. CASE i = l
      <4>1. i \notin 1..(l - 1) /\ i + 1 \notin 1..l /\ i # 0 /\ i + 1 # 0
        BY <1>2, <3>1
      <4>2. QED
        BY <1>1, <1>3, <4>1 DEF Node
    <3>2. CASE i # l
      <4>1. i \in 1..(l - 1) /\ i + 1 \in 1..l /\ i # 0 /\ i + 1 # 0 /\ k <= i
        BY <1>2, <3>2
      <4>2. QED
        BY <1>1, <1>3, <1>5, <4>1 DEF Node
    <3>3. QED
      BY <3>1, <3>2
  <2>3. QED
    BY <2>1, <2>2
<1>7. OnceEach(g)
  <2>1. ASSUME NEW i \in 1..(l - 1), NEW j \in 1..(l - 1), g[i] = g[j]
        PROVE  i = j
    <3>1. PICK u \in 1..l : u = IF i < k THEN i ELSE i + 1
      OBVIOUS
    <3>2. PICK v \in 1..l : v = IF j < k THEN j ELSE j + 1
      OBVIOUS
    <3>3. g[i] = q[u] /\ g[j] = q[v]
      BY <1>3, <3>1, <3>2
    <3>4. u = v
      BY <1>1, <2>1, <3>3 DEF OnceEach
    <3>5. QED
      BY <1>2, <3>1, <3>2, <3>4
  <2>2. QED
    BY <1>3, <2>1 DEF OnceEach
<1>8. Listed(g) = Listed(q) \ {h}
  <2>1. ASSUME NEW i \in 1..(l - 1)
        PROVE  \E j \in 1..l : g[i] = q[j] /\ q[j] # h
    <3>1. PICK u \in 1..l : u = IF i < k THEN i ELSE i + 1
      OBVIOUS
    <3>2. g[i] = q[u]
      BY <1>3, <3>1
    <3>3. u # k
      BY <1>2, <3>1
    <3>4. QED
      BY <1>1, <1>2, <3>2, <3>3 DEF OnceEach
  <2>2. ASSUME NEW j \in 1..l, q[j] # h
        PROVE  \E i \in 1..(l - 1) : g[i] = q[j]
    <3>1. j # k
      BY <2>2
    <3>2. CASE j < k
      <4>1. j \in 1..(l - 1)
        BY <1>2, <3>2
      <4>2. QED
        BY <1>5, <3>2, <4>1
    <3>3. CASE k < j
      <4>1. j - 1 \in 1..(l - 1) /\ k <= j - 1 /\ (j - 1) + 1 = j
        BY <1>2, <3>3
      <4>2. g[j - 1] = q[(j - 1) + 1]
        BY <1>5, <4>1
      <4>3. QED
        BY <4>1, <4>2
    <3>4. QED
      BY <1>2, <3>1, <3>2, <3>3
  <2>3. \A x : x \in Listed(g) <=> \E i \in 1..(l - 1) : x = g[i]
    BY <1>3 DEF Listed
  <2>4. \A x : x \in Listed(q) <=> \E i \in 1..l : x = q[i]
    BY <1>1 DEF Listed
  <2>5. \A x : x \in Listed(g) => x \in Listed(q) \ {h}
    <3>1. TAKE x
    <3>2. ASSUME NEW i \in 1..(l - 1), x = g[i]
          PROVE  (\E j \in 1..l : x = q[j]) /\ x # h
      BY <2>1, <3>2
    <3>3. QED
      BY <2>3, <2>4, <3>2
  <2>6. \A x : x \in Listed(q) \ {h} => x \in Listed(g)
    <3>1. TAKE x
    <3>2. ASSUME NEW j \in 1..l, x = q[j], x # h
          PROVE  \E i \in 1..(l - 1) : x = g[i]
      BY <2>2, <3>2
    <3>3. QED
      BY <2>3, <2>4, <3>2
  <2>7. QED
    BY <2>5, <2>6
<1>9. h = Node(q, k) /\ h \in Addrs /\ h \in Nodes /\ k \in 0..l
  BY <1>1, <1>2, NodeIs DEF Nodes
<1>10. pv[h] = Node(q, k - 1) /\ nx[h] = Node(q, k + 1) /\ en = Node(q, l)
  <2>1. k \in DOMAIN q /\ k \in {0} \cup DOMAIN q
    BY <1>1, <1>2
  <2>2. QED
    BY <1>1, <1>9, <2>1 DEF ListOf
<1>11. k - 1 \in 0..l /\ k - 1 \in 0..(k - 1) /\ k - 1 # k
  BY <1>2
<1>12. pv[h] \in Nodes /\ pv[h] # h /\ pv[h] # Null
  BY <1>1, <1>9, <1>10, <1>11, NodeIs, NodesApart
<1>13. /\ nx2[pv[h]] = nx[h]
       /\ \A n \in Nodes : n # h /\ n # pv[h] => nx2[n] = nx[n]
       /\ \A n \in Nodes : n # h /\ n = nx[h] => pv2[n] = pv[h]
       /\ \A n \in Nodes : n # h /\ n # nx[h] => pv2[n] = pv[n]
  BY <1>9, <1>12 DEF Links, UnlinkNext, UnlinkPrev
<1>14. \A i \in 0..l : i # k => Node(q, i) # h /\ Node(q, i) \in Nodes
  BY <1>1, <1>9, NodeIs, NodesApart
<1>15. \A i \in 0..l : i # k - 1 => Node(q, i) # pv[h]
  BY <1>1, <1>10, <1>11, NodesApart
<1>16. \A i \in 0..l : nx[Node(q, i)] = Node(q, i + 1)
  <2>1. \A i \in 0..l : i \in {0} \cup DOMAIN q
    BY <1>1
  <2>2. QED
    BY <2>1 DEF ListOf
<1>17. ASSUME NEW i \in 0..(l - 1)
       PROVE  nx2[Node(g, i)] = Node(g, i + 1)
  <2>1. CASE i < k - 1
    <3>1. i \in 0..l /\ i # k /\ i # k - 1 /\ i \in 0..(k - 1) /\ i + 1 \in 0..(k - 1)
      BY <1>2, <2>1
    <3>2. Node(g, i) = Node(q, i) /\ Node(g, i + 1) = Node(q, i + 1)
      BY <1>6, <3>1
    <3>3. Node(q, i) # h /\ Node(q, i) # pv[h] /\ Node(q, i) \in Nodes
      BY <1>14, <1>15, <3>1
    <3>4. nx2[Node(q, i)] = nx[Node(q, i)]
      BY <1>13, <3>3
    <3>5. QED
      BY <1>16, <3>1, <3>2, <3>4
  <2>2. CASE i = k - 1
    <3>1. i + 1 = k /\ k \in k..l /\ i \in 0..(k - 1)
      BY <1>2, <2>2
    <3>2. Node(g, i) = pv[h] /\ Node(g, i + 1) = Node(q, k + 1)
      BY <1>6, <1>10, <2>2, <3>1
    <3>3. QED
      BY <1>10, <1>13, <3>2
  <2>3. CASE k <= i
    <3>1. i + 1 \in 0..l /\ i + 1 # k /\ i + 1 # k - 1 /\ i \in k..l /\ i + 1 \in k..l
      BY <1>2, <2>3
    <3>2. Node(g, i) = Node(q, i + 1) /\ Node(g, i + 1) = Node(q, (i + 1) + 1)
      BY <1>6, <3>1
    <3>3. Node(q, i + 1) # h /\ Node(q, i + 1) # pv[h] /\ Node(q, i + 1) \in Nodes
      BY <1>14, <1>15, <3>1
    <3>4. nx2[Node(q, i + 1)] = nx[Node(q, i + 1)]
      BY <1>13, <3>3
    <3>5. QED
      BY <1>16, <3>1, <3>2, <3>4
  <2>4. QED
    BY <1>2, <2>1, <2>2, <2>3
<1>18. ASSUME NEW i \in 1..(l - 1)
       PROVE  pv2[g[i]] = Node(g, i - 1)
  <2>1. \A j \in 1..l : pv[q[j]] = Node(q, j - 1) /\ Node(q, j) = q[j]
    BY <1>1, NodeIs DEF ListOf
  <2>2. \A j \in 1..l : j # k /\ j # k + 1 => q[j] # nx[h] /\ q[j] # h /\ q[j] \in Nodes
    <3>1. TAKE j \in 1..l
    <3>2. CASE j # k /\ j # k + 1
      <4>1. j \in 0..l
        OBVIOUS
      <4>2. q[j] # h /\ q[j] \in Nodes /\ q[j] \in Addrs
        BY <1>1, <1>14, <2>1, <3>2, <4>1, NodeIs
      <4>3. CASE k = l
        BY <1>1, <1>10, <4>2, <4>3, NodeIs, NotAddrs
      <4>4. CASE k # l
        <5>1. k + 1 \in 0..l
          BY <1>2, <4>4
        <5>2. Node(q, j) # Node(q, k + 1)
          BY <1>1, <3>2, <4>1, <5>1, NodesApart
        <5>3. QED
          BY <1>10, <2>1, <4>2, <5>2
      <4>5. QED
        BY <4>3, <4>4
    <3>3. QED
      BY <3>2
  <2>3. CASE i < k
    <3>1. i \in 1..l /\ i # k /\ i # k + 1 /\ i - 1 \in 0..(k - 1)
      BY <1>2, <2>3
    <3>2. g[i] = q[i]
      BY <1>5, <2>3
    <3>3. pv2[q[i]] = pv[q[i]]
      BY <1>13, <2>2, <3>1
    <3>4. QED
      BY <1>6, <2>1, <3>1, <3>2, <3>3
  <2>4. CASE i = k
    <3>1. k + 1 \in 1..l /\ k + 1 \in 0..l /\ k + 1 # k
      BY <1>2, <2>4
    <3>2. g[i] = q[k + 1] /\ q[k + 1] = nx[h]
      BY <1>5, <1>10, <2>1, <2>4, <3>1
    <3>3. q[k + 1] # h /\ q[k + 1] \in Nodes
      BY <1>14, <2>1, <3>1
    <3>4. pv2[g[i]] = pv[h]
      BY <1>13, <3>2, <3>3
    <3>5. QED
      BY <1>6, <1>10, <1>11, <2>4, <3>4
  <2>5. CASE k < i
    <3>1. i + 1 \in 1..l /\ i + 1 # k /\ i + 1 # k + 1 /\ i - 1 \in k..l /\ (i - 1) + 1 = i /\ (i + 1) - 1 = i
      BY <1>2, <2>5
    <3>2. g[i] = q[i + 1]
      BY <1>5, <2>5
    <3>3. pv2[q[i + 1]] = pv[q[i + 1]]
      BY <1>13, <2>2, <3>1
    <3>4. pv[q[i + 1]] = Node(q, i)
      BY <2>1, <3>1
    <3>5. Node(g, i - 1) = Node(q, i)
      BY <1>6, <3>1
    <3>6. QED
      BY <3>2, <3>3, <3>4, <3>5
  <2>6. QED
    BY <1>2, <2>3, <2>4, <2>5
<1>19. en2 = Node(g, l - 1)
  <2>1. CASE k = l
    <3>1. nx[h] = Null
      BY <1>1, <1>10, <2>1, NodeIs
    <3>2. en2 = Node(q, l - 1)
      BY <1>10, <2>1, <3>1 DEF UnlinkEnd
    <3>3. QED
      BY <1>6, <1>11, <2>1, <3>2
  <2>2. CASE k # l
    <3>1. k + 1 \in 1..l /\ k + 1 \in 0..l /\ l - 1 \in k..l /\ (l - 1) + 1 = l
      BY <1>2, <2>2
    <3>2. nx[h] # Null
      BY <1>1, <1>10, <3>1, NodeIs
    <3>3. Node(g, l - 1) = Node(q, l)
      BY <1>6, <3>1
    <3>4. QED
      BY <1>10, <3>2, <3>3 DEF UnlinkEnd
  <2>3. QED
    BY <2>1, <2>2
<1>20. \A i : i \in {0} \cup DOMAIN g => i \in 0..(l - 1)
  BY <1>2, <1>3
<1>21. ListOf(g, nx2, pv2, en2)
  BY <1>3, <1>4, <1>17, <1>18, <1>19, <1>20 DEF ListOf
<1>22. QED
  BY <1>1, <1>3, <1>4, <1>6, <1>7, <1>8, <1>10, <1>21

-----------------------------------------------------------------------------
(* The inductive invariant.                                                 *)

TypeOK ==
  /\ size \in [Addrs -> Nat] /\ align \in [Addrs -> Nat]
  /\ next \in [Nodes -> Addrs \cup {Null}]
  /\ prev \in [Nodes -> Nodes \cup {Null}]
  /\ freed \in [Addrs -> {0, 1}]
  /\ inflight \in [Others -> SUBSET Addrs]
  /\ pc \in {"idle", "collect", "await", "dead", "check"}
  /\ pending \in Requests \cup {NoRequest}
  /\ awaited \subseteq Addrs /\ live \subseteq Addrs /\ gone \subseteq Addrs /\ due \subseteq Addrs

\* What an object occupies, and the bytes that it was allocated with.
Occ(a) == Occupied(heap, a, size[a])
Own(a) == Bytes(a, size[a])

\* The window is divided into the two freelists and the objects.
HeapInv ==
  /\ HeapOk(heap)
  /\ \A a \in InUse : size[a] # 0 /\ align[a] # 0 /\ a % align[a] = 0
  /\ \A a, b \in InUse : a # b => Occ(a) \cap Occ(b) = {}
  /\ \A a \in InUse : Occ(a) \cap Free(heap) = {}
  /\ Free(heap) \cup UNION {Occ(a) : a \in InUse} = HeapBytes(heap)
  /\ allocated = Cardinality(UNION {Own(a) : a \in InUse})

\* Objects in use have no flag and none on its way; a flag is put once.
FlagInv ==
  /\ live \cap gone = {}
  /\ \A a \in Addrs : freed[a] = 1 => a \in gone /\ \A r \in Others : a \notin inflight[r]
  /\ \A r \in Others : inflight[r] \subseteq gone
  /\ \A r, s \in Others : r # s => inflight[r] \cap inflight[s] = {}
  /\ awaited \subseteq InUse /\ (pc # "await" => awaited = {})
  /\ pc = "collect" => \A a \in due \cap InUse : freed[a] = 1

\* The headers of the list, in its order.
Headers(q) ==
  /\ q \in Seq(Addrs) /\ OnceEach(q)
  /\ Listed(q) = InUse
  /\ IsList(q)

\* A collection has still to visit the objects that were flagged when it began.
Walk(q) ==
  pc = "collect" => \E c \in 1..(Len(q) + 1) :
                      /\ cursor = Node(q, c)
                      /\ \A a \in due \cap InUse : \E j \in c..Len(q) : q[j] = a

ListInv == \E q : Headers(q) /\ Walk(q)

IInv == TypeOK /\ HeapInv /\ FlagInv /\ ListInv

-----------------------------------------------------------------------------
(* Bytes of objects.                                                        *)

\* An object occupies at least the bytes it was allocated with.
LEMMA OccupiedIs ==
  ASSUME NEW h, NEW a \in Nat, NEW n \in Nat \ {0}
  PROVE  /\ Bytes(a, n) \subseteq Occupied(h, a, n) /\ a \in Bytes(a, n)
         /\ Occupied(h, a, n) \subseteq Nat
<1>1. PICK p \in Nat \ {0} : p = Pages(n) /\ n <= p
  BY PagesIs
<1>2. Occupied(h, a, n) = Bytes(a, p) \/ Occupied(h, a, n) = Bytes(a, n)
  BY <1>1 DEF Occupied
<1>3. Bytes(a, n) \subseteq Bytes(a, p)
  BY <1>1, InBytes
<1>4. a \in Bytes(a, n)
  BY InBytes
<1>5. Bytes(a, p) \subseteq Nat
  BY InBytes
<1>6. QED
  BY <1>2, <1>3, <1>4, <1>5

\* How many bytes there are in a range.
LEMMA CountBytes ==
  ASSUME NEW a \in Nat, NEW n \in Nat \ {0}
  PROVE  IsFiniteSet(Bytes(a, n)) /\ Cardinality(Bytes(a, n)) = n
<1>1. PICK b \in Int : b = a + n - 1 /\ ~(a > b) /\ b - a + 1 = n
  OBVIOUS
<1>2. Bytes(a, n) = a..b
  BY <1>1 DEF Bytes
<1>3. IsFiniteSet(a..b) /\ Cardinality(a..b) = IF a > b THEN 0 ELSE b - a + 1
  BY FS_Interval
<1>4. QED
  BY <1>1, <1>2, <1>3

\* The bytes of a heap are addresses.
LEMMA HeapBytesIs ==
  ASSUME NEW h
  PROVE  HeapBytes(h) \subseteq Addrs /\ IsFiniteSet(HeapBytes(h))
<1>1. PICK n \in Int : n = (IF h.kind = "root" THEN NoncollSize - FlagSize ELSE WinSize) - 1 /\ n <= WinSize - 1
  BY BlockConstants
<1>2. HeapBytes(h) = 0..n
  BY <1>1 DEF HeapBytes
<1>3. IsFiniteSet(0..n)
  BY FS_Interval
<1>4. 0..n \subseteq 0..(WinSize - 1)
  BY <1>1, BlockConstants
<1>5. QED
  BY <1>2, <1>3, <1>4 DEF Addrs

\* Disjoint ranges add up.
LEMMA CountMore ==
  ASSUME NEW S, IsFiniteSet(S), NEW a \in Nat, NEW n \in Nat \ {0}, S \cap Bytes(a, n) = {}
  PROVE  Cardinality(S \cup Bytes(a, n)) = Cardinality(S) + n
<1>1. PICK B : B = Bytes(a, n) /\ IsFiniteSet(B) /\ Cardinality(B) = n
  BY CountBytes
<1>2. Cardinality(S \cup B) = Cardinality(S) + Cardinality(B) - Cardinality(S \cap B)
  BY <1>1, FS_Union
<1>3. Cardinality(S \cap B) = 0
  BY <1>1, FS_EmptySet
<1>4. Cardinality(S) \in Nat
  BY FS_CardinalityType
<1>5. QED
  BY <1>1, <1>2, <1>3, <1>4

\* A range that leaves a set takes its size with it.
LEMMA CountLess ==
  ASSUME NEW S, IsFiniteSet(S), NEW a \in Nat, NEW n \in Nat \ {0}, Bytes(a, n) \subseteq S
  PROVE  Cardinality(S \ Bytes(a, n)) = Cardinality(S) - n /\ n <= Cardinality(S)
<1>1. PICK B : B = Bytes(a, n) /\ IsFiniteSet(B) /\ Cardinality(B) = n
  BY CountBytes
<1>2. Cardinality(S \ B) = Cardinality(S) - Cardinality(S \cap B) /\ IsFiniteSet(S \ B)
  BY FS_Difference
<1>3. S \cap B = B
  BY <1>1
<1>4. Cardinality(S) \in Nat /\ Cardinality(S \ B) \in Nat
  BY <1>2, FS_CardinalityType
<1>5. Cardinality(S \ B) = Cardinality(S) - n
  BY <1>1, <1>2, <1>3
<1>6. n <= Cardinality(S)
  BY <1>4, <1>5
<1>7. QED
  BY <1>1, <1>5, <1>6

\* Objects and free bytes are addresses of the heap.
LEMMA HeapInvIs ==
  ASSUME TypeOK, HeapInv
  PROVE  /\ InUse \subseteq Addrs
         /\ \A a \in InUse : a \in Nat /\ size[a] \in Nat \ {0} /\ align[a] \in Nat \ {0}
         /\ \A a \in InUse : Own(a) \subseteq Occ(a) /\ a \in Own(a) /\ Occ(a) \subseteq HeapBytes(heap)
         /\ IsFiniteSet(UNION {Own(a) : a \in InUse})
<1>1. InUse \subseteq Addrs
  BY DEF InUse, TypeOK
<1>2. \A a \in InUse : a \in Nat /\ size[a] \in Nat \ {0} /\ align[a] \in Nat \ {0}
  BY <1>1, NotAddrs DEF TypeOK, HeapInv
<1>3. ASSUME NEW a \in InUse
      PROVE  Own(a) \subseteq Occ(a) /\ a \in Own(a) /\ Occ(a) \subseteq HeapBytes(heap)
  <2>1. PICK n \in Nat \ {0} : n = size[a] /\ a \in Nat
    BY <1>2
  <2>2. Bytes(a, n) \subseteq Occupied(heap, a, n) /\ a \in Bytes(a, n)
    BY <2>1, OccupiedIs
  <2>3. Occ(a) \subseteq HeapBytes(heap)
    BY DEF HeapInv
  <2>4. QED
    BY <2>1, <2>2, <2>3 DEF Own, Occ
<1>4. UNION {Own(a) : a \in InUse} \subseteq HeapBytes(heap)
  BY <1>3
<1>5. IsFiniteSet(UNION {Own(a) : a \in InUse})
  BY <1>4, HeapBytesIs, FS_Subset
<1>6. QED
  BY <1>1, <1>2, <1>3, <1>5

-----------------------------------------------------------------------------
(* Objects come and go.                                                     *)

\* The kind decides what an object occupies.
LEMMA OccupiedByKind ==
  ASSUME NEW h, NEW g, h.kind = g.kind
  PROVE  /\ \A a, n : Occupied(h, a, n) = Occupied(g, a, n)
         /\ HeapBytes(h) = HeapBytes(g)
BY DEF Occupied, HeapBytes

\* An object is reclaimed: its bytes are free.
LEMMA ReclaimHeap ==
  ASSUME TypeOK, HeapInv, FlagInv, NEW h \in InUse, Reclaim(h)
  PROVE  HeapInv' /\ InUse' = InUse \ {h} /\ allocated >= size[h]
<1>1. InUse' = InUse \ {h}
  BY DEF Reclaim, InUse
<1>2. PICK n \in Nat \ {0} : n = size[h] /\ h \in Nat /\ h \in Addrs
  BY HeapInvIs
<1>3. PICK O : O = Occupied(heap, h, n)
  OBVIOUS
<1>4. Occ(h) = O /\ O \cap Free(heap) = {}
  BY <1>2, <1>3 DEF Occ, HeapInv
<1>5. PICK g : g = HeapDeallocate(heap, h, n)
  OBVIOUS
<1>6. HeapOk(heap)
  BY DEF HeapInv
<1>7. HeapOk(g) /\ g.kind = heap.kind /\ Free(g) = Free(heap) \cup O
  <2>1. Occupied(heap, h, n) \cap Free(heap) = {}
    BY <1>3, <1>4
  <2>2. QED
    BY <1>2, <1>3, <1>5, <1>6, <2>1, HeapDeallocateIs
<1>8. heap' = g
  BY <1>2, <1>5 DEF Reclaim
<1>9. \A a \in InUse' : a \in InUse /\ a # h /\ size'[a] = size[a] /\ align'[a] = align[a]
  BY <1>1, HeapInvIs DEF Reclaim, TypeOK
<1>10. \A a, m : Occupied(g, a, m) = Occupied(heap, a, m)
  BY <1>7, OccupiedByKind
<1>11. \A a \in InUse' : Occ(a)' = Occ(a) /\ Own(a)' = Own(a)
  BY <1>8, <1>9, <1>10 DEF Occ, Own
<1>12. HeapBytes(g) = HeapBytes(heap)
  BY <1>7, OccupiedByKind
<1>13. \A a, b \in InUse : a # b => Occ(a) \cap Occ(b) = {}
  BY DEF HeapInv
<1> DEFINE occ == [a \in InUse |-> Occ(a)]
           own == [a \in InUse |-> Own(a)]
<1>14. \A a \in InUse : Own(a) \subseteq Occ(a)
  BY HeapInvIs
<1>15. \A a \in InUse' : size'[a] # 0 /\ align'[a] # 0 /\ a % align'[a] = 0
  BY <1>9 DEF HeapInv
<1>16. \A a, b \in InUse' : a # b => Occ(a)' \cap Occ(b)' = {}
  BY <1>9, <1>11, <1>13
<1>17. \A a \in InUse' : Occ(a)' \cap Free(g) = {}
  <2>1. TAKE a \in InUse'
  <2>2. Occ(a) \cap Free(heap) = {} /\ Occ(a) \cap O = {}
    BY <1>4, <1>9, <1>13 DEF HeapInv
  <2>3. QED
    BY <1>7, <1>11, <2>2
<1>18. Free(g) \cup UNION {Occ(a)' : a \in InUse'} = HeapBytes(g)
  <2>1. PICK S, T, f, e : S = InUse /\ T = InUse' /\ f = occ /\ e = occ'
    OBVIOUS
  <2>2. /\ \A a \in S : f[a] = Occ(a)
        /\ \A a \in T : e[a] = Occ(a)' /\ e[a] = f[a]
        /\ h \in S /\ T = S \ {h} /\ f[h] = O
    BY <1>1, <1>4, <1>9, <1>11, <2>1
  <2>3. PICK X, Y : X = UNION {f[a] : a \in S} /\ Y = UNION {e[a] : a \in T}
    OBVIOUS
  <2>4. X = Y \cup O
    <3>1. \A x : x \in X <=> \E a \in S : x \in f[a]
      BY <2>3
    <3>2. \A x : x \in Y <=> \E a \in T : x \in e[a]
      BY <2>3
    <3>3. \A x : x \in X <=> x \in Y \/ x \in O
      BY <2>2, <3>1, <3>2
    <3>4. QED
      BY <3>3
  <2>5. X = UNION {Occ(a) : a \in InUse} /\ Y = UNION {Occ(a)' : a \in InUse'}
    <3>1. X = UNION {Occ(a) : a \in InUse}
      BY <2>1, <2>2, <2>3
    <3>2. Y = UNION {Occ(a)' : a \in InUse'}
      BY <2>1, <2>2, <2>3
    <3>3. QED
      BY <3>1, <3>2
  <2>6. Free(heap) \cup X = HeapBytes(heap)
    BY <2>5 DEF HeapInv
  <2>7. Free(g) \cup Y = HeapBytes(g)
    BY <1>7, <1>12, <2>4, <2>6
  <2>8. QED
    BY <2>5, <2>7
<1>19. PICK U : U = UNION {Own(a) : a \in InUse} /\ IsFiniteSet(U)
  BY HeapInvIs
<1>20. Own(h) = Bytes(h, n) /\ Bytes(h, n) \subseteq U
  BY <1>2, <1>19 DEF Own
<1>21. UNION {Own(a)' : a \in InUse'} = U \ Bytes(h, n)
  <2>1. PICK S, T, f, e : S = InUse /\ T = InUse' /\ f = own /\ e = own'
    OBVIOUS
  <2>2. /\ \A a \in S : f[a] = Own(a)
        /\ \A a \in T : e[a] = Own(a)' /\ e[a] = f[a] /\ e[a] \cap Own(h) = {}
        /\ h \in S /\ T = S \ {h} /\ f[h] = Bytes(h, n)
    <3>1. \A a \in InUse' : Own(a) \cap Own(h) = {}
      BY <1>9, <1>13, <1>14
    <3>2. QED
      BY <1>1, <1>9, <1>11, <1>20, <2>1, <3>1
  <2>3. PICK X, Y : X = UNION {f[a] : a \in S} /\ Y = UNION {e[a] : a \in T}
    OBVIOUS
  <2>4. X = Y \cup Bytes(h, n)
    <3>1. \A x : x \in X <=> \E a \in S : x \in f[a]
      BY <2>3
    <3>2. \A x : x \in Y <=> \E a \in T : x \in e[a]
      BY <2>3
    <3>3. \A x : x \in X <=> x \in Y \/ x \in Bytes(h, n)
      BY <2>2, <3>1, <3>2
    <3>4. QED
      BY <3>3
  <2>5. X = U /\ Y = UNION {Own(a)' : a \in InUse'}
    <3>1. X = UNION {Own(a) : a \in InUse}
      BY <2>1, <2>2, <2>3
    <3>2. Y = UNION {Own(a)' : a \in InUse'}
      BY <2>1, <2>2, <2>3
    <3>3. QED
      BY <1>19, <3>1, <3>2
  <2>6. Y \cap Bytes(h, n) = {}
    BY <1>20, <2>2, <2>3
  <2>7. QED
    BY <2>4, <2>5, <2>6
<1>22. Cardinality(U \ Bytes(h, n)) = Cardinality(U) - n /\ n <= Cardinality(U)
  BY <1>2, <1>19, <1>20, CountLess
<1>23. allocated = Cardinality(U) /\ allocated' = allocated - n
  BY <1>2, <1>19 DEF HeapInv, Reclaim
<1>24. allocated' = Cardinality(UNION {Own(a)' : a \in InUse'})
  BY <1>21, <1>22, <1>23
<1>25. HeapInv'
  BY <1>7, <1>8, <1>15, <1>16, <1>17, <1>18, <1>24 DEF HeapInv
<1>26. Cardinality(U) \in Nat
  BY <1>19, FS_CardinalityType
<1>27. QED
  BY <1>1, <1>2, <1>22, <1>23, <1>25, <1>26

\* What an allocation that succeeds does.
Taken(req, s) ==
  /\ s.how = "ok"
  /\ heap' = s.heap
  /\ Link(s.addr, RealBytes(req), req[2])
  /\ allocated' = allocated + RealBytes(req)
  /\ live' = live \cup {s.addr}
  /\ pc' = "idle"

\* The requests are as the heap expects them.
LEMMA RequestIs ==
  ASSUME NEW req \in Requests
  PROVE  /\ RealBytes(req) \in Nat \ {0} /\ req[2] \in Nat \ {0}
         /\ req[2] > BlockSize \/ BlockSize % req[2] = 0
<1>1. req[1] \in Nat /\ req[2] \in Nat \ {0}
  BY RequestAssumption
<1>2. RoundUp(HeaderSize, req[2]) \in Nat /\ HeaderSize <= RoundUp(HeaderSize, req[2])
  BY <1>1, RequestAssumption, RoundUpIs
<1>3. RealBytes(req) \in Nat \ {0}
  BY <1>1, <1>2, RequestAssumption DEF RealBytes
<1>4. QED
  BY <1>1, <1>3, RequestAssumption

\* An object is allocated: it gets free bytes.
LEMMA TakeHeap ==
  ASSUME TypeOK, HeapInv, NEW req \in Requests,
         NEW s, s = HeapAllocate(heap, RealBytes(req), req[2]), Taken(req, s), gone' = gone
  PROVE  /\ HeapInv' /\ InUse' = InUse \cup {s.addr}
         /\ s.addr \in Addrs /\ s.addr \notin InUse
<1>1. PICK n \in Nat \ {0} : n = RealBytes(req)
  BY RequestIs
<1>2. PICK k \in Nat \ {0} : k = req[2] /\ (k > BlockSize \/ BlockSize % k = 0)
  BY RequestIs
<1>3. HeapOk(heap)
  BY DEF HeapInv
<1>4. s = HeapAllocate(heap, n, k)
  BY <1>1, <1>2
<1>5. Allocates(heap, n, k, s)
  BY <1>2, <1>3, <1>4, HeapAllocateIs
<1>6. s.how = "ok" /\ heap' = s.heap
  BY DEF Taken
<1>7. PICK g : g = s.heap
  OBVIOUS
<1>8. PICK h \in Nat : h = s.addr
  BY <1>5, <1>6 DEF Allocates
<1>9. PICK O : O = Occupied(heap, h, n)
  OBVIOUS
<1>10. HeapOk(g) /\ g.kind = heap.kind /\ h % k = 0 /\ O \subseteq Free(heap) /\ Free(g) = Free(heap) \ O
  BY <1>5, <1>6, <1>7, <1>8, <1>9 DEF Allocates
<1>11. Bytes(h, n) \subseteq O /\ h \in Bytes(h, n)
  BY <1>9, OccupiedIs
<1>12. h \in HeapBytes(heap)
  BY <1>10, <1>11 DEF HeapInv
<1>13. h \in Addrs
  BY <1>12, HeapBytesIs
<1>14. h \notin InUse
  <2>1. \A a \in InUse : a \in Occ(a) /\ Occ(a) \cap Free(heap) = {}
    BY HeapInvIs DEF HeapInv
  <2>2. h \in Free(heap)
    BY <1>10, <1>11
  <2>3. QED
    BY <2>1, <2>2
<1>15. InUse' = InUse \cup {h}
  BY <1>8 DEF Taken, InUse
<1>16. /\ \A a \in InUse : size'[a] = size[a] /\ align'[a] = align[a]
       /\ size'[h] = n /\ align'[h] = k
  BY <1>1, <1>2, <1>8, <1>13, <1>14, HeapInvIs DEF Taken, Link, TypeOK
<1>17. \A a, m : Occupied(g, a, m) = Occupied(heap, a, m)
  BY <1>10, OccupiedByKind
<1>18. heap' = g
  BY <1>6, <1>7
<1>19. /\ \A a \in InUse : Occ(a)' = Occ(a) /\ Own(a)' = Own(a)
       /\ Occ(h)' = O /\ Own(h)' = Bytes(h, n)
  BY <1>9, <1>16, <1>17, <1>18 DEF Occ, Own
<1>20. HeapBytes(g) = HeapBytes(heap)
  BY <1>10, OccupiedByKind
<1> DEFINE occ == [a \in InUse |-> Occ(a)]
           own == [a \in InUse |-> Own(a)]
<1>21. \A a \in InUse : Occ(a) \cap Free(heap) = {} /\ Own(a) \subseteq Occ(a)
  BY HeapInvIs DEF HeapInv
<1>22. \A a \in InUse' : size'[a] # 0 /\ align'[a] # 0 /\ a % align'[a] = 0
  BY <1>10, <1>15, <1>16 DEF HeapInv
<1>23. \A a, b \in InUse' : a # b => Occ(a)' \cap Occ(b)' = {}
  <2>1. \A a, b \in InUse : a # b => Occ(a) \cap Occ(b) = {}
    BY DEF HeapInv
  <2>2. \A a \in InUse : Occ(a) \cap O = {}
    BY <1>10, <1>21
  <2>3. QED
    BY <1>15, <1>19, <2>1, <2>2
<1>24. \A a \in InUse' : Occ(a)' \cap Free(g) = {}
  BY <1>10, <1>15, <1>19, <1>21
<1>25. Free(g) \cup UNION {Occ(a)' : a \in InUse'} = HeapBytes(g)
  <2>1. PICK S, T, f, e : S = InUse' /\ T = InUse /\ f = occ' /\ e = occ
    OBVIOUS
  <2>2. /\ \A a \in S : f[a] = Occ(a)'
        /\ \A a \in T : e[a] = Occ(a) /\ e[a] = f[a]
        /\ h \in S /\ T = S \ {h} /\ f[h] = O
    BY <1>14, <1>15, <1>19, <2>1
  <2>3. PICK X, Y : X = UNION {f[a] : a \in S} /\ Y = UNION {e[a] : a \in T}
    OBVIOUS
  <2>4. X = Y \cup O
    <3>1. \A x : x \in X <=> \E a \in S : x \in f[a]
      BY <2>3
    <3>2. \A x : x \in Y <=> \E a \in T : x \in e[a]
      BY <2>3
    <3>3. \A x : x \in X <=> x \in Y \/ x \in O
      BY <2>2, <3>1, <3>2
    <3>4. QED
      BY <3>3
  <2>5. X = UNION {Occ(a)' : a \in InUse'} /\ Y = UNION {Occ(a) : a \in InUse}
    <3>1. X = UNION {Occ(a)' : a \in InUse'}
      BY <2>1, <2>2, <2>3
    <3>2. Y = UNION {Occ(a) : a \in InUse}
      BY <2>1, <2>2, <2>3
    <3>3. QED
      BY <3>1, <3>2
  <2>6. Free(heap) \cup Y = HeapBytes(heap)
    BY <2>5 DEF HeapInv
  <2>7. Free(g) \cup X = HeapBytes(g)
    BY <1>10, <1>20, <2>4, <2>6
  <2>8. QED
    BY <2>5, <2>7
<1>26. PICK U : U = UNION {Own(a) : a \in InUse} /\ IsFiniteSet(U)
  BY HeapInvIs
<1>27. U \cap Bytes(h, n) = {}
  BY <1>10, <1>11, <1>21, <1>26
<1>28. UNION {Own(a)' : a \in InUse'} = U \cup Bytes(h, n)
  <2>1. PICK S, T, f, e : S = InUse' /\ T = InUse /\ f = own' /\ e = own
    OBVIOUS
  <2>2. /\ \A a \in S : f[a] = Own(a)'
        /\ \A a \in T : e[a] = Own(a) /\ e[a] = f[a]
        /\ h \in S /\ T = S \ {h} /\ f[h] = Bytes(h, n)
    BY <1>14, <1>15, <1>19, <2>1
  <2>3. PICK X, Y : X = UNION {f[a] : a \in S} /\ Y = UNION {e[a] : a \in T}
    OBVIOUS
  <2>4. X = Y \cup Bytes(h, n)
    <3>1. \A x : x \in X <=> \E a \in S : x \in f[a]
      BY <2>3
    <3>2. \A x : x \in Y <=> \E a \in T : x \in e[a]
      BY <2>3
    <3>3. \A x : x \in X <=> x \in Y \/ x \in Bytes(h, n)
      BY <2>2, <3>1, <3>2
    <3>4. QED
      BY <3>3
  <2>5. X = UNION {Own(a)' : a \in InUse'} /\ Y = U
    <3>1. X = UNION {Own(a)' : a \in InUse'}
      BY <2>1, <2>2, <2>3
    <3>2. Y = UNION {Own(a) : a \in InUse}
      BY <2>1, <2>2, <2>3
    <3>3. QED
      BY <1>26, <3>1, <3>2
  <2>6. QED
    BY <2>4, <2>5
<1>29. Cardinality(U \cup Bytes(h, n)) = Cardinality(U) + n
  BY <1>26, <1>27, CountMore
<1>30. allocated = Cardinality(U) /\ allocated' = allocated + n
  BY <1>1, <1>26 DEF HeapInv, Taken
<1>31. allocated' = Cardinality(UNION {Own(a)' : a \in InUse'})
  BY <1>28, <1>29, <1>30
<1>32. HeapInv'
  BY <1>10, <1>18, <1>22, <1>23, <1>24, <1>25, <1>31 DEF HeapInv
<1>33. QED
  BY <1>8, <1>13, <1>14, <1>15, <1>32

-----------------------------------------------------------------------------
(* The list in a step.                                                      *)

\* IsList says of the links in a state what ListOf says of any links.
LEMMA HeadersIs ==
  ASSUME NEW q
  PROVE  /\ Headers(q) <=> /\ q \in Seq(Addrs) /\ OnceEach(q)
                           /\ Listed(q) = InUse
                           /\ ListOf(q, next, prev, end)
         /\ Headers(q)' <=> /\ q \in Seq(Addrs) /\ OnceEach(q)
                            /\ Listed(q) = InUse'
                            /\ ListOf(q, next', prev', end')
BY DEF Headers, IsList, ListOf

\* remove_header_from_list of the header at position k.
LEMMA ReclaimList ==
  ASSUME TypeOK, NEW q, Headers(q), NEW k \in 1..Len(q), NEW h, h = q[k], Reclaim(h),
         InUse' = InUse \ {h},
         NEW g, g = RemoveAt(q, k)
  PROVE  /\ Headers(g)'
         /\ Len(g) = Len(q) - 1
         /\ next[h] = Node(q, k + 1)
         /\ \A i \in k..Len(q) : Node(g, i) = Node(q, i + 1)
<1>1. /\ q \in Seq(Addrs) /\ OnceEach(q)
      /\ Listed(q) = InUse
      /\ ListOf(q, next, prev, end)
  BY HeadersIs
<1>2. next \in [Nodes -> Addrs \cup {Null}] /\ prev \in [Nodes -> Nodes \cup {Null}]
  BY DEF TypeOK
<1>3. PICK nx2, pv2, en2 : nx2 = next' /\ pv2 = prev' /\ en2 = end'
  OBVIOUS
<1>4. /\ nx2 = [next EXCEPT ![prev[h]] = next[h], ![h] = Null]
      /\ pv2 = [n \in DOMAIN prev |-> IF n = h THEN Null ELSE IF n = next[h] THEN prev[h] ELSE prev[n]]
      /\ en2 = (IF next[h] # Null THEN end ELSE prev[h])
  BY <1>3 DEF Reclaim, Unlink
<1>5. PICK nx, pv, en : nx = next /\ pv = prev /\ en = end
  OBVIOUS
<1>6. Links(nx, pv) /\ ListOf(q, nx, pv, en)
  BY <1>1, <1>2, <1>5 DEF Links
<1>7. nx2 = UnlinkNext(nx, pv, h) /\ pv2 = UnlinkPrev(nx, pv, h) /\ en2 = UnlinkEnd(nx, pv, en, h)
  BY <1>4, <1>5 DEF UnlinkNext, UnlinkPrev, UnlinkEnd
<1>8. /\ g \in Seq(Addrs) /\ OnceEach(g) /\ ListOf(g, nx2, pv2, en2)
      /\ Listed(g) = Listed(q) \ {h}
      /\ Len(g) = Len(q) - 1
      /\ nx[h] = Node(q, k + 1)
      /\ \A i \in k..Len(q) : Node(g, i) = Node(q, i + 1)
  BY <1>1, <1>6, <1>7, UnlinkList
<1>9. Headers(g)'
  BY <1>1, <1>3, <1>8, HeadersIs
<1>10. QED
  BY <1>5, <1>8, <1>9

\* The header of a new object goes to the end.
LEMMA TakenList ==
  ASSUME TypeOK, NEW q, Headers(q), NEW req, NEW s, Taken(req, s),
         s.addr \in Addrs, s.addr \notin InUse, InUse' = InUse \cup {s.addr},
         NEW g, g = WithLast(q, s.addr)
  PROVE  Headers(g)'
<1>1. /\ q \in Seq(Addrs) /\ OnceEach(q)
      /\ Listed(q) = InUse
      /\ ListOf(q, next, prev, end)
  BY HeadersIs
<1>2. PICK h \in Addrs : h = s.addr
  OBVIOUS
<1>3. PICK nx2, pv2, en2 : nx2 = next' /\ pv2 = prev' /\ en2 = end'
  OBVIOUS
<1>4. PICK nx, pv, en : nx = next /\ pv = prev /\ en = end
  OBVIOUS
<1>5. Links(nx, pv) /\ ListOf(q, nx, pv, en)
  BY <1>1, <1>4 DEF TypeOK, Links
<1>6. /\ nx2 = LinkNext(nx, en, h)
      /\ pv2 = LinkPrev(pv, en, h)
      /\ en2 = h
  BY <1>2, <1>3, <1>4 DEF Taken, Link, LinkNext, LinkPrev
<1>7. h \notin Listed(q) /\ g = WithLast(q, h)
  BY <1>1, <1>2
<1>8. /\ g \in Seq(Addrs) /\ OnceEach(g) /\ ListOf(g, nx2, pv2, h)
      /\ Listed(g) = Listed(q) \cup {h}
  BY <1>1, <1>2, <1>5, <1>6, <1>7, LinkList
<1>9. QED
  BY <1>1, <1>2, <1>3, <1>6, <1>8, HeadersIs

\* Where the list is left alone.
LEMMA HeadersStay ==
  ASSUME NEW q, Headers(q), UNCHANGED <<next, prev, end>>, InUse' = InUse
  PROVE  Headers(q)'
BY HeadersIs

\* Where the heap is left alone.
LEMMA HeapStays ==
  ASSUME HeapInv, UNCHANGED <<heap, size, align, allocated>>, InUse' = InUse
  PROVE  HeapInv'
BY DEF HeapInv, Occ, Own

\* Types after an object is reclaimed.
LEMMA ReclaimTypes ==
  ASSUME TypeOK, NEW h \in Addrs, Reclaim(h)
  PROVE  /\ size' \in [Addrs -> Nat] /\ align' \in [Addrs -> Nat]
         /\ next' \in [Nodes -> Addrs \cup {Null}]
         /\ prev' \in [Nodes -> Nodes \cup {Null}]
         /\ freed' \in [Addrs -> {0, 1}]
         /\ live' \subseteq Addrs /\ gone' \subseteq Addrs
         /\ \A a \in Addrs : a # h => freed'[a] = freed[a]
         /\ freed'[h] = 0
<1>1. h \in Nodes
  BY DEF Nodes
<1>2. size' \in [Addrs -> Nat] /\ align' \in [Addrs -> Nat]
  BY DEF Reclaim, TypeOK
<1>3. freed' \in [Addrs -> {0, 1}] /\ freed'[h] = 0 /\ \A a \in Addrs : a # h => freed'[a] = freed[a]
  BY DEF Reclaim, TypeOK
<1>4. next[h] \in Addrs \cup {Null} /\ prev[h] \in Nodes \cup {Null}
  BY <1>1 DEF TypeOK
<1>5. next' \in [Nodes -> Addrs \cup {Null}]
  BY <1>1, <1>4 DEF Reclaim, Unlink, TypeOK
<1>6. prev' \in [Nodes -> Nodes \cup {Null}]
  BY <1>1, <1>4 DEF Reclaim, Unlink, TypeOK
<1>7. live' \subseteq Addrs /\ gone' \subseteq Addrs
  BY DEF Reclaim, TypeOK
<1>8. QED
  BY <1>2, <1>3, <1>5, <1>6, <1>7

\* Flags after an object is reclaimed: none was on its way.
LEMMA ReclaimFlags ==
  ASSUME TypeOK, FlagInv, NEW h \in InUse, Reclaim(h), h \in live \/ freed[h] = 1,
         UNCHANGED inflight
  PROVE  /\ live' \cap gone' = {}
         /\ \A a \in Addrs : freed'[a] = 1 => a \in gone' /\ \A r \in Others : a \notin inflight'[r]
         /\ \A r \in Others : inflight'[r] \subseteq gone'
         /\ \A r, s \in Others : r # s => inflight'[r] \cap inflight'[s] = {}
<1>1. h \in Addrs
  BY DEF TypeOK, InUse
<1>2. \A r \in Others : h \notin inflight[r]
  BY <1>1 DEF FlagInv
<1>3. \A a \in Addrs : a # h => freed'[a] = freed[a]
  BY <1>1, ReclaimTypes
<1>4. freed'[h] = 0
  BY <1>1, ReclaimTypes
<1>5. live' = live \ {h} /\ gone' = gone \ {h}
  BY DEF Reclaim
<1>6. QED
  BY <1>2, <1>3, <1>4, <1>5 DEF FlagInv

\* Types after an object is allocated.
LEMMA TakenTypes ==
  ASSUME TypeOK, NEW q, Headers(q), NEW req \in Requests, NEW s, Taken(req, s), s.addr \in Addrs
  PROVE  /\ size' \in [Addrs -> Nat] /\ align' \in [Addrs -> Nat]
         /\ next' \in [Nodes -> Addrs \cup {Null}]
         /\ prev' \in [Nodes -> Nodes \cup {Null}]
         /\ freed' \in [Addrs -> {0, 1}]
         /\ live' \subseteq Addrs
         /\ freed' = [freed EXCEPT ![s.addr] = 0]
<1>1. PICK h \in Addrs : h = s.addr /\ h \in Nodes
  BY DEF Nodes
<1>2. RealBytes(req) \in Nat /\ req[2] \in Nat
  BY RequestIs
<1>3. end \in Nodes
  <2>1. q \in Seq(Addrs) /\ end = Node(q, Len(q))
    BY DEF Headers, IsList
  <2>2. Len(q) \in 0..Len(q)
    BY <2>1
  <2>3. QED
    BY <2>1, <2>2, NodeIs
<1>4. size' \in [Addrs -> Nat] /\ align' \in [Addrs -> Nat]
  BY <1>1, <1>2 DEF Taken, Link, TypeOK
<1>5. freed' \in [Addrs -> {0, 1}] /\ freed' = [freed EXCEPT ![s.addr] = 0]
  BY <1>1 DEF Taken, Link, TypeOK
<1>6. next' \in [Nodes -> Addrs \cup {Null}]
  BY <1>1, <1>3 DEF Taken, Link, TypeOK
<1>7. prev' \in [Nodes -> Nodes \cup {Null}]
  BY <1>1, <1>3 DEF Taken, Link, TypeOK
<1>8. live' \subseteq Addrs
  BY <1>1 DEF Taken, TypeOK
<1>9. QED
  BY <1>4, <1>5, <1>6, <1>7, <1>8

-----------------------------------------------------------------------------
(* The steps.                                                               *)

\* do_allocate's object: the invariant holds again, and the owner is idle.
LEMMA TakeStep ==
  ASSUME IInv, NEW req \in Requests, Take(req), pc \in {"idle", "collect"},
         UNCHANGED <<inflight, awaited, gone>>,
         pending' \in Requests \cup {NoRequest}, due' \subseteq Addrs
  PROVE  IInv'
<1>1. TypeOK /\ HeapInv /\ FlagInv
  BY DEF IInv
<1>2. PICK q : Headers(q)
  BY DEF IInv, ListInv
<1>3. PICK s : s = HeapAllocate(heap, RealBytes(req), req[2])
  OBVIOUS
<1>4. awaited = {} /\ awaited' = {}
  BY <1>1 DEF FlagInv
<1>5. CASE s.how # "ok"
  <2>1. pc' = s.how /\ UNCHANGED <<listVars, live>>
    BY <1>3, <1>5 DEF Take
  <2>2. s.how \in {"dead", "check"}
    <3>1. PICK n \in Nat \ {0} : n = RealBytes(req)
      BY RequestIs
    <3>2. PICK k \in Nat \ {0} : k = req[2] /\ (k > BlockSize \/ BlockSize % k = 0)
      BY RequestIs
    <3>3. HeapOk(heap) /\ s = HeapAllocate(heap, n, k)
      BY <1>1, <1>3, <3>1, <3>2 DEF HeapInv
    <3>4. Allocates(heap, n, k, s)
      BY <3>2, <3>3, HeapAllocateIs
    <3>5. QED
      BY <1>5, <3>4 DEF Allocates
  <2>3. UNCHANGED <<heap, size, align, next, prev, end, freed, allocated, live>> /\ InUse' = InUse
    BY <2>1 DEF listVars, InUse
  <2>4. HeapInv'
    BY <1>1, <2>3, HeapStays
  <2>5. Headers(q)'
    BY <1>2, <2>3, HeadersStay
  <2>6. pc' # "collect" /\ pc' # "await" /\ pc' \in {"idle", "collect", "await", "dead", "check"}
    BY <2>1, <2>2
  <2>7. ListInv'
    BY <2>5, <2>6 DEF ListInv, Walk
  <2>8. TypeOK'
    BY <1>1, <2>3, <2>6 DEF TypeOK
  <2>9. FlagInv'
    BY <1>1, <1>4, <2>3, <2>6 DEF FlagInv
  <2>10. QED
    BY <2>4, <2>7, <2>8, <2>9 DEF IInv
<1>6. CASE s.how = "ok"
  <2>1. Taken(req, s)
    BY <1>3, <1>6 DEF Take, Taken
  <2>2. HeapInv' /\ InUse' = InUse \cup {s.addr} /\ s.addr \in Addrs /\ s.addr \notin InUse
    BY <1>1, <1>3, <2>1, TakeHeap
  <2>3. PICK g : g = WithLast(q, s.addr)
    OBVIOUS
  <2>4. Headers(g)'
    BY <1>1, <1>2, <2>1, <2>2, <2>3, TakenList
  <2>5. pc' = "idle"
    BY <2>1 DEF Taken
  <2>6. ListInv'
    BY <2>4, <2>5 DEF ListInv, Walk
  <2>7. /\ size' \in [Addrs -> Nat] /\ align' \in [Addrs -> Nat]
        /\ next' \in [Nodes -> Addrs \cup {Null}]
        /\ prev' \in [Nodes -> Nodes \cup {Null}]
        /\ freed' \in [Addrs -> {0, 1}]
        /\ live' \subseteq Addrs
        /\ freed' = [freed EXCEPT ![s.addr] = 0]
    BY <1>1, <1>2, <2>1, <2>2, TakenTypes
  <2>8. TypeOK'
    BY <1>1, <2>5, <2>7 DEF TypeOK
  <2>9. live' = live \cup {s.addr} /\ s.addr \notin gone
    BY <2>1, <2>2 DEF Taken, InUse
  <2>10. \A a \in Addrs : freed'[a] = 1 => freed[a] = 1
    BY <1>1, <2>2, <2>7 DEF TypeOK
  <2>11. FlagInv'
    BY <1>1, <1>4, <2>5, <2>9, <2>10 DEF FlagInv
  <2>12. QED
    BY <2>2, <2>6, <2>8, <2>11 DEF IInv
<1>7. QED
  BY <1>5, <1>6

\* collect_deallocated begins with every flagged object before it.
LEMMA StartStep ==
  ASSUME IInv, NEW req \in Requests \cup {NoRequest}, StartCollect(req), pc = "idle",
         UNCHANGED <<listVars, inflight, awaited, live, gone>>
  PROVE  IInv'
<1>1. TypeOK /\ HeapInv /\ FlagInv
  BY DEF IInv
<1>2. PICK q : Headers(q)
  BY DEF IInv, ListInv
<1>3. UNCHANGED <<heap, size, align, next, prev, end, freed, allocated, live, gone>> /\ InUse' = InUse
  BY DEF listVars, InUse
<1>4. /\ pc' = "collect" /\ cursor' = next[ListHead] /\ pending' = req
      /\ due' = {a \in gone : freed[a] = 1}
  BY DEF StartCollect
<1>5. HeapInv'
  BY <1>1, <1>3, HeapStays
<1>6. Headers(q)'
  BY <1>2, <1>3, HeadersStay
<1>7. TypeOK'
  BY <1>1, <1>3, <1>4 DEF TypeOK
<1>8. awaited' = {}
  BY <1>1 DEF FlagInv
<1>9. FlagInv'
  BY <1>1, <1>3, <1>4, <1>8 DEF FlagInv
<1>10. Walk(q)'
  <2>1. PICK l \in Nat : l = Len(q) /\ DOMAIN q = 1..l /\ q \in Seq(Addrs)
    BY <1>2 DEF Headers
  <2>2. cursor' = Node(q, 1)
    <3>1. Node(q, 0) = ListHead
      BY <2>1, NodeIs
    <3>2. next[Node(q, 0)] = Node(q, 0 + 1)
      BY <1>2 DEF Headers, IsList
    <3>3. QED
      BY <1>4, <3>1, <3>2
  <2>3. \A a \in InUse : \E j \in 1..l : q[j] = a
    BY <1>2, <2>1 DEF Headers, Listed
  <2>4. 1 \in 1..(l + 1)
    OBVIOUS
  <2>5. QED
    BY <1>3, <2>1, <2>2, <2>3, <2>4 DEF Walk
<1>11. QED
  BY <1>5, <1>6, <1>7, <1>9, <1>10 DEF IInv, ListInv

\* A header of the walk: the one after it is where the walk goes on, whether
\* or not this one leaves the list.
LEMMA WalkStep ==
  ASSUME IInv, CollectStep
  PROVE  IInv'
<1>1. TypeOK /\ HeapInv /\ FlagInv
  BY DEF IInv
<1>2. PICK q : Headers(q) /\ Walk(q)
  BY DEF IInv, ListInv
<1>3. /\ pc = "collect" /\ cursor # Null /\ cursor' = next[cursor]
      /\ UNCHANGED <<inflight, pc, pending, due, awaited>>
  BY DEF CollectStep, rmaVars
<1>4. PICK l \in Nat : l = Len(q) /\ DOMAIN q = 1..l /\ q \in Seq(Addrs)
  BY <1>2 DEF Headers
<1>5. PICK c \in 1..(l + 1) :
        /\ cursor = Node(q, c)
        /\ \A a \in due \cap InUse : \E j \in c..l : q[j] = a
  BY <1>2, <1>3, <1>4 DEF Walk
<1>6. c \in 1..l
  <2>1. c # l + 1
    BY <1>3, <1>4, <1>5, NodeIs
  <2>2. QED
    BY <2>1
<1>7. PICK h \in Addrs : h = cursor /\ h = q[c] /\ h \in InUse
  <2>1. cursor = q[c] /\ q[c] \in Addrs
    BY <1>4, <1>5, <1>6, NodeIs
  <2>2. q[c] \in InUse
    BY <1>2, <1>4, <1>6 DEF Headers, Listed
  <2>3. QED
    BY <2>1, <2>2
<1>8. next[h] = Node(q, c + 1)
  <2>1. next[Node(q, c)] = Node(q, c + 1)
    BY <1>2, <1>4, <1>6 DEF Headers, IsList
  <2>2. QED
    BY <1>5, <1>7, <2>1
<1>9. ASSUME NEW a \in due \cap InUse, a # h
      PROVE  \E j \in (c + 1)..l : q[j] = a
  <2>1. PICK j \in c..l : q[j] = a
    BY <1>5, <1>9
  <2>2. j # c
    BY <1>7, <1>9, <2>1
  <2>3. j \in (c + 1)..l
    BY <1>6, <2>1, <2>2
  <2>4. QED
    BY <2>1, <2>3
<1>10. awaited' = {} /\ awaited = {}
  BY <1>1, <1>3 DEF FlagInv
<1>11. CASE freed[h] # 1
  <2>1. UNCHANGED <<heap, size, align, next, prev, end, freed, allocated, live, gone>> /\ InUse' = InUse
    BY <1>7, <1>11 DEF CollectStep, listVars, InUse
  <2>2. HeapInv'
    BY <1>1, <2>1, HeapStays
  <2>3. Headers(q)'
    BY <1>2, <2>1, HeadersStay
  <2>4. TypeOK'
    BY <1>1, <1>3, <2>1 DEF TypeOK
  <2>5. FlagInv'
    BY <1>1, <1>3, <2>1 DEF FlagInv
  <2>6. \A a \in due \cap InUse : a # h
    BY <1>1, <1>3, <1>11 DEF FlagInv
  <2>7. Walk(q)'
    <3>1. cursor' = Node(q, c + 1) /\ c + 1 \in 1..(l + 1)
      BY <1>3, <1>6, <1>7, <1>8
    <3>2. \A a \in due' \cap InUse' : \E j \in (c + 1)..l : q[j] = a
      BY <1>3, <1>9, <2>1, <2>6
    <3>3. QED
      BY <1>4, <3>1, <3>2 DEF Walk
  <2>8. QED
    BY <2>2, <2>3, <2>4, <2>5, <2>7 DEF IInv, ListInv
<1>12. CASE freed[h] = 1
  <2>1. Reclaim(h)
    BY <1>7, <1>12 DEF CollectStep
  <2>2. HeapInv' /\ InUse' = InUse \ {h}
    BY <1>1, <1>7, <2>1, ReclaimHeap
  <2>3. PICK g : g = RemoveAt(q, c)
    OBVIOUS
  <2>4. /\ Headers(g)'
        /\ Len(g) = Len(q) - 1
        /\ \A i \in c..Len(q) : Node(g, i) = Node(q, i + 1)
    BY <1>1, <1>2, <1>4, <1>6, <1>7, <2>1, <2>2, <2>3, ReclaimList
  <2>5. TypeOK'
    BY <1>1, <1>3, <1>7, <2>1, ReclaimTypes DEF TypeOK
  <2>6. \A a \in due' \cap InUse' : freed'[a] = 1
    <3>1. \A a \in due \cap InUse : freed[a] = 1 /\ a \in Addrs
      BY <1>1, <1>3 DEF FlagInv, TypeOK
    <3>2. \A a \in Addrs : a # h => freed'[a] = freed[a]
      BY <1>1, <1>7, <2>1, ReclaimTypes
    <3>3. QED
      BY <1>3, <2>2, <3>1, <3>2
  <2>7. FlagInv'
    <3>1. UNCHANGED inflight
      BY <1>3
    <3>2. /\ live' \cap gone' = {}
          /\ \A a \in Addrs : freed'[a] = 1 => a \in gone' /\ \A r \in Others : a \notin inflight'[r]
          /\ \A r \in Others : inflight'[r] \subseteq gone'
          /\ \A r, s \in Others : r # s => inflight'[r] \cap inflight'[s] = {}
      BY <1>1, <1>7, <1>12, <2>1, <3>1, ReclaimFlags
    <3>3. QED
      BY <1>10, <2>6, <3>2 DEF FlagInv
  <2>8. Walk(g)'
    <3>1. cursor' = Node(g, c) /\ c \in 1..(Len(g) + 1) /\ Len(g) = l - 1
      BY <1>3, <1>4, <1>6, <1>7, <1>8, <2>4
    <3>2. ASSUME NEW a \in due' \cap InUse'
          PROVE  \E j \in c..Len(g) : g[j] = a
      <4>1. a \in due \cap InUse /\ a # h
        BY <1>3, <2>2
      <4>2. PICK j \in (c + 1)..l : q[j] = a
        BY <1>9, <4>1
      <4>3. PICK i \in c..(l - 1) : i = j - 1 /\ i + 1 = j /\ i \in c..l /\ i \in 1..(l - 1) /\ j \in 1..l
        BY <1>6, <4>2
      <4>4. Node(g, i) = Node(q, j)
        BY <1>4, <2>4, <4>3
      <4>5. Node(q, j) = a
        BY <1>4, <4>2, <4>3, NodeIs
      <4>6. Node(g, i) = g[i]
        <5>1. g \in Seq(Addrs)
          BY <2>4, HeadersIs
        <5>2. QED
          BY <3>1, <4>3, <5>1, NodeIs
      <4>7. QED
        BY <3>1, <4>3, <4>4, <4>5, <4>6
    <3>3. QED
      BY <3>1, <3>2 DEF Walk
  <2>9. QED
    BY <2>2, <2>4, <2>5, <2>7, <2>8 DEF IInv, ListInv
<1>13. QED
  BY <1>11, <1>12

\* An object is reclaimed outside a collection: by its user, or when its flag
\* has been waited for.
LEMMA ReclaimStep ==
  ASSUME IInv, NEW h \in InUse, Reclaim(h), h \in live \/ freed[h] = 1,
         pc # "collect", pc' \in {"idle", "await"},
         UNCHANGED <<inflight, pending, due>>,
         awaited' = awaited \ {h}, pc' # "await" => awaited' = {}
  PROVE  IInv'
<1>1. TypeOK /\ HeapInv /\ FlagInv
  BY DEF IInv
<1>2. PICK q : Headers(q)
  BY DEF IInv, ListInv
<1>3. h \in Addrs
  BY <1>1 DEF TypeOK, InUse
<1>4. HeapInv' /\ InUse' = InUse \ {h}
  BY <1>1, ReclaimHeap
<1>5. PICK k \in 1..Len(q) : q[k] = h
  <2>1. q \in Seq(Addrs) /\ DOMAIN q = 1..Len(q)
    BY <1>2 DEF Headers
  <2>2. h \in Listed(q)
    BY <1>2 DEF Headers
  <2>3. QED
    BY <2>1, <2>2 DEF Listed
<1>6. PICK g : g = RemoveAt(q, k)
  OBVIOUS
<1>7. Headers(g)'
  BY <1>1, <1>2, <1>4, <1>5, <1>6, ReclaimList
<1>8. ListInv'
  BY <1>7 DEF ListInv, Walk
<1>9. TypeOK'
  BY <1>1, <1>3, ReclaimTypes DEF TypeOK
<1>10. /\ live' \cap gone' = {}
       /\ \A a \in Addrs : freed'[a] = 1 => a \in gone' /\ \A r \in Others : a \notin inflight'[r]
       /\ \A r \in Others : inflight'[r] \subseteq gone'
       /\ \A r, s \in Others : r # s => inflight'[r] \cap inflight'[s] = {}
  BY <1>1, ReclaimFlags
<1>11. awaited' \subseteq InUse'
  BY <1>1, <1>4 DEF FlagInv
<1>12. FlagInv'
  BY <1>10, <1>11 DEF FlagInv
<1>13. QED
  BY <1>4, <1>8, <1>9, <1>12 DEF IInv

\* A flag is put or lands: the objects in use and the owner's data stay.
LEMMA FlagStep ==
  ASSUME IInv, UNCHANGED <<heap, size, align, next, prev, end, allocated, pc, cursor, pending, due, awaited>>,
         InUse' = InUse, TypeOK', FlagInv'
  PROVE  IInv'
<1>1. PICK q : Headers(q) /\ Walk(q)
  BY DEF IInv, ListInv
<1>2. HeapInv'
  BY HeapStays DEF IInv
<1>3. Headers(q)'
  BY <1>1, HeadersStay
<1>4. Walk(q)'
  BY <1>1 DEF Walk
<1>5. QED
  BY <1>2, <1>3, <1>4 DEF IInv, ListInv

\* remote_deallocate by rank r.
LEMMA RemoteStep ==
  ASSUME IInv, NEW h \in live, NEW r \in Others, DeallocateRemote(r, h)
  PROVE  IInv'
<1>1. TypeOK /\ HeapInv /\ FlagInv
  BY DEF IInv
<1>2. /\ UNCHANGED <<heap, size, align, next, prev, end, allocated, pc, cursor, pending, due, awaited>>
      /\ live' = live \ {h} /\ gone' = gone \cup {h}
  BY DEF DeallocateRemote, ctlVars
<1>3. InUse' = InUse
  BY <1>2 DEF InUse
<1>4. /\ h \in Addrs /\ h \notin gone
      /\ freed[h] # 1
      /\ \A s \in Others : h \notin inflight[s]
  BY <1>1 DEF FlagInv, TypeOK
<1>5. CASE count[r] + 1 >= MaxUnflushed
  <2>1. /\ inflight' = [inflight EXCEPT ![r] = {}]
        /\ freed' = [a \in Addrs |-> IF a \in inflight[r] \cup {h} THEN 1 ELSE freed[a]]
    BY <1>5 DEF DeallocateRemote
  <2>2. inflight'[r] = {} /\ \A s \in Others : s # r => inflight'[s] = inflight[s]
    BY <1>1, <2>1 DEF TypeOK
  <2>3. \A a \in Addrs : /\ freed'[a] = 1 => freed[a] = 1 \/ a \in inflight[r] \/ a = h
                         /\ freed[a] = 1 => freed'[a] = 1
    BY <2>1
  <2>4. TypeOK'
    BY <1>1, <1>2, <1>4, <2>1 DEF TypeOK
  <2>5. \A a \in Addrs : freed'[a] = 1 => a \in gone' /\ \A s \in Others : a \notin inflight'[s]
    BY <1>1, <1>2, <1>4, <2>2, <2>3 DEF FlagInv
  <2>6. \A s \in Others : inflight'[s] \subseteq gone'
    BY <1>1, <1>2, <2>2 DEF FlagInv
  <2>7. \A s, t \in Others : s # t => inflight'[s] \cap inflight'[t] = {}
    BY <1>1, <2>2 DEF FlagInv
  <2>8. pc' = "collect" => \A a \in due' \cap InUse' : freed'[a] = 1
    BY <1>1, <1>2, <1>3, <2>3 DEF FlagInv, TypeOK
  <2>9. FlagInv'
    BY <1>1, <1>2, <1>3, <2>5, <2>6, <2>7, <2>8 DEF FlagInv
  <2>10. QED
    BY <1>2, <1>3, <2>4, <2>9, FlagStep
<1>6. CASE ~(count[r] + 1 >= MaxUnflushed)
  <2>1. inflight' = [inflight EXCEPT ![r] = @ \cup {h}] /\ freed' = freed
    BY <1>6 DEF DeallocateRemote
  <2>2. inflight'[r] = inflight[r] \cup {h} /\ \A s \in Others : s # r => inflight'[s] = inflight[s]
    BY <1>1, <2>1 DEF TypeOK
  <2>3. TypeOK'
    BY <1>1, <1>2, <1>4, <2>1 DEF TypeOK
  <2>4. \A a \in Addrs : freed'[a] = 1 => a \in gone' /\ \A s \in Others : a \notin inflight'[s]
    BY <1>1, <1>2, <1>4, <2>1, <2>2 DEF FlagInv
  <2>5. \A s \in Others : inflight'[s] \subseteq gone'
    BY <1>1, <1>2, <2>2 DEF FlagInv
  <2>6. \A s, t \in Others : s # t => inflight'[s] \cap inflight'[t] = {}
    BY <1>1, <1>4, <2>2 DEF FlagInv
  <2>7. FlagInv'
    BY <1>1, <1>2, <1>3, <2>1, <2>4, <2>5, <2>6 DEF FlagInv
  <2>8. QED
    BY <1>2, <1>3, <2>3, <2>7, FlagStep
<1>7. QED
  BY <1>5, <1>6

\* A flag reaches the header.
LEMMA LandsStep ==
  ASSUME IInv, NEW r \in Others, NEW h \in inflight[r], Lands(r, h)
  PROVE  IInv'
<1>1. TypeOK /\ HeapInv /\ FlagInv
  BY DEF IInv
<1>2. /\ UNCHANGED <<heap, size, align, next, prev, end, allocated, pc, cursor, pending, due, awaited>>
      /\ UNCHANGED <<live, gone>>
      /\ inflight' = [inflight EXCEPT ![r] = @ \ {h}]
      /\ freed' = [freed EXCEPT ![h] = 1]
  BY DEF Lands, ctlVars
<1>3. InUse' = InUse
  BY <1>2 DEF InUse
<1>4. h \in Addrs /\ h \in gone /\ \A s \in Others : s # r => h \notin inflight[s]
  BY <1>1 DEF FlagInv, TypeOK
<1>5. inflight'[r] = inflight[r] \ {h} /\ \A s \in Others : s # r => inflight'[s] = inflight[s]
  BY <1>1, <1>2 DEF TypeOK
<1>6. freed'[h] = 1 /\ \A a \in Addrs : a # h => freed'[a] = freed[a]
  BY <1>1, <1>2, <1>4 DEF TypeOK
<1>7. TypeOK'
  BY <1>1, <1>2, <1>4 DEF TypeOK
<1>8. \A a \in Addrs : freed'[a] = 1 => a \in gone' /\ \A s \in Others : a \notin inflight'[s]
  BY <1>1, <1>2, <1>4, <1>5, <1>6 DEF FlagInv
<1>9. /\ \A s \in Others : inflight'[s] \subseteq gone'
      /\ \A s, t \in Others : s # t => inflight'[s] \cap inflight'[t] = {}
  BY <1>1, <1>2, <1>5 DEF FlagInv
<1>10. pc' = "collect" => \A a \in due' \cap InUse' : freed'[a] = 1
  BY <1>1, <1>2, <1>3, <1>6 DEF FlagInv, TypeOK
<1>11. FlagInv'
  BY <1>1, <1>2, <1>3, <1>8, <1>9, <1>10 DEF FlagInv
<1>12. QED
  BY <1>2, <1>3, <1>7, <1>11, FlagStep

\* Steps that change neither the heap, the list nor the flags, and leave a
\* collection or begin none.
LEMMA OwnerStep ==
  ASSUME IInv, UNCHANGED <<listVars, inflight, live, gone>>,
         pc' \in {"idle", "await"}, pending' \in Requests \cup {NoRequest},
         due' \subseteq Addrs, awaited' \subseteq InUse, pc' # "await" => awaited' = {}
  PROVE  IInv'
<1>1. TypeOK /\ HeapInv /\ FlagInv
  BY DEF IInv
<1>2. PICK q : Headers(q)
  BY DEF IInv, ListInv
<1>3. UNCHANGED <<heap, size, align, next, prev, end, freed, allocated, live, gone>> /\ InUse' = InUse
  BY DEF listVars, InUse
<1>4. HeapInv'
  BY <1>1, <1>3, HeapStays
<1>5. Headers(q)'
  BY <1>2, <1>3, HeadersStay
<1>6. InUse \subseteq Addrs
  BY <1>1 DEF TypeOK, InUse
<1>7. TypeOK'
  BY <1>1, <1>3, <1>6 DEF TypeOK
<1>8. FlagInv'
  BY <1>1, <1>3 DEF FlagInv
<1>9. ListInv'
  BY <1>5 DEF ListInv, Walk
<1>10. QED
  BY <1>4, <1>7, <1>8, <1>9 DEF IInv

-----------------------------------------------------------------------------
(* The invariant.                                                           *)

\* A freelist with one range.
LEMMA OneRange ==
  ASSUME NEW n \in Nat \ {0}, NEW fl, fl = <<Entry(0, n)>>
  PROVE  Ordered(fl) /\ FreeBytes(fl) = 0..(n - 1)
<1>1. Entry(0, n) \in Ranges /\ Entry(0, n).addr = 0 /\ Entry(0, n).size = n
  BY DEF Entry, Ranges
<1>2. fl \in Seq(Ranges) /\ DOMAIN fl = 1..1 /\ fl[1].addr = 0 /\ fl[1].size = n
  BY <1>1
<1>3. \A i \in DOMAIN fl : i = 1
  BY <1>2
<1>4. Ordered(fl)
  <2>1. ASSUME NEW i \in DOMAIN fl, NEW j \in DOMAIN fl, i < j
        PROVE  FALSE
    <3>1. i = 1 /\ j = 1
      BY <1>3
    <3>2. QED
      BY <2>1, <3>1
  <2>2. QED
    BY <1>2, <2>1 DEF Ordered
<1>5. EndOf(fl[1]) = n
  BY <1>2 DEF EndOf
<1>6. ASSUME NEW x
      PROVE  x \in FreeBytes(fl) <=> x \in 0..(n - 1)
  <2>1. x \in FreeBytes(fl) <=> \E i \in DOMAIN fl : x \in Int /\ fl[i].addr <= x /\ x < EndOf(fl[i])
    BY <1>2, FreeBytesIs
  <2>2. x \in FreeBytes(fl) <=> x \in Int /\ 0 <= x /\ x < n
    BY <1>2, <1>3, <1>5, <2>1
  <2>3. QED
    BY <2>2
<1>7. QED
  BY <1>4, <1>6

\* A freelist without ranges.
LEMMA NoRange ==
  ASSUME NEW fl, fl = <<>>
  PROVE  Ordered(fl) /\ FreeBytes(fl) = {}
<1>1. fl \in Seq(Ranges) /\ DOMAIN fl = {}
  OBVIOUS
<1>2. Ordered(fl)
  BY <1>1 DEF Ordered
<1>3. \A x : x \notin FreeBytes(fl)
  BY <1>1, FreeBytesIs
<1>4. QED
  BY <1>2, <1>3

\* At the beginning the heap is one free range and the list is empty.
LEMMA InitIs == ASSUME ResInit PROVE IInv
<1>1. /\ NoncollSize - FlagSize \in Nat \ {0} /\ WinSize \in Nat \ {0}
  BY BlockAssumption
<1>2. PICK n \in Nat \ {0} :
        /\ heap.kind \in {"block", "root"} /\ heap.win = <<Entry(0, n)>> /\ heap.blk = <<>>
        /\ heap = [kind |-> heap.kind, win |-> heap.win, blk |-> heap.blk]
        /\ HeapBytes(heap) = 0..(n - 1)
  <2>1. CASE heap = EmptyHeap
    <3>1. /\ heap.kind = "block" /\ heap.win = <<Entry(0, WinSize)>> /\ heap.blk = <<>>
          /\ heap = [kind |-> heap.kind, win |-> heap.win, blk |-> heap.blk]
      BY <2>1 DEF EmptyHeap
    <3>2. HeapBytes(heap) = 0..(WinSize - 1)
      BY <3>1 DEF HeapBytes
    <3>3. QED
      BY <1>1, <3>1, <3>2
  <2>2. CASE heap = EmptyRoot
    <3>1. /\ heap.kind = "root" /\ heap.win = <<Entry(0, NoncollSize - FlagSize)>> /\ heap.blk = <<>>
          /\ heap = [kind |-> heap.kind, win |-> heap.win, blk |-> heap.blk]
      BY <2>2 DEF EmptyRoot
    <3>2. HeapBytes(heap) = 0..((NoncollSize - FlagSize) - 1)
      BY <3>1 DEF HeapBytes
    <3>3. QED
      BY <1>1, <3>1, <3>2
  <2>3. QED
    BY <2>1, <2>2 DEF ResInit
<1>3. PICK win, blk : win = heap.win /\ blk = heap.blk
  OBVIOUS
<1>4. /\ Ordered(win) /\ FreeBytes(win) = 0..(n - 1)
      /\ Ordered(blk) /\ FreeBytes(blk) = {}
  BY <1>2, <1>3, OneRange, NoRange
<1>5. win \in Seq(Ranges) /\ blk \in Seq(Ranges)
  BY <1>4, OrderedIs
<1>6. heap \in Heaps
  BY <1>2, <1>3, <1>5 DEF Heaps
<1>7. HeapOk(heap) /\ Free(heap) = 0..(n - 1)
  BY <1>3, <1>4, <1>6 DEF HeapOk, Free
<1>8. InUse = {}
  BY DEF ResInit, InUse
<1>9. UNION {Own(a) : a \in InUse} = {} /\ UNION {Occ(a) : a \in InUse} = {}
  BY <1>8
<1>10. allocated = Cardinality({})
  BY FS_EmptySet DEF ResInit
<1>11. HeapInv
  BY <1>2, <1>7, <1>8, <1>9, <1>10 DEF HeapInv
<1>12. TypeOK
  BY DEF ResInit, TypeOK, Nodes
<1>13. FlagInv
  BY <1>8 DEF ResInit, FlagInv
<1>14. PICK q : q = <<>> /\ q \in Seq(Addrs) /\ DOMAIN q = {} /\ Len(q) = 0
  <2>1. PICK q : q = <<>>
    OBVIOUS
  <2>2. q \in Seq(Addrs) /\ Len(q) = 0
    BY <2>1
  <2>3. DOMAIN q = {}
    BY <2>1
  <2>4. QED
    BY <2>1, <2>2, <2>3
<1>15. Node(q, 0) = ListHead /\ Node(q, 0 + 1) = Null
  BY <1>14, NodeIs
<1>16. IsList(q)
  <2>1. next[ListHead] = Null /\ end = ListHead
    BY DEF ResInit
  <2>2. QED
    BY <1>14, <1>15, <2>1 DEF IsList
<1>17. Listed(q) = InUse /\ OnceEach(q)
  BY <1>8, <1>14 DEF Listed, OnceEach
<1>18. pc = "idle"
  BY DEF ResInit
<1>19. ListInv
  BY <1>14, <1>16, <1>17, <1>18 DEF ListInv, Headers, Walk
<1>20. QED
  BY <1>11, <1>12, <1>13, <1>19 DEF IInv

\* Every step keeps the invariant.
LEMMA NextKeeps == ASSUME IInv, [ResNext]_resVars PROVE IInv'
<1>1. TypeOK /\ FlagInv
  BY DEF IInv
<1>2. \A h : h \in live => h \in InUse
  BY DEF InUse
<1>3. CASE UNCHANGED resVars
  <2>1. UNCHANGED <<heap, size, align, next, prev, end, allocated, pc, cursor, pending, due, awaited>>
    BY <1>3 DEF resVars, listVars, ctlVars
  <2>2. UNCHANGED <<freed, inflight, live, gone>> /\ InUse' = InUse
    BY <1>3 DEF resVars, listVars, rmaVars, InUse
  <2>3. TypeOK'
    BY <1>1, <2>1, <2>2 DEF TypeOK
  <2>4. FlagInv'
    BY <1>1, <2>1, <2>2 DEF FlagInv
  <2>5. QED
    BY <2>1, <2>2, <2>3, <2>4, FlagStep
<1>4. ASSUME NEW req \in Requests, Allocate(req)
      PROVE  IInv'
  <2>1. /\ Take(req) /\ pc = "idle"
        /\ UNCHANGED <<inflight, pending, due, awaited, gone>>
    BY <1>4 DEF Allocate, MayAllocate, rmaVars
  <2>2. pending' \in Requests \cup {NoRequest} /\ due' \subseteq Addrs
    BY <1>1, <2>1 DEF TypeOK
  <2>3. QED
    BY <2>1, <2>2, TakeStep
<1>5. ASSUME NEW req \in Requests, AllocateCollects(req)
      PROVE  IInv'
  BY <1>5, StartStep DEF AllocateCollects, MayAllocate, rmaVars
<1>6. CASE CollectCall
  BY <1>6, StartStep DEF CollectCall, rmaVars
<1>7. CASE CollectStep
  BY <1>7, WalkStep
<1>8. CASE CollectReturns
  <2>1. pc' = "idle" /\ due' = {} /\ UNCHANGED <<listVars, inflight, pending, awaited, live, gone>> /\ pc = "collect"
    BY <1>8 DEF CollectReturns, rmaVars
  <2>2. awaited' = {}
    BY <1>1, <2>1 DEF FlagInv
  <2>3. pending' \in Requests \cup {NoRequest}
    BY <1>1, <2>1 DEF TypeOK
  <2>4. QED
    BY <2>1, <2>2, <2>3, OwnerStep
<1>9. CASE AllocateCollected
  <2>1. /\ Take(pending) /\ pc = "collect" /\ pending # NoRequest
        /\ pending' = NoRequest /\ due' = {}
        /\ UNCHANGED <<inflight, awaited, gone>>
    BY <1>9 DEF AllocateCollected, rmaVars
  <2>2. PICK req \in Requests : req = pending
    BY <1>1, <2>1 DEF TypeOK
  <2>3. Take(req)
    BY <2>1, <2>2
  <2>4. QED
    BY <2>1, <2>3, TakeStep
<1>10. ASSUME NEW h \in live, DeallocateLocal(h)
       PROVE  IInv'
  <2>1. Reclaim(h) /\ pc = "idle" /\ UNCHANGED <<inflight, pending, due, awaited, pc>>
    BY <1>10 DEF DeallocateLocal, rmaVars, ctlVars
  <2>2. awaited = {} /\ awaited' = awaited \ {h} /\ awaited' = {}
    BY <1>1, <2>1 DEF FlagInv
  <2>3. h \in InUse
    BY <1>2
  <2>4. QED
    BY <2>1, <2>2, <2>3, ReclaimStep
<1>11. ASSUME NEW h \in live, NEW r \in Others, DeallocateRemote(r, h)
       PROVE  IInv'
  BY <1>11, RemoteStep
<1>12. ASSUME NEW r \in Others, NEW h \in inflight[r], Lands(r, h)
       PROVE  IInv'
  BY <1>12, LandsStep
<1>13. ASSUME NEW S \in SUBSET live, AwaitCall(S)
       PROVE  IInv'
  <2>1. /\ pc' = "await" /\ awaited' = S
        /\ UNCHANGED <<listVars, inflight, pending, due, live, gone>>
    BY <1>13 DEF AwaitCall, rmaVars
  <2>2. awaited' \subseteq InUse
    BY <1>2, <2>1
  <2>3. pending' \in Requests \cup {NoRequest} /\ due' \subseteq Addrs
    BY <1>1, <2>1 DEF TypeOK
  <2>4. QED
    BY <2>1, <2>2, <2>3, OwnerStep
<1>14. ASSUME NEW h \in awaited, AwaitStep(h)
       PROVE  IInv'
  <2>1. /\ Reclaim(h) /\ pc = "await" /\ freed[h] = 1
        /\ awaited' = awaited \ {h}
        /\ pc' = IF awaited' = {} THEN "idle" ELSE "await"
        /\ UNCHANGED <<inflight, pending, due>>
    BY <1>14 DEF AwaitStep, rmaVars
  <2>2. h \in InUse
    BY <1>1 DEF FlagInv
  <2>3. pc' \in {"idle", "await"} /\ (pc' # "await" => awaited' = {})
    BY <2>1
  <2>4. QED
    BY <2>1, <2>2, <2>3, ReclaimStep
<1>15. CASE ResNext
  BY <1>4, <1>5, <1>6, <1>7, <1>8, <1>9, <1>10, <1>11, <1>12, <1>13, <1>14, <1>15 DEF ResNext
<1>16. QED
  BY <1>3, <1>15

-----------------------------------------------------------------------------
(* What the invariant says.                                                 *)

\* The list holds every object once.
LEMMA ListLength ==
  ASSUME NEW q, Headers(q)
  PROVE  /\ Len(q) \in Nat /\ DOMAIN q = 1..Len(q)
         /\ q \in [1..Len(q) -> InUse]
         /\ Cardinality(InUse) = Len(q)
<1>1. q \in Seq(Addrs) /\ OnceEach(q) /\ {q[i] : i \in DOMAIN q} = InUse
  BY DEF Headers, Listed
<1>2. PICK l \in Nat : l = Len(q) /\ DOMAIN q = 1..l
  BY <1>1
<1>3. q \in [1..l -> InUse]
  BY <1>1, <1>2
<1>4. \A i, j \in 1..l : q[i] = q[j] => i = j
  BY <1>1, <1>2 DEF OnceEach
<1>5. \A a \in InUse : \E i \in 1..l : q[i] = a
  BY <1>1, <1>2
<1>6. ExistsBijection(1..l, InUse)
  <2>1. PICK I, D : I = InUse /\ D = 1..l
    OBVIOUS
  <2>2. q \in Injection(D, I)
    BY <1>3, <1>4, <2>1 DEF Injection, IsInjective
  <2>3. q \in Surjection(D, I)
    BY <1>3, <1>5, <2>1 DEF Surjection
  <2>4. QED
    BY <2>1, <2>2, <2>3 DEF ExistsBijection, Bijection
<1>7. Cardinality(InUse) = l
  BY <1>6, FS_CountingElements
<1>8. QED
  BY <1>2, <1>3, <1>7

\* The bookkeeping is exact in every state of the invariant.
LEMMA SoundHeap == ASSUME IInv PROVE HeapSound
<1>1. TypeOK /\ HeapInv
  BY DEF IInv
<1>2. PICK q : Headers(q)
  BY DEF IInv, ListInv
<1>3. ListIsAllocated
  <2>1. q \in [1..Cardinality(InUse) -> InUse]
    BY <1>2, ListLength
  <2>2. IsList(q) /\ {q[i] : i \in DOMAIN q} = InUse
    BY <1>2 DEF Headers, Listed
  <2>3. allocated = Cardinality(UNION {Bytes(a, size[a]) : a \in InUse})
    BY <1>1 DEF HeapInv, Own
  <2>4. QED
    BY <2>1, <2>2, <2>3 DEF ListIsAllocated
<1>4. ObjectsDisjoint
  BY <1>1 DEF HeapInv, Occ, ObjectsDisjoint
<1>5. NothingLost
  <2>1. PICK used, win, blk : /\ used = UNION {Occ(a) : a \in InUse}
                              /\ win = FreeBytes(heap.win) /\ blk = FreeBytes(heap.blk)
    OBVIOUS
  <2>2. win \cap blk = {} /\ Ordered(heap.win) /\ Ordered(heap.blk)
    BY <1>1, <2>1 DEF HeapInv, HeapOk
  <2>3. Coalesced(heap.win) /\ Coalesced(heap.blk)
    BY <2>2, OrderedIsCoalesced
  <2>4. Free(heap) = win \cup blk
    BY <2>1 DEF Free
  <2>5. (win \cup blk) \cap used = {}
    <3>1. \A a \in InUse : Occ(a) \cap (win \cup blk) = {}
      BY <1>1, <2>4 DEF HeapInv
    <3>2. \A x : x \in used <=> \E a \in InUse : x \in Occ(a)
      BY <2>1
    <3>3. QED
      BY <3>1, <3>2
  <2>6. win \cup blk \cup used = HeapBytes(heap)
    BY <1>1, <2>1, <2>4 DEF HeapInv
  <2>7. used = UNION {Occupied(heap, a, size[a]) : a \in InUse}
    BY <2>1 DEF Occ
  <2>8. QED
    BY <2>1, <2>2, <2>3, <2>5, <2>6, <2>7 DEF NothingLost
<1>6. QED
  BY <1>3, <1>4, <1>5 DEF HeapSound

\* The flags are where they may be in every such state.
LEMMA SafeFlags == ASSUME IInv PROVE FlagsSafe
<1>1. TypeOK /\ FlagInv
  BY DEF IInv
<1>2. \A a \in live : freed[a] = 0
  <2>1. TAKE a \in live
  <2>2. a \in Addrs /\ a \notin gone
    BY <1>1 DEF TypeOK, FlagInv
  <2>3. freed[a] \in {0, 1} /\ freed[a] # 1
    BY <1>1, <2>2 DEF TypeOK, FlagInv
  <2>4. QED
    BY <2>3
<1>3. QED
  BY <1>1, <1>2 DEF FlagInv, FlagsSafe, LiveNotFlagged, AwaitedStillAllocated

\* At the end of a walk nothing is left to visit.
LEMMA CompleteCollect == ASSUME IInv PROVE CollectComplete
<1>1. SUFFICES ASSUME pc = "collect", cursor = Null
               PROVE  due \cap InUse = {}
  BY DEF CollectComplete
<1>2. PICK q : Headers(q) /\ Walk(q)
  BY DEF IInv, ListInv
<1>3. PICK l \in Nat : l = Len(q) /\ q \in Seq(Addrs)
  BY <1>2 DEF Headers
<1>4. PICK c \in 1..(l + 1) :
        /\ cursor = Node(q, c)
        /\ \A a \in due \cap InUse : \E j \in c..l : q[j] = a
  BY <1>1, <1>2, <1>3 DEF Walk
<1>5. c \notin 1..l
  BY <1>1, <1>3, <1>4, NodeIs, NotAddrs
<1>6. \A j \in c..l : FALSE
  BY <1>5
<1>7. QED
  BY <1>4, <1>6

-----------------------------------------------------------------------------
(* The theorems.                                                            *)

\* The invariant holds in every state that the resource can reach.
THEOREM Invariant == ResSpec => []IInv
<1>1. ResInit => IInv
  BY InitIs
<1>2. IInv /\ [ResNext]_resVars => IInv'
  BY NextKeeps
<1>3. QED
  BY <1>1, <1>2, PTL DEF ResSpec

\* The linked list, the sizes and the two freelists account for every byte of
\* the window once, whatever order objects are taken and given back in.
THEOREM HeapIsSound == ResSpec => []HeapSound
BY Invariant, SoundHeap, PTL

\* No flag reaches the header of an object in use, and is_remotely_freed reads
\* none of an object that has been reclaimed.
THEOREM FlagsAreSafe == ResSpec => []FlagsSafe
BY Invariant, SafeFlags, PTL

\* collect_deallocated reclaims every object whose flag was set when it began,
\* although it unlinks headers during the walk.
THEOREM CollectIsComplete == ResSpec => []CollectComplete
BY Invariant, CompleteCollect, PTL

\* What the ITYR_CHECKs of do_allocate, local_deallocate_impl and
\* remove_header_from_list say of the list and of allocated_size_.
ListChecks ==
  /\ next[end] = Null
  /\ \A h \in InUse : prev[h] # Null /\ (next[h] = Null => h = end) /\ size[h] <= allocated

\* The checks hold in every state of the invariant.
LEMMA CheckedList == ASSUME IInv PROVE ListChecks
<1>1. TypeOK /\ HeapInv
  BY DEF IInv
<1>2. PICK q : Headers(q)
  BY DEF IInv, ListInv
<1>3. PICK l \in Nat : l = Len(q) /\ DOMAIN q = 1..l /\ q \in Seq(Addrs)
  BY <1>2 DEF Headers
<1>4. /\ \A i \in 0..l : next[Node(q, i)] = Node(q, i + 1)
      /\ \A i \in 1..l : prev[q[i]] = Node(q, i - 1)
      /\ end = Node(q, l)
  <2>1. \A i \in 0..l : i \in {0} \cup DOMAIN q
    BY <1>3
  <2>2. QED
    BY <1>2, <1>3, <2>1 DEF Headers, IsList
<1>5. next[end] = Null
  BY <1>3, <1>4, NodeIs
<1>6. ASSUME NEW h \in InUse
      PROVE  prev[h] # Null /\ (next[h] = Null => h = end)
  <2>1. PICK k \in 1..l : h = q[k] /\ h = Node(q, k)
    BY <1>2, <1>3, NodeIs DEF Headers, Listed
  <2>2. k - 1 \in 0..l
    OBVIOUS
  <2>3. prev[h] # Null
    BY <1>3, <1>4, <2>1, <2>2, NodeIs
  <2>4. CASE k = l
    BY <1>4, <2>1, <2>3, <2>4
  <2>5. CASE k # l
    <3>1. k + 1 \in 1..l /\ k + 1 \in 0..l /\ k \in 0..l
      BY <2>5
    <3>2. next[h] # Null
      BY <1>3, <1>4, <2>1, <3>1, NodeIs
    <3>3. QED
      BY <2>3, <3>2
  <2>6. QED
    BY <2>4, <2>5
<1>7. ASSUME NEW h \in InUse
      PROVE  size[h] <= allocated
  <2>1. PICK n \in Nat \ {0} : n = size[h] /\ h \in Nat
    BY <1>1, HeapInvIs
  <2>2. PICK U : U = UNION {Own(a) : a \in InUse} /\ IsFiniteSet(U)
    BY <1>1, HeapInvIs
  <2>3. Bytes(h, n) \subseteq U
    BY <2>1, <2>2 DEF Own
  <2>4. n <= Cardinality(U)
    BY <2>1, <2>2, <2>3, CountLess
  <2>5. allocated = Cardinality(U)
    BY <1>1, <2>2 DEF HeapInv
  <2>6. QED
    BY <2>1, <2>4, <2>5
<1>8. QED
  BY <1>5, <1>6, <1>7 DEF ListChecks

\* Those checks never fail.
THEOREM ListChecksHold == ResSpec => []ListChecks
BY Invariant, CheckedList, PTL

\* The freelist has the piece that block_resource asks a new block for: the
\* check on the result does not fail.
BlockCheck == pc # "check"

\* A request that fits does not make the check on a new block fail.
LEMMA TakeChecks ==
  ASSUME IInv, NEW req \in Requests, Take(req)
  PROVE  BlockCheck'
<1>1. PICK n \in Nat \ {0} : n = RealBytes(req)
  BY RequestIs
<1>2. PICK k \in Nat \ {0} : k = req[2] /\ (k > BlockSize \/ BlockSize % k = 0)
  BY RequestIs
<1>3. n >= BlockSize \/ Fits(n, k)
  BY <1>1, <1>2, FitAssumption DEF Fits
<1>4. PICK s : s = HeapAllocate(heap, n, k)
  OBVIOUS
<1>5. HeapOk(heap)
  BY DEF IInv, HeapInv
<1>6. s.how # "check"
  BY <1>2, <1>3, <1>4, <1>5, HeapAllocateIs
<1>7. pc' = "idle" \/ pc' = s.how
  BY <1>1, <1>2, <1>4 DEF Take
<1>8. QED
  BY <1>6, <1>7 DEF BlockCheck

\* ITYR_CHECK(s.has_value()) in block_resource::do_allocate never fails, for
\* requests that are a block or more or fit into one with their alignment.
THEOREM BlockCheckHolds == ResSpec => []BlockCheck
<1>1. ResInit => BlockCheck
  BY DEF ResInit, BlockCheck
<1>2. ASSUME IInv, BlockCheck, [ResNext]_resVars
      PROVE  BlockCheck'
  <2>1. pending \in Requests \cup {NoRequest}
    BY <1>2 DEF IInv, TypeOK
  <2>2. ASSUME NEW req \in Requests, Allocate(req)
        PROVE  BlockCheck'
    BY <1>2, <2>2, TakeChecks DEF Allocate
  <2>3. CASE AllocateCollected
    <3>1. pending # NoRequest /\ Take(pending)
      BY <2>3 DEF AllocateCollected
    <3>2. PICK req \in Requests : req = pending
      BY <2>1, <3>1
    <3>3. Take(req)
      BY <3>1, <3>2
    <3>4. QED
      BY <1>2, <3>3, TakeChecks
  <2>4. ASSUME NEW req \in Requests, AllocateCollects(req)
        PROVE  BlockCheck'
    BY <2>4 DEF AllocateCollects, StartCollect, BlockCheck
  <2>5. CASE CollectCall \/ CollectStep \/ CollectReturns
    BY <1>2, <2>5 DEF CollectCall, StartCollect, CollectStep, CollectReturns, BlockCheck
  <2>6. ASSUME NEW h, DeallocateLocal(h) \/ \E r \in Others : DeallocateRemote(r, h) \/ Lands(r, h)
        PROVE  BlockCheck'
    BY <1>2, <2>6 DEF DeallocateLocal, DeallocateRemote, Lands, ctlVars, BlockCheck
  <2>7. ASSUME NEW S, AwaitCall(S)
        PROVE  BlockCheck'
    BY <2>7 DEF AwaitCall, BlockCheck
  <2>8. ASSUME NEW h, AwaitStep(h)
        PROVE  BlockCheck'
    BY <2>8 DEF AwaitStep, BlockCheck
  <2>9. CASE UNCHANGED resVars
    BY <1>2, <2>9 DEF resVars, ctlVars, BlockCheck
  <2>10. CASE ResNext
    BY <2>2, <2>3, <2>4, <2>5, <2>6, <2>7, <2>8, <2>10 DEF ResNext
  <2>11. QED
    BY <1>2, <2>9, <2>10
<1>3. QED
  BY <1>1, <1>2, Invariant, PTL DEF ResSpec
=============================================================================
