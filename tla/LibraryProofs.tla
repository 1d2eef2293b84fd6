---------------------------- MODULE LibraryProofs ----------------------------
(***************************************************************************)
(* The containers of Library.  The hash table, for any keys, positions and *)
(* lengths of the chains, implements KeyStacks; the linked lists, for any  *)
(* heads and entries, implement Lists: what is seen on a list is the ring  *)
(* of nodes its head is in, whatever an operation assigns on the way.      *)
(***************************************************************************)
EXTENDS Library, SequenceTheorems, FiniteSetTheorems, WellFoundedInduction, TLAPS

Node == [key : Keys, value : Values]

(* What the run checks of the types, with the chains as sequences.         *)
TableInv ==
    /\ hashNode \in [Positions -> Seq(Node)]
    /\ \A p \in Positions : \A j \in 1 .. Len(hashNode[p]) : pos[hashNode[p][j].key] = p
    /\ currentIndex \in 0 .. MaxIndex
    /\ cleared \in BOOLEAN

(* f has the values of k from each node of c on, and <<>> behind the last. *)
ValuesFrom(c, k, f) ==
    /\ f \in [1 .. Len(c) + 1 -> Seq(Values)]
    /\ f[Len(c) + 1] = <<>>
    /\ \A j \in 1 .. Len(c) : f[j] = IF c[j].key = k THEN <<c[j].value>> \o f[j + 1] ELSE f[j + 1]

(* What holds at n, and at j - 1 if at j, holds down to 1.                 *)
LEMMA Downwards ==
    ASSUME NEW n \in Nat \ {0}, NEW S, n \in S, \A j \in 2 .. n : j \in S => j - 1 \in S
    PROVE  \A j \in 1 .. n : j \in S
<1> DEFINE T == {d \in 0 .. n - 1 : n - d \notin S}
<1>1. SUFFICES ASSUME T # {} PROVE FALSE
  <2>1. ASSUME T = {}, NEW j \in 1 .. n PROVE j \in S
    <3>1. n - j \in 0 .. n - 1 /\ n - (n - j) = j
      OBVIOUS
    <3> QED BY <2>1, <3>1
  <2> QED BY <2>1
<1>2. T \in SUBSET Nat
  OBVIOUS
<1> HIDE DEF T
<1>3. PICK d \in T : \A e \in T : ~(<<e, d>> \in OpToRel(<, Nat))
  BY <1>1, <1>2, NatLessThanWellFounded, WFMin
<1>4. d \in 0 .. n - 1 /\ n - d \notin S
  BY DEF T
<1>5. d # 0
  BY <1>4
<1>6. d - 1 \notin T
  <2>1. ASSUME d - 1 \in T PROVE FALSE
    <3>1. <<d - 1, d>> \in Nat \X Nat /\ d - 1 < d
      BY <1>2, <2>1, <1>4
    <3>2. <<d - 1, d>> \in OpToRel(<, Nat)
      BY <3>1 DEF OpToRel
    <3> QED BY <1>3, <2>1, <3>2
  <2> QED BY <2>1
<1>7. d - 1 \in 0 .. n - 1 /\ n - (d - 1) \in 2 .. n /\ n - (d - 1) - 1 = n - d
  BY <1>4, <1>5
<1>8. n - (d - 1) \in S
  BY <1>6, <1>7 DEF T
<1> QED BY <1>4, <1>7, <1>8

(* A value on a stack.                                                     *)
LEMMA Pushed ==
    ASSUME NEW v \in Values, NEW s \in Seq(Values)
    PROVE  LET t == <<v>> \o s
           IN  t \in Seq(Values) /\ t # <<>> /\ t[1] = v /\ Tail(t) = s
<1> DEFINE h == <<v>>
           t == h \o s
<1>1. h \in Seq(Values) /\ Len(h) = 1 /\ h[1] = v
  OBVIOUS
<1> HIDE DEF h
<1>2. /\ t \in Seq(Values) /\ Len(t) = Len(h) + Len(s)
      /\ \A k \in 1 .. Len(h) + Len(s) : t[k] = IF k <= Len(h) THEN h[k] ELSE s[k - Len(h)]
  BY <1>1, ConcatProperties
<1> HIDE DEF t
<1>3. Len(t) = Len(s) + 1 /\ Len(s) \in Nat /\ t # <<>>
  BY <1>1, <1>2
<1>4. t[1] = v
  BY <1>1, <1>2, <1>3
<1>5. Tail(t) \in Seq(Values) /\ Len(Tail(t)) = Len(s) /\ \A k \in 1 .. Len(s) : Tail(t)[k] = t[k + 1]
  BY <1>2, <1>3
<1>6. \A k \in 1 .. Len(s) : Tail(t)[k] = s[k]
  <2> TAKE k \in 1 .. Len(s)
  <2>1. k + 1 \in 1 .. Len(h) + Len(s) /\ ~(k + 1 <= Len(h)) /\ k + 1 - Len(h) = k
    BY <1>1, <1>3
  <2> QED BY <2>1, <1>2, <1>5
<1>7. Tail(t) = s
  BY <1>5, <1>6, SeqEqual
<1> QED BY <1>2, <1>3, <1>4, <1>7 DEF t, h

(* There are such values,                                                  *)
LEMMA ValuesExist ==
    ASSUME NEW c \in Seq(Node), NEW k
    PROVE  \E f : ValuesFrom(c, k, f)
<1> DEFINE Step(f, j) == IF c[j].key = k THEN <<c[j].value>> \o f[j + 1] ELSE f[j + 1]
           n == Len(c) + 1
           Good(f, m) == /\ f \in [1 .. n -> Seq(Values)] /\ f[n] = <<>>
                         /\ \A j \in m .. Len(c) : f[j] = Step(f, j)
           S == {m \in 1 .. n : \E f : Good(f, m)}
<1>1. Len(c) \in Nat /\ n \in Nat \ {0} /\ n - 1 = Len(c) /\ n = Len(c) + 1
  BY LenProperties
<1>2. \A j \in 1 .. Len(c) : c[j] \in Node /\ c[j].value \in Values
  <2>1. \A j \in 1 .. Len(c) : c[j] \in Node
    BY ElementOfSeq
  <2> QED BY <2>1 DEF Node
<1>3. n \in S
  <2> DEFINE f == [j \in 1 .. n |-> <<>>]
  <2>1. f \in [1 .. n -> Seq(Values)] /\ f[n] = <<>> /\ \A j \in n .. Len(c) : FALSE
    BY <1>1
  <2>2. Good(f, n)
    BY <2>1
  <2>3. n \in 1 .. n
    BY <1>1
  <2> HIDE DEF Good, f
  <2> QED BY <2>2, <2>3
<1>4. ASSUME NEW m \in 2 .. n, m \in S PROVE m - 1 \in S
  <2>1. PICK f : Good(f, m)
    BY <1>4
  <2> DEFINE g == [f EXCEPT ![m - 1] = Step(f, m - 1)]
  <2>2. m \in Nat /\ m - 1 \in 1 .. Len(c) /\ m - 1 \in 1 .. n /\ m - 1 # n /\ m - 1 + 1 = m /\ m \in 1 .. n
    BY <1>1
  <2>3. Step(f, m - 1) \in Seq(Values)
    <3>1. f[m - 1 + 1] \in Seq(Values)
      BY <2>1, <2>2
    <3> QED BY <3>1, <2>2, <1>2, Pushed
  <2>4. g \in [1 .. n -> Seq(Values)] /\ g[n] = <<>>
    BY <2>1, <2>2, <2>3
  <2>5. ASSUME NEW j \in m - 1 .. Len(c) PROVE g[j] = Step(g, j)
    <3>1. j \in 1 .. n /\ j + 1 \in 1 .. n /\ j + 1 # m - 1 /\ (j = m - 1 \/ j \in m .. Len(c))
      BY <1>1, <2>2
    <3>2. g[j + 1] = f[j + 1]
      BY <2>1, <3>1
    <3>3. g[j] = Step(f, j)
      <4>1. CASE j = m - 1
        BY <2>1, <2>2, <4>1
      <4>2. CASE j # m - 1
        BY <2>1, <3>1, <4>2
      <4> QED BY <4>1, <4>2
    <3> QED BY <3>2, <3>3
  <2>6. Good(g, m - 1)
    BY <2>4, <2>5
  <2> HIDE DEF Good, g
  <2> QED BY <2>2, <2>6
<1> HIDE DEF S
<1>5. 1 \in S
  <2>1. \A j \in 1 .. n : j \in S
    BY <1>1, <1>3, <1>4, Downwards
  <2> QED BY <1>1, <2>1
<1>6. PICK f : Good(f, 1)
  BY <1>5 DEF S
<1> QED BY <1>6 DEF ValuesFrom

(* and they are valuesIn's.                                                *)
LEMMA ValuesAre ==
    ASSUME NEW c \in Seq(Node), NEW k, NEW f, ValuesFrom(c, k, f)
    PROVE  valuesIn(c, k) = f[1]
<1> DEFINE n == Len(c) + 1
           Body(h, j) == IF j = Len(c) + 1 THEN <<>>
                         ELSE IF c[j].key = k THEN <<c[j].value>> \o h[j + 1] ELSE h[j + 1]
           Fix(h) == h = [j \in 1 .. Len(c) + 1 |-> Body(h, j)]
           g == CHOOSE h : Fix(h)
<1>1. Len(c) \in Nat /\ n \in Nat \ {0} /\ n - 1 = Len(c) /\ 1 \in 1 .. n
      /\ \A j \in 1 .. n : j = n \/ (j # n /\ j \in 1 .. Len(c) /\ j + 1 \in 1 .. n)
  BY LenProperties
<1>2. valuesIn(c, k) = g[1]
  BY DEF valuesIn
<1>3. Fix(f)
  <2>1. f = [j \in 1 .. n |-> f[j]]
    BY DEF ValuesFrom
  <2>2. \A j \in 1 .. n : f[j] = Body(f, j)
    BY <1>1 DEF ValuesFrom
  <2> HIDE DEF Body
  <2> QED BY <2>1, <2>2
<1>4. Fix(g)
  <2> HIDE DEF Fix
  <2> QED BY <1>3
<1> HIDE DEF g
<1>5. \A j \in 1 .. n : g[j] = Body(g, j)
  <2> HIDE DEF Body
  <2> QED BY <1>4
<1> DEFINE S == {j \in 1 .. n : g[j] = f[j]}
<1>6. n \in S
  <2>1. n \in 1 .. n
    BY <1>1
  <2>a. g[n] = Body(g, n)
    <3> HIDE DEF Body
    <3> QED BY <1>5, <2>1
  <2>2. g[n] = <<>> /\ f[n] = <<>>
    BY <2>a DEF ValuesFrom
  <2> QED BY <2>1, <2>2
<1>7. ASSUME NEW j \in 2 .. n, j \in S PROVE j - 1 \in S
  <2>1. j - 1 \in 1 .. n /\ j - 1 \in 1 .. Len(c) /\ j - 1 # n /\ j - 1 + 1 = j
    BY <1>1
  <2>2. g[j - 1] = IF c[j - 1].key = k THEN <<c[j - 1].value>> \o g[j] ELSE g[j]
    BY <1>5, <2>1
  <2>3. f[j - 1] = IF c[j - 1].key = k THEN <<c[j - 1].value>> \o f[j] ELSE f[j]
    BY <2>1 DEF ValuesFrom
  <2> QED BY <1>7, <2>1, <2>2, <2>3
<1> HIDE DEF S
<1>8. 1 \in S
  <2>1. \A j \in 1 .. n : j \in S
    BY <1>1, <1>6, <1>7, Downwards
  <2> QED BY <1>1, <2>1
<1> QED BY <1>2, <1>8 DEF S

(* Nodes without the key add nothing.                                      *)
LEMMA FirstOf ==
    ASSUME NEW c \in Seq(Node), NEW k, NEW f, ValuesFrom(c, k, f), NEW i \in 1 .. Len(c) + 1,
           \A j \in 1 .. i - 1 : c[j].key # k
    PROVE  \A j \in 1 .. i : f[j] = f[i]
<1> DEFINE S == {j \in 1 .. i : f[j] = f[i]}
<1>1. Len(c) \in Nat /\ i \in Nat \ {0}
  BY LenProperties
<1>2. i \in S
  BY <1>1
<1>3. ASSUME NEW j \in 2 .. i, j \in S PROVE j - 1 \in S
  <2>1. j - 1 \in 1 .. i /\ j - 1 \in 1 .. i - 1 /\ j - 1 \in 1 .. Len(c) /\ j - 1 + 1 = j
    BY <1>1
  <2>2. f[j - 1] = f[j]
    BY <2>1 DEF ValuesFrom
  <2> QED BY <1>3, <2>1, <2>2
<1> HIDE DEF S
<1>4. \A j \in 1 .. i : j \in S
  BY <1>1, <1>2, <1>3, Downwards
<1> QED BY <1>4 DEF S

(* indexOf is the first node of the key, if there is one.                  *)
LEMMA IndexIs ==
    ASSUME NEW c \in Seq(Node), NEW k
    PROVE  \/ indexOf(c, k) = 0 /\ \A j \in 1 .. Len(c) : c[j].key # k
           \/ /\ indexOf(c, k) \in 1 .. Len(c) /\ c[indexOf(c, k)].key = k
              /\ \A j \in 1 .. indexOf(c, k) - 1 : c[j].key # k
<1> DEFINE T == {j \in DOMAIN c : c[j].key = k}
           i == CHOOSE j \in T : \A n \in T : j <= n
<1>1. Len(c) \in Nat /\ DOMAIN c = 1 .. Len(c) /\ T \in SUBSET Nat
  BY LenProperties
<1>2. indexOf(c, k) = IF T = {} THEN 0 ELSE i
  BY DEF indexOf
<1>3. CASE T = {}
  BY <1>1, <1>2, <1>3
<1>4. CASE T # {}
  <2> HIDE DEF T
  <2>1. PICK m \in T : \A e \in T : ~(<<e, m>> \in OpToRel(<, Nat))
    BY <1>1, <1>4, NatLessThanWellFounded, WFMin
  <2>2. ASSUME NEW e \in T PROVE m <= e
    <3>1. <<e, m>> \in Nat \X Nat /\ e \in Nat /\ m \in Nat
      BY <1>1
    <3>2. ~(e < m)
      BY <2>1, <3>1 DEF OpToRel
    <3> QED BY <3>1, <3>2
  <2>3. i \in T /\ \A n \in T : i <= n
    BY <2>2
  <2>4. i \in 1 .. Len(c) /\ c[i].key = k
    BY <2>3, <1>1 DEF T
  <2> HIDE DEF i
  <2>5. ASSUME NEW j \in 1 .. i - 1 PROVE c[j].key # k
    <3>1. j \in 1 .. Len(c) /\ ~(i <= j)
      BY <1>1, <2>4
    <3>2. j \notin T
      BY <2>3, <3>1
    <3> QED BY <1>1, <3>1, <3>2 DEF T
  <2> QED BY <1>2, <1>4, <2>4, <2>5
<1> QED BY <1>3, <1>4

(* Get returns the top of the key's stack.                                 *)
LEMMA GetIsTop ==
    ASSUME NEW k \in Keys, chain(k) \in Seq(Node)
    PROVE  Get(k) = IF valuesOf(k) = <<>> THEN NoValue ELSE valuesOf(k)[1]
<1> DEFINE c == chain(k)
           i == indexOf(c, k)
<1>1. c \in Seq(Node) /\ Len(c) \in Nat
  BY LenProperties
<1>2. Get(k) = IF i = 0 THEN NoValue ELSE c[i].value
  BY DEF Get
<1> HIDE DEF c
<1>3. PICK f : ValuesFrom(c, k, f)
  BY <1>1, ValuesExist
<1>4. valuesIn(c, k) = f[1]
  BY <1>1, <1>3, ValuesAre
<1>5. CASE i = 0
  <2>1. \A j \in 1 .. Len(c) + 1 - 1 : c[j].key # k
    BY <1>1, <1>5, IndexIs
  <2>2. Len(c) + 1 \in 1 .. Len(c) + 1 /\ 1 \in 1 .. Len(c) + 1
    BY <1>1
  <2>3. f[1] = f[Len(c) + 1]
    BY <1>1, <1>3, <2>1, <2>2, FirstOf
  <2>4. f[1] = <<>>
    BY <1>3, <2>3 DEF ValuesFrom
  <2> QED BY <1>2, <1>4, <1>5, <2>4 DEF valuesOf, c
<1>6. CASE i # 0
  <2>1. i \in 1 .. Len(c) /\ c[i].key = k /\ \A j \in 1 .. i - 1 : c[j].key # k
    BY <1>1, <1>6, IndexIs
  <2> HIDE DEF i
  <2>2. i \in 1 .. Len(c) + 1 /\ 1 \in 1 .. i /\ i + 1 \in 1 .. Len(c) + 1
    BY <1>1, <2>1
  <2>3. f[1] = f[i]
    BY <1>1, <1>3, <2>1, <2>2, FirstOf
  <2>4. f[i] = <<c[i].value>> \o f[i + 1] /\ f[i + 1] \in Seq(Values)
    BY <1>3, <2>1, <2>2 DEF ValuesFrom
  <2>5. c[i] \in Node
    BY <1>1, <2>1, ElementOfSeq
  <2>6. c[i].value \in Values
    BY <2>5 DEF Node
  <2>7. f[1] # <<>> /\ f[1][1] = c[i].value
    BY <2>3, <2>4, <2>6, Pushed
  <2> QED BY <1>2, <1>4, <1>6, <2>7 DEF valuesOf, c
<1> QED BY <1>5, <1>6

-----------------------------------------------------------------------------
(* The cells of a chain after each change.                                 *)
LEMMA Inserted ==
    ASSUME NEW c \in Seq(Node), NEW x \in Node, Len(c) >= 1
    PROVE  LET d == InsertAt(c, 2, x)
           IN  /\ d \in Seq(Node) /\ Len(d) = Len(c) + 1 /\ d[1] = c[1] /\ d[2] = x
               /\ \A j \in 3 .. Len(c) + 1 : d[j] = c[j - 1]
<1> DEFINE a == SubSeq(c, 1, 2 - 1)
           b == <<x>>
           e == SubSeq(c, 2, Len(c))
           d == (a \o b) \o e
<1>1. Len(c) \in Nat /\ \A j \in 1 .. Len(c) : c[j] \in Node
  BY LenProperties, ElementOfSeq
<1>0. Len(c) >= 1
  OBVIOUS
<1>2. a \in Seq(Node) /\ Len(a) = 1 /\ a[1] = c[1]
  BY <1>0, <1>1
<1>3. b \in Seq(Node) /\ Len(b) = 1 /\ b[1] = x
  OBVIOUS
<1>4. e \in Seq(Node) /\ Len(e) = Len(c) - 1 /\ \A j \in 1 .. Len(c) - 1 : e[j] = c[j + 1]
  <2>1. 2 \in Int /\ Len(c) \in Int /\ \A j \in 2 .. Len(c) : c[j] \in Node
    BY <1>1
  <2>2. /\ e \in Seq(Node) /\ Len(e) = (IF 2 <= Len(c) THEN Len(c) - 2 + 1 ELSE 0)
        /\ \A j \in 1 .. Len(c) - 2 + 1 : e[j] = c[2 + j - 1]
    BY <2>1, SubSeqProperties
  <2> HIDE DEF e
  <2>3. Len(e) = Len(c) - 1
    <3>1. CASE 2 <= Len(c)
      <4>1. Len(e) = Len(c) - 2 + 1
        BY <2>2, <3>1
      <4> QED BY <1>1, <4>1
    <3>2. CASE ~(2 <= Len(c))
      <4>1. Len(e) = 0
        BY <2>2, <3>2
      <4> DEFINE m == Len(c)
      <4>2. m \in Nat /\ m >= 1 /\ ~(2 <= m)
        BY <1>0, <1>1, <3>2
      <4> HIDE DEF m
      <4>3. m = 1
        BY <4>2
      <4> QED BY <4>1, <4>3 DEF m
    <3> QED BY <3>1, <3>2
  <2>4. ASSUME NEW j \in 1 .. Len(c) - 1 PROVE e[j] = c[j + 1]
    <3>1. j \in 1 .. Len(c) - 2 + 1 /\ 2 + j - 1 = j + 1
      BY <1>1
    <3> QED BY <2>2, <3>1
  <2> QED BY <2>2, <2>3, <2>4
<1>5. InsertAt(c, 2, x) = d
  BY DEF InsertAt
<1> HIDE DEF a, b, e
<1>6. /\ a \o b \in Seq(Node) /\ Len(a \o b) = Len(a) + Len(b)
      /\ \A j \in 1 .. Len(a) + Len(b) : (a \o b)[j] = IF j <= Len(a) THEN a[j] ELSE b[j - Len(a)]
  <2>1. a \in Seq(Node) /\ b \in Seq(Node)
    BY <1>2, <1>3
  <2> QED BY <2>1, ConcatProperties
<1> DEFINE g == a \o b
<1>7. g \in Seq(Node) /\ Len(g) = 2 /\ g[1] = c[1] /\ g[2] = x
  BY <1>2, <1>3, <1>6
<1> HIDE DEF g
<1>8. /\ g \o e \in Seq(Node) /\ Len(g \o e) = Len(g) + Len(e)
      /\ \A j \in 1 .. Len(g) + Len(e) : (g \o e)[j] = IF j <= Len(g) THEN g[j] ELSE e[j - Len(g)]
  <2>1. g \in Seq(Node) /\ e \in Seq(Node)
    BY <1>4, <1>7
  <2> QED BY <2>1, ConcatProperties
<1>9. Len(g \o e) = Len(c) + 1 /\ (g \o e)[1] = c[1] /\ (g \o e)[2] = x
  BY <1>1, <1>4, <1>7, <1>8
<1>10. ASSUME NEW j \in 3 .. Len(c) + 1 PROVE (g \o e)[j] = c[j - 1]
  <2>1. /\ j \in 1 .. Len(g) + Len(e) /\ ~(j <= Len(g)) /\ j - Len(g) = j - 2
        /\ j - 2 \in 1 .. Len(c) - 1 /\ j - 2 + 1 = j - 1
    BY <1>1, <1>4, <1>7
  <2> QED BY <2>1, <1>4, <1>8
<1> QED BY <1>5, <1>8, <1>9, <1>10 DEF g

(* The cells of a chain without its cell i.                                *)
LEMMA Removed ==
    ASSUME NEW c \in Seq(Node), NEW i \in 1 .. Len(c)
    PROVE  LET d == RemoveAt(c, i)
           IN  /\ d \in Seq(Node) /\ Len(d) = Len(c) - 1
               /\ \A j \in 1 .. Len(c) - 1 : d[j] = IF j < i THEN c[j] ELSE c[j + 1]
<1> DEFINE a == SubSeq(c, 1, i - 1)
           b == SubSeq(c, i + 1, Len(c))
<1>1. Len(c) \in Nat /\ i \in Nat /\ 1 <= i /\ i <= Len(c) /\ \A j \in 1 .. Len(c) : c[j] \in Node
  BY LenProperties, ElementOfSeq
<1>2. a \in Seq(Node) /\ Len(a) = i - 1 /\ \A j \in 1 .. i - 1 : a[j] = c[j]
  BY <1>1
<1>3. b \in Seq(Node) /\ Len(b) = Len(c) - i /\ \A j \in 1 .. Len(c) - i : b[j] = c[i + j]
  BY <1>1
<1>4. RemoveAt(c, i) = a \o b
  BY DEF RemoveAt
<1> HIDE DEF a, b
<1>5. /\ a \o b \in Seq(Node) /\ Len(a \o b) = Len(a) + Len(b)
      /\ \A j \in 1 .. Len(a) + Len(b) : (a \o b)[j] = IF j <= Len(a) THEN a[j] ELSE b[j - Len(a)]
  <2>1. a \in Seq(Node) /\ b \in Seq(Node)
    BY <1>2, <1>3
  <2> QED BY <2>1, ConcatProperties
<1>6. Len(a \o b) = Len(c) - 1
  BY <1>1, <1>2, <1>3, <1>5
<1>7. ASSUME NEW j \in 1 .. Len(c) - 1 PROVE (a \o b)[j] = IF j < i THEN c[j] ELSE c[j + 1]
  <2>1. j \in 1 .. Len(a) + Len(b) /\ j \in Nat
    BY <1>1, <1>2, <1>3
  <2>2. CASE j < i
    <3>1. j <= Len(a) /\ j \in 1 .. i - 1
      BY <1>1, <1>2, <2>1, <2>2
    <3> QED BY <2>1, <2>2, <3>1, <1>2, <1>5
  <2>3. CASE ~(j < i)
    <3>1. ~(j <= Len(a)) /\ j - Len(a) \in 1 .. Len(c) - i /\ i + (j - Len(a)) = j + 1
      BY <1>1, <1>2, <2>1, <2>3
    <3> QED BY <2>1, <2>3, <3>1, <1>3, <1>5
  <2> QED BY <2>2, <2>3
<1> QED BY <1>4, <1>5, <1>6, <1>7

(* A chain after an insertion.                                             *)
LEMMA WithNodeCells ==
    ASSUME NEW c \in Seq(Node), NEW x \in Node
    PROVE  LET d == WithNode(c, x)
           IN  /\ d \in Seq(Node)
               /\ \A j \in 1 .. Len(d) : d[j] = x \/ \E n \in 1 .. Len(c) : d[j] = c[n]
               /\ \/ c = <<>> /\ Len(d) = 1 /\ d[1] = x
                  \/ /\ Len(c) >= 1 /\ c[1].key = x.key /\ Len(d) = Len(c) /\ d[1] = x
                     /\ \A j \in 2 .. Len(c) : d[j] = c[j]
                  \/ /\ Len(c) >= 1 /\ c[1].key # x.key /\ Len(d) = Len(c) + 1 /\ d[1] = c[1] /\ d[2] = x
                     /\ \A j \in 3 .. Len(c) + 1 : d[j] = c[j - 1]
<1> DEFINE d == WithNode(c, x)
<1>1. Len(c) \in Nat /\ DOMAIN c = 1 .. Len(c) /\ (c # <<>> <=> Len(c) >= 1)
  BY LenProperties, EmptySeq
<1>2. CASE c = <<>>
  <2>1. d = <<x>>
    BY <1>2 DEF WithNode
  <2> HIDE DEF d
  <2>2. d \in Seq(Node) /\ Len(d) = 1 /\ d[1] = x
    BY <2>1
  <2>3. \A j \in 1 .. Len(d) : d[j] = x
    BY <2>2
  <2> QED BY <1>2, <2>2, <2>3 DEF d
<1>3. CASE c # <<>> /\ c[1].key = x.key
  <2>1. d = [c EXCEPT ![1] = x]
    BY <1>3 DEF WithNode, ReplaceAt
  <2> HIDE DEF d
  <2>2. 1 \in 1 .. Len(c)
    BY <1>1, <1>3
  <2>3. d \in Seq(Node) /\ Len(d) = Len(c) /\ d[1] = x /\ \A j \in 2 .. Len(c) : d[j] = c[j]
    BY <2>1, <2>2, <1>1, ExceptSeq
  <2>4. \A j \in 1 .. Len(d) : d[j] = x \/ \E n \in 1 .. Len(c) : d[j] = c[n]
    BY <2>3, <1>1
  <2> QED BY <1>1, <1>3, <2>3, <2>4 DEF d
<1>4. CASE c # <<>> /\ c[1].key # x.key
  <2>1. d = InsertAt(c, 2, x) /\ Len(c) >= 1
    BY <1>1, <1>4 DEF WithNode
  <2> HIDE DEF d
  <2>2. /\ d \in Seq(Node) /\ Len(d) = Len(c) + 1 /\ d[1] = c[1] /\ d[2] = x
        /\ \A j \in 3 .. Len(c) + 1 : d[j] = c[j - 1]
    BY <2>1, Inserted
  <2>3. ASSUME NEW j \in 1 .. Len(d) PROVE d[j] = x \/ \E n \in 1 .. Len(c) : d[j] = c[n]
    <3>1. j = 1 \/ j = 2 \/ (j \in 3 .. Len(c) + 1 /\ j - 1 \in 1 .. Len(c))
      BY <1>1, <2>2
    <3>2. 1 \in 1 .. Len(c)
      BY <1>1, <2>1
    <3> QED BY <2>2, <3>1, <3>2
  <2> QED BY <1>4, <2>1, <2>2, <2>3 DEF d
<1> QED BY <1>2, <1>3, <1>4

(* An insertion pushes to the stack of its key, or replaces its top, and   *)
(* leaves the other keys of the chain what they had.                       *)
LEMMA WithNodeValues ==
    ASSUME NEW c \in Seq(Node), NEW k \in Keys, NEW v \in Values
    PROVE  LET d == WithNode(c, [key |-> k, value |-> v])
           IN  /\ \A q \in Keys : q # k => valuesIn(d, q) = valuesIn(c, q)
               /\ \/ valuesIn(d, k) = <<v>> \o valuesIn(c, k)
                  \/ /\ valuesIn(c, k) # <<>>
                     /\ valuesIn(d, k) = <<v>> \o Tail(valuesIn(c, k))
<1> DEFINE x == [key |-> k, value |-> v]
           d == WithNode(c, x)
<1>1. x \in Node /\ x.key = k /\ x.value = v
  BY DEF Node
<1> HIDE DEF x
<1>2. /\ d \in Seq(Node)
      /\ \/ c = <<>> /\ Len(d) = 1 /\ d[1] = x
         \/ /\ Len(c) >= 1 /\ c[1].key = k /\ Len(d) = Len(c) /\ d[1] = x
            /\ \A j \in 2 .. Len(c) : d[j] = c[j]
         \/ /\ Len(c) >= 1 /\ c[1].key # k /\ Len(d) = Len(c) + 1 /\ d[1] = c[1] /\ d[2] = x
            /\ \A j \in 3 .. Len(c) + 1 : d[j] = c[j - 1]
  <2>1. x \in Node
    BY <1>1
  <2>2. /\ d \in Seq(Node)
        /\ \/ c = <<>> /\ Len(d) = 1 /\ d[1] = x
           \/ /\ Len(c) >= 1 /\ c[1].key = x.key /\ Len(d) = Len(c) /\ d[1] = x
              /\ \A j \in 2 .. Len(c) : d[j] = c[j]
           \/ /\ Len(c) >= 1 /\ c[1].key # x.key /\ Len(d) = Len(c) + 1 /\ d[1] = c[1] /\ d[2] = x
              /\ \A j \in 3 .. Len(c) + 1 : d[j] = c[j - 1]
    BY <2>1, WithNodeCells, Zenon
  <2> HIDE DEF d
  <2> QED BY <1>1, <2>2
<1>3. Len(c) \in Nat
  BY LenProperties
<1> HIDE DEF d
<1>4. CASE c = <<>> /\ Len(d) = 1 /\ d[1] = x
  <2>1. Len(c) = 0 /\ 1 \in 1 .. 1 /\ 1 + 1 = 2 /\ 0 + 1 = 1
    BY <1>4
  <2>2. ASSUME NEW q PROVE valuesIn(c, q) = <<>>
    <3> DEFINE f == [j \in {1} |-> <<>>]
    <3>1. f \in [1 .. Len(c) + 1 -> Seq(Values)] /\ f[Len(c) + 1] = <<>>
      BY <2>1
    <3>2. ValuesFrom(c, q, f)
      BY <2>1, <3>1 DEF ValuesFrom
    <3> QED BY <3>2, ValuesAre
  <2>3. ASSUME NEW q PROVE valuesIn(d, q) = IF q = k THEN <<v>> \o <<>> ELSE <<>>
    <3> DEFINE y == IF q = k THEN <<v>> \o <<>> ELSE <<>>
               f == [j \in 1 .. 2 |-> IF j = 1 THEN y ELSE <<>>]
    <3>1. y \in Seq(Values)
      BY Pushed
    <3>2. y = IF d[1].key = q THEN <<d[1].value>> \o <<>> ELSE <<>>
      BY <1>1, <1>4
    <3> HIDE DEF y
    <3>3. f \in [1 .. 2 -> Seq(Values)] /\ f[2] = <<>> /\ f[1] = y
      BY <3>1
    <3> HIDE DEF f
    <3>4. \A j \in 1 .. 1 : j = 1
      OBVIOUS
    <3>5. ValuesFrom(d, q, f)
      BY <1>4, <2>1, <3>2, <3>3, <3>4 DEF ValuesFrom
    <3>6. valuesIn(d, q) = f[1]
      BY <1>2, <3>5, ValuesAre
    <3> QED BY <3>3, <3>6 DEF y
  <2> QED BY <2>2, <2>3 DEF d, x
<1>5. CASE /\ Len(c) >= 1 /\ c[1].key = k /\ Len(d) = Len(c) /\ d[1] = x
           /\ \A j \in 2 .. Len(c) : d[j] = c[j]
  <2>1. 1 \in 1 .. Len(c) /\ 1 + 1 = 2 /\ 2 \in 1 .. Len(c) + 1 /\ 1 \in 1 .. Len(c) + 1
    BY <1>3, <1>5
  <2>2. \A j \in 1 .. Len(c) : j = 1 \/ (j \in 2 .. Len(c) /\ j # 1)
    BY <1>3
  <2>3. ASSUME NEW q, q # k PROVE valuesIn(d, q) = valuesIn(c, q)
    <3>1. PICK f : ValuesFrom(c, q, f)
      BY ValuesExist
    <3>2. ValuesFrom(d, q, f)
      BY <3>1, <2>2, <2>3, <1>1, <1>5 DEF ValuesFrom
    <3> QED BY <3>1, <3>2, <1>2, ValuesAre
  <2>4. valuesIn(c, k) # <<>> /\ valuesIn(d, k) = <<v>> \o Tail(valuesIn(c, k))
    <3>1. PICK f : ValuesFrom(c, k, f)
      BY ValuesExist
    <3>2. /\ f \in [1 .. Len(c) + 1 -> Seq(Values)] /\ f[Len(c) + 1] = <<>>
          /\ \A j \in 1 .. Len(c) : f[j] = IF c[j].key = k THEN <<c[j].value>> \o f[j + 1] ELSE f[j + 1]
      BY <3>1 DEF ValuesFrom
    <3>3. f[1] = <<c[1].value>> \o f[2] /\ f[2] \in Seq(Values)
      BY <2>1, <3>2, <1>5
    <3>4. c[1].value \in Values
      <4>1. c[1] \in Node
        BY <2>1, ElementOfSeq
      <4> QED BY <4>1 DEF Node
    <3>5. f[1] # <<>> /\ Tail(f[1]) = f[2]
      BY <3>3, <3>4, Pushed
    <3> DEFINE y == <<v>> \o f[2]
               g == [f EXCEPT ![1] = y]
    <3>6. y \in Seq(Values)
      BY <3>3, Pushed
    <3> HIDE DEF y
    <3>7. g \in [1 .. Len(c) + 1 -> Seq(Values)] /\ g[1] = y /\ \A j \in 1 .. Len(c) + 1 : j # 1 => g[j] = f[j]
      BY <2>1, <3>2, <3>6
    <3> HIDE DEF g
    <3>8. Len(c) + 1 # 1 /\ Len(c) + 1 \in 1 .. Len(c) + 1
          /\ \A j \in 1 .. Len(c) : j + 1 # 1 /\ j + 1 \in 1 .. Len(c) + 1 /\ j \in 1 .. Len(c) + 1
      BY <1>3, <1>5
    <3>9. ASSUME NEW j \in 1 .. Len(c)
          PROVE  g[j] = IF d[j].key = k THEN <<d[j].value>> \o g[j + 1] ELSE g[j + 1]
      <4>1. g[j + 1] = f[j + 1]
        BY <3>7, <3>8
      <4>2. CASE j = 1
        <5>1. d[j].key = k /\ d[j].value = v /\ g[j] = <<v>> \o f[2]
          BY <4>2, <1>1, <1>5, <3>7 DEF y
        <5> QED BY <4>1, <4>2, <5>1, <2>1
      <4>3. CASE j # 1
        BY <4>1, <4>3, <2>2, <3>2, <3>7, <3>8, <1>5
      <4> QED BY <4>2, <4>3
    <3>10. ValuesFrom(d, k, g)
      BY <3>2, <3>7, <3>8, <3>9, <1>5 DEF ValuesFrom
    <3>11. valuesIn(d, k) = g[1] /\ valuesIn(c, k) = f[1]
      BY <3>1, <3>10, <1>2, ValuesAre
    <3> QED BY <3>5, <3>7, <3>11 DEF y
  <2> QED BY <2>3, <2>4 DEF d, x
<1>6. CASE /\ Len(c) >= 1 /\ c[1].key # k /\ Len(d) = Len(c) + 1 /\ d[1] = c[1] /\ d[2] = x
           /\ \A j \in 3 .. Len(c) + 1 : d[j] = c[j - 1]
  <2>1. /\ 1 \in 1 .. Len(c) /\ 1 + 1 = 2 /\ 2 + 1 = 3 /\ 2 \in 1 .. Len(c) + 1 /\ 1 \in 1 .. Len(c) + 1
        /\ Len(c) + 1 + 1 \in 1 .. Len(c) + 1 + 1 /\ Len(c) + 1 + 1 # 1 /\ Len(c) + 1 + 1 # 2
        /\ Len(c) + 1 + 1 - 1 = Len(c) + 1
    BY <1>3, <1>6
  <2>2. \A j \in 1 .. Len(c) + 1 : j = 1 \/ j = 2 \/ (j \in 3 .. Len(c) + 1 /\ j # 1 /\ j # 2)
    BY <1>3
  <2>3. ASSUME NEW q
        PROVE  valuesIn(d, q) = IF q = k THEN <<v>> \o valuesIn(c, q) ELSE valuesIn(c, q)
    <3>1. PICK f : ValuesFrom(c, q, f)
      BY ValuesExist
    <3>2. /\ f \in [1 .. Len(c) + 1 -> Seq(Values)] /\ f[Len(c) + 1] = <<>>
          /\ \A j \in 1 .. Len(c) : f[j] = IF c[j].key = q THEN <<c[j].value>> \o f[j + 1] ELSE f[j + 1]
      BY <3>1 DEF ValuesFrom
    <3>3. f[1] = IF c[1].key = q THEN <<c[1].value>> \o f[2] ELSE f[2]
      BY <2>1, <3>2
    <3> DEFINE y == IF q = k THEN <<v>> \o f[2] ELSE f[2]
               z == IF q = k THEN <<v>> \o f[1] ELSE f[1]
               g == [j \in 1 .. Len(c) + 1 + 1 |-> IF j = 1 THEN z ELSE IF j = 2 THEN y ELSE f[j - 1]]
    <3>4. y \in Seq(Values) /\ z \in Seq(Values)
      BY <2>1, <3>2, Pushed
    <3>5. z = IF c[1].key = q THEN <<c[1].value>> \o y ELSE y
      BY <3>3, <1>6
    <3>6. y = IF x.key = q THEN <<x.value>> \o f[2] ELSE f[2]
      BY <1>1
    <3> HIDE DEF y, z
    <3>7. \A j \in 1 .. Len(c) + 1 + 1 : j # 1 => j - 1 \in 1 .. Len(c) + 1
      BY <1>3
    <3>8. g \in [1 .. Len(c) + 1 + 1 -> Seq(Values)] /\ g[Len(c) + 1 + 1] = <<>>
      BY <2>1, <3>2, <3>4, <3>7
    <3>9. ASSUME NEW j \in 1 .. Len(c) + 1
          PROVE  g[j] = IF d[j].key = q THEN <<d[j].value>> \o g[j + 1] ELSE g[j + 1]
      <4>a. j \in 1 .. Len(c) + 1 + 1 /\ j + 1 \in 1 .. Len(c) + 1 + 1 /\ j + 1 # 1 /\ j + 1 - 1 = j
        BY <1>3
      <4>1. CASE j = 1
        <5>1. g[j] = z /\ g[j + 1] = y /\ d[j] = c[1]
          BY <4>1, <4>a, <2>1, <1>6
        <5> QED BY <5>1, <3>5
      <4>2. CASE j = 2
        <5>1. 2 + 1 # 1 /\ 2 + 1 # 2 /\ 2 + 1 - 1 = 2 /\ 2 # 1
          OBVIOUS
        <5>2. g[j] = y /\ g[j + 1] = f[2] /\ d[j] = x
          BY <4>2, <4>a, <5>1, <1>6
        <5> QED BY <5>2, <3>6
      <4>3. CASE j \in 3 .. Len(c) + 1
        <5>1. /\ j # 1 /\ j # 2 /\ j + 1 # 2 /\ j + 1 - 1 = j /\ j - 1 \in 1 .. Len(c) /\ j - 1 + 1 = j
          BY <1>3, <4>3
        <5>2. g[j] = f[j - 1] /\ g[j + 1] = f[j] /\ d[j] = c[j - 1]
          BY <4>3, <4>a, <5>1, <1>6
        <5>3. f[j - 1] = IF c[j - 1].key = q THEN <<c[j - 1].value>> \o f[j] ELSE f[j]
          BY <5>1, <3>2
        <5> QED BY <5>2, <5>3
      <4> QED BY <4>1, <4>2, <4>3, <2>2
    <3>10. g[1] = z
      BY <2>1, <1>3
    <3> HIDE DEF g
    <3>11. ValuesFrom(d, q, g)
      BY <3>8, <3>9, <1>6 DEF ValuesFrom
    <3>12. valuesIn(d, q) = g[1] /\ valuesIn(c, q) = f[1]
      BY <3>1, <3>11, <1>2, ValuesAre
    <3> QED BY <3>10, <3>12 DEF z
  <2> QED BY <2>3 DEF d, x
<1> QED BY <1>2, <1>4, <1>5, <1>6

(* A removal pops the stack of its key, and leaves the others.             *)
LEMMA WithoutNodeValues ==
    ASSUME NEW c \in Seq(Node), NEW k \in Keys, indexOf(c, k) # 0
    PROVE  LET d == WithoutNode(c, k)
           IN  /\ \A q \in Keys : q # k => valuesIn(d, q) = valuesIn(c, q)
               /\ valuesIn(c, k) # <<>> /\ valuesIn(d, k) = Tail(valuesIn(c, k))
<1> DEFINE i == indexOf(c, k)
           d == WithoutNode(c, k)
<1>1. i \in 1 .. Len(c) /\ c[i].key = k /\ \A j \in 1 .. i - 1 : c[j].key # k
  BY IndexIs
<1>2. d = RemoveAt(c, i)
  BY DEF WithoutNode
<1> HIDE DEF i, d
<1>3. /\ d \in Seq(Node) /\ Len(d) = Len(c) - 1
      /\ \A j \in 1 .. Len(c) - 1 : d[j] = IF j < i THEN c[j] ELSE c[j + 1]
  BY <1>1, <1>2, Removed
<1>4. /\ Len(c) \in Nat /\ i \in Nat /\ 1 <= i /\ i <= Len(c) /\ Len(c) - 1 + 1 = Len(c)
      /\ i \in 1 .. Len(c) + 1 /\ i + 1 \in 1 .. Len(c) + 1 /\ 1 \in 1 .. Len(c)
      /\ Len(c) \in 1 .. Len(c)
  BY <1>1, LenProperties
<1>5. ASSUME NEW q
      PROVE  /\ q # k => valuesIn(d, q) = valuesIn(c, q)
             /\ q = k => valuesIn(c, q) # <<>> /\ valuesIn(d, q) = Tail(valuesIn(c, q))
  <2>1. PICK f : ValuesFrom(c, q, f)
    BY ValuesExist
  <2>2. /\ f \in [1 .. Len(c) + 1 -> Seq(Values)] /\ f[Len(c) + 1] = <<>>
        /\ \A j \in 1 .. Len(c) : f[j] = IF c[j].key = q THEN <<c[j].value>> \o f[j + 1] ELSE f[j + 1]
    BY <2>1 DEF ValuesFrom
  <2>3. f[i] = (IF k = q THEN <<c[i].value>> \o f[i + 1] ELSE f[i + 1]) /\ f[i + 1] \in Seq(Values)
    BY <1>1, <1>4, <2>2
  <2> DEFINE head(j) == IF q = k THEN f[i + 1] ELSE f[j]
             g == [j \in 1 .. Len(c) |-> IF j < i THEN head(j) ELSE f[j + 1]]
  <2>4. \A j \in 1 .. Len(c) : /\ j + 1 \in 1 .. Len(c) + 1 /\ j \in 1 .. Len(c) + 1
                               /\ (j < i => j \in 1 .. i - 1)
    BY <1>4
  <2>5. g \in [1 .. Len(c) -> Seq(Values)]
    BY <2>2, <2>3, <2>4
  <2>6. g[Len(c)] = <<>>
    <3>1. ~(Len(c) < i)
      BY <1>4
    <3> QED BY <3>1, <1>4, <2>2
  <2>7. ASSUME NEW j \in 1 .. Len(c) - 1
        PROVE  g[j] = IF d[j].key = q THEN <<d[j].value>> \o g[j + 1] ELSE g[j + 1]
    <3>1. /\ j \in 1 .. Len(c) /\ j + 1 \in 1 .. Len(c)
          /\ (j < i <=> (j + 1 < i \/ j + 1 = i)) /\ (j + 1 < i => j < i)
      BY <1>4
    <3>2. CASE j < i
      <4>1. d[j] = c[j] /\ j \in 1 .. i - 1
        BY <3>1, <3>2, <1>3, <2>4
      <4>2. c[j].key # k
        BY <4>1, <1>1
      <4>3. g[j] = head(j)
        BY <3>1, <3>2
      <4>4. g[j + 1] = head(j + 1)
        <5>1. CASE j + 1 < i
          BY <5>1, <3>1
        <5>2. CASE j + 1 = i
          <6>1. ~(i < i)
            BY <1>4
          <6>2. g[i] = f[i + 1]
            BY <6>1, <1>1
          <6> QED BY <5>2, <6>2, <2>3
        <5> QED BY <5>1, <5>2, <3>1, <3>2
      <4>5. f[j] = IF c[j].key = q THEN <<c[j].value>> \o f[j + 1] ELSE f[j + 1]
        BY <3>1, <2>2
      <4> HIDE DEF g
      <4> QED BY <4>1, <4>2, <4>3, <4>4, <4>5
    <3>3. CASE ~(j < i)
      <4>1. d[j] = c[j + 1] /\ ~(j + 1 < i)
        BY <3>1, <3>3, <1>3
      <4>2. g[j] = f[j + 1] /\ g[j + 1] = f[j + 1 + 1]
        BY <3>1, <3>3, <4>1
      <4>3. f[j + 1] = IF c[j + 1].key = q THEN <<c[j + 1].value>> \o f[j + 1 + 1] ELSE f[j + 1 + 1]
        BY <3>1, <2>2
      <4> HIDE DEF g
      <4> QED BY <4>1, <4>2, <4>3
    <3> QED BY <3>2, <3>3
  <2>8. g[1] = IF 1 < i THEN head(1) ELSE f[2]
    <3>1. 1 + 1 = 2
      OBVIOUS
    <3> QED BY <1>4, <3>1
  <2> HIDE DEF g
  <2>9. ValuesFrom(d, q, g)
    BY <1>3, <1>4, <2>5, <2>6, <2>7 DEF ValuesFrom
  <2>10. valuesIn(d, q) = g[1] /\ valuesIn(c, q) = f[1]
    BY <1>3, <2>1, <2>9, ValuesAre
  <2>11. CASE q = k
    <3>1. f[1] = f[i]
      <4>1. 1 \in 1 .. i
        BY <1>4
      <4> QED BY <1>1, <1>4, <2>1, <2>11, <4>1, FirstOf
    <3>2. g[1] = f[i + 1]
      <4>1. 1 < i \/ (i = 1 /\ i + 1 = 2)
        BY <1>4
      <4> QED BY <2>8, <2>11, <4>1
    <3>3. c[i].value \in Values
      <4>1. c[i] \in Node
        BY <1>1, ElementOfSeq
      <4> QED BY <4>1 DEF Node
    <3>4. f[i] # <<>> /\ Tail(f[i]) = f[i + 1]
      BY <2>3, <2>11, <3>3, Pushed
    <3> QED BY <2>10, <2>11, <3>1, <3>2, <3>4
  <2>12. CASE q # k
    <3>1. g[1] = f[1]
      <4>1. 1 < i \/ (i = 1 /\ i + 1 = 2 /\ ~(1 < i))
        BY <1>4
      <4> QED BY <2>3, <2>8, <2>12, <4>1
    <3> QED BY <2>10, <2>12, <3>1
  <2> QED BY <2>11, <2>12
<1> QED BY <1>5 DEF d

-----------------------------------------------------------------------------
(* A chain of nothing has no values.                                       *)
LEMMA EmptyValues ==
    ASSUME NEW k
    PROVE  valuesIn(<<>>, k) = <<>>
<1> DEFINE c == <<>>
           f == [j \in 1 .. Len(c) + 1 |-> <<>>]
<1>1. c \in Seq(Node) /\ Len(c) = 0
  OBVIOUS
<1> HIDE DEF c
<1>2. Len(c) + 1 \in 1 .. Len(c) + 1 /\ 1 \in 1 .. Len(c) + 1 /\ \A j \in 1 .. Len(c) : FALSE
  BY <1>1
<1>3. f \in [1 .. Len(c) + 1 -> Seq(Values)] /\ f[Len(c) + 1] = <<>> /\ f[1] = <<>>
  BY <1>2
<1> HIDE DEF f
<1>4. ValuesFrom(c, k, f)
  BY <1>2, <1>3 DEF ValuesFrom
<1> QED BY <1>1, <1>3, <1>4, ValuesAre DEF c

(* The empty table.                                                        *)
LEMMA TableInit == Init => TableInv
<1> SUFFICES ASSUME Init PROVE TableInv
  OBVIOUS
<1>1. hashNode \in [Positions -> Seq(Node)] /\ \A p \in Positions : hashNode[p] = <<>>
  BY DEF Init
<1>2. \A p \in Positions : \A j \in 1 .. Len(hashNode[p]) : FALSE
  BY <1>1
<1>3. currentIndex \in 0 .. MaxIndex
  BY TableAssumption DEF Init
<1> QED BY <1>1, <1>2, <1>3 DEF Init, TableInv

(* What an insertion does to a chain, and that it leaves the others alone. *)
LEMMA InsertEffect ==
    ASSUME TableInv, NEW k \in Keys, NEW v \in Values, Insert(k, v)
    PROVE  /\ pos[k] \in Positions /\ hashNode \in [Positions -> Seq(Node)]
           /\ \A p \in Positions :
                 hashNode'[p] = IF p = pos[k] THEN WithNode(hashNode[p], [key |-> k, value |-> v])
                                              ELSE hashNode[p]
           /\ DOMAIN hashNode' = Positions /\ hashNode' = [p \in Positions |-> hashNode'[p]]
BY TableAssumption DEF TableInv, Insert

(* What a removal does to a chain, and that it leaves the others alone.    *)
LEMMA DorpEffect ==
    ASSUME TableInv, NEW k \in Keys, Dorp(k)
    PROVE  /\ pos[k] \in Positions /\ hashNode \in [Positions -> Seq(Node)]
           /\ indexOf(hashNode[pos[k]], k) # 0
           /\ \A p \in Positions :
                 hashNode'[p] = IF p = pos[k] THEN WithoutNode(hashNode[p], k) ELSE hashNode[p]
           /\ DOMAIN hashNode' = Positions /\ hashNode' = [p \in Positions |-> hashNode'[p]]
BY TableAssumption DEF TableInv, Dorp, chain

(* Every operation keeps the nodes in the chains of their keys.            *)
LEMMA TableStep ==
    ASSUME TableInv, [Next]_vars
    PROVE  TableInv'
<1>1. MaxIndex \in Nat /\ pos \in [Keys -> Positions]
  BY TableAssumption
<1>2. CASE UNCHANGED vars
  BY <1>2 DEF vars, TableInv
<1>3. CASE InitHashTable \/ clearHashTable
  <2>1. hashNode' = [p \in Positions |-> <<>>] /\ currentIndex' \in 0 .. MaxIndex /\ cleared' \in BOOLEAN
    <3>1. 0 \in 0 .. MaxIndex
      BY <1>1
    <3>2. hashNode' = [p \in Positions |-> <<>>]
      BY <1>3 DEF InitHashTable, clearHashTable, Emptied
    <3>3. currentIndex' \in 0 .. MaxIndex
      BY <1>3, <3>1 DEF InitHashTable, clearHashTable, TableInv
    <3>4. cleared' \in BOOLEAN
      BY <1>3 DEF InitHashTable, clearHashTable
    <3> QED BY <3>2, <3>3, <3>4
  <2>2. hashNode' \in [Positions -> Seq(Node)]
    BY <2>1
  <2>3. \A p \in Positions : \A j \in 1 .. Len(hashNode'[p]) : FALSE
    BY <2>1
  <2> QED BY <2>1, <2>2, <2>3 DEF TableInv
<1>4. ASSUME NEW k \in Keys, NEW v \in Values, Insert(k, v) PROVE TableInv'
  <2> DEFINE x == [key |-> k, value |-> v]
  <2>1. x \in Node /\ x.key = k
    BY DEF Node
  <2> HIDE DEF x
  <2>2. /\ pos[k] \in Positions /\ hashNode \in [Positions -> Seq(Node)]
        /\ \A p \in Positions :
              hashNode'[p] = IF p = pos[k] THEN WithNode(hashNode[p], x) ELSE hashNode[p]
        /\ hashNode' = [p \in Positions |-> hashNode'[p]]
    BY <1>4, InsertEffect DEF x
  <2> DEFINE c == hashNode[pos[k]]
             d == WithNode(c, x)
  <2>3. c \in Seq(Node)
    BY <2>2
  <2>4. d \in Seq(Node) /\ \A j \in 1 .. Len(d) : d[j] = x \/ \E n \in 1 .. Len(c) : d[j] = c[n]
    <3> HIDE DEF c
    <3> QED BY <2>1, <2>3, WithNodeCells
  <2>5. \A n \in 1 .. Len(c) : pos[c[n].key] = pos[k]
    BY <2>2 DEF TableInv
  <2> HIDE DEF c, d
  <2>6. \A j \in 1 .. Len(d) : pos[d[j].key] = pos[k]
    BY <2>1, <2>4, <2>5
  <2>7. hashNode' \in [Positions -> Seq(Node)]
    BY <2>2, <2>4 DEF c, d
  <2>8. ASSUME NEW p \in Positions, NEW j \in 1 .. Len(hashNode'[p]) PROVE pos[hashNode'[p][j].key] = p
    <3>1. CASE p = pos[k]
      BY <2>2, <2>6, <2>8, <3>1 DEF c, d
    <3>2. CASE p # pos[k]
      <4>1. hashNode'[p] = hashNode[p]
        BY <2>2, <3>2
      <4> QED BY <2>8, <4>1 DEF TableInv
    <3> QED BY <3>1, <3>2
  <2>9. currentIndex' \in 0 .. MaxIndex /\ cleared' \in BOOLEAN
    BY <1>1, <1>4 DEF Insert, TableInv
  <2> QED BY <2>7, <2>8, <2>9 DEF TableInv
<1>5. ASSUME NEW k \in Keys, Dorp(k) PROVE TableInv'
  <2>1. /\ pos[k] \in Positions /\ hashNode \in [Positions -> Seq(Node)]
        /\ indexOf(hashNode[pos[k]], k) # 0
        /\ \A p \in Positions :
              hashNode'[p] = IF p = pos[k] THEN WithoutNode(hashNode[p], k) ELSE hashNode[p]
        /\ hashNode' = [p \in Positions |-> hashNode'[p]]
    BY <1>5, DorpEffect
  <2> DEFINE c == hashNode[pos[k]]
             d == WithoutNode(c, k)
  <2>2. c \in Seq(Node) /\ indexOf(c, k) \in 1 .. Len(c)
    BY <2>1, IndexIs
  <2>3. \A n \in 1 .. Len(c) : pos[c[n].key] = pos[k]
    BY <2>1 DEF TableInv
  <2> HIDE DEF c
  <2>4. /\ d \in Seq(Node) /\ Len(d) = Len(c) - 1 /\ Len(c) \in Nat
        /\ \A j \in 1 .. Len(c) - 1 : d[j] = c[j] \/ d[j] = c[j + 1]
    BY <2>2, Removed, LenProperties DEF WithoutNode
  <2> HIDE DEF d
  <2>5. \A j \in 1 .. Len(c) - 1 : j \in 1 .. Len(c) /\ j + 1 \in 1 .. Len(c)
    BY <2>4
  <2>6. ASSUME NEW j \in 1 .. Len(d) PROVE pos[d[j].key] = pos[k]
    <3>1. j \in 1 .. Len(c) - 1
      BY <2>4
    <3>2. CASE d[j] = c[j]
      BY <2>3, <2>5, <3>1, <3>2
    <3>3. CASE d[j] = c[j + 1]
      <4>1. j + 1 \in 1 .. Len(c)
        BY <2>5, <3>1
      <4> DEFINE n == j + 1
      <4>2. pos[c[n].key] = pos[k]
        BY <2>3, <4>1
      <4> QED BY <3>3, <4>2
    <3> QED BY <2>4, <3>1, <3>2, <3>3
  <2>7. hashNode' \in [Positions -> Seq(Node)]
    BY <2>1, <2>4 DEF c, d
  <2>8. ASSUME NEW p \in Positions, NEW j \in 1 .. Len(hashNode'[p]) PROVE pos[hashNode'[p][j].key] = p
    <3>1. CASE p = pos[k]
      BY <2>1, <2>6, <2>8, <3>1 DEF c, d
    <3>2. CASE p # pos[k]
      <4>1. hashNode'[p] = hashNode[p]
        BY <2>1, <3>2
      <4> QED BY <2>8, <4>1 DEF TableInv
    <3> QED BY <3>1, <3>2
  <2>9. currentIndex' \in 0 .. MaxIndex /\ cleared' \in BOOLEAN
    BY <1>5 DEF Dorp, TableInv
  <2> QED BY <2>7, <2>8, <2>9 DEF TableInv
<1> QED BY <1>2, <1>3, <1>4, <1>5 DEF Next

(* The stacks after each operation.                                        *)
LEMMA TableIsStacks ==
    ASSUME TableInv
    PROVE  /\ \A k \in Keys, v \in Values : Insert(k, v) => Stacks!Push(k, v) \/ Stacks!Replace(k, v)
           /\ \A k \in Keys : Dorp(k) => Stacks!Pop(k)
           /\ InitHashTable \/ clearHashTable => Stacks!Clear
<1>0. pos \in [Keys -> Positions]
  BY TableAssumption
<1>1. ASSUME NEW k \in Keys, NEW v \in Values, Insert(k, v)
      PROVE  Stacks!Push(k, v) \/ Stacks!Replace(k, v)
  <2> DEFINE c == hashNode[pos[k]]
             d == WithNode(c, [key |-> k, value |-> v])
  <2>1. /\ pos[k] \in Positions /\ hashNode \in [Positions -> Seq(Node)]
        /\ \A p \in Positions :
              hashNode'[p] = IF p = pos[k] THEN WithNode(hashNode[p], [key |-> k, value |-> v])
                                           ELSE hashNode[p]
    BY <1>1, InsertEffect
  <2>2. c \in Seq(Node)
    BY <2>1
  <2>3. hashNode'[pos[k]] = d /\ \A p \in Positions : p # pos[k] => hashNode'[p] = hashNode[p]
    BY <2>1
  <2>4. /\ \A q \in Keys : q # k => valuesIn(d, q) = valuesIn(c, q)
        /\ \/ valuesIn(d, k) = <<v>> \o valuesIn(c, k)
           \/ /\ valuesIn(c, k) # <<>>
              /\ valuesIn(d, k) = <<v>> \o Tail(valuesIn(c, k))
    BY <2>2, WithNodeValues
  <2> HIDE DEF d
  <2>5. ASSUME NEW q \in Keys, q # k PROVE valuesOf(q)' = valuesOf(q)
    <3>1. pos[q] \in Positions
      BY <1>0
    <3>2. CASE pos[q] = pos[k]
      BY <2>3, <2>4, <2>5, <3>2 DEF valuesOf, chain
    <3>3. CASE pos[q] # pos[k]
      BY <2>3, <3>1, <3>3 DEF valuesOf, chain
    <3> QED BY <3>2, <3>3
  <2>6. \/ valuesOf(k)' = <<v>> \o valuesOf(k)
        \/ valuesOf(k) # <<>> /\ valuesOf(k)' = <<v>> \o Tail(valuesOf(k))
    BY <2>3, <2>4 DEF valuesOf, chain
  <2> QED BY <2>5, <2>6 DEF Stacks!Push, Stacks!Replace
<1>2. ASSUME NEW k \in Keys, Dorp(k) PROVE Stacks!Pop(k)
  <2> DEFINE c == hashNode[pos[k]]
             d == WithoutNode(c, k)
  <2>1. /\ pos[k] \in Positions /\ hashNode \in [Positions -> Seq(Node)] /\ indexOf(c, k) # 0
        /\ \A p \in Positions :
              hashNode'[p] = IF p = pos[k] THEN WithoutNode(hashNode[p], k) ELSE hashNode[p]
    BY <1>2, DorpEffect
  <2>2. c \in Seq(Node)
    BY <2>1
  <2>3. hashNode'[pos[k]] = d /\ \A p \in Positions : p # pos[k] => hashNode'[p] = hashNode[p]
    BY <2>1
  <2>4. /\ \A q \in Keys : q # k => valuesIn(d, q) = valuesIn(c, q)
        /\ valuesIn(c, k) # <<>> /\ valuesIn(d, k) = Tail(valuesIn(c, k))
    BY <2>1, <2>2, WithoutNodeValues
  <2> HIDE DEF d
  <2>5. ASSUME NEW q \in Keys, q # k PROVE valuesOf(q)' = valuesOf(q)
    <3>1. pos[q] \in Positions
      BY <1>0
    <3>2. CASE pos[q] = pos[k]
      BY <2>3, <2>4, <2>5, <3>2 DEF valuesOf, chain
    <3>3. CASE pos[q] # pos[k]
      BY <2>3, <3>1, <3>3 DEF valuesOf, chain
    <3> QED BY <3>2, <3>3
  <2>6. valuesOf(k) # <<>> /\ valuesOf(k)' = Tail(valuesOf(k))
    BY <2>3, <2>4 DEF valuesOf, chain
  <2> QED BY <2>5, <2>6 DEF Stacks!Pop
<1>3. ASSUME InitHashTable \/ clearHashTable PROVE Stacks!Clear
  <2>1. \A p \in Positions : hashNode'[p] = <<>>
    BY <1>3 DEF InitHashTable, clearHashTable, Emptied
  <2>2. \A q \in Keys : valuesOf(q)' = <<>>
    BY <1>0, <2>1, EmptyValues DEF valuesOf, chain
  <2> QED BY <2>2 DEF Stacks!Clear
<1> QED BY <1>1, <1>2, <1>3

-----------------------------------------------------------------------------
(* A step of the lists leaves the table alone.                             *)
LEMMA TableRuns == LibrarySpec => Spec
<1>1. LibraryInit => Init
  BY DEF LibraryInit
<1>2. [TableUsed \/ ListUsed]_allVars => [Next]_vars
  BY DEF TableUsed, ListUsed, allVars, vars
<1> QED BY <1>1, <1>2, PTL DEF LibrarySpec, Spec

(* The nodes of a chain have keys of that chain.                           *)
THEOREM TableTypeCorrect == LibrarySpec => []TypeOK
<1>1. TableInv => TypeOK
  <2> SUFFICES ASSUME TableInv PROVE TypeOK
    OBVIOUS
  <2>1. ASSUME NEW p \in Positions, NEW j \in DOMAIN hashNode[p]
        PROVE  hashNode[p][j] \in Node /\ pos[hashNode[p][j].key] = p
    <3>1. hashNode[p] \in Seq(Node) /\ j \in 1 .. Len(hashNode[p])
      BY <2>1 DEF TableInv
    <3> QED BY <3>1, ElementOfSeq DEF TableInv
  <2>2. DOMAIN hashNode = Positions
    BY DEF TableInv
  <2> QED BY <2>1, <2>2 DEF TypeOK, TableInv, Node
<1> QED BY <1>1, TableRuns, TableInit, TableStep, PTL DEF Spec

(* Insert, Get and Dorp are a stack of values for each key: the table      *)
(* implements KeyStacks, whatever chains its keys share.                   *)
THEOREM StacksCorrect == LibrarySpec => StacksSpec
<1> DEFINE Top == \A k \in Keys : Get(k) = IF valuesOf(k) = <<>> THEN NoValue ELSE valuesOf(k)[1]
           Own == /\ InitHashTable \/ clearHashTable => Stacks!Clear
                  /\ \A k \in Keys : Dorp(k) => Stacks!Pop(k)
                  /\ \A k \in Keys, v \in Values :
                         Insert(k, v) => Stacks!Push(k, v) \/ Stacks!Replace(k, v)
           stacks == [k \in Keys |-> valuesOf(k)]
<1>1. Init => Stacks!Init
  <2> SUFFICES ASSUME Init PROVE Stacks!Init
    OBVIOUS
  <2>1. \A k \in Keys : valuesOf(k) = <<>>
    BY TableAssumption, EmptyValues DEF Init, valuesOf, chain
  <2> QED BY <2>1 DEF Stacks!Init
<1>2. TableInv => Top
  <2> SUFFICES ASSUME TableInv, NEW k \in Keys
               PROVE  Get(k) = IF valuesOf(k) = <<>> THEN NoValue ELSE valuesOf(k)[1]
    OBVIOUS
  <2>1. chain(k) \in Seq(Node)
    BY TableAssumption DEF TableInv, chain
  <2> QED BY <2>1, GetIsTop
<1>3. TableInv /\ [Next]_vars => [Own]_vars
  BY TableIsStacks
<1>4. TableInv /\ [Next]_vars => [Stacks!Next]_stacks
  <2> SUFFICES ASSUME TableInv, [Next]_vars PROVE [Stacks!Next]_stacks
    OBVIOUS
  <2>1. CASE UNCHANGED vars
    BY <2>1 DEF vars, valuesOf, chain
  <2>2. CASE Next
    BY <2>2, TableIsStacks DEF Next, Stacks!Next
  <2> QED BY <2>1, <2>2
<1> HIDE DEF Top, Own, stacks
<1>5. Spec => []TableInv
  BY TableInit, TableStep, PTL DEF Spec
<1>6. Spec => []Top /\ [][Own]_vars /\ [][Stacks!Next]_stacks
  BY <1>2, <1>3, <1>4, <1>5, PTL DEF Spec
<1>7. Spec => Stacks!Init
  BY <1>1 DEF Spec
<1> QED BY <1>6, <1>7, TableRuns, PTL DEF StacksSpec, Stacks!Spec, Top, Own, stacks

-----------------------------------------------------------------------------
(* The lists. *)

(* Memory: each node has two pointers.                                     *)
Pointers == List!Nodes \cup {POISON}
Memory == [List!Nodes -> [next : Pointers, prev : Pointers]]

(* A segment of nodes linked both ways, and a ring of them.                *)
Link(m, x, y) == m[x].next = y /\ m[y].prev = x
Seg(m, r) == \A k \in 1 .. Len(r) - 1 : Link(m, r[k], r[k + 1])
IsRing(m, r) == Seg(m, r) /\ Link(m, r[Len(r)], r[1])

(* The node z is the same in both.                                         *)
Same(m, n, z) == n[z].next = m[z].next /\ n[z].prev = m[z].prev

(* What links a segment to others may have changed, but nothing in it.     *)
Inside(m, n, r) == \A z \in {r[j] : j \in 1 .. Len(r)} :
    /\ z # r[Len(r)] => n[z].next = m[z].next
    /\ z # r[1] => n[z].prev = m[z].prev

Elems(s) == {s[j] : j \in 1 .. Len(s)}
Distinct(s) == \A j, k \in 1 .. Len(s) : s[j] = s[k] => j = k

(* Sequences that are put together.                                        *)
LEMMA Joined ==
    ASSUME NEW S, NEW a \in Seq(S), NEW b \in Seq(S)
    PROVE  /\ a \o b \in Seq(S) /\ Len(a \o b) = Len(a) + Len(b)
           /\ Len(a) \in Nat /\ Len(b) \in Nat
           /\ \A j \in 1 .. Len(a) : j \in 1 .. Len(a \o b) /\ (a \o b)[j] = a[j]
           /\ \A j \in 1 .. Len(b) : Len(a) + j \in 1 .. Len(a \o b) /\ (a \o b)[Len(a) + j] = b[j]
<1>1. /\ a \o b \in Seq(S) /\ Len(a \o b) = Len(a) + Len(b)
      /\ \A j \in 1 .. Len(a) + Len(b) : (a \o b)[j] = IF j <= Len(a) THEN a[j] ELSE b[j - Len(a)]
  BY ConcatProperties
<1>2. Len(a) \in Nat /\ Len(b) \in Nat
  BY LenProperties
<1>3. ASSUME NEW j \in 1 .. Len(a) PROVE j \in 1 .. Len(a \o b) /\ (a \o b)[j] = a[j]
  <2>1. j \in 1 .. Len(a) + Len(b) /\ j <= Len(a)
    BY <1>2
  <2> QED BY <1>1, <2>1
<1>4. ASSUME NEW j \in 1 .. Len(b)
      PROVE  Len(a) + j \in 1 .. Len(a \o b) /\ (a \o b)[Len(a) + j] = b[j]
  <2> DEFINE k == Len(a) + j
  <2>1. k \in 1 .. Len(a) + Len(b) /\ ~(k <= Len(a)) /\ k - Len(a) = j
    BY <1>2
  <2> HIDE DEF k
  <2>2. k \in 1 .. Len(a \o b) /\ (a \o b)[k] = b[j]
    BY <1>1, <2>1
  <2> QED BY <2>2 DEF k
<1> QED BY <1>1, <1>2, <1>3, <1>4

(* Every place in them is one of the two.                                  *)
LEMMA JoinedPlaces ==
    ASSUME NEW S, NEW a \in Seq(S), NEW b \in Seq(S), NEW j \in 1 .. Len(a \o b)
    PROVE  \/ j \in 1 .. Len(a) /\ (a \o b)[j] = a[j]
           \/ j - Len(a) \in 1 .. Len(b) /\ (a \o b)[j] = b[j - Len(a)]
<1>1. /\ Len(a \o b) = Len(a) + Len(b) /\ Len(a) \in Nat /\ Len(b) \in Nat
  BY Joined
<1>2. CASE j <= Len(a)
  <2>1. j \in 1 .. Len(a)
    BY <1>1, <1>2
  <2> QED BY <2>1, Joined
<1>3. CASE ~(j <= Len(a))
  <2> DEFINE k == j - Len(a)
  <2>1. k \in 1 .. Len(b) /\ Len(a) + k = j
    BY <1>1, <1>3
  <2> HIDE DEF k
  <2>2. (a \o b)[Len(a) + k] = b[k]
    BY <2>1, Joined
  <2>3. (a \o b)[j] = b[k]
    BY <2>1, <2>2
  <2> QED BY <2>1, <2>3 DEF k
<1> QED BY <1>2, <1>3

(* The elements of sequences that are put together.                        *)
LEMMA JoinedElems ==
    ASSUME NEW S, NEW a \in Seq(S), NEW b \in Seq(S)
    PROVE  /\ Elems(a \o b) = Elems(a) \cup Elems(b)
           /\ Distinct(a \o b) <=> Distinct(a) /\ Distinct(b) /\ Elems(a) \cap Elems(b) = {}
<1>1. Elems(a \o b) \subseteq Elems(a) \cup Elems(b)
  BY JoinedPlaces DEF Elems
<1>2. Elems(a) \cup Elems(b) \subseteq Elems(a \o b)
  BY Joined DEF Elems
<1>3. ASSUME Distinct(a \o b) PROVE Distinct(a) /\ Distinct(b) /\ Elems(a) \cap Elems(b) = {}
  <2>1. Distinct(a)
    BY <1>3, Joined DEF Distinct
  <2>2. Distinct(b)
    <3> SUFFICES ASSUME NEW j \in 1 .. Len(b), NEW k \in 1 .. Len(b), b[j] = b[k] PROVE j = k
      BY DEF Distinct
    <3> DEFINE x == Len(a) + j
               y == Len(a) + k
    <3>1. x \in 1 .. Len(a \o b) /\ y \in 1 .. Len(a \o b) /\ (a \o b)[x] = (a \o b)[y]
      BY Joined
    <3> HIDE DEF x, y
    <3>2. x = y
      BY <1>3, <3>1 DEF Distinct
    <3>3. Len(a) \in Nat
      BY Joined
    <3> QED BY <3>2, <3>3 DEF x, y
  <2>3. ASSUME NEW j \in 1 .. Len(a), NEW k \in 1 .. Len(b), a[j] = b[k] PROVE FALSE
    <3> DEFINE y == Len(a) + k
    <3>1. /\ j \in 1 .. Len(a \o b) /\ y \in 1 .. Len(a \o b)
          /\ (a \o b)[j] = a[j] /\ (a \o b)[y] = b[k]
      BY Joined
    <3> HIDE DEF y
    <3>2. j = y
      BY <1>3, <2>3, <3>1 DEF Distinct
    <3>3. Len(a) \in Nat
      BY Joined
    <3> QED BY <3>2, <3>3 DEF y
  <2> QED BY <2>1, <2>2, <2>3 DEF Elems
<1>4. ASSUME Distinct(a), Distinct(b), Elems(a) \cap Elems(b) = {} PROVE Distinct(a \o b)
  <2> SUFFICES ASSUME NEW j \in 1 .. Len(a \o b), NEW k \in 1 .. Len(a \o b),
                      (a \o b)[j] = (a \o b)[k]
               PROVE  j = k
    BY DEF Distinct
  <2>1. Len(a) \in Nat
    BY Joined
  <2>2. CASE j \in 1 .. Len(a) /\ (a \o b)[j] = a[j]
    <3>1. k \in 1 .. Len(a) /\ (a \o b)[k] = a[k]
      <4>1. ASSUME k - Len(a) \in 1 .. Len(b), (a \o b)[k] = b[k - Len(a)] PROVE FALSE
        <5>1. a[j] \in Elems(a) /\ b[k - Len(a)] \in Elems(b)
          BY <2>2, <4>1 DEF Elems
        <5> QED BY <1>4, <2>2, <4>1, <5>1
      <4> QED BY <4>1, JoinedPlaces
    <3> QED BY <1>4, <2>2, <3>1 DEF Distinct
  <2>3. CASE j - Len(a) \in 1 .. Len(b) /\ (a \o b)[j] = b[j - Len(a)]
    <3>1. k - Len(a) \in 1 .. Len(b) /\ (a \o b)[k] = b[k - Len(a)]
      <4>1. ASSUME k \in 1 .. Len(a), (a \o b)[k] = a[k] PROVE FALSE
        <5>1. a[k] \in Elems(a) /\ b[j - Len(a)] \in Elems(b)
          BY <2>3, <4>1 DEF Elems
        <5> QED BY <1>4, <2>3, <4>1, <5>1
      <4> QED BY <4>1, JoinedPlaces
    <3>2. j - Len(a) = k - Len(a)
      BY <1>4, <2>3, <3>1 DEF Distinct
    <3> QED BY <2>1, <3>2
  <2> QED BY <2>2, <2>3, JoinedPlaces
<1> QED BY <1>1, <1>2, <1>3, <1>4

(* The ends of a sequence.                                                 *)
LEMMA Ends ==
    ASSUME NEW S, NEW a \in Seq(S), a # <<>>
    PROVE  /\ Len(a) \in Nat \ {0} /\ 1 \in 1 .. Len(a) /\ Len(a) \in 1 .. Len(a)
           /\ a[1] \in Elems(a) /\ a[Len(a)] \in Elems(a) /\ Elems(a) \subseteq S
           /\ a[1] \in S /\ a[Len(a)] \in S
<1>1. Len(a) \in Nat \ {0} /\ \A j \in 1 .. Len(a) : a[j] \in S
  BY LenProperties, ElementOfSeq, EmptySeq
<1> QED BY <1>1 DEF Elems

(* Their first and last elements.                                          *)
LEMMA JoinedEnds ==
    ASSUME NEW S, NEW a \in Seq(S), NEW b \in Seq(S)
    PROVE  /\ a # <<>> => a \o b # <<>> /\ (a \o b)[1] = a[1]
           /\ b # <<>> => a \o b # <<>> /\ (a \o b)[Len(a \o b)] = b[Len(b)]
<1>1. ASSUME a # <<>> PROVE a \o b # <<>> /\ (a \o b)[1] = a[1]
  BY <1>1, Ends, Joined, EmptySeq
<1>2. ASSUME b # <<>> PROVE a \o b # <<>> /\ (a \o b)[Len(a \o b)] = b[Len(b)]
  BY <1>2, Ends, Joined, EmptySeq
<1> QED BY <1>1, <1>2

(* One node.                                                               *)
LEMMA One ==
    ASSUME NEW S, NEW x \in S
    PROVE  /\ <<x>> \in Seq(S) /\ Len(<<x>>) = 1 /\ <<x>>[1] = x /\ <<x>> # <<>>
           /\ Elems(<<x>>) = {x} /\ Distinct(<<x>>)
           /\ \A m : Seg(m, <<x>>) /\ (IsRing(m, <<x>>) <=> Link(m, x, x))
BY DEF Elems, Distinct, Seg, IsRing

(* Segments that are put together.                                         *)
LEMMA SegJoined ==
    ASSUME NEW m, NEW a \in Seq(List!Nodes), NEW b \in Seq(List!Nodes), a # <<>>, b # <<>>
    PROVE  Seg(m, a \o b) <=> Seg(m, a) /\ Seg(m, b) /\ Link(m, a[Len(a)], b[1])
<1> DEFINE c == a \o b
<1>1. /\ Len(a) \in Nat \ {0} /\ Len(b) \in Nat \ {0} /\ Len(c) = Len(a) + Len(b)
      /\ \A j \in 1 .. Len(a) : c[j] = a[j]
      /\ \A j \in 1 .. Len(b) : c[Len(a) + j] = b[j]
  BY Joined, Ends
<1> HIDE DEF c
<1>2. ASSUME Seg(m, c) PROVE Seg(m, a) /\ Seg(m, b) /\ Link(m, a[Len(a)], b[1])
  <2>1. Seg(m, a)
    <3> SUFFICES ASSUME NEW k \in 1 .. Len(a) - 1 PROVE Link(m, a[k], a[k + 1])
      BY DEF Seg
    <3>1. k \in 1 .. Len(c) - 1 /\ k \in 1 .. Len(a) /\ k + 1 \in 1 .. Len(a)
      BY <1>1
    <3>2. Link(m, c[k], c[k + 1])
      BY <1>2, <3>1 DEF Seg
    <3>3. c[k] = a[k] /\ c[k + 1] = a[k + 1]
      BY <1>1, <3>1
    <3> QED BY <3>2, <3>3
  <2>2. Seg(m, b)
    <3> SUFFICES ASSUME NEW k \in 1 .. Len(b) - 1 PROVE Link(m, b[k], b[k + 1])
      BY DEF Seg
    <3> DEFINE j == Len(a) + k
    <3>1. j \in 1 .. Len(c) - 1 /\ k \in 1 .. Len(b) /\ k + 1 \in 1 .. Len(b) /\ j + 1 = Len(a) + (k + 1)
      BY <1>1
    <3>2. c[j] = b[k] /\ c[Len(a) + (k + 1)] = b[k + 1]
      BY <1>1, <3>1
    <3> HIDE DEF j
    <3>3. Link(m, c[j], c[j + 1])
      BY <1>2, <3>1 DEF Seg
    <3>4. c[j + 1] = b[k + 1]
      BY <3>1, <3>2
    <3> QED BY <3>2, <3>3, <3>4
  <2>3. Link(m, c[Len(a)], c[Len(a) + 1])
    <3>1. Len(a) \in 1 .. Len(c) - 1
      BY <1>1
    <3> QED BY <1>2, <3>1 DEF Seg
  <2>4. c[Len(a)] = a[Len(a)] /\ c[Len(a) + 1] = b[1]
    <3>1. Len(a) \in 1 .. Len(a) /\ 1 \in 1 .. Len(b)
      BY <1>1
    <3> QED BY <1>1, <3>1
  <2> QED BY <2>1, <2>2, <2>3, <2>4
<1>3. ASSUME Seg(m, a), Seg(m, b), Link(m, a[Len(a)], b[1]) PROVE Seg(m, c)
  <2> SUFFICES ASSUME NEW k \in 1 .. Len(c) - 1 PROVE Link(m, c[k], c[k + 1])
    BY DEF Seg
  <2>1. CASE k < Len(a)
    <3>1. k \in 1 .. Len(a) - 1 /\ k \in 1 .. Len(a) /\ k + 1 \in 1 .. Len(a)
      BY <1>1, <2>1
    <3>2. c[k] = a[k] /\ c[k + 1] = a[k + 1]
      BY <1>1, <3>1
    <3> QED BY <1>3, <3>1, <3>2 DEF Seg
  <2>2. CASE k = Len(a)
    <3>1. Len(a) \in 1 .. Len(a) /\ 1 \in 1 .. Len(b)
      BY <1>1
    <3>2. c[k] = a[Len(a)] /\ c[Len(a) + 1] = b[1]
      BY <1>1, <2>2, <3>1
    <3> QED BY <1>3, <2>2, <3>2
  <2>3. CASE k > Len(a)
    <3> DEFINE j == k - Len(a)
    <3>1. /\ j \in 1 .. Len(b) - 1 /\ j \in 1 .. Len(b) /\ j + 1 \in 1 .. Len(b)
          /\ Len(a) + j = k /\ Len(a) + (j + 1) = k + 1
      BY <1>1, <2>3
    <3> HIDE DEF j
    <3>2. c[Len(a) + j] = b[j] /\ c[Len(a) + (j + 1)] = b[j + 1]
      BY <1>1, <3>1
    <3>3. c[k] = b[j] /\ c[k + 1] = b[j + 1]
      BY <3>1, <3>2
    <3> QED BY <1>3, <3>1, <3>3 DEF Seg
  <2> QED BY <1>1, <2>1, <2>2, <2>3
<1> QED BY <1>2, <1>3 DEF c

(* A ring is two segments linked to each other both ways.                  *)
LEMMA RingJoined ==
    ASSUME NEW m, NEW a \in Seq(List!Nodes), NEW b \in Seq(List!Nodes), a # <<>>, b # <<>>
    PROVE  IsRing(m, a \o b) <=> /\ Seg(m, a) /\ Seg(m, b)
                                 /\ Link(m, a[Len(a)], b[1]) /\ Link(m, b[Len(b)], a[1])
BY SegJoined, JoinedEnds DEF IsRing

(* A ring may be begun anywhere.                                           *)
LEMMA Rotated ==
    ASSUME NEW m, NEW a \in Seq(List!Nodes), NEW b \in Seq(List!Nodes), IsRing(m, a \o b)
    PROVE  IsRing(m, b \o a)
<1>1. CASE a = <<>>
  BY <1>1, ConcatEmptySeq
<1>2. CASE b = <<>>
  BY <1>2, ConcatEmptySeq
<1>3. CASE a # <<>> /\ b # <<>>
  BY <1>3, RingJoined
<1> QED BY <1>1, <1>2, <1>3

(* Writes to what links a segment to others do not change it.              *)
LEMMA SegKept ==
    ASSUME NEW m, NEW n, NEW r \in Seq(List!Nodes), Distinct(r), r # <<>>, Seg(m, r),
           Inside(m, n, r)
    PROVE  Seg(n, r)
<1> SUFFICES ASSUME NEW k \in 1 .. Len(r) - 1 PROVE Link(n, r[k], r[k + 1])
  BY DEF Seg
<1>1. /\ k \in 1 .. Len(r) /\ k + 1 \in 1 .. Len(r) /\ Len(r) \in 1 .. Len(r) /\ 1 \in 1 .. Len(r)
      /\ k # Len(r) /\ k + 1 # 1
  BY Ends
<1>2. r[k] # r[Len(r)] /\ r[k + 1] # r[1]
  BY <1>1 DEF Distinct
<1>3. r[k] \in Elems(r) /\ r[k + 1] \in Elems(r)
  BY <1>1 DEF Elems
<1>4. Link(m, r[k], r[k + 1])
  BY DEF Seg
<1> QED BY <1>2, <1>3, <1>4 DEF Link, Inside, Elems

(* A ring none of whose nodes has changed is a ring.                       *)
LEMMA RingKept ==
    ASSUME NEW m, NEW n, NEW r \in Seq(List!Nodes), r # <<>>, IsRing(m, r),
           \A z \in Elems(r) : Same(m, n, z)
    PROVE  IsRing(n, r)
<1>1. r[Len(r)] \in Elems(r) /\ r[1] \in Elems(r)
  BY Ends
<1>2. ASSUME NEW k \in 1 .. Len(r) - 1 PROVE Link(n, r[k], r[k + 1])
  <2>1. k \in 1 .. Len(r) /\ k + 1 \in 1 .. Len(r)
    BY Ends
  <2>2. r[k] \in Elems(r) /\ r[k + 1] \in Elems(r)
    BY <2>1 DEF Elems
  <2>3. Link(m, r[k], r[k + 1])
    BY DEF IsRing, Seg
  <2> QED BY <2>2, <2>3 DEF Same, Link
<1>3. Link(n, r[Len(r)], r[1])
  <2>1. Link(m, r[Len(r)], r[1])
    BY DEF IsRing
  <2> QED BY <1>1, <2>1 DEF Same, Link
<1> QED BY <1>2, <1>3 DEF IsRing, Seg

-----------------------------------------------------------------------------
(* What the assignments of an operation come to.  The second of Set's two  *)
(* fields is the same.                                                     *)
LEMMA SetNext ==
    ASSUME NEW m \in Memory, NEW x \in List!Nodes, NEW y \in Pointers
    PROVE  LET n == List!Set(m, x, "next", y)
           IN  /\ n \in Memory
               /\ \A z \in List!Nodes : n[z].next = (IF z = x THEN y ELSE m[z].next) /\ n[z].prev = m[z].prev
BY DEF List!Set, Memory

(* The same of the other pointer.                                          *)
LEMMA SetPrev ==
    ASSUME NEW m \in Memory, NEW x \in List!Nodes, NEW y \in Pointers
    PROVE  LET n == List!Set(m, x, "prev", y)
           IN  /\ n \in Memory
               /\ \A z \in List!Nodes : n[z].prev = (IF z = x THEN y ELSE m[z].prev) /\ n[z].next = m[z].next
BY DEF List!Set, Memory

(* Nodes may be pointed to.                                                *)
LEMMA NodesPoint == List!Nodes \subseteq Pointers
BY DEF Pointers

(* first to last have come between x and y; x and y are next to each other.*)
Between(m, n, x, y, first, last) == \A z \in List!Nodes :
    /\ n[z].next = IF z = x THEN first ELSE IF z = last THEN y ELSE m[z].next
    /\ n[z].prev = IF z = y THEN last ELSE IF z = first THEN x ELSE m[z].prev
Bridged(m, n, x, y) == \A z \in List!Nodes : /\ n[z].next = IF z = x THEN y ELSE m[z].next
                                             /\ n[z].prev = IF z = y THEN x ELSE m[z].prev

(* Only the next of x, the prev of y and the node c have changed.          *)
Elsewhere(m, n, x, y, c) == \A z \in List!Nodes \ {c} : /\ z # x => n[z].next = m[z].next
                                                        /\ z # y => n[z].prev = m[z].prev

(* __list_add: the entry has come between the two.                         *)
LEMMA MemInsert ==
    ASSUME NEW m \in Memory, NEW e \in List!Nodes, NEW x \in List!Nodes, NEW y \in List!Nodes, e # x, e # y
    PROVE  LET n == List!insert(m, e, x, y)
           IN  n \in Memory /\ Between(m, n, x, y, e, e)
<1> DEFINE m1 == List!Set(m, y, "prev", e)
           m2 == List!Set(m1, e, "next", y)
           m3 == List!Set(m2, e, "prev", x)
           m4 == List!Set(m3, x, "next", e)
<1>1. m1 \in Memory
      /\ \A z \in List!Nodes : m1[z].prev = (IF z = y THEN e ELSE m[z].prev) /\ m1[z].next = m[z].next
  BY NodesPoint, SetPrev
<1> HIDE DEF m1
<1>2. m2 \in Memory
      /\ \A z \in List!Nodes : m2[z].next = (IF z = e THEN y ELSE m1[z].next) /\ m2[z].prev = m1[z].prev
  BY <1>1, NodesPoint, SetNext
<1> HIDE DEF m2
<1>3. m3 \in Memory
      /\ \A z \in List!Nodes : m3[z].prev = (IF z = e THEN x ELSE m2[z].prev) /\ m3[z].next = m2[z].next
  BY <1>2, NodesPoint, SetPrev
<1> HIDE DEF m3
<1>4. m4 \in Memory
      /\ \A z \in List!Nodes : m4[z].next = (IF z = x THEN e ELSE m3[z].next) /\ m4[z].prev = m3[z].prev
  BY <1>3, NodesPoint, SetNext
<1>5. List!insert(m, e, x, y) = m4
  BY DEF List!insert, m1, m2, m3, m4
<1> HIDE DEF m4
<1> QED BY <1>1, <1>2, <1>3, <1>4, <1>5 DEF Between

(* __list_del: the two next to the entry are next to each other.           *)
LEMMA MemUnlink ==
    ASSUME NEW m \in Memory, NEW e \in List!Nodes, NEW x \in List!Nodes, NEW y \in List!Nodes,
           m[e].prev = x, m[e].next = y
    PROVE  LET n == List!unlink(m, e)
           IN  n \in Memory /\ Bridged(m, n, x, y)
<1> DEFINE m1 == List!Set(m, y, "prev", x)
           m2 == List!Set(m1, x, "next", y)
<1>1. m1 \in Memory
      /\ \A z \in List!Nodes : m1[z].prev = (IF z = y THEN x ELSE m[z].prev) /\ m1[z].next = m[z].next
  BY NodesPoint, SetPrev
<1>2. List!unlink(m, e) = m2
  BY DEF List!unlink
<1> HIDE DEF m1
<1>3. m2 \in Memory
      /\ \A z \in List!Nodes : m2[z].next = (IF z = x THEN y ELSE m1[z].next) /\ m2[z].prev = m1[z].prev
  BY <1>1, NodesPoint, SetNext
<1> HIDE DEF m2
<1> QED BY <1>1, <1>2, <1>3 DEF Bridged

(* INIT_LIST_HEAD: the node is alone.                                      *)
LEMMA MemInit ==
    ASSUME NEW m \in Memory, NEW h \in List!Nodes
    PROVE  LET n == List!INIT_LIST_HEAD(m, h)
           IN  /\ n \in Memory /\ Link(n, h, h)
               /\ \A z \in List!Nodes \ {h} : Same(m, n, z)
<1> DEFINE m1 == List!Set(m, h, "next", h)
           m2 == List!Set(m1, h, "prev", h)
<1>1. m1 \in Memory
      /\ \A z \in List!Nodes : m1[z].next = (IF z = h THEN h ELSE m[z].next) /\ m1[z].prev = m[z].prev
  BY NodesPoint, SetNext
<1> HIDE DEF m1
<1>2. m2 \in Memory
      /\ \A z \in List!Nodes : m2[z].prev = (IF z = h THEN h ELSE m1[z].prev) /\ m2[z].next = m1[z].next
  BY <1>1, NodesPoint, SetPrev
<1>3. List!INIT_LIST_HEAD(m, h) = m2
  BY DEF List!INIT_LIST_HEAD, m1, m2
<1> HIDE DEF m2
<1> QED BY <1>1, <1>2, <1>3 DEF Link, Same

(* A node is alone on its ring, or between x and y.                        *)
LEMMA MemReplace ==
    ASSUME NEW m \in Memory, NEW old \in List!Nodes, NEW new \in List!Nodes, old # new,
           NEW x \in List!Nodes, NEW y \in List!Nodes, m[old].prev = x, m[old].next = y,
           x # new, y # new, x = old <=> y = old
    PROVE  LET n == List!list_replace(m, old, new)
           IN  /\ n \in Memory
               /\ x = old => Link(n, new, new) /\ \A z \in List!Nodes \ {old, new} : Same(m, n, z)
               /\ x # old =>
                     /\ Link(n, x, new) /\ Link(n, new, y)
                     /\ Elsewhere(m, n, x, y, new)
<1> DEFINE m1 == List!Set(m, new, "next", y)
           m2 == List!Set(m1, y, "prev", new)
<1>1. m1 \in Memory
      /\ \A z \in List!Nodes : m1[z].next = (IF z = new THEN y ELSE m[z].next) /\ m1[z].prev = m[z].prev
  BY NodesPoint, SetNext
<1>2. List!list_replace(m, old, new)
          = LET p2 == List!SetNextPrev(m1, new, new)
                p3 == List!Set(p2, new, "prev", p2[old].prev)
            IN List!SetPrevNext(p3, new, new)
  BY DEF List!list_replace
<1> HIDE DEF m1
<1>3. m2 \in Memory
      /\ \A z \in List!Nodes : m2[z].prev = (IF z = y THEN new ELSE m1[z].prev) /\ m2[z].next = m1[z].next
  BY <1>1, NodesPoint, SetPrev
<1>4. List!SetNextPrev(m1, new, new) = m2
  BY <1>1 DEF List!SetNextPrev
<1> HIDE DEF m2
<1>5. PICK w \in List!Nodes : w = m2[old].prev /\ w = IF old = y THEN new ELSE x
  BY <1>1, <1>3
<1> DEFINE m3 == List!Set(m2, new, "prev", w)
           m4 == List!Set(m3, w, "next", new)
<1>6. m3 \in Memory
      /\ \A z \in List!Nodes : m3[z].prev = (IF z = new THEN w ELSE m2[z].prev) /\ m3[z].next = m2[z].next
  <2>1. m2 \in Memory /\ w \in Pointers
    BY <1>3, <1>5, NodesPoint
  <2> QED BY <2>1, SetPrev
<1>7. List!list_replace(m, old, new) = List!SetPrevNext(m3, new, new)
  BY <1>2, <1>4, <1>5 DEF m3
<1> HIDE DEF m3
<1>8. m4 \in Memory
      /\ \A z \in List!Nodes : m4[z].next = (IF z = w THEN new ELSE m3[z].next) /\ m4[z].prev = m3[z].prev
  <2>1. m3 \in Memory /\ w \in List!Nodes /\ new \in Pointers
    BY <1>5, <1>6, NodesPoint
  <2> QED BY <2>1, SetNext
<1>9. List!SetPrevNext(m3, new, new) = m4
  BY <1>6 DEF List!SetPrevNext
<1> HIDE DEF m4
<1>10. List!list_replace(m, old, new) = m4
  BY <1>7, <1>9
<1>11. CASE x = old
  <2>1. w = new /\ y = old
    BY <1>5, <1>11
  <2>2. Link(m4, new, new)
    BY <1>6, <1>8, <2>1 DEF Link
  <2>3. ASSUME NEW z \in List!Nodes \ {old, new} PROVE Same(m, m4, z)
    BY <1>1, <1>3, <1>6, <1>8, <2>1 DEF Same
  <2> QED BY <1>8, <1>10, <1>11, <2>2, <2>3
<1>12. CASE x # old
  <2>1. w = x /\ y # old
    BY <1>5, <1>12
  <2>2. Link(m4, x, new)
    BY <1>6, <1>8, <2>1 DEF Link
  <2>3. Link(m4, new, y)
    BY <1>1, <1>3, <1>6, <1>8, <2>1 DEF Link
  <2>4. Elsewhere(m, m4, x, y, new)
    BY <1>1, <1>3, <1>6, <1>8, <2>1 DEF Elsewhere
  <2> QED BY <1>8, <1>10, <1>12, <2>2, <2>3, <2>4
<1> QED BY <1>11, <1>12

(* __list_splice: the nodes first to last have come between the two.       *)
LEMMA MemJoined ==
    ASSUME NEW m \in Memory, NEW l \in List!Nodes, NEW x \in List!Nodes, NEW y \in List!Nodes,
           NEW first \in List!Nodes, NEW last \in List!Nodes, m[l].next = first, m[l].prev = last,
           first # y, last # x
    PROVE  LET n == List!joined(m, l, x, y)
           IN  n \in Memory /\ Between(m, n, x, y, first, last)
<1> DEFINE m1 == List!Set(m, first, "prev", x)
           m2 == List!Set(m1, x, "next", first)
           m3 == List!Set(m2, last, "next", y)
           m4 == List!Set(m3, y, "prev", last)
<1>1. m1 \in Memory
      /\ \A z \in List!Nodes : m1[z].prev = (IF z = first THEN x ELSE m[z].prev) /\ m1[z].next = m[z].next
  BY NodesPoint, SetPrev
<1> HIDE DEF m1
<1>2. m2 \in Memory
      /\ \A z \in List!Nodes : m2[z].next = (IF z = x THEN first ELSE m1[z].next) /\ m2[z].prev = m1[z].prev
  BY <1>1, NodesPoint, SetNext
<1> HIDE DEF m2
<1>3. m3 \in Memory
      /\ \A z \in List!Nodes : m3[z].next = (IF z = last THEN y ELSE m2[z].next) /\ m3[z].prev = m2[z].prev
  BY <1>2, NodesPoint, SetNext
<1> HIDE DEF m3
<1>4. m4 \in Memory
      /\ \A z \in List!Nodes : m4[z].prev = (IF z = y THEN last ELSE m3[z].prev) /\ m4[z].next = m3[z].next
  BY <1>3, NodesPoint, SetPrev
<1>5. List!joined(m, l, x, y) = m4
  BY DEF List!joined, m1, m2, m3, m4
<1> HIDE DEF m4
<1> QED BY <1>1, <1>2, <1>3, <1>4, <1>5 DEF Between

(* A segment b is put in at the end of a ring r.                           *)
LEMMA RingWithSegment ==
    ASSUME NEW m, NEW n, NEW r \in Seq(List!Nodes), NEW b \in Seq(List!Nodes), r # <<>>, b # <<>>,
           Distinct(r \o b), IsRing(m, r), Seg(m, b),
           \A z \in Elems(r \o b) :
               /\ n[z].next = IF z = r[Len(r)] THEN b[1] ELSE IF z = b[Len(b)] THEN r[1] ELSE m[z].next
               /\ n[z].prev = IF z = r[1] THEN b[Len(b)] ELSE IF z = b[1] THEN r[Len(r)] ELSE m[z].prev
    PROVE  IsRing(n, r \o b)
<1>1. /\ Elems(r \o b) = Elems(r) \cup Elems(b) /\ Elems(r) \cap Elems(b) = {}
      /\ Distinct(r) /\ Distinct(b)
  BY JoinedElems
<1>2. r[1] \in Elems(r) /\ r[Len(r)] \in Elems(r) /\ b[1] \in Elems(b) /\ b[Len(b)] \in Elems(b)
  BY Ends
<1>3. Inside(m, n, r)
  BY <1>1, <1>2 DEF Inside, Elems
<1>4. Seg(n, r)
  BY <1>1, <1>3, SegKept DEF IsRing
<1>5. Inside(m, n, b)
  BY <1>1, <1>2 DEF Inside, Elems
<1>6. Seg(n, b)
  BY <1>1, <1>5, SegKept
<1>7. Link(n, r[Len(r)], b[1]) /\ Link(n, b[Len(b)], r[1])
  BY <1>1, <1>2 DEF Link
<1> QED BY <1>4, <1>6, <1>7, RingJoined

(* A segment b is taken off a ring; its own ends may point elsewhere.      *)
LEMMA RingWithoutSegment ==
    ASSUME NEW m, NEW n, NEW r \in Seq(List!Nodes), NEW b \in Seq(List!Nodes), r # <<>>, b # <<>>,
           Distinct(r \o b), IsRing(m, r \o b), Link(n, r[Len(r)], r[1]),
           Inside(m, n, r),
           Inside(m, n, b)
    PROVE  IsRing(n, r) /\ Seg(n, b)
<1>1. Distinct(r) /\ Distinct(b)
  BY JoinedElems
<1>2. Seg(m, r) /\ Seg(m, b)
  BY RingJoined
<1>3. Seg(n, r)
  BY <1>1, <1>2, SegKept
<1>4. Seg(n, b)
  BY <1>1, <1>2, SegKept
<1> QED BY <1>3, <1>4 DEF IsRing

(* A node is replaced by another one.                                      *)
LEMMA RingReplaced ==
    ASSUME NEW m, NEW n, NEW r \in Seq(List!Nodes), r # <<>>, NEW old \in List!Nodes, NEW new \in List!Nodes,
           Distinct(r), IsRing(m, <<old>> \o r), Link(n, r[Len(r)], new), Link(n, new, r[1]),
           Inside(m, n, r)
    PROVE  IsRing(n, <<new>> \o r)
<1>1. Seg(m, r)
  BY One, RingJoined
<1>2. Seg(n, r)
  BY <1>1, SegKept
<1>3. Seg(n, <<new>>) /\ <<new>> \in Seq(List!Nodes) /\ <<new>> # <<>> /\ <<new>>[1] = new /\ Len(<<new>>) = 1
  BY One
<1> QED BY <1>2, <1>3, RingJoined

(* The nodes next to those of a ring are on it.                            *)
LEMMA RingPointers ==
    ASSUME NEW m, NEW r \in Seq(List!Nodes), IsRing(m, r), NEW z \in Elems(r)
    PROVE  m[z].next \in Elems(r) /\ m[z].prev \in Elems(r)
<1>1. PICK k \in 1 .. Len(r) : r[k] = z
  BY DEF Elems
<1>2. Len(r) \in Nat
  BY LenProperties
<1>3. m[r[k]].next \in Elems(r)
  <2>1. CASE k = Len(r)
    <3>1. 1 \in 1 .. Len(r)
      BY <1>2
    <3> QED BY <2>1, <3>1 DEF IsRing, Link, Elems
  <2>2. CASE k # Len(r)
    <3>1. k \in 1 .. Len(r) - 1 /\ k + 1 \in 1 .. Len(r)
      BY <1>2, <2>2
    <3> QED BY <3>1 DEF IsRing, Seg, Link, Elems
  <2> QED BY <2>1, <2>2
<1>4. m[r[k]].prev \in Elems(r)
  <2>1. CASE k = 1
    <3>1. Len(r) \in 1 .. Len(r)
      BY <1>2, <2>1
    <3> QED BY <2>1, <3>1 DEF IsRing, Link, Elems
  <2>2. CASE k # 1
    <3> DEFINE j == k - 1
    <3>1. j \in 1 .. Len(r) - 1 /\ j \in 1 .. Len(r) /\ j + 1 = k
      BY <1>2, <2>2
    <3> HIDE DEF j
    <3>2. m[r[j + 1]].prev = r[j]
      BY <3>1 DEF IsRing, Seg, Link
    <3> QED BY <3>1, <3>2 DEF Elems
  <2> QED BY <2>1, <2>2
<1> QED BY <1>1, <1>3, <1>4

-----------------------------------------------------------------------------
(* What is seen.                                                           *)

(* A head and its list are a ring.                                         *)
Ring(h, s) == <<h>> \o s

(* What a list and its ring are, place by place.                           *)
LEMMA RingTyped ==
    ASSUME NEW h \in Heads, NEW s \in Seq(Entries)
    PROVE  /\ s \in Seq(List!Nodes) /\ Len(s) \in Nat /\ \A k \in 1 .. Len(s) : s[k] \in Entries
           /\ Ring(h, s) \in Seq(List!Nodes) /\ Ring(h, s) # <<>> /\ Len(Ring(h, s)) = Len(s) + 1
           /\ Ring(h, s)[1] = h /\ \A k \in 1 .. Len(s) : Ring(h, s)[k + 1] = s[k]
           /\ s \o <<h>> \in Seq(List!Nodes) /\ Len(s \o <<h>>) = Len(s) + 1
           /\ (s \o <<h>>)[Len(s) + 1] = h /\ \A k \in 1 .. Len(s) : (s \o <<h>>)[k] = s[k]
<1>1. Entries \subseteq List!Nodes /\ h \in List!Nodes
  BY DEF List!Nodes
<1>2. s \in Seq(List!Nodes)
  BY <1>1, SeqMonotonic
<1>3. <<h>> \in Seq(List!Nodes) /\ Len(<<h>>) = 1 /\ <<h>>[1] = h
  BY <1>1
<1>4. \A k \in 1 .. Len(s) : s[k] \in Entries
  BY ElementOfSeq
<1>5. Ring(h, s) \in Seq(List!Nodes) /\ Len(Ring(h, s)) = 1 + Len(s) /\ Len(s) \in Nat
  BY <1>2, <1>3, Joined DEF Ring
<1>6. s \o <<h>> \in Seq(List!Nodes) /\ Len(s \o <<h>>) = Len(s) + 1
  BY <1>2, <1>3, Joined
<1>7. Ring(h, s)[1] = h /\ (s \o <<h>>)[Len(s) + 1] = h
  BY <1>2, <1>3, Joined DEF Ring
<1>8. \A k \in 1 .. Len(s) : (s \o <<h>>)[k] = s[k]
  BY <1>2, <1>3, Joined
<1>9. ASSUME NEW k \in 1 .. Len(s) PROVE Ring(h, s)[k + 1] = s[k]
  <2>1. Ring(h, s)[Len(<<h>>) + k] = s[k]
    BY <1>2, <1>3, Joined DEF Ring
  <2>2. Len(<<h>>) + k = k + 1
    BY <1>3
  <2> QED BY <2>1, <2>2
<1>10. Ring(h, s) # <<>>
  BY <1>5, EmptySeq
<1> QED BY <1>2, <1>4, <1>5, <1>6, <1>7, <1>8, <1>9, <1>10

(* The nodes of a ring.                                                    *)
LEMMA RingElems ==
    ASSUME NEW h \in Heads, NEW s \in Seq(Entries), Heads \cap Entries = {}
    PROVE  /\ Elems(Ring(h, s)) = {h} \cup Elems(s) /\ Elems(s) \subseteq Entries
           /\ Distinct(Ring(h, s)) <=> Distinct(s)
<1>1. h \in List!Nodes /\ s \in Seq(List!Nodes)
  BY RingTyped DEF List!Nodes
<1>2. <<h>> \in Seq(List!Nodes) /\ Elems(<<h>>) = {h} /\ Distinct(<<h>>)
  BY <1>1, One
<1>3. Elems(s) \subseteq Entries
  BY RingTyped DEF Elems
<1>4. Elems(<<h>>) \cap Elems(s) = {}
  BY <1>2, <1>3
<1>5. /\ Elems(<<h>> \o s) = Elems(<<h>>) \cup Elems(s)
      /\ Distinct(<<h>> \o s) <=> Distinct(<<h>>) /\ Distinct(s) /\ Elems(<<h>>) \cap Elems(s) = {}
  BY <1>1, <1>2, JoinedElems
<1> QED BY <1>2, <1>3, <1>4, <1>5 DEF Ring

(* IsList is the ring, walked from the head.                               *)
LEMMA IsListIsRing ==
    ASSUME NEW m, NEW h \in Heads, NEW s \in Seq(Entries)
    PROVE  List!IsList(m, h, s) <=> IsRing(m, Ring(h, s))
<1> DEFINE r == Ring(h, s)
           t == s \o <<h>>
<1>1. /\ Len(s) \in Nat /\ Len(r) = Len(s) + 1 /\ r[1] = h
      /\ \A k \in 1 .. Len(s) : r[k + 1] = s[k] /\ t[k] = s[k]
      /\ t[Len(s) + 1] = h
  BY RingTyped
<1>2. List!IsList(m, h, s) <=> \A k \in 0 .. Len(s) : Link(m, r[k + 1], t[k + 1])
  BY DEF List!IsList, Link, Ring
<1> HIDE DEF r, t
<1>3. ASSUME \A k \in 0 .. Len(s) : Link(m, r[k + 1], t[k + 1]) PROVE IsRing(m, r)
  <2>1. ASSUME NEW k \in 1 .. Len(r) - 1 PROVE Link(m, r[k], r[k + 1])
    <3> DEFINE j == k - 1
    <3>1. j \in 0 .. Len(s) /\ j + 1 = k /\ k \in 1 .. Len(s)
      BY <1>1
    <3>2. Link(m, r[j + 1], t[j + 1])
      BY <1>3, <3>1
    <3> QED BY <1>1, <3>1, <3>2
  <2>2. Link(m, r[Len(r)], r[1])
    <3>1. Len(s) \in 0 .. Len(s)
      BY <1>1
    <3> QED BY <1>1, <1>3, <3>1
  <2> QED BY <2>1, <2>2 DEF IsRing, Seg
<1>4. ASSUME IsRing(m, r), NEW k \in 0 .. Len(s) PROVE Link(m, r[k + 1], t[k + 1])
  <2>1. CASE k = Len(s)
    BY <1>1, <1>4, <2>1 DEF IsRing
  <2>2. CASE k # Len(s)
    <3> DEFINE j == k + 1
    <3>1. j \in 1 .. Len(r) - 1 /\ j \in 1 .. Len(s)
      BY <1>1, <2>2
    <3> HIDE DEF j
    <3>2. Link(m, r[j], r[j + 1]) /\ r[j + 1] = t[j]
      BY <1>1, <1>4, <3>1 DEF IsRing, Seg
    <3> QED BY <3>2 DEF j
  <2> QED BY <2>1, <2>2
<1> QED BY <1>2, <1>3, <1>4 DEF r

(* A set of numbers has a least one.                                       *)
LEMMA Least ==
    ASSUME NEW T \in SUBSET Nat, T # {}
    PROVE  \E d \in T : \A e \in T : d <= e
<1>1. PICK d \in T : \A e \in T : ~(<<e, d>> \in OpToRel(<, Nat))
  BY NatLessThanWellFounded, WFMin
<1>2. ASSUME NEW e \in T PROVE d <= e
  <2>1. <<e, d>> \in Nat \X Nat /\ d \in Nat /\ e \in Nat
    OBVIOUS
  <2>2. ~(e < d)
    BY <1>1, <2>1 DEF OpToRel
  <2> QED BY <2>1, <2>2
<1> QED BY <1>2

(* No list is the beginning of another.                                    *)
LEMMA RingPrefix ==
    ASSUME NEW m, NEW h \in Heads, NEW s \in Seq(Entries), NEW t \in Seq(Entries),
           Heads \cap Entries = {}, IsRing(m, Ring(h, s)), IsRing(m, Ring(h, t)), Len(s) <= Len(t)
    PROVE  s = t
<1> DEFINE a == Ring(h, s)
           b == Ring(h, t)
           T == {k \in 1 .. Len(s) + 1 : a[k] # b[k]}
<1>1. /\ Len(s) \in Nat /\ Len(a) = Len(s) + 1 /\ a[1] = h
      /\ \A k \in 1 .. Len(s) : a[k + 1] = s[k]
  BY RingTyped
<1>2. /\ Len(t) \in Nat /\ Len(b) = Len(t) + 1 /\ b[1] = h
      /\ \A k \in 1 .. Len(t) : b[k + 1] = t[k] /\ t[k] \in Entries
  BY RingTyped
<1> HIDE DEF a, b
<1>3. T = {}
  <2>1. SUFFICES ASSUME T # {} PROVE FALSE
    OBVIOUS
  <2>2. T \in SUBSET Nat
    BY <1>1
  <2> HIDE DEF T
  <2>3. PICK d \in T : \A e \in T : d <= e
    BY <2>1, <2>2, Least
  <2>4. d \in 1 .. Len(s) + 1 /\ a[d] # b[d]
    BY DEF T
  <2> DEFINE c == d - 1
  <2>5. d # 1
    BY <1>1, <1>2, <2>4
  <2>6. c \in 1 .. Len(a) - 1 /\ c \in 1 .. Len(b) - 1 /\ c + 1 = d /\ c \in 1 .. Len(s) + 1 /\ ~(d <= c)
    BY <1>1, <1>2, <2>4, <2>5
  <2> HIDE DEF c
  <2>7. a[c] = b[c]
    <3>1. c \notin T
      BY <2>3, <2>6
    <3> QED BY <2>6, <3>1 DEF T
  <2>8. Link(m, a[c], a[c + 1]) /\ Link(m, b[c], b[c + 1])
    BY <2>6 DEF IsRing, Seg, a, b
  <2> QED BY <2>4, <2>6, <2>7, <2>8 DEF Link
<1>4. \A k \in 1 .. Len(s) + 1 : a[k] = b[k]
  BY <1>3
<1>5. Len(s) = Len(t)
  <2>1. SUFFICES ASSUME Len(s) # Len(t) PROVE FALSE
    OBVIOUS
  <2> DEFINE c == Len(s) + 1
  <2>2. c \in 1 .. Len(t) /\ c \in 1 .. Len(b) - 1 /\ c = Len(a) /\ c \in 1 .. Len(s) + 1
    BY <1>1, <1>2, <2>1
  <2> HIDE DEF c
  <2>3. m[a[c]].next = h
    <3>1. Link(m, a[Len(a)], a[1])
      BY DEF IsRing, a
    <3> QED BY <1>1, <2>2, <3>1 DEF Link
  <2>4. m[b[c]].next = b[c + 1]
    <3>1. Link(m, b[c], b[c + 1])
      BY <2>2 DEF IsRing, Seg, b
    <3> QED BY <3>1 DEF Link
  <2>5. b[c + 1] \in Entries
    BY <1>2, <2>2
  <2>6. a[c] = b[c]
    BY <1>4, <2>2
  <2> QED BY <2>3, <2>4, <2>5, <2>6
<1>6. \A k \in 1 .. Len(s) : s[k] = t[k]
  <2> SUFFICES ASSUME NEW k \in 1 .. Len(s) PROVE s[k] = t[k]
    OBVIOUS
  <2>1. k \in 1 .. Len(t) /\ k + 1 \in 1 .. Len(s) + 1
    BY <1>1, <1>5
  <2> QED BY <1>1, <1>2, <1>4, <2>1
<1> QED BY <1>5, <1>6, SeqEqual

(* A head begins one ring only.                                            *)
LEMMA RingIsUnique ==
    ASSUME NEW m, NEW h \in Heads, NEW s \in Seq(Entries), NEW t \in Seq(Entries),
           Heads \cap Entries = {}, IsRing(m, Ring(h, s)), IsRing(m, Ring(h, t))
    PROVE  s = t
<1>1. Len(s) \in Nat /\ Len(t) \in Nat
  BY LenProperties
<1>2. CASE Len(s) <= Len(t)
  BY <1>2, RingPrefix
<1>3. CASE Len(t) <= Len(s)
  BY <1>3, RingPrefix
<1> QED BY <1>1, <1>2, <1>3

(* FiniteSets, in KernelList and here, is the same.                        *)
LEMMA EntriesCounted ==
    ASSUME List!KernelListAssumption
    PROVE  /\ IsFiniteSet(Entries) /\ Cardinality(Entries) \in Nat
           /\ List!Cardinality(Entries) = Cardinality(Entries)
<1>1. List!IsFiniteSet(Entries) <=> IsFiniteSet(Entries)
  BY DEF List!IsFiniteSet, IsFiniteSet
<1>2. IsFiniteSet(Entries)
  BY <1>1 DEF List!KernelListAssumption
<1>3. List!Cardinality(Entries) = Cardinality(Entries)
  BY DEF List!Cardinality, Cardinality
<1> QED BY <1>2, <1>3, FS_CardinalityType

(* Every list whose entries differ is an arrangement.                      *)
LEMMA ArrangementsAre ==
    ASSUME List!KernelListAssumption, NEW s
    PROVE  s \in List!Arrangements <=> s \in Seq(Entries) /\ Distinct(s)
<1>1. ASSUME s \in List!Arrangements PROVE s \in Seq(Entries) /\ Distinct(s)
  <2>1. PICK k \in 0 .. Cardinality(Entries) :
            /\ s \in [1 .. k -> Entries] /\ \A i, j \in 1 .. k : s[i] = s[j] => i = j
    BY <1>1, EntriesCounted DEF List!Arrangements
  <2>2. k \in Nat
    BY EntriesCounted
  <2>3. s \in Seq(Entries)
    BY <2>1, <2>2, SeqDef
  <2>4. Len(s) = k
    <3>1. DOMAIN s = 1 .. k /\ DOMAIN s = 1 .. Len(s) /\ Len(s) \in Nat
      BY <2>1, <2>3, LenProperties
    <3> QED BY <2>2, <3>1
  <2> QED BY <2>1, <2>3, <2>4 DEF Distinct
<1>2. ASSUME s \in Seq(Entries), Distinct(s) PROVE s \in List!Arrangements
  <2> DEFINE c == Len(s)
  <2>1. c \in Nat /\ s \in [1 .. c -> Entries] /\ \A i, j \in 1 .. c : s[i] = s[j] => i = j
    BY <1>2, LenProperties DEF Distinct
  <2> HIDE DEF c
  <2>2. s \in Injection(1 .. c, Entries)
    BY <2>1 DEF Injection, IsInjective
  <2>3. IsFiniteSet(Entries) /\ Cardinality(Entries) \in Nat
    BY EntriesCounted
  <2>4. Cardinality(1 .. c) <= Cardinality(Entries)
    BY <2>2, <2>3, FS_Injection
  <2>5. Cardinality(1 .. c) = c
    BY <2>1, FS_Interval
  <2>6. c \in 0 .. Cardinality(Entries)
    BY <2>1, <2>3, <2>4, <2>5
  <2> QED BY <2>1, <2>6, EntriesCounted DEF List!Arrangements
<1> QED BY <1>1, <1>2

(* What is seen of a list is the one its ring is.                          *)
LEMMA SeenIs ==
    ASSUME List!KernelListAssumption, NEW m, NEW h \in Heads, NEW s \in Seq(Entries),
           Distinct(s), IsRing(m, Ring(h, s))
    PROVE  List!Seen(m, h) = s
<1>1. s \in List!Arrangements /\ List!IsList(m, h, s)
  BY ArrangementsAre, IsListIsRing
<1>2. ASSUME NEW t \in List!Arrangements, List!IsList(m, h, t) PROVE t = s
  <2>1. t \in Seq(Entries)
    BY ArrangementsAre
  <2> QED BY <1>2, <2>1, IsListIsRing, RingIsUnique DEF List!KernelListAssumption
<1> QED BY <1>1, <1>2 DEF List!Seen

(* Sequences that are taken apart.                                         *)
Upto(s, k) == SubSeq(s, 1, k)
Onward(s, k) == SubSeq(s, k + 1, Len(s))

(* The two parts make up the sequence.                                     *)
LEMMA TakenApart ==
    ASSUME NEW S, NEW s \in Seq(S), NEW k \in 0 .. Len(s)
    PROVE  /\ Upto(s, k) \in Seq(S) /\ Onward(s, k) \in Seq(S) /\ Upto(s, k) \o Onward(s, k) = s
           /\ Len(Upto(s, k)) = k /\ Len(Onward(s, k)) = Len(s) - k
           /\ \A j \in 1 .. k : Upto(s, k)[j] = s[j]
           /\ \A j \in 1 .. Len(s) - k : Onward(s, k)[j] = s[k + j]
<1>1. Len(s) \in Nat /\ \A j \in 1 .. Len(s) : s[j] \in S
  BY LenProperties, ElementOfSeq
<1>2. k \in Nat /\ k \in Int /\ k + 1 \in Int /\ Len(s) \in Int /\ 1 \in Int
  BY <1>1
<1>3. /\ Upto(s, k) \in Seq(S) /\ Len(Upto(s, k)) = IF 1 <= k THEN k - 1 + 1 ELSE 0
      /\ \A j \in 1 .. k - 1 + 1 : Upto(s, k)[j] = s[1 + j - 1]
  <2>1. \A j \in 1 .. k : s[j] \in S
    BY <1>1
  <2> QED BY <1>2, <2>1, SubSeqProperties DEF Upto
<1>4. /\ Onward(s, k) \in Seq(S)
      /\ Len(Onward(s, k)) = IF k + 1 <= Len(s) THEN Len(s) - (k + 1) + 1 ELSE 0
      /\ \A j \in 1 .. Len(s) - (k + 1) + 1 : Onward(s, k)[j] = s[k + 1 + j - 1]
  <2>1. \A j \in k + 1 .. Len(s) : s[j] \in S
    BY <1>1
  <2> QED BY <1>2, <2>1, SubSeqProperties DEF Onward
<1>5. SubSeq(s, 1, k) \o SubSeq(s, k + 1, Len(s)) = SubSeq(s, 1, Len(s))
  <2>1. 1 \in 1 .. Len(s) + 1 /\ k \in 1 - 1 .. Len(s) /\ Len(s) \in k .. Len(s)
    BY <1>1
  <2> QED BY <2>1, ConcatAdjacentSubSeq
<1>6. SubSeq(s, 1, Len(s)) = s
  BY SubSeqFull
<1>7. Len(Upto(s, k)) = k /\ Len(Onward(s, k)) = Len(s) - k
  BY <1>1, <1>3, <1>4
<1>8. \A j \in 1 .. k : Upto(s, k)[j] = s[j]
  <2> SUFFICES ASSUME NEW j \in 1 .. k PROVE Upto(s, k)[j] = s[j]
    OBVIOUS
  <2>1. j \in 1 .. k - 1 + 1 /\ 1 + j - 1 = j
    BY <1>1
  <2> QED BY <1>3, <2>1
<1>9. \A j \in 1 .. Len(s) - k : Onward(s, k)[j] = s[k + j]
  <2> SUFFICES ASSUME NEW j \in 1 .. Len(s) - k PROVE Onward(s, k)[j] = s[k + j]
    OBVIOUS
  <2>1. j \in 1 .. Len(s) - (k + 1) + 1 /\ k + 1 + j - 1 = k + j
    BY <1>1
  <2> QED BY <1>4, <2>1
<1> QED BY <1>3, <1>4, <1>5, <1>6, <1>7, <1>8, <1>9 DEF Upto, Onward

(* The entries from the j-th to the k-th, those before and those behind.   *)
Middle(s, j, k) == SubSeq(s, j, k)

(* So do the three.                                                        *)
LEMMA TakenOut ==
    ASSUME NEW S, NEW s \in Seq(S), NEW j \in 1 .. Len(s), NEW k \in j .. Len(s)
    PROVE  LET b == Middle(s, j, k)
           IN  /\ b \in Seq(S) /\ b # <<>> /\ b[1] = s[j] /\ b[Len(b)] = s[k]
               /\ Upto(s, j - 1) \in Seq(S) /\ Onward(s, k) \in Seq(S)
               /\ s = (Upto(s, j - 1) \o b) \o Onward(s, k)
               /\ j = k => b = <<s[j]>>
<1> DEFINE b == Middle(s, j, k)
           i == j - 1
           f == Upto(s, k)
<1>1. Len(s) \in Nat /\ i \in 0 .. Len(s) /\ k \in 0 .. Len(s) /\ i + 1 = j /\ j \in Int /\ k \in Int
  BY LenProperties
<1>2. /\ Upto(s, i) \in Seq(S) /\ f \in Seq(S) /\ Onward(s, k) \in Seq(S) /\ f \o Onward(s, k) = s
  BY <1>1, TakenApart
<1>3. Upto(s, i) \o b = f
  <2>1. 1 \in 1 .. Len(s) + 1 /\ i \in 1 - 1 .. Len(s) /\ k \in i .. Len(s)
    BY <1>1
  <2>2. SubSeq(s, 1, i) \o SubSeq(s, i + 1, k) = SubSeq(s, 1, k)
    BY <2>1, ConcatAdjacentSubSeq
  <2> QED BY <1>1, <2>2 DEF Upto, Middle
<1>4. /\ b \in Seq(S) /\ Len(b) = k - j + 1
      /\ \A x \in 1 .. k - j + 1 : b[x] = s[j + x - 1]
  <2>1. \A x \in j .. k : s[x] \in S
    <3> SUFFICES ASSUME NEW x \in j .. k PROVE s[x] \in S
      OBVIOUS
    <3>1. x \in 1 .. Len(s)
      BY <1>1
    <3> QED BY <3>1, ElementOfSeq
  <2>2. j <= k
    BY <1>1
  <2> QED BY <1>1, <2>1, <2>2, SubSeqProperties DEF Middle
<1> HIDE DEF b, f
<1>5. b # <<>> /\ b[1] = s[j] /\ b[Len(b)] = s[k]
  <2>1. 1 \in 1 .. k - j + 1 /\ j + 1 - 1 = j /\ k - j + 1 \in 1 .. k - j + 1 /\ j + (k - j + 1) - 1 = k
    BY <1>1
  <2>2. b # <<>>
    BY <1>4, <2>1, EmptySeq
  <2> QED BY <1>4, <2>1, <2>2
<1>6. j = k => b = <<s[j]>>
  <2> SUFFICES ASSUME j = k PROVE b = <<s[j]>>
    OBVIOUS
  <2>1. s[j] \in S
    BY ElementOfSeq
  <2>2. <<s[j]>> \in Seq(S) /\ Len(<<s[j]>>) = 1 /\ <<s[j]>>[1] = s[j]
    BY <2>1
  <2>3. Len(b) = 1
    BY <1>1, <1>4
  <2>4. \A x \in 1 .. Len(b) : b[x] = <<s[j]>>[x]
    BY <1>5, <2>2, <2>3
  <2> QED BY <1>4, <2>2, <2>3, <2>4, SeqEqual
<1> QED BY <1>2, <1>3, <1>4, <1>5, <1>6 DEF b

(* The sum of the three alone.                                             *)
LEMMA ThreeParts ==
    ASSUME NEW S, NEW s \in Seq(S), NEW j \in 1 .. Len(s), NEW k \in j .. Len(s)
    PROVE  s = (Upto(s, j - 1) \o Middle(s, j, k)) \o Onward(s, k)
BY TakenOut

(* What p, b and q have together.                                          *)
LEMMA PutTogether ==
    ASSUME NEW S, NEW p \in Seq(S), NEW b \in Seq(S), NEW q \in Seq(S)
    PROVE  /\ p \o q \in Seq(S) /\ (p \o b) \o q \in Seq(S)
           /\ Elems(p \o q) = Elems(p) \cup Elems(q)
           /\ Elems((p \o b) \o q) = Elems(p \o q) \cup Elems(b)
           /\ Distinct((p \o b) \o q) <=>
                  Distinct(p \o q) /\ Distinct(b) /\ Elems(p \o q) \cap Elems(b) = {}
<1>1. p \o q \in Seq(S) /\ p \o b \in Seq(S) /\ (p \o b) \o q \in Seq(S)
  BY Joined
<1>2. /\ Elems(p \o b) = Elems(p) \cup Elems(b)
      /\ Distinct(p \o b) <=> Distinct(p) /\ Distinct(b) /\ Elems(p) \cap Elems(b) = {}
  BY JoinedElems
<1>3. /\ Elems(p \o q) = Elems(p) \cup Elems(q)
      /\ Distinct(p \o q) <=> Distinct(p) /\ Distinct(q) /\ Elems(p) \cap Elems(q) = {}
  BY JoinedElems
<1>4. /\ Elems((p \o b) \o q) = Elems(p \o b) \cup Elems(q)
      /\ Distinct((p \o b) \o q) <=> Distinct(p \o b) /\ Distinct(q) /\ Elems(p \o b) \cap Elems(q) = {}
  BY <1>1, JoinedElems
<1> QED BY <1>1, <1>2, <1>3, <1>4

-----------------------------------------------------------------------------
(* The lists L in memory m, of which those in st are stale.                *)
Apart(L) ==
    /\ \A h \in Heads : Distinct(L[h])
    /\ \A g, h \in Heads : g # h => Elems(L[g]) \cap Elems(L[h]) = {}
Rings(m, L, st) ==
    /\ m \in Memory /\ L \in [Heads -> Seq(Entries)] /\ st \subseteq Heads
    /\ Apart(L)
    /\ \A h \in st : L[h] = <<>>
    /\ \A h \in Heads \ st : IsRing(m, Ring(h, L[h]))

On(L) == UNION {Elems(L[h]) : h \in Heads}

(* What is on one list is on the lists, and the other way round.           *)
LEMMA OnOne ==
    ASSUME NEW L
    PROVE  /\ \A h \in Heads : Elems(L[h]) \subseteq On(L)
           /\ \A z \in On(L) : \E h \in Heads : \E j \in 1 .. Len(L[h]) : z = L[h][j]
<1>1. ASSUME NEW h \in Heads PROVE Elems(L[h]) \subseteq On(L)
  BY DEF On
<1>2. ASSUME NEW z \in On(L) PROVE \E h \in Heads : \E j \in 1 .. Len(L[h]) : z = L[h][j]
  <2>1. PICK h \in Heads : z \in Elems(L[h])
    BY DEF On
  <2> QED BY <2>1 DEF Elems
<1> QED BY <1>1, <1>2

(* The empty sequence.                                                     *)
LEMMA NoElems == Elems(<<>>) = {} /\ Distinct(<<>>)
BY DEF Elems, Distinct

(* A list is still a ring if it is one of the new memory, or nothing of it *)
(* has changed.                                                            *)
LEMMA Frame ==
    ASSUME List!KernelListAssumption, NEW m, NEW L, NEW st, Rings(m, L, st),
           NEW n \in Memory, NEW M \in [Heads -> Seq(Entries)], NEW tt \in SUBSET Heads,
           Apart(M), \A h \in tt : M[h] = <<>>,
           \A h \in Heads \ tt :
               \/ IsRing(n, Ring(h, M[h]))
               \/ h \notin st /\ M[h] = L[h] /\ \A z \in {h} \cup Elems(L[h]) : Same(m, n, z)
    PROVE  Rings(n, M, tt)
<1>1. ASSUME NEW h \in Heads \ tt PROVE IsRing(n, Ring(h, M[h]))
  <2>1. CASE h \notin st /\ M[h] = L[h] /\ \A z \in {h} \cup Elems(L[h]) : Same(m, n, z)
    <3>1. L[h] \in Seq(Entries) /\ IsRing(m, Ring(h, L[h]))
      BY <2>1 DEF Rings
    <3>2. Elems(Ring(h, L[h])) = {h} \cup Elems(L[h])
      BY <3>1, RingElems DEF List!KernelListAssumption
    <3>3. Ring(h, L[h]) \in Seq(List!Nodes) /\ Ring(h, L[h]) # <<>>
      BY <3>1, RingTyped
    <3> QED BY <2>1, <3>1, <3>2, <3>3, RingKept
  <2> QED BY <2>1
<1> QED BY <1>1 DEF Rings

(* A change of one list, that begins at a live or at a stale head.         *)
LEMMA OneChanged ==
    ASSUME List!KernelListAssumption, NEW m, NEW L, NEW st, Rings(m, L, st),
           NEW n \in Memory, NEW h \in Heads, NEW s \in Seq(Entries), Distinct(s),
           \A g \in Heads \ {h} : Elems(L[g]) \cap Elems(s) = {},
           IsRing(n, Ring(h, s)),
           \A g \in Heads \ (st \cup {h}) : \A z \in {g} \cup Elems(L[g]) : Same(m, n, z)
    PROVE  Rings(n, [L EXCEPT ![h] = s], st \ {h})
<1> DEFINE M == [L EXCEPT ![h] = s]
<1>1. L \in [Heads -> Seq(Entries)] /\ Apart(L) /\ \A g \in st : L[g] = <<>>
  BY DEF Rings
<1>2. M \in [Heads -> Seq(Entries)] /\ M[h] = s /\ \A g \in Heads \ {h} : M[g] = L[g]
  BY <1>1
<1> HIDE DEF M
<1>3. Apart(M)
  BY <1>1, <1>2 DEF Apart
<1>4. st \ {h} \in SUBSET Heads /\ \A g \in st \ {h} : M[g] = <<>>
  BY <1>1, <1>2 DEF Rings
<1>5. ASSUME NEW g \in Heads \ (st \ {h})
      PROVE  \/ IsRing(n, Ring(g, M[g]))
             \/ g \notin st /\ M[g] = L[g] /\ \A z \in {g} \cup Elems(L[g]) : Same(m, n, z)
  BY <1>2
<1>6. Rings(n, M, st \ {h})
  BY <1>2, <1>3, <1>4, <1>5, Frame
<1> QED BY <1>6 DEF M

(* A list is forgotten.                                                    *)
LEMMA Forgotten ==
    ASSUME NEW m, NEW L, NEW st, Rings(m, L, st), NEW l \in Heads
    PROVE  Rings(m, [L EXCEPT ![l] = <<>>], st \cup {l})
<1> DEFINE M == [L EXCEPT ![l] = <<>>]
<1>1. L \in [Heads -> Seq(Entries)] /\ Apart(L) /\ \A g \in st : L[g] = <<>>
  BY DEF Rings
<1>2. <<>> \in Seq(Entries)
  BY EmptySeq
<1>3. M \in [Heads -> Seq(Entries)] /\ M[l] = <<>> /\ \A g \in Heads \ {l} : M[g] = L[g]
  BY <1>1, <1>2
<1> HIDE DEF M
<1>4. Apart(M)
  BY <1>1, <1>3, NoElems DEF Apart
<1>5. Rings(m, M, st \cup {l})
  BY <1>1, <1>3, <1>4 DEF Rings
<1> QED BY <1>5 DEF M

(* A head is initialised.                                                  *)
LEMMA Initialised ==
    ASSUME List!KernelListAssumption, NEW m, NEW L, NEW st, Rings(m, L, st), NEW l \in Heads
    PROVE  Rings(List!INIT_LIST_HEAD(m, l), [L EXCEPT ![l] = <<>>], st \ {l})
<1> DEFINE n == List!INIT_LIST_HEAD(m, l)
<1>1. m \in Memory /\ l \in List!Nodes /\ L \in [Heads -> Seq(Entries)]
  BY DEF Rings, List!Nodes
<1>2. n \in Memory /\ Link(n, l, l) /\ \A z \in List!Nodes \ {l} : Same(m, n, z)
  BY <1>1, MemInit
<1> HIDE DEF n
<1>3. <<>> \in Seq(Entries) /\ Distinct(<<>>) /\ Elems(<<>>) = {}
  BY EmptySeq, NoElems
<1>4. IsRing(n, Ring(l, <<>>))
  <2>1. Ring(l, <<>>) = <<l>>
    BY <1>1, One, ConcatEmptySeq DEF Ring
  <2> QED BY <1>1, <1>2, <2>1, One
<1>5. ASSUME NEW g \in Heads \ {l}, NEW z \in {g} \cup Elems(L[g]) PROVE Same(m, n, z)
  <2>1. Elems(L[g]) \subseteq Entries
    BY <1>1, RingElems DEF List!KernelListAssumption
  <2>2. z \in List!Nodes \ {l}
    BY <2>1 DEF List!Nodes, List!KernelListAssumption
  <2> QED BY <1>2, <2>2
<1>6. Rings(n, [L EXCEPT ![l] = <<>>], st \ {l})
  BY <1>2, <1>3, <1>4, <1>5, OneChanged
<1> QED BY <1>6 DEF n

(* What is not on a list may change.                                       *)
LEMMA OffLists ==
    ASSUME List!KernelListAssumption, NEW m, NEW L, NEW st, Rings(m, L, st),
           NEW n \in Memory, NEW e \in Entries, e \notin On(L),
           \A z \in List!Nodes \ {e} : Same(m, n, z)
    PROVE  Rings(n, L, st)
<1>1. ASSUME NEW h \in Heads, NEW z \in {h} \cup Elems(L[h]) PROVE Same(m, n, z)
  <2>1. Elems(L[h]) \subseteq Entries
    BY RingElems DEF List!KernelListAssumption, Rings
  <2>2. z \in List!Nodes \ {e}
    BY <2>1 DEF List!Nodes, List!KernelListAssumption, On
  <2> QED BY <2>2
<1>2. L \in [Heads -> Seq(Entries)] /\ st \in SUBSET Heads /\ Apart(L) /\ \A h \in st : L[h] = <<>>
  BY DEF Rings
<1>3. \A h \in Heads \ st :
          \/ IsRing(n, Ring(h, L[h]))
          \/ h \notin st /\ L[h] = L[h] /\ \A z \in {h} \cup Elems(L[h]) : Same(m, n, z)
  BY <1>1
<1> QED BY <1>2, <1>3, Frame

(* The k-th place of list h: behind its head and k entries.  The ring is   *)
(* opened there.                                                           *)
Before(L, h, k) == (<<h>> \o L[h])[k + 1]
Behind(L, h, k) == (L[h] \o <<h>>)[k + 1]
Opened(L, h, k) == Onward(L[h], k) \o Ring(h, Upto(L[h], k))

(* The ring of a list, opened at its k-th place.                           *)
LEMMA OpenedRing ==
    ASSUME List!KernelListAssumption, NEW m, NEW L, NEW st, Rings(m, L, st),
           NEW h \in Heads \ st, NEW k \in 0 .. Len(L[h])
    PROVE  LET r == Opened(L, h, k)
           IN  /\ r \in Seq(List!Nodes) /\ r # <<>> /\ IsRing(m, r) /\ Distinct(r)
               /\ Elems(r) = {h} \cup Elems(L[h]) /\ Elems(L[h]) \subseteq Entries
               /\ r[1] = Behind(L, h, k) /\ r[Len(r)] = Before(L, h, k)
               /\ Before(L, h, k) \in Elems(r) /\ Behind(L, h, k) \in Elems(r)
               /\ m[Before(L, h, k)].next = Behind(L, h, k)
               /\ m[Behind(L, h, k)].prev = Before(L, h, k)
<1> DEFINE s == L[h]
           p == Upto(s, k)
           q == Onward(s, k)
           a == Ring(h, p)
           r == q \o a
<1>1. s \in Seq(Entries) /\ Distinct(s) /\ IsRing(m, Ring(h, s)) /\ h \in List!Nodes
  BY DEF Rings, Apart, List!Nodes
<1> HIDE DEF s
<1>2. /\ p \in Seq(Entries) /\ q \in Seq(Entries) /\ p \o q = s /\ Len(p) = k /\ Len(q) = Len(s) - k
      /\ \A j \in 1 .. k : p[j] = s[j]
      /\ \A j \in 1 .. Len(s) - k : q[j] = s[k + j]
  BY <1>1, TakenApart DEF s
<1> HIDE DEF p, q
<1>3. p \in Seq(List!Nodes) /\ q \in Seq(List!Nodes) /\ s \in Seq(List!Nodes) /\ <<h>> \in Seq(List!Nodes)
  BY <1>1, <1>2, RingTyped
<1>4. a \in Seq(List!Nodes) /\ a # <<>>
  BY <1>2, RingTyped
<1>5. Ring(h, s) = a \o q
  <2>1. (<<h>> \o p) \o q = <<h>> \o (p \o q)
    BY <1>3, ConcatAssociative
  <2> QED BY <1>2, <2>1 DEF Ring
<1> HIDE DEF a
<1>6. IsRing(m, r)
  BY <1>1, <1>3, <1>4, <1>5, Rotated
<1>7. r \in Seq(List!Nodes) /\ r # <<>> /\ r[Len(r)] = a[Len(a)] /\ (q # <<>> => r[1] = q[1])
  BY <1>3, <1>4, Joined, JoinedEnds
<1>8. /\ Elems(r) = Elems(q) \cup Elems(a) /\ Elems(a \o q) = Elems(a) \cup Elems(q)
      /\ Distinct(r) <=> Distinct(a \o q)
  <2>1. /\ Elems(r) = Elems(q) \cup Elems(a)
        /\ Distinct(r) <=> Distinct(q) /\ Distinct(a) /\ Elems(q) \cap Elems(a) = {}
    BY <1>3, <1>4, JoinedElems
  <2>2. /\ Elems(a \o q) = Elems(a) \cup Elems(q)
        /\ Distinct(a \o q) <=> Distinct(a) /\ Distinct(q) /\ Elems(a) \cap Elems(q) = {}
    BY <1>3, <1>4, JoinedElems
  <2> QED BY <2>1, <2>2
<1>9. Elems(r) = {h} \cup Elems(s) /\ Distinct(r) /\ Elems(s) \subseteq Entries
  <2>1. /\ Elems(Ring(h, s)) = {h} \cup Elems(s) /\ Elems(s) \subseteq Entries
        /\ Distinct(Ring(h, s)) <=> Distinct(s)
    BY <1>1, RingElems DEF List!KernelListAssumption
  <2> QED BY <1>1, <1>5, <1>8, <2>1
<1>10. r[Len(r)] = Before(L, h, k)
  <2>1. /\ Ring(h, s)[1] = h /\ \A j \in 1 .. Len(s) : Ring(h, s)[j + 1] = s[j]
        /\ Len(s) \in Nat
    BY <1>1, RingTyped
  <2>5. Len(a) = Len(p) + 1 /\ a[1] = h /\ \A j \in 1 .. Len(p) : a[j + 1] = p[j]
    BY <1>2, RingTyped DEF a
  <2>6. Len(a) = k + 1 /\ \A j \in 1 .. k : a[j + 1] = p[j]
    BY <1>2, <2>5
  <2>2. Before(L, h, k) = Ring(h, s)[k + 1]
    BY DEF Before, Ring, s
  <2>3. CASE k = 0
    <3>1. k + 1 = 1
      BY <2>3
    <3> QED BY <1>7, <2>1, <2>2, <2>5, <2>6, <3>1
  <2>4. CASE k # 0
    <3>1. k \in 1 .. k /\ k \in 1 .. Len(s)
      BY <2>1, <2>4 DEF s
    <3> QED BY <1>2, <1>7, <2>1, <2>2, <2>6, <3>1
  <2> QED BY <2>3, <2>4
<1>11. r[1] = Behind(L, h, k)
  <2>1. /\ a[1] = h /\ Len(s) \in Nat
        /\ (s \o <<h>>)[Len(s) + 1] = h /\ \A j \in 1 .. Len(s) : (s \o <<h>>)[j] = s[j]
    BY <1>1, <1>2, RingTyped DEF a
  <2>2. Behind(L, h, k) = (s \o <<h>>)[k + 1]
    BY DEF Behind, s
  <2>3. CASE k = Len(s)
    <3>1. q = <<>>
      BY <1>2, <2>1, <2>3, EmptySeq
    <3>2. r = a
      BY <1>4, <3>1, ConcatEmptySeq
    <3> QED BY <2>1, <2>2, <2>3, <3>2
  <2>4. CASE k # Len(s)
    <3>1. 1 \in 1 .. Len(s) - k /\ k + 1 \in 1 .. Len(s) /\ Len(s) - k # 0
      BY <2>1, <2>4 DEF s
    <3>2. q # <<>>
      BY <1>2, <3>1, EmptySeq
    <3> QED BY <1>2, <1>7, <2>1, <2>2, <3>1, <3>2
  <2> QED BY <2>3, <2>4
<1>12. r[1] \in Elems(r) /\ r[Len(r)] \in Elems(r)
  BY <1>7, Ends
<1>13. m[r[Len(r)]].next = r[1] /\ m[r[1]].prev = r[Len(r)]
  BY <1>6 DEF IsRing, Link
<1>14. r = Opened(L, h, k)
  BY DEF Opened, r, a, p, q, s
<1> QED BY <1>6, <1>7, <1>9, <1>10, <1>11, <1>12, <1>13, <1>14 DEF s

(* Entries b, linked to each other, come to a place of a list.             *)
LEMMA Placed ==
    ASSUME List!KernelListAssumption, NEW m, NEW L, NEW st, Rings(m, L, st),
           NEW h \in Heads \ st, NEW k \in 0 .. Len(L[h]),
           NEW b \in Seq(Entries), b # <<>>, Distinct(b), Seg(m, b), Elems(b) \cap On(L) = {},
           NEW n \in Memory,
           Between(m, n, Before(L, h, k), Behind(L, h, k), b[1], b[Len(b)])
    PROVE  Rings(n, List!Promised!PutIn(L, h, k, b), st)
<1> DEFINE p == Upto(L[h], k)
           q == Onward(L[h], k)
           a == Ring(h, p)
           r == Opened(L, h, k)
           s == (p \o b) \o q
<1>1. L \in [Heads -> Seq(Entries)] /\ L[h] \in Seq(Entries) /\ Apart(L) /\ st \subseteq Heads
  BY DEF Rings
<1>2. p \in Seq(Entries) /\ q \in Seq(Entries) /\ p \o q = L[h]
  BY <1>1, TakenApart
<1>3. /\ r \in Seq(List!Nodes) /\ r # <<>> /\ IsRing(m, r) /\ Distinct(r)
      /\ Elems(r) = {h} \cup Elems(L[h]) /\ Elems(L[h]) \subseteq Entries
      /\ r[1] = Behind(L, h, k) /\ r[Len(r)] = Before(L, h, k)
      /\ r[1] \in Elems(r) /\ r[Len(r)] \in Elems(r)
  BY OpenedRing
<1>4. r = q \o a
  BY DEF Opened
<1> HIDE DEF p, q, r
<1>5. /\ p \in Seq(List!Nodes) /\ q \in Seq(List!Nodes) /\ b \in Seq(List!Nodes) /\ <<h>> \in Seq(List!Nodes)
      /\ a \in Seq(List!Nodes) /\ \A j \in 1 .. Len(b) : b[j] \in Entries
  BY <1>2, RingTyped, One DEF List!Nodes
<1>6. Elems(b) \subseteq Entries /\ Elems(b) \cap Elems(r) = {}
  <2>1. Elems(b) \subseteq Entries
    BY <1>5 DEF Elems
  <2>2. Elems(L[h]) \cap Elems(b) = {}
    BY OnOne
  <2> QED BY <1>3, <2>1, <2>2 DEF List!KernelListAssumption
<1>7. Distinct(r \o b) /\ Elems(r \o b) = Elems(r) \cup Elems(b)
  BY <1>3, <1>5, <1>6, JoinedElems
<1>8. IsRing(n, r \o b)
  <2>1. Elems(r \o b) \subseteq List!Nodes
    BY <1>3, <1>6, <1>7 DEF List!Nodes
  <2>2. \A z \in Elems(r \o b) :
            /\ n[z].next = IF z = r[Len(r)] THEN b[1] ELSE IF z = b[Len(b)] THEN r[1] ELSE m[z].next
            /\ n[z].prev = IF z = r[1] THEN b[Len(b)] ELSE IF z = b[1] THEN r[Len(r)] ELSE m[z].prev
    BY <1>3, <2>1 DEF Between
  <2> QED BY <1>3, <1>5, <1>7, <2>2, RingWithSegment
<1>9. IsRing(n, Ring(h, s))
  <2>1. r \o b = q \o (a \o b)
    BY <1>4, <1>5, ConcatAssociative
  <2>2. a \o b \in Seq(List!Nodes) /\ p \o b \in Seq(List!Nodes)
    BY <1>5, Joined
  <2>3. IsRing(n, (a \o b) \o q)
    BY <1>5, <1>8, <2>1, <2>2, Rotated
  <2>4. a \o b = <<h>> \o (p \o b)
    BY <1>5, ConcatAssociative DEF Ring
  <2>5. (<<h>> \o (p \o b)) \o q = <<h>> \o ((p \o b) \o q)
    BY <1>5, <2>2, ConcatAssociative
  <2> QED BY <2>3, <2>4, <2>5 DEF Ring
<1>10. s \in Seq(Entries) /\ Elems(s) = Elems(L[h]) \cup Elems(b) /\ Distinct(s)
  <2>1. Elems(L[h]) \cap Elems(b) = {} /\ Distinct(L[h])
    BY <1>1, OnOne DEF Apart
  <2>2. /\ s \in Seq(Entries) /\ Elems(s) = Elems(p \o q) \cup Elems(b)
        /\ Distinct(s) <=> Distinct(p \o q) /\ Distinct(b) /\ Elems(p \o q) \cap Elems(b) = {}
    <3>1. p \in Seq(Entries) /\ q \in Seq(Entries) /\ b \in Seq(Entries)
      BY <1>2
    <3> QED BY <3>1, PutTogether
  <2> QED BY <1>2, <2>1, <2>2
<1> HIDE DEF s
<1>11. \A g \in Heads \ {h} : Elems(L[g]) \cap Elems(s) = {}
  BY <1>1, <1>10, OnOne DEF Apart
<1>12. ASSUME NEW g \in Heads \ (st \cup {h}), NEW z \in {g} \cup Elems(L[g]) PROVE Same(m, n, z)
  <2>1. Elems(L[g]) \subseteq Entries /\ Elems(L[g]) \cap Elems(L[h]) = {}
    BY <1>1, RingElems DEF List!KernelListAssumption, Apart
  <2>2. z \in List!Nodes /\ z \notin Elems(r) /\ z \notin Elems(b)
    BY <1>3, <1>6, <2>1, OnOne DEF List!Nodes, List!KernelListAssumption
  <2>3. b[1] \in Elems(b) /\ b[Len(b)] \in Elems(b)
    BY Ends
  <2>4. z # r[1] /\ z # r[Len(r)] /\ z # b[1] /\ z # b[Len(b)]
    BY <1>3, <2>2, <2>3
  <2> QED BY <1>3, <2>2, <2>4 DEF Same, Between
<1>13. Rings(n, [L EXCEPT ![h] = s], st \ {h})
  BY <1>9, <1>10, <1>11, <1>12, OneChanged
<1>14. [L EXCEPT ![h] = s] = List!Promised!PutIn(L, h, k, b)
  BY <1>1 DEF List!Promised!PutIn, s, p, q, Upto, Onward
<1>15. st \ {h} = st
  OBVIOUS
<1> QED BY <1>13, <1>14, <1>15

(* One entry comes there.                                                  *)
LEMMA InsertPlaced ==
    ASSUME List!KernelListAssumption, NEW m, NEW L, NEW st, Rings(m, L, st),
           NEW h \in Heads \ st, NEW k \in 0 .. Len(L[h]), NEW e \in Entries \ On(L)
    PROVE  Rings(List!insert(m, e, Before(L, h, k), Behind(L, h, k)), List!Promised!PutIn(L, h, k, <<e>>), st)
<1> DEFINE x == Before(L, h, k)
           y == Behind(L, h, k)
           n == List!insert(m, e, x, y)
           b == <<e>>
<1>1. x \in {h} \cup Elems(L[h]) /\ y \in {h} \cup Elems(L[h]) /\ Elems(L[h]) \subseteq Entries
  BY OpenedRing
<1>2. m \in Memory /\ h \in Heads /\ e \in List!Nodes /\ e \in Entries
  BY DEF Rings, List!Nodes
<1>3. x \in List!Nodes /\ y \in List!Nodes /\ x # e /\ y # e
  BY <1>1, OnOne DEF List!Nodes, List!KernelListAssumption
<1> HIDE DEF x, y
<1>4. n \in Memory /\ Between(m, n, x, y, e, e)
  BY <1>2, <1>3, MemInsert
<1> HIDE DEF n
<1>5. /\ b \in Seq(Entries) /\ b # <<>> /\ Distinct(b) /\ Seg(m, b) /\ Elems(b) = {e}
      /\ b[1] = e /\ b[Len(b)] = e
  BY <1>2, One
<1> HIDE DEF b
<1>6. Elems(b) \cap On(L) = {}
  BY <1>5
<1>7. Rings(n, List!Promised!PutIn(L, h, k, b), st)
  <2>1. Between(m, n, Before(L, h, k), Behind(L, h, k), b[1], b[Len(b)])
    BY <1>4, <1>5 DEF x, y
  <2> QED BY <1>4, <1>5, <1>6, <2>1, Placed
<1> QED BY <1>7 DEF n, b, x, y

(* The nodes of the lists.                                                 *)
Used(L, st) == (Heads \ st) \cup On(L)

(* List h is p, then b and then q: its ring is b and the rest.             *)
Parts(L, h, p, b, q) == b # <<>> /\ L[h] = (p \o b) \o q
Rest(h, p, q) == q \o Ring(h, p)

(* The rest and b are the ring.                                            *)
LEMMA RestJoined ==
    ASSUME NEW n, NEW h \in Heads,
           NEW p \in Seq(Entries), NEW b \in Seq(Entries), NEW q \in Seq(Entries)
    PROVE  IsRing(n, Rest(h, p, q) \o b) <=> IsRing(n, Ring(h, (p \o b) \o q))
<1> DEFINE c == <<h>>
           a == c \o p
           u == p \o b
<1>1. /\ p \in Seq(List!Nodes) /\ b \in Seq(List!Nodes) /\ q \in Seq(List!Nodes) /\ c \in Seq(List!Nodes)
      /\ a \in Seq(List!Nodes) /\ u \in Seq(List!Nodes)
  BY RingTyped, One, Joined DEF List!Nodes
<1>2. Rest(h, p, q) = q \o a /\ Ring(h, u \o q) = c \o (u \o q)
  BY DEF Rest, Ring
<1>3. a \o b = c \o u
  BY <1>1, ConcatAssociative
<1> HIDE DEF c, a, u
<1>4. (c \o u) \o q = c \o (u \o q)
  BY <1>1, ConcatAssociative
<1>5. (q \o a) \o b = q \o (a \o b)
  <2>1. q \in Seq(List!Nodes) /\ a \in Seq(List!Nodes) /\ b \in Seq(List!Nodes)
    BY <1>1
  <2> QED BY <2>1, ConcatAssociative
<1>6. a \o b \in Seq(List!Nodes)
  BY <1>1, Joined
<1>7. IsRing(n, q \o (a \o b)) <=> IsRing(n, (a \o b) \o q)
  BY <1>1, <1>6, Rotated
<1>8. IsRing(n, Rest(h, p, q) \o b) <=> IsRing(n, Ring(h, u \o q))
  BY <1>2, <1>3, <1>4, <1>5, <1>7
<1> QED BY <1>8 DEF u

(* What the parts of a ring are, and where they are linked.                *)
LEMMA Decomposed ==
    ASSUME List!KernelListAssumption, NEW m, NEW L, NEW st, Rings(m, L, st), NEW h \in Heads \ st,
           NEW p \in Seq(Entries), NEW b \in Seq(Entries), NEW q \in Seq(Entries),
           Parts(L, h, p, b, q)
    PROVE  LET r == Rest(h, p, q)
           IN  /\ r \in Seq(List!Nodes) /\ r # <<>> /\ b \in Seq(List!Nodes)
               /\ IsRing(m, r \o b) /\ Distinct(r \o b) /\ Distinct(r)
               /\ Link(m, r[Len(r)], b[1]) /\ Link(m, b[Len(b)], r[1])
               /\ Elems(r) = {h} \cup Elems(p \o q) /\ Elems(r) \cap Elems(b) = {}
               /\ Elems(b) \subseteq Entries /\ Elems(b) \subseteq Elems(L[h])
               /\ Elems(p \o q) \subseteq Elems(L[h]) /\ Distinct(p \o q) /\ p \o q \in Seq(Entries)
<1> DEFINE a == Ring(h, p)
           r == q \o a
           s == (p \o b) \o q
<1>1. s \in Seq(Entries) /\ Distinct(s) /\ IsRing(m, Ring(h, s)) /\ h \in Heads
  BY DEF Rings, Apart, Parts
<1>2. /\ p \in Seq(List!Nodes) /\ b \in Seq(List!Nodes) /\ q \in Seq(List!Nodes) /\ <<h>> \in Seq(List!Nodes)
      /\ a \in Seq(List!Nodes) /\ a # <<>>
  BY RingTyped, One DEF List!Nodes
<1>3. p \o b \in Seq(List!Nodes) /\ a \o b \in Seq(List!Nodes) /\ r \in Seq(List!Nodes) /\ r # <<>>
  BY <1>2, Joined, JoinedEnds
<1>5. IsRing(m, r \o b)
  BY <1>1, RestJoined DEF Rest
<1>6. /\ p \o q \in Seq(Entries) /\ Elems(p \o q) = Elems(p) \cup Elems(q)
      /\ Elems(s) = Elems(p \o q) \cup Elems(b)
      /\ Distinct(s) <=> Distinct(p \o q) /\ Distinct(b) /\ Elems(p \o q) \cap Elems(b) = {}
  BY PutTogether
<1>7. /\ Elems(p \o q) = Elems(p) \cup Elems(q)
      /\ Distinct(p \o q) <=> Distinct(p) /\ Distinct(q) /\ Elems(p) \cap Elems(q) = {}
  BY JoinedElems
<1>8. /\ Elems(a) = {h} \cup Elems(p)
      /\ Distinct(a) <=> Distinct(p)
  BY RingElems DEF List!KernelListAssumption
<1>9. Elems(q) \subseteq Entries /\ Elems(b) \subseteq Entries /\ h \notin Entries
  BY RingElems DEF List!KernelListAssumption
<1> HIDE DEF a
<1>10. /\ Elems(r) = Elems(q) \cup Elems(a)
       /\ Distinct(r) <=> Distinct(q) /\ Distinct(a) /\ Elems(q) \cap Elems(a) = {}
  BY <1>2, JoinedElems
<1>11. Distinct(r) /\ Elems(r) = {h} \cup Elems(p \o q)
  BY <1>1, <1>6, <1>7, <1>8, <1>9, <1>10
<1>12. Elems(r) \cap Elems(b) = {} /\ Distinct(b)
  BY <1>1, <1>6, <1>9, <1>11
<1> HIDE DEF r, s
<1>13. Distinct(r \o b)
  BY <1>2, <1>3, <1>11, <1>12, JoinedElems
<1>14. Elems(b) \subseteq Elems(s) /\ Elems(p \o q) \subseteq Elems(s) /\ Distinct(p \o q)
  BY <1>1, <1>6
<1>15. b # <<>> /\ L[h] = s
  BY DEF Parts, s
<1>16. Link(m, r[Len(r)], b[1]) /\ Link(m, b[Len(b)], r[1])
  BY <1>2, <1>3, <1>5, <1>15, RingJoined
<1>17. r = Rest(h, p, q)
  BY DEF Rest, r, a
<1> QED BY <1>2, <1>3, <1>5, <1>6, <1>9, <1>11, <1>12, <1>13, <1>14, <1>15, <1>16, <1>17

(* The rest of the ring begins at the head again.                          *)
LEMMA Recomposed ==
    ASSUME NEW n, NEW h \in Heads, NEW p \in Seq(Entries), NEW q \in Seq(Entries),
           IsRing(n, Rest(h, p, q))
    PROVE  IsRing(n, Ring(h, p \o q))
<1>1. /\ p \in Seq(List!Nodes) /\ q \in Seq(List!Nodes) /\ <<h>> \in Seq(List!Nodes)
      /\ Ring(h, p) \in Seq(List!Nodes)
  BY RingTyped, One DEF List!Nodes
<1>2. IsRing(n, Ring(h, p) \o q)
  BY <1>1, Rotated DEF Rest
<1>3. (<<h>> \o p) \o q = <<h>> \o (p \o q)
  BY <1>1, ConcatAssociative
<1> QED BY <1>2, <1>3 DEF Ring

(* Only the nodes next to the entries b, and these, have changed.          *)
Around(m, n, L, st, b) == \A z \in Used(L, st) \ Elems(b) :
    /\ z # m[b[1]].prev => n[z].next = m[z].next
    /\ z # m[b[Len(b)]].next => n[z].prev = m[z].prev

(* The entries b are taken off; what they point to at their ends may be    *)
(* anything.                                                               *)
LEMMA Taken ==
    ASSUME List!KernelListAssumption, NEW m, NEW L, NEW st, Rings(m, L, st), NEW h \in Heads \ st,
           NEW p \in Seq(Entries), NEW b \in Seq(Entries), NEW q \in Seq(Entries),
           Parts(L, h, p, b, q), NEW n \in Memory,
           Link(n, m[b[1]].prev, m[b[Len(b)]].next),
           Around(m, n, L, st, b), Inside(m, n, b)
    PROVE  Rings(n, [L EXCEPT ![h] = p \o q], st) /\ Seg(n, b)
<1> DEFINE r == Rest(h, p, q)
           x == m[b[1]].prev
           y == m[b[Len(b)]].next
<1>1. /\ r \in Seq(List!Nodes) /\ r # <<>> /\ b \in Seq(List!Nodes)
      /\ IsRing(m, r \o b) /\ Distinct(r \o b)
      /\ Link(m, r[Len(r)], b[1]) /\ Link(m, b[Len(b)], r[1])
      /\ Elems(r) = {h} \cup Elems(p \o q) /\ Elems(r) \cap Elems(b) = {}
      /\ Elems(b) \subseteq Elems(L[h])
      /\ Elems(p \o q) \subseteq Elems(L[h]) /\ Distinct(p \o q) /\ p \o q \in Seq(Entries)
  BY Decomposed
<1> HIDE DEF r
<1>2. x = r[Len(r)] /\ y = r[1] /\ b # <<>>
  BY <1>1 DEF Link, Parts
<1>3. x \in Elems(r) /\ y \in Elems(r)
  BY <1>1, <1>2, Ends
<1> HIDE DEF x, y
<1>4. L \in [Heads -> Seq(Entries)] /\ Apart(L) /\ st \subseteq Heads
  BY DEF Rings
<1>5. Elems(r) \subseteq Used(L, st) \ Elems(b)
  BY <1>1, OnOne DEF Used
<1>6. IsRing(n, r) /\ Seg(n, b)
  <2>1. Link(n, r[Len(r)], r[1])
    BY <1>2 DEF x, y
  <2>2. Inside(m, n, r)
    BY <1>2, <1>5 DEF x, y, Inside, Elems, Around
  <2>3. r \in Seq(List!Nodes) /\ r # <<>> /\ b \in Seq(List!Nodes) /\ b # <<>>
        /\ IsRing(m, r \o b) /\ Distinct(r \o b)
    BY <1>1, <1>2
  <2> QED BY <2>1, <2>2, <2>3, RingWithoutSegment
<1>7. IsRing(n, Ring(h, p \o q))
  BY <1>6, Recomposed DEF r
<1>8. ASSUME NEW g \in Heads \ (st \cup {h}), NEW z \in {g} \cup Elems(L[g]) PROVE Same(m, n, z)
  <2>1. Elems(L[g]) \cap Elems(L[h]) = {} /\ Elems(L[g]) \subseteq Entries /\ Elems(L[h]) \subseteq Entries
    BY <1>4, RingElems DEF Apart, List!KernelListAssumption
  <2>2. z \in Used(L, st) /\ z \notin Elems(b) /\ z \notin Elems(r)
    BY <1>1, <2>1, OnOne DEF Used, List!KernelListAssumption
  <2> QED BY <1>3, <2>2 DEF Same, x, y, Around
<1>9. \A g \in Heads \ {h} : Elems(L[g]) \cap Elems(p \o q) = {}
  BY <1>1, <1>4 DEF Apart
<1>10. Rings(n, [L EXCEPT ![h] = p \o q], st \ {h})
  BY <1>1, <1>7, <1>8, <1>9, OneChanged
<1>11. st \ {h} = st
  OBVIOUS
<1> QED BY <1>6, <1>10, <1>11

(* An entry is unlinked.                                                   *)
Without(L, h, j) == [L EXCEPT ![h] = SubSeq(L[h], 1, j - 1) \o SubSeq(L[h], j + 1, Len(L[h]))]

(* __list_del_entry takes one entry off its list.                          *)
LEMMA Unlinked1 ==
    ASSUME List!KernelListAssumption, NEW m, NEW L, NEW st, Rings(m, L, st),
           NEW h \in Heads \ st, NEW j \in 1 .. Len(L[h])
    PROVE  Rings(List!unlink(m, L[h][j]), Without(L, h, j), st)
<1> DEFINE s == L[h]
           p == Upto(s, j - 1)
           q == Onward(s, j)
           e == s[j]
           b == <<e>>
           n == List!unlink(m, e)
<1>1. s \in Seq(Entries) /\ m \in Memory /\ Len(s) \in Nat
  BY LenProperties DEF Rings
<1>2. j \in j .. Len(s)
  BY <1>1
<1> HIDE DEF s
<1>3. /\ p \in Seq(Entries) /\ q \in Seq(Entries) /\ b \in Seq(Entries)
      /\ s = (p \o b) \o q
  <2> DEFINE c == Middle(s, j, j)
  <2>1. j \in 1 .. Len(s)
    BY DEF s
  <2>2. c \in Seq(Entries) /\ p \in Seq(Entries) /\ q \in Seq(Entries) /\ s = (p \o c) \o q /\ c = <<s[j]>>
    BY <1>1, <1>2, <2>1, TakenOut
  <2> QED BY <2>2
<1>4. e \in Entries /\ e \in List!Nodes
  BY <1>1, ElementOfSeq DEF List!Nodes, s
<1> HIDE DEF p, q, e
<1>5. b \in Seq(Entries) /\ b # <<>> /\ b[1] = e /\ b[Len(b)] = e /\ Elems(b) = {e}
  BY <1>4, One
<1> HIDE DEF b
<1>6. Parts(L, h, p, b, q)
  BY <1>3, <1>5 DEF Parts, s
<1> DEFINE r == Rest(h, p, q)
<1>7. /\ r \in Seq(List!Nodes) /\ r # <<>> /\ b \in Seq(List!Nodes) /\ Elems(r) \cap Elems(b) = {}
      /\ Link(m, r[Len(r)], b[1]) /\ Link(m, b[Len(b)], r[1])
  BY <1>3, <1>5, <1>6, Decomposed
<1> HIDE DEF r
<1>8. m[e].prev = r[Len(r)] /\ m[e].next = r[1]
  BY <1>5, <1>7 DEF Link
<1>9. r[Len(r)] \in Elems(r) /\ r[1] \in Elems(r) /\ Elems(r) \subseteq List!Nodes
  BY <1>7, Ends
<1>10. PICK x \in List!Nodes, y \in List!Nodes : m[e].prev = x /\ m[e].next = y /\ x # e /\ y # e
  BY <1>5, <1>7, <1>8, <1>9
<1>11. n \in Memory /\ Bridged(m, n, x, y)
  BY <1>1, <1>4, <1>10, MemUnlink
<1> HIDE DEF n
<1>12. Link(n, m[b[1]].prev, m[b[Len(b)]].next)
  BY <1>5, <1>10, <1>11 DEF Link, Bridged
<1>13. Used(L, st) \subseteq List!Nodes
  <2>1. \A g \in Heads : Elems(L[g]) \subseteq Entries
    BY RingElems DEF Rings, List!KernelListAssumption
  <2> QED BY <2>1 DEF Used, On, List!Nodes
<1>14. Around(m, n, L, st, b)
  BY <1>5, <1>10, <1>11, <1>13 DEF Around, Bridged
<1>15. Inside(m, n, b)
  BY <1>5 DEF Inside, Elems
<1>16. Rings(n, [L EXCEPT ![h] = p \o q], st)
  BY <1>3, <1>5, <1>6, <1>11, <1>12, <1>14, <1>15, Taken
<1> QED BY <1>16 DEF n, e, s, p, q, Without, Upto, Onward

(* Entries take other names, as r says.                                    *)
Mapped(s, r) == [j \in 1 .. Len(s) |-> r[s[j]]]

(* The renamed sequence, entry by entry.                                   *)
LEMMA MappedIs ==
    ASSUME NEW r \in [Entries -> Entries], NEW s \in Seq(Entries)
    PROVE  /\ Mapped(s, r) \in Seq(Entries) /\ Len(Mapped(s, r)) = Len(s)
           /\ \A j \in 1 .. Len(s) : Mapped(s, r)[j] = r[s[j]]
<1>1. Len(s) \in Nat /\ \A j \in 1 .. Len(s) : s[j] \in Entries
  BY LenProperties, ElementOfSeq
<1>2. Mapped(s, r) \in [1 .. Len(s) -> Entries]
  BY <1>1 DEF Mapped
<1>3. Mapped(s, r) \in Seq(Entries)
  BY <1>1, <1>2, SeqDef
<1>4. Len(Mapped(s, r)) = Len(s)
  <2>1. DOMAIN Mapped(s, r) = 1 .. Len(s) /\ DOMAIN Mapped(s, r) = 1 .. Len(Mapped(s, r))
        /\ Len(Mapped(s, r)) \in Nat
    BY <1>2, <1>3, LenProperties
  <2> QED BY <1>1, <2>1
<1> QED BY <1>1, <1>3, <1>4 DEF Mapped

(* Parts may be renamed one by one.                                        *)
LEMMA MappedJoined ==
    ASSUME NEW r \in [Entries -> Entries], NEW a \in Seq(Entries), NEW b \in Seq(Entries)
    PROVE  Mapped(a \o b, r) = Mapped(a, r) \o Mapped(b, r)
<1> DEFINE c == a \o b
           d == Mapped(c, r)
           e == Mapped(a, r) \o Mapped(b, r)
<1>1. c \in Seq(Entries) /\ Len(c) = Len(a) + Len(b)
  BY Joined
<1>2. /\ Mapped(a, r) \in Seq(Entries) /\ Len(Mapped(a, r)) = Len(a)
      /\ Mapped(b, r) \in Seq(Entries) /\ Len(Mapped(b, r)) = Len(b)
      /\ \A j \in 1 .. Len(a) : Mapped(a, r)[j] = r[a[j]]
      /\ \A j \in 1 .. Len(b) : Mapped(b, r)[j] = r[b[j]]
  BY MappedIs
<1> DEFINE ma == Mapped(a, r)
           mb == Mapped(b, r)
<1>8. ma \in Seq(Entries) /\ mb \in Seq(Entries) /\ Len(ma) = Len(a) /\ Len(mb) = Len(b)
  BY <1>2
<1>9. e = ma \o mb
  OBVIOUS
<1> HIDE DEF ma, mb, e
<1>3. e \in Seq(Entries) /\ Len(e) = Len(ma) + Len(mb)
  BY <1>8, <1>9, Joined
<1>4. d \in Seq(Entries) /\ Len(d) = Len(c) /\ \A j \in 1 .. Len(c) : d[j] = r[c[j]]
  BY <1>1, MappedIs
<1>5. ASSUME NEW j \in 1 .. Len(c) PROVE d[j] = e[j]
  <2>1. CASE j \in 1 .. Len(a) /\ c[j] = a[j]
    <3>1. (ma \o mb)[j] = ma[j]
      BY <1>8, <2>1, Joined
    <3> QED BY <1>2, <1>4, <1>9, <2>1, <3>1 DEF ma
  <2>2. CASE j - Len(a) \in 1 .. Len(b) /\ c[j] = b[j - Len(a)]
    <3> DEFINE i == j - Len(a)
    <3>1. i \in 1 .. Len(b) /\ c[j] = b[i] /\ Len(a) + i = j
      BY <1>1, <2>2, LenProperties
    <3> HIDE DEF i
    <3>2. i \in 1 .. Len(mb)
      BY <1>8, <3>1
    <3>3. (ma \o mb)[Len(ma) + i] = mb[i]
      <4>1. ma \in Seq(Entries) /\ mb \in Seq(Entries)
        BY <1>8
      <4> QED BY <3>2, <4>1, Joined
    <3>4. e[j] = mb[i] /\ mb[i] = r[b[i]]
      BY <1>2, <1>8, <1>9, <3>1, <3>3 DEF mb
    <3> QED BY <1>4, <3>1, <3>4
  <2> QED BY <2>1, <2>2, JoinedPlaces
<1> HIDE DEF c, d
<1>6. Len(d) = Len(e) /\ \A j \in 1 .. Len(d) : d[j] = e[j]
  BY <1>1, <1>3, <1>4, <1>5, <1>8
<1>7. d = e
  BY <1>3, <1>4, <1>6, SeqEqual
<1> QED BY <1>7 DEF c, d, e

(* Nothing changes if no entry takes another name.                         *)
LEMMA MappedKept ==
    ASSUME NEW r \in [Entries -> Entries], NEW s \in Seq(Entries), \A x \in Elems(s) : r[x] = x
    PROVE  Mapped(s, r) = s
<1>1. /\ Mapped(s, r) \in Seq(Entries) /\ Len(Mapped(s, r)) = Len(s)
      /\ \A j \in 1 .. Len(s) : Mapped(s, r)[j] = r[s[j]]
  BY MappedIs
<1>2. \A j \in 1 .. Len(s) : Mapped(s, r)[j] = s[j]
  BY <1>1 DEF Elems
<1> QED BY <1>1, <1>2, SeqEqual

Instead(e, f) == [x \in Entries |-> IF x = e THEN f ELSE x]
AllMapped(L, r) == [g \in Heads |-> Mapped(L[g], r)]

(* An entry is replaced by another one.                                    *)
LEMMA Replaced ==
    ASSUME List!KernelListAssumption, NEW m, NEW L, NEW st, Rings(m, L, st),
           NEW h \in Heads \ st, NEW j \in 1 .. Len(L[h]), NEW f \in Entries \ On(L)
    PROVE  Rings(List!list_replace(m, L[h][j], f), AllMapped(L, Instead(L[h][j], f)), st)
<1> DEFINE s == L[h]
           p == Upto(s, j - 1)
           q == Onward(s, j)
           e == s[j]
           b == <<e>>
           d == <<f>>
           t == (p \o d) \o q
           n == List!list_replace(m, e, f)
<1>1. s \in Seq(Entries) /\ m \in Memory /\ Len(s) \in Nat /\ L \in [Heads -> Seq(Entries)] /\ Apart(L)
  BY LenProperties DEF Rings
<1>2. j \in j .. Len(s)
  BY <1>1
<1> HIDE DEF s
<1>3. /\ p \in Seq(Entries) /\ q \in Seq(Entries) /\ b \in Seq(Entries)
      /\ s = (p \o b) \o q
  <2> DEFINE c == Middle(s, j, j)
  <2>1. j \in 1 .. Len(s)
    BY DEF s
  <2>2. c \in Seq(Entries) /\ p \in Seq(Entries) /\ q \in Seq(Entries) /\ s = (p \o c) \o q /\ c = <<s[j]>>
    BY <1>1, <1>2, <2>1, TakenOut
  <2> QED BY <2>2
<1>4. e \in Entries /\ e \in List!Nodes /\ f \in List!Nodes /\ e \in On(L)
  <2>1. e \in Elems(s)
    BY DEF Elems, s
  <2> QED BY <1>1, <2>1, OnOne, ElementOfSeq DEF List!Nodes, s
<1> HIDE DEF p, q, e
<1>5. /\ b \in Seq(Entries) /\ b # <<>> /\ b[1] = e /\ b[Len(b)] = e /\ Elems(b) = {e} /\ b \in Seq(List!Nodes)
      /\ d \in Seq(Entries) /\ d \in Seq(List!Nodes) /\ Elems(d) = {f} /\ Distinct(d)
      /\ d[1] = f /\ Len(d) = 1
  BY <1>4, One
<1>6. Parts(L, h, p, b, q)
  BY <1>3, <1>5 DEF Parts, s
<1> HIDE DEF b, d
<1> DEFINE r == Rest(h, p, q)
<1>7. /\ r \in Seq(List!Nodes) /\ r # <<>> /\ b \in Seq(List!Nodes)
      /\ IsRing(m, r \o b) /\ Distinct(r)
      /\ Link(m, r[Len(r)], b[1]) /\ Link(m, b[Len(b)], r[1])
      /\ Elems(r) = {h} \cup Elems(p \o q) /\ Elems(r) \cap Elems(b) = {}
      /\ Elems(p \o q) \subseteq Elems(L[h]) /\ Distinct(p \o q) /\ p \o q \in Seq(Entries)
  <2>1. p \in Seq(Entries) /\ q \in Seq(Entries) /\ b \in Seq(Entries)
    BY <1>3
  <2> QED BY <1>6, <2>1, Decomposed
<1> HIDE DEF r
<1>8. r[Len(r)] \in Elems(r) /\ r[1] \in Elems(r) /\ Elems(r) \subseteq List!Nodes
  BY <1>7, Ends
<1>9. e \notin Elems(r) /\ f \notin Elems(r) /\ f # e /\ h \notin Entries
  <2>1. e \notin Elems(r)
    BY <1>5, <1>7
  <2>2. f \notin Elems(p \o q)
    BY <1>7, OnOne
  <2>3. f # h /\ h \notin Entries
    BY DEF List!KernelListAssumption
  <2> QED BY <1>4, <1>7, <2>1, <2>2, <2>3
<1>10. PICK x \in List!Nodes, y \in List!Nodes : /\ x = r[Len(r)] /\ y = r[1] /\ m[e].prev = x /\ m[e].next = y
                                                 /\ x # e /\ y # e /\ x # f /\ y # f
  BY <1>5, <1>7, <1>8, <1>9 DEF Link
<1>11. /\ n \in Memory /\ Link(n, x, f) /\ Link(n, f, y)
       /\ \A z \in List!Nodes \ {f} : /\ z # x => n[z].next = m[z].next
                                      /\ z # y => n[z].prev = m[z].prev
  <2>1. m \in Memory /\ e \in List!Nodes /\ f \in List!Nodes /\ e # f /\ (x = e <=> y = e) /\ x # e
    BY <1>1, <1>4, <1>9, <1>10
  <2>2. m[e].prev = x /\ m[e].next = y /\ x # f /\ y # f
    BY <1>10
  <2>3. n \in Memory
    BY <2>1, <2>2, MemReplace
  <2>4. Link(n, x, f) /\ Link(n, f, y)
    BY <2>1, <2>2, MemReplace
  <2>5. Elsewhere(m, n, x, y, f)
    BY <2>1, <2>2, MemReplace
  <2> QED BY <2>3, <2>4, <2>5 DEF Elsewhere
<1> HIDE DEF n
<1>12. IsRing(n, d \o r)
  <2>1. IsRing(m, b \o r)
    BY <1>7, Rotated
  <2>2. Inside(m, n, r)
    BY <1>8, <1>9, <1>10, <1>11 DEF Inside, Elems
  <2> QED BY <1>4, <1>7, <1>10, <1>11, <2>1, <2>2, RingReplaced DEF b, d
<1>13. IsRing(n, Ring(h, t))
  <2>1. IsRing(n, r \o d)
    BY <1>5, <1>7, <1>12, Rotated
  <2>2. p \in Seq(Entries) /\ q \in Seq(Entries) /\ d \in Seq(Entries)
    BY <1>3, <1>5
  <2> QED BY <2>1, <2>2, RestJoined DEF r
<1>14. t \in Seq(Entries) /\ Distinct(t) /\ Elems(t) = Elems(p \o q) \cup {f}
  <2>2. p \in Seq(Entries) /\ q \in Seq(Entries) /\ d \in Seq(Entries)
    BY <1>3, <1>5
  <2>1. /\ t \in Seq(Entries) /\ Elems(t) = Elems(p \o q) \cup Elems(d)
        /\ Distinct(t) <=> Distinct(p \o q) /\ Distinct(d) /\ Elems(p \o q) \cap Elems(d) = {}
    BY <2>2, PutTogether
  <2> QED BY <1>5, <1>7, <1>9, <2>1
<1> DEFINE i == Instead(e, f)
<1>15. i \in [Entries -> Entries] /\ i[e] = f /\ \A z \in Entries : z # e => i[z] = z
  BY <1>4 DEF Instead
<1> HIDE DEF i
<1>16. Mapped(s, i) = t
  <2> DEFINE u == p \o b
  <2>1. e \notin Elems(p) /\ e \notin Elems(q)
    BY <1>3, <1>7, <1>9, PutTogether
  <2>2. Mapped(p, i) = p /\ Mapped(q, i) = q
    <3>1. Elems(p) \subseteq Entries /\ Elems(q) \subseteq Entries
      BY <1>3, RingElems DEF List!KernelListAssumption
    <3> QED BY <1>3, <1>15, <2>1, <3>1, MappedKept
  <2>3. Mapped(b, i) = d
    <3>1. Len(b) = 1
      BY <1>4, One DEF b
    <3>2. Mapped(b, i) \in Seq(Entries) /\ Len(Mapped(b, i)) = 1 /\ Mapped(b, i)[1] = i[b[1]]
      BY <1>5, <1>15, <3>1, MappedIs
    <3>3. \A z \in 1 .. 1 : Mapped(b, i)[z] = d[z]
      BY <1>5, <1>15, <3>2
    <3> QED BY <1>5, <3>2, <3>3, SeqEqual
  <2>4. p \in Seq(Entries) /\ q \in Seq(Entries) /\ b \in Seq(Entries) /\ u \in Seq(Entries)
    BY <1>3, Joined
  <2>5. Mapped(u, i) = Mapped(p, i) \o Mapped(b, i)
    BY <1>15, <2>4, MappedJoined
  <2> HIDE DEF u
  <2>6. Mapped(u \o q, i) = Mapped(u, i) \o Mapped(q, i)
    BY <1>15, <2>4, MappedJoined
  <2>7. s = u \o q
    BY <1>3 DEF u
  <2> QED BY <2>2, <2>3, <2>5, <2>6, <2>7
<1> HIDE DEF t
<1>17. \A g \in Heads \ {h} : Mapped(L[g], i) = L[g]
  <2> SUFFICES ASSUME NEW g \in Heads \ {h} PROVE Mapped(L[g], i) = L[g]
    OBVIOUS
  <2>1. e \in Elems(L[h]) /\ L[g] \in Seq(Entries) /\ Elems(L[g]) \subseteq Entries
    BY <1>1, RingElems DEF List!KernelListAssumption, Elems, e, s
  <2>2. e \notin Elems(L[g])
    BY <1>1, <2>1 DEF Apart
  <2> QED BY <1>15, <2>1, <2>2, MappedKept
<1>18. [L EXCEPT ![h] = t] = AllMapped(L, i)
  BY <1>1, <1>16, <1>17 DEF AllMapped, s
<1>19. ASSUME NEW g \in Heads \ (st \cup {h}), NEW z \in {g} \cup Elems(L[g]) PROVE Same(m, n, z)
  <2>1. Elems(L[g]) \subseteq Entries /\ Elems(L[g]) \cap Elems(L[h]) = {} /\ f \notin Elems(L[g])
    BY <1>1, OnOne, RingElems DEF List!KernelListAssumption, Apart
  <2>2. z \in List!Nodes /\ z # f
    BY <1>9, <2>1 DEF List!Nodes, List!KernelListAssumption
  <2>5. Elems(L[h]) \subseteq Entries
    BY <1>1, RingElems DEF List!KernelListAssumption
  <2>3. z \notin Elems(L[h]) /\ z # h
    BY <2>1, <2>5 DEF List!KernelListAssumption
  <2>4. z \notin Elems(r)
    BY <1>7, <2>3
  <2> QED BY <1>8, <1>10, <1>11, <2>2, <2>4 DEF Same
<1>20. \A g \in Heads \ {h} : Elems(L[g]) \cap Elems(t) = {}
  BY <1>1, <1>7, <1>14, OnOne DEF Apart
<1>21. Rings(n, [L EXCEPT ![h] = t], st \ {h})
  BY <1>11, <1>13, <1>14, <1>19, <1>20, OneChanged DEF t
<1>22. st \ {h} = st
  OBVIOUS
<1> QED BY <1>18, <1>21, <1>22 DEF n, i, e, s

-----------------------------------------------------------------------------
(* list_bulk_move_tail takes the entries off, and puts them at the end.    *)
BulkOut(m, first, last) ==
    LET m1 == List!SetPrevNext(m, first, m[last].next)
    IN List!SetNextPrev(m1, last, m1[first].prev)
BulkIn(m, head, first, last) ==
    LET m3 == List!SetPrevNext(m, head, first)
        m4 == List!Set(m3, first, "prev", m3[head].prev)
    IN List!Set(List!Set(m4, last, "next", head), head, "prev", last)

(* list_bulk_move_tail is the one after the other.                         *)
LEMMA BulkIsBoth ==
    ASSUME NEW m, NEW head, NEW first, NEW last
    PROVE  List!list_bulk_move_tail(m, head, first, last) = BulkIn(BulkOut(m, first, last), head, first, last)
BY DEF List!list_bulk_move_tail, BulkIn, BulkOut

(* Those before and behind the entries are next to each other.             *)
LEMMA MemBulkOut ==
    ASSUME NEW m \in Memory, NEW first \in List!Nodes, NEW last \in List!Nodes, NEW x \in List!Nodes,
           NEW y \in List!Nodes,
           m[first].prev = x, m[last].next = y, x # last, y # first
    PROVE  LET n == BulkOut(m, first, last)
           IN  n \in Memory /\ Bridged(m, n, x, y)
<1> DEFINE m1 == List!Set(m, x, "next", y)
           m2 == List!Set(m1, y, "prev", x)
<1>1. m1 \in Memory
      /\ \A z \in List!Nodes : m1[z].next = (IF z = x THEN y ELSE m[z].next) /\ m1[z].prev = m[z].prev
  BY NodesPoint, SetNext
<1>2. BulkOut(m, first, last) = List!SetNextPrev(m1, last, m1[first].prev)
  BY DEF BulkOut, List!SetPrevNext
<1> HIDE DEF m1
<1>3. m1[first].prev = x /\ m1[last].next = y
  BY <1>1
<1>4. m2 \in Memory
      /\ \A z \in List!Nodes : m2[z].prev = (IF z = y THEN x ELSE m1[z].prev) /\ m2[z].next = m1[z].next
  BY <1>1, NodesPoint, SetPrev
<1>5. BulkOut(m, first, last) = m2
  BY <1>2, <1>3 DEF List!SetNextPrev
<1> HIDE DEF m2
<1> QED BY <1>1, <1>4, <1>5 DEF Bridged

(* The entries have come between the last one and the head.                *)
LEMMA MemBulkIn ==
    ASSUME NEW m \in Memory, NEW head \in List!Nodes, NEW first \in List!Nodes, NEW last \in List!Nodes,
           NEW v \in List!Nodes, m[head].prev = v, v # last, head # first
    PROVE  LET n == BulkIn(m, head, first, last)
           IN  n \in Memory /\ Between(m, n, v, head, first, last)
<1> DEFINE m1 == List!Set(m, v, "next", first)
           m2 == List!Set(m1, first, "prev", v)
           m3 == List!Set(m2, last, "next", head)
           m4 == List!Set(m3, head, "prev", last)
<1>1. m1 \in Memory
      /\ \A z \in List!Nodes : m1[z].next = (IF z = v THEN first ELSE m[z].next) /\ m1[z].prev = m[z].prev
  BY NodesPoint, SetNext
<1>2. BulkIn(m, head, first, last)
          = List!Set(List!Set(List!Set(m1, first, "prev", m1[head].prev), last, "next", head), head, "prev", last)
  BY DEF BulkIn, List!SetPrevNext
<1> HIDE DEF m1
<1>3. BulkIn(m, head, first, last) = m4
  BY <1>1, <1>2
<1>4. m2 \in Memory
      /\ \A z \in List!Nodes : m2[z].prev = (IF z = first THEN v ELSE m1[z].prev) /\ m2[z].next = m1[z].next
  BY <1>1, NodesPoint, SetPrev
<1> HIDE DEF m2
<1>5. m3 \in Memory
      /\ \A z \in List!Nodes : m3[z].next = (IF z = last THEN head ELSE m2[z].next) /\ m3[z].prev = m2[z].prev
  BY <1>4, NodesPoint, SetNext
<1> HIDE DEF m3
<1>6. m4 \in Memory
      /\ \A z \in List!Nodes : m4[z].prev = (IF z = head THEN last ELSE m3[z].prev) /\ m4[z].next = m3[z].next
  BY <1>5, NodesPoint, SetPrev
<1> HIDE DEF m4
<1> QED BY <1>1, <1>3, <1>4, <1>5, <1>6 DEF Between

(* Entries j to k of a list come to its end.                               *)
AtEnd(L, h, j, k) == [L EXCEPT ![h] = (Upto(L[h], j - 1) \o Onward(L[h], k)) \o Middle(L[h], j, k)]

(* list_bulk_move_tail                                                     *)
LEMMA BulkMoved ==
    ASSUME List!KernelListAssumption, NEW m, NEW L, NEW st, Rings(m, L, st), NEW h \in Heads \ st,
           NEW j \in 1 .. Len(L[h]), NEW k \in j .. Len(L[h])
    PROVE  Rings(List!list_bulk_move_tail(m, h, L[h][j], L[h][k]), AtEnd(L, h, j, k), st)
<1> DEFINE w == L[h]
           p == Upto(w, j - 1)
           b == Middle(w, j, k)
           q == Onward(w, k)
           s == p \o q
           M == [L EXCEPT ![h] = s]
           n == BulkOut(m, b[1], b[Len(b)])
           o == BulkIn(n, h, b[1], b[Len(b)])
<1>1. m \in Memory /\ L \in [Heads -> Seq(Entries)] /\ L[h] \in Seq(Entries) /\ h \in Heads
      /\ h \in List!Nodes /\ Apart(L)
  BY DEF Rings, List!Nodes
<1>2. /\ p \in Seq(Entries) /\ b \in Seq(Entries) /\ q \in Seq(Entries)
      /\ b # <<>> /\ b[1] = L[h][j] /\ b[Len(b)] = L[h][k] /\ L[h] = (p \o b) \o q
  <2>1. w \in Seq(Entries) /\ j \in 1 .. Len(w) /\ k \in j .. Len(w)
    BY <1>1
  <2> HIDE DEF w
  <2>2. p \in Seq(Entries) /\ b \in Seq(Entries) /\ q \in Seq(Entries)
    BY <2>1, TakenOut
  <2>3. b # <<>> /\ b[1] = w[j] /\ b[Len(b)] = w[k]
    BY <2>1, TakenOut
  <2>4. w = (p \o b) \o q
    BY <2>1, ThreeParts
  <2> QED BY <2>2, <2>3, <2>4 DEF w
<1> HIDE DEF w, p, b, q
<1>3. Parts(L, h, p, b, q) /\ b[1] \in List!Nodes /\ b[Len(b)] \in List!Nodes
      /\ b[1] \in Elems(b) /\ b[Len(b)] \in Elems(b)
  BY <1>2, Ends DEF Parts, List!Nodes
<1>4. p \in Seq(Entries) /\ b \in Seq(Entries) /\ q \in Seq(Entries)
  BY <1>2
<1> DEFINE r == Rest(h, p, q)
<1>5. /\ r \in Seq(List!Nodes) /\ r # <<>>
      /\ Distinct(r \o b) /\ b \in Seq(List!Nodes)
      /\ Link(m, r[Len(r)], b[1]) /\ Link(m, b[Len(b)], r[1])
      /\ Elems(r) = {h} \cup Elems(p \o q) /\ Elems(r) \cap Elems(b) = {}
      /\ Elems(b) \subseteq Entries /\ Elems(b) \subseteq Elems(L[h])
      /\ Elems(p \o q) \subseteq Elems(L[h]) /\ p \o q \in Seq(Entries)
  BY <1>3, <1>4, Decomposed
<1> HIDE DEF r, s
<1>6. r[Len(r)] \in Elems(r) /\ r[1] \in Elems(r) /\ Elems(r) \subseteq List!Nodes
  BY <1>5, Ends
<1>7. PICK x \in List!Nodes, y \in List!Nodes : /\ x = r[Len(r)] /\ y = r[1] /\ m[b[1]].prev = x /\ m[b[Len(b)]].next = y
                                                /\ x \notin Elems(b) /\ y \notin Elems(b)
  BY <1>5, <1>6 DEF Link
<1>8. n \in Memory /\ Bridged(m, n, x, y)
  BY <1>1, <1>3, <1>7, MemBulkOut
<1> HIDE DEF n
<1>9. Rings(n, M, st) /\ Seg(n, b)
  <2>1. Link(n, m[b[1]].prev, m[b[Len(b)]].next)
    BY <1>7, <1>8 DEF Link, Bridged
  <2>2. Used(L, st) \subseteq List!Nodes
    <3>1. \A g \in Heads : Elems(L[g]) \subseteq Entries
      BY RingElems DEF Rings, List!KernelListAssumption
    <3> QED BY <3>1 DEF Used, On, List!Nodes
  <2>3. Around(m, n, L, st, b)
    BY <1>7, <1>8, <2>2 DEF Around, Bridged
  <2>4. Inside(m, n, b)
    <3>1. Elems(b) \subseteq List!Nodes
      BY <1>5 DEF List!Nodes
    <3> QED BY <1>7, <1>8, <3>1 DEF Inside, Elems, Bridged
  <2> QED BY <1>3, <1>4, <1>8, <2>1, <2>3, <2>4, Taken DEF s
<1>10. M[h] = s /\ s \in Seq(Entries) /\ Len(s) \in Nat /\ Len(s) \in 0 .. Len(s)
  BY <1>1, <1>5, LenProperties DEF s
<1>11. Elems(b) \cap On(M) = {}
  <2> SUFFICES ASSUME NEW z \in Elems(b), NEW g \in Heads, z \in Elems(M[g]) PROVE FALSE
    BY DEF On
  <2>1. CASE g = h
    BY <1>5, <1>10, <2>1 DEF s
  <2>2. CASE g # h
    <3>1. M[g] = L[g]
      BY <1>1, <2>2
    <3> QED BY <1>1, <1>5, <2>2, <3>1 DEF Apart
  <2> QED BY <2>1, <2>2
<1> HIDE DEF M
<1> DEFINE c == Len(s)
           v == Before(M, h, c)
<1>12. c \in 0 .. Len(M[h])
  BY <1>10
<1>13. v \in {h} \cup Elems(s) /\ n[h].prev = v /\ Behind(M, h, c) = h
  <2>1. Behind(M, h, c) = h
    BY <1>10, RingTyped DEF Behind
  <2>2. LET t == Opened(M, h, c)
        IN  Elems(t) = {h} \cup Elems(M[h]) /\ Before(M, h, c) \in Elems(t) /\ n[Behind(M, h, c)].prev = Before(M, h, c)
    BY <1>9, <1>12, OpenedRing
  <2> QED BY <1>10, <2>1, <2>2
<1>14. v \in List!Nodes /\ v \notin Elems(b) /\ h \notin Elems(b)
  BY <1>1, <1>5, <1>6, <1>13 DEF s
<1> HIDE DEF c, v
<1>15. o \in Memory /\ Between(n, o, v, h, b[1], b[Len(b)])
  <2>1. n \in Memory /\ h \in List!Nodes /\ b[1] \in List!Nodes /\ b[Len(b)] \in List!Nodes
        /\ v # b[Len(b)] /\ h # b[1]
    BY <1>1, <1>3, <1>8, <1>14
  <2> QED BY <1>13, <1>14, <2>1, MemBulkIn
<1> HIDE DEF o
<1>16. Rings(o, List!Promised!PutIn(M, h, c, b), st)
  <2>1. Between(n, o, Before(M, h, c), Behind(M, h, c), b[1], b[Len(b)])
    BY <1>13, <1>15 DEF v
  <2>2. Distinct(b)
    BY <1>5, JoinedElems
  <2> QED BY <1>2, <1>9, <1>11, <1>12, <1>15, <2>1, <2>2, Placed
<1>17. List!Promised!PutIn(M, h, c, b) = AtEnd(L, h, j, k)
  <2>1. SubSeq(M[h], 1, c) = s /\ SubSeq(M[h], c + 1, Len(M[h])) = <<>>
    BY <1>10, SubSeqFull, SubSeqEmpty DEF c
  <2>2. s \o b \in Seq(Entries)
    BY <1>2, <1>10, Joined
  <2>3. (s \o b) \o <<>> = s \o b
    BY <2>2, ConcatEmptySeq
  <2>4. List!Promised!PutIn(M, h, c, b) = [M EXCEPT ![h] = s \o b]
    BY <2>1, <2>3 DEF List!Promised!PutIn
  <2> QED BY <1>1, <2>4 DEF AtEnd, M, s, p, b, q, w
<1> QED BY <1>2, <1>16, <1>17, BulkIsBoth DEF n, o

(* Every place is somewhere on a list that is not stale.                   *)
LEMMA PlaceFound ==
    ASSUME List!KernelListAssumption, NEW m, NEW L, NEW st, Rings(m, L, st), NEW x \in Used(L, st)
    PROVE  /\ \E h \in Heads \ st : \E k \in 0 .. Len(L[h]) : x = Before(L, h, k)
           /\ \E h \in Heads \ st : \E k \in 0 .. Len(L[h]) : x = Behind(L, h, k)
<1>1. L \in [Heads -> Seq(Entries)] /\ \A g \in st : L[g] = <<>>
  BY DEF Rings
<1>2. CASE x \in Heads \ st
  <2>1. L[x] \in Seq(Entries) /\ x \in Heads
    BY <1>1, <1>2
  <2>2. Len(L[x]) \in Nat /\ Ring(x, L[x])[1] = x /\ (L[x] \o <<x>>)[Len(L[x]) + 1] = x
    BY <2>1, RingTyped
  <2>3. 0 \in 0 .. Len(L[x]) /\ Len(L[x]) \in 0 .. Len(L[x]) /\ 0 + 1 = 1
    BY <2>2
  <2>4. x = Before(L, x, 0)
    BY <2>2, <2>3 DEF Before, Ring
  <2>5. x = Behind(L, x, Len(L[x]))
    BY <2>2 DEF Behind
  <2> QED BY <1>2, <2>3, <2>4, <2>5
<1>3. CASE x \in On(L)
  <2>1. PICK h \in Heads : \E j \in 1 .. Len(L[h]) : x = L[h][j]
    BY <1>3, OnOne
  <2>2. PICK j \in 1 .. Len(L[h]) : x = L[h][j]
    BY <2>1
  <2>3. L[h] \in Seq(Entries) /\ h \in Heads \ st
    <3>1. Len(L[h]) # 0
      BY <2>2
    <3>2. L[h] # <<>>
      BY <3>1
    <3> QED BY <1>1, <3>2
  <2>4. /\ Len(L[h]) \in Nat /\ Ring(h, L[h])[j + 1] = L[h][j] /\ (L[h] \o <<h>>)[j] = L[h][j]
    BY <2>3, RingTyped
  <2> DEFINE i == j - 1
  <2>5. i \in 0 .. Len(L[h]) /\ j \in 0 .. Len(L[h]) /\ i + 1 = j
    BY <2>4
  <2> HIDE DEF i
  <2>6. x = Before(L, h, j)
    BY <2>2, <2>4 DEF Before, Ring
  <2>7. x = Behind(L, h, i)
    BY <2>2, <2>4, <2>5 DEF Behind
  <2> QED BY <2>3, <2>5, <2>6, <2>7
<1> QED BY <1>2, <1>3 DEF Used

(* s has come behind, or before, a place x of the lists L: they are M.     *)
BehindIn(L, M, x, s) == \E h \in Heads : \E k \in 0 .. Len(L[h]) :
    x = (<<h>> \o L[h])[k + 1] /\ M = List!Promised!PutIn(L, h, k, s)
BeforeIn(L, M, x, s) == \E h \in Heads : \E k \in 0 .. Len(L[h]) :
    x = (L[h] \o <<h>>)[k + 1] /\ M = List!Promised!PutIn(L, h, k, s)

(* list_add, list_add_tail                                                 *)
LEMMA Added ==
    ASSUME List!KernelListAssumption, NEW m, NEW L, NEW st, Rings(m, L, st),
           NEW e \in Entries \ On(L), NEW x \in Used(L, st)
    PROVE  \E M : Rings(List!list_add(m, e, x), M, st) /\ BehindIn(L, M, x, <<e>>)
<1>0. PICK h \in Heads \ st : \E k \in 0 .. Len(L[h]) : x = Before(L, h, k)
  BY PlaceFound
<1>1. PICK k \in 0 .. Len(L[h]) : x = Before(L, h, k)
  BY <1>0
<1>2. m[x].next = Behind(L, h, k)
  <2>1. m[Before(L, h, k)].next = Behind(L, h, k)
    BY OpenedRing
  <2> QED BY <1>1, <2>1
<1> DEFINE M == List!Promised!PutIn(L, h, k, <<e>>)
<1>3. Rings(List!insert(m, e, Before(L, h, k), Behind(L, h, k)), M, st)
  BY InsertPlaced
<1>4. BehindIn(L, M, x, <<e>>)
  BY <1>1 DEF BehindIn, Before
<1> HIDE DEF M
<1>5. List!list_add(m, e, x) = List!insert(m, e, Before(L, h, k), Behind(L, h, k))
  BY <1>1, <1>2 DEF List!list_add
<1> QED BY <1>3, <1>4, <1>5

(* The same before a place.                                                *)
LEMMA AddedTail ==
    ASSUME List!KernelListAssumption, NEW m, NEW L, NEW st, Rings(m, L, st),
           NEW e \in Entries \ On(L), NEW x \in Used(L, st)
    PROVE  \E M : Rings(List!list_add_tail(m, e, x), M, st) /\ BeforeIn(L, M, x, <<e>>)
<1>0. PICK h \in Heads \ st : \E k \in 0 .. Len(L[h]) : x = Behind(L, h, k)
  BY PlaceFound
<1>1. PICK k \in 0 .. Len(L[h]) : x = Behind(L, h, k)
  BY <1>0
<1>2. m[x].prev = Before(L, h, k)
  <2>1. m[Behind(L, h, k)].prev = Before(L, h, k)
    BY OpenedRing
  <2> QED BY <1>1, <2>1
<1> DEFINE M == List!Promised!PutIn(L, h, k, <<e>>)
<1>3. Rings(List!insert(m, e, Before(L, h, k), Behind(L, h, k)), M, st)
  BY InsertPlaced
<1>4. BeforeIn(L, M, x, <<e>>)
  BY <1>1 DEF BeforeIn, Behind
<1> HIDE DEF M
<1>5. List!list_add_tail(m, e, x) = List!insert(m, e, Before(L, h, k), Behind(L, h, k))
  BY <1>1, <1>2 DEF List!list_add_tail
<1> QED BY <1>3, <1>4, <1>5

(* What is left on the lists without an entry.                             *)
LEMMA OnWithout ==
    ASSUME NEW m, NEW L, NEW st, Rings(m, L, st), NEW h \in Heads, NEW j \in 1 .. Len(L[h])
    PROVE  On(Without(L, h, j)) = On(L) \ {L[h][j]}
<1> DEFINE s == L[h]
           p == Upto(s, j - 1)
           b == Middle(s, j, j)
           q == Onward(s, j)
           M == Without(L, h, j)
           e == s[j]
<1>1. L \in [Heads -> Seq(Entries)] /\ s \in Seq(Entries) /\ Distinct(s) /\ Apart(L) /\ j \in 1 .. Len(s)
  BY DEF Rings, Apart
<1>2. M[h] = p \o q /\ \A g \in Heads \ {h} : M[g] = L[g]
  BY <1>1 DEF Without, Upto, Onward
<1> HIDE DEF s
<1>3. j \in j .. Len(s)
  BY <1>1, LenProperties
<1>4. p \in Seq(Entries) /\ b \in Seq(Entries) /\ q \in Seq(Entries) /\ b = <<e>> /\ e \in Entries
  BY <1>1, <1>3, TakenOut, ElementOfSeq
<1>5. s = (p \o b) \o q
  BY <1>1, <1>3, ThreeParts
<1>6. Elems(b) = {e}
  BY <1>4, One
<1> HIDE DEF p, b, q, e, M
<1>7. /\ Elems((p \o b) \o q) = Elems(p \o q) \cup Elems(b)
      /\ Distinct((p \o b) \o q) => Elems(p \o q) \cap Elems(b) = {}
  <2>1. p \in Seq(Entries) /\ b \in Seq(Entries) /\ q \in Seq(Entries)
    BY <1>4
  <2> QED BY <2>1, PutTogether
<1>8. Elems(M[h]) = Elems(s) \ {e} /\ e \in Elems(s)
  BY <1>1, <1>2, <1>5, <1>6, <1>7
<1>9. \A g \in Heads \ {h} : e \notin Elems(L[g])
  BY <1>1, <1>8 DEF Apart, s
<1>10. \A g \in Heads : Elems(M[g]) = Elems(L[g]) \ {e}
  BY <1>2, <1>8, <1>9 DEF s
<1>11. On(M) = On(L) \ {e}
  <2>1. \A z : z \in On(M) <=> \E g \in Heads : z \in Elems(M[g])
    BY DEF On
  <2>2. \A z : z \in On(L) <=> \E g \in Heads : z \in Elems(L[g])
    BY DEF On
  <2>3. \A z : z \in On(M) <=> z \in On(L) /\ z # e
    BY <1>10, <2>1, <2>2
  <2> QED BY <2>3
<1> QED BY <1>11 DEF M, e, s

(* list_move, list_move_tail                                               *)
LEMMA Moved ==
    ASSUME List!KernelListAssumption, NEW m, NEW L, NEW st, Rings(m, L, st),
           NEW h \in Heads \ st, NEW j \in 1 .. Len(L[h]), NEW x \in Used(L, st) \ {L[h][j]}
    PROVE  /\ \E M : /\ Rings(List!list_move(m, L[h][j], x), M, st)
                     /\ BehindIn(Without(L, h, j), M, x, <<L[h][j]>>)
           /\ \E M : /\ Rings(List!list_move_tail(m, L[h][j], x), M, st)
                     /\ BeforeIn(Without(L, h, j), M, x, <<L[h][j]>>)
<1> DEFINE e == L[h][j]
           n == List!unlink(m, e)
           W == Without(L, h, j)
<1>0. Rings(n, W, st)
  BY Unlinked1
<1>1. Rings(n, W, st) /\ h \in Heads /\ L[h] \in Seq(Entries)
  BY <1>0 DEF Rings
<1>2. On(W) = On(L) \ {e} /\ e \in Entries
  BY <1>1, OnWithout, ElementOfSeq
<1> HIDE DEF W, n
<1>3. x \in Used(W, st) /\ e \in Entries \ On(W)
  BY <1>2 DEF Used
<1> HIDE DEF e
<1>4. \E M : Rings(List!list_add(n, e, x), M, st) /\ BehindIn(W, M, x, <<e>>)
  BY <1>1, <1>3, Added
<1>5. \E M : Rings(List!list_add_tail(n, e, x), M, st) /\ BeforeIn(W, M, x, <<e>>)
  BY <1>1, <1>3, AddedTail
<1> QED BY <1>4, <1>5 DEF List!list_move, List!list_move_tail, n, e, W

(* list_del, list_del_init: what the entry points to is nothing to a list. *)
LEMMA Deleted ==
    ASSUME List!KernelListAssumption, NEW m, NEW L, NEW st, Rings(m, L, st),
           NEW h \in Heads \ st, NEW j \in 1 .. Len(L[h])
    PROVE  /\ Rings(List!list_del(m, L[h][j]), Without(L, h, j), st)
           /\ Rings(List!list_del_init(m, L[h][j]), Without(L, h, j), st)
<1> DEFINE e == L[h][j]
           n == List!unlink(m, e)
           W == Without(L, h, j)
<1>0. Rings(n, W, st)
  BY Unlinked1
<1>1. Rings(n, W, st) /\ h \in Heads /\ L[h] \in Seq(Entries)
  BY <1>0 DEF Rings
<1>2. On(W) = On(L) \ {e} /\ e \in Entries
  BY <1>1, OnWithout, ElementOfSeq
<1> HIDE DEF W, n
<1>3. e \notin On(W) /\ e \in Entries /\ e \in List!Nodes /\ n \in Memory
  BY <1>1, <1>2 DEF List!Nodes, Rings
<1>4. List!list_del(m, e) = [n EXCEPT ![e] = [next |-> POISON, prev |-> POISON]]
  BY DEF List!list_del, n
<1>5. List!list_del_init(m, e) = List!INIT_LIST_HEAD(n, e)
  BY DEF List!list_del_init, n
<1> HIDE DEF e
<1>6. List!list_del(m, e) \in Memory /\ \A z \in List!Nodes \ {e} : Same(n, List!list_del(m, e), z)
  BY <1>3, <1>4 DEF Memory, Pointers, Same
<1>7. List!INIT_LIST_HEAD(n, e) \in Memory /\ \A z \in List!Nodes \ {e} : Same(n, List!INIT_LIST_HEAD(n, e), z)
  BY <1>3, MemInit
<1>8. Rings(List!list_del(m, e), W, st)
  BY <1>1, <1>3, <1>6, OffLists
<1>9. Rings(List!INIT_LIST_HEAD(n, e), W, st)
  BY <1>1, <1>3, <1>7, OffLists
<1> QED BY <1>5, <1>8, <1>9 DEF e, W

(* list_del_init of an entry that is initialised.                          *)
LEMMA DeletedAgain ==
    ASSUME List!KernelListAssumption, NEW m, NEW L, NEW st, Rings(m, L, st),
           NEW e \in Entries \ On(L), m[e].next = e, m[e].prev = e
    PROVE  Rings(List!list_del_init(m, e), L, st)
<1> DEFINE n == List!unlink(m, e)
           o == List!INIT_LIST_HEAD(n, e)
<1>1. m \in Memory /\ e \in List!Nodes
  BY DEF Rings, List!Nodes
<1>2. n \in Memory /\ Bridged(m, n, e, e)
  BY <1>1, MemUnlink
<1> HIDE DEF n
<1>3. o \in Memory /\ \A z \in List!Nodes \ {e} : Same(n, o, z)
  BY <1>1, <1>2, MemInit
<1> HIDE DEF o
<1>4. \A z \in List!Nodes \ {e} : Same(m, o, z)
  BY <1>2, <1>3 DEF Bridged, Same
<1>5. Rings(o, L, st)
  BY <1>3, <1>4, OffLists
<1> QED BY <1>5 DEF List!list_del_init, o, n

(* list_replace_init of an entry: nothing is called by its name any more.  *)
LEMMA ReplacedInit ==
    ASSUME List!KernelListAssumption, NEW m, NEW L, NEW st, Rings(m, L, st),
           NEW h \in Heads \ st, NEW j \in 1 .. Len(L[h]), NEW f \in Entries \ On(L)
    PROVE  /\ Rings(List!list_replace_init(m, L[h][j], f), AllMapped(L, Instead(L[h][j], f)), st)
           /\ L[h][j] \notin On(AllMapped(L, Instead(L[h][j], f)))
<1> DEFINE e == L[h][j]
           i == Instead(e, f)
           M == AllMapped(L, i)
           n == List!list_replace(m, e, f)
           o == List!INIT_LIST_HEAD(n, e)
<1>1. Rings(n, M, st) /\ L \in [Heads -> Seq(Entries)] /\ h \in Heads
  <2>1. L \in [Heads -> Seq(Entries)]
    BY DEF Rings
  <2>2. Rings(n, M, st)
    BY Replaced
  <2> QED BY <2>1, <2>2
<1>2. e \in Entries /\ e \in List!Nodes /\ e # f
  <2>1. e \in On(L)
    BY <1>1, OnOne DEF Elems
  <2> QED BY <1>1, <2>1, ElementOfSeq DEF List!Nodes
<1> HIDE DEF e
<1>3. i \in [Entries -> Entries] /\ \A x \in Entries : i[x] # e
  BY <1>2 DEF Instead
<1> HIDE DEF i
<1>4. e \notin On(M)
  <2> SUFFICES ASSUME e \in On(M) PROVE FALSE
    OBVIOUS
  <2>1. PICK g \in Heads : \E k \in 1 .. Len(M[g]) : e = M[g][k]
    BY OnOne
  <2>2. M[g] = Mapped(L[g], i) /\ L[g] \in Seq(Entries)
    BY <1>1 DEF AllMapped
  <2> HIDE DEF M
  <2>3. \A k \in 1 .. Len(M[g]) : L[g][k] \in Entries /\ M[g][k] = i[L[g][k]]
    BY <1>3, <2>2, MappedIs, ElementOfSeq
  <2> QED BY <1>3, <2>1, <2>3
<1> HIDE DEF n, M
<1>5. n \in Memory
  BY <1>1 DEF Rings
<1>6. o \in Memory /\ \A z \in List!Nodes \ {e} : Same(n, o, z)
  BY <1>2, <1>5, MemInit
<1> HIDE DEF o
<1>7. Rings(o, M, st)
  BY <1>1, <1>2, <1>4, <1>6, OffLists
<1> QED BY <1>4, <1>7 DEF List!list_replace_init, o, n, M, i, e

(* What was put together is taken apart again.                             *)
LEMMA JoinedApart ==
    ASSUME NEW S, NEW a \in Seq(S), NEW b \in Seq(S)
    PROVE  Upto(a \o b, Len(a)) = a /\ Onward(a \o b, Len(a)) = b
<1> DEFINE s == a \o b
           c == Len(a)
           u == Upto(s, c)
           v == Onward(s, c)
<1>1. /\ s \in Seq(S) /\ Len(s) = Len(a) + Len(b) /\ Len(a) \in Nat /\ Len(b) \in Nat
      /\ \A j \in 1 .. Len(a) : s[j] = a[j]
      /\ \A j \in 1 .. Len(b) : s[c + j] = b[j]
  BY Joined
<1> HIDE DEF s
<1>2. c \in 0 .. Len(s) /\ Len(s) - c = Len(b)
  BY <1>1
<1>3. /\ u \in Seq(S) /\ v \in Seq(S) /\ Len(u) = c /\ Len(v) = Len(s) - c
      /\ \A j \in 1 .. c : u[j] = s[j]
      /\ \A j \in 1 .. Len(s) - c : v[j] = s[c + j]
  BY <1>1, <1>2, TakenApart
<1> HIDE DEF u, v
<1>4. u = a
  <2>1. Len(u) = Len(a) /\ \A j \in 1 .. Len(u) : u[j] = a[j]
    BY <1>1, <1>3
  <2> QED BY <1>3, <2>1, SeqEqual
<1>5. v = b
  <2>1. Len(v) = Len(b) /\ \A j \in 1 .. Len(v) : v[j] = b[j]
    BY <1>1, <1>2, <1>3
  <2> QED BY <1>3, <2>1, SeqEqual
<1> QED BY <1>4, <1>5 DEF u, v, s, c

(* Three parts are renamed one by one.                                     *)
LEMMA MappedThird ==
    ASSUME NEW r \in [Entries -> Entries], NEW p \in Seq(Entries), NEW q \in Seq(Entries), NEW e \in Entries
    PROVE  Mapped((p \o <<e>>) \o q, r) = (Mapped(p, r) \o <<r[e]>>) \o Mapped(q, r)
<1> DEFINE b == <<e>>
           u == p \o b
<1>1. b \in Seq(Entries) /\ Len(b) = 1 /\ b[1] = e
  BY One
<1> HIDE DEF b
<1>2. u \in Seq(Entries)
  BY <1>1, Joined
<1>3. Mapped(u, r) = Mapped(p, r) \o Mapped(b, r)
  BY <1>1, MappedJoined
<1> HIDE DEF u
<1>4. Mapped(u \o q, r) = Mapped(u, r) \o Mapped(q, r)
  BY <1>2, MappedJoined
<1>5. Mapped(b, r) = <<r[e]>>
  BY <1>1 DEF Mapped
<1> QED BY <1>3, <1>4, <1>5 DEF u, b

(* Names that agree on the entries rename alike.                           *)
LEMMA MappedAlike ==
    ASSUME NEW r, NEW i, NEW s, \A x \in Elems(s) : r[x] = i[x]
    PROVE  Mapped(s, r) = Mapped(s, i)
BY DEF Mapped, Elems

(* list_swap                                                               *)
Exchanged(e, f) == [x \in Entries |-> CASE x = e -> f [] x = f -> e [] OTHER -> x]

(* Entries of one list or of two, neighbours or not.                       *)
LEMMA Swapped ==
    ASSUME List!KernelListAssumption, NEW m, NEW L, NEW st, Rings(m, L, st),
           NEW g \in Heads \ st, NEW i \in 1 .. Len(L[g]), NEW e \in On(L), e # L[g][i]
    PROVE  Rings(List!list_swap(m, e, L[g][i]), AllMapped(L, Exchanged(e, L[g][i])), st)
<1> DEFINE s == L[g]
           f == s[i]
           k == i - 1
           p == Upto(s, k)
           q == Onward(s, i)
           b == <<f>>
           u == Instead(e, f)
           v == Exchanged(e, f)
           m1 == List!list_del(m, f)
           L1 == Without(L, g, i)
           m2 == List!list_replace(m1, e, f)
           L2 == AllMapped(L1, u)
           x == Before(L2, g, k)
<1>1. L \in [Heads -> Seq(Entries)] /\ Apart(L) /\ s \in Seq(Entries) /\ i \in 1 .. Len(s) /\ g \in Heads
  BY DEF Rings
<1>2. Rings(m1, L1, st)
  BY Deleted
<1>3. On(L1) = On(L) \ {f}
  BY OnWithout
<1>4. e \in Entries /\ f \in Entries /\ e # f /\ f \in Entries \ On(L1)
  <2>1. \A h \in Heads : Elems(L[h]) \subseteq Entries
    BY <1>1, RingElems DEF List!KernelListAssumption
  <2>2. f \in Entries
    BY <1>1, ElementOfSeq
  <2> QED BY <1>3, <2>1, <2>2 DEF On
<1>5. L1[g] = p \o q /\ \A h \in Heads \ {g} : L1[h] = L[h]
  BY <1>1 DEF Without, Upto, Onward
<1> HIDE DEF s
<1>17. i \in i .. Len(s) /\ k \in 0 .. Len(s) /\ Len(s) \in Nat /\ k \in Nat /\ k + 1 = i
  BY <1>1, LenProperties
<1> HIDE DEF k
<1>6. /\ p \in Seq(Entries) /\ q \in Seq(Entries) /\ Len(p) = k /\ s = (p \o b) \o q
      /\ k \in Nat /\ k + 1 = i /\ Len(s) \in Nat /\ k \in 0 .. Len(s)
      /\ \A j \in 1 .. k : p[j] = s[j]
  <2>1. p \in Seq(Entries) /\ Len(p) = k /\ \A j \in 1 .. k : p[j] = s[j]
    BY <1>1, <1>17, TakenApart
  <2>2. q \in Seq(Entries) /\ Middle(s, i, i) = b
    BY <1>1, <1>17, TakenOut
  <2>3. s = (Upto(s, i - 1) \o Middle(s, i, i)) \o q
    BY <1>1, <1>17, ThreeParts
  <2> QED BY <1>17, <2>1, <2>2, <2>3 DEF k
<1> HIDE DEF f
<1>7. f \notin Elems(p) /\ f \notin Elems(q) /\ \A h \in Heads \ {g} : f \notin Elems(L[h])
  <2>1. Elems(L1[g]) \subseteq On(L1) /\ \A h \in Heads \ {g} : Elems(L[h]) \subseteq On(L1)
    BY <1>1, <1>5, OnOne
  <2>2. Elems(p \o q) = Elems(p) \cup Elems(q)
    BY <1>6, JoinedElems
  <2> QED BY <1>4, <1>5, <2>1, <2>2
<1>8. u \in [Entries -> Entries] /\ v \in [Entries -> Entries] /\ v[f] = e /\ u[e] = f
      /\ \A z \in Entries : (z # f => u[z] = v[z]) /\ (z # e => u[z] = z)
  BY <1>4 DEF Instead, Exchanged
<1> HIDE DEF p, q, u, v, L1, m1
<1>9. Rings(m2, L2, st) /\ e \in Entries \ On(L2)
  <2>1. e \in On(L1)
    BY <1>3, <1>4
  <2>2. PICK h \in Heads : \E j \in 1 .. Len(L1[h]) : e = L1[h][j]
    BY <2>1, OnOne
  <2>3. PICK j \in 1 .. Len(L1[h]) : e = L1[h][j]
    BY <2>2
  <2>4. h \in Heads \ st
    <3>1. L1[h] # <<>>
      BY <2>3
    <3> QED BY <1>2, <3>1 DEF Rings
  <2>5. Rings(List!list_replace(m1, L1[h][j], f), AllMapped(L1, Instead(L1[h][j], f)), st)
    BY <1>2, <1>4, <2>4, Replaced
  <2>6. L1[h][j] \notin On(AllMapped(L1, Instead(L1[h][j], f)))
    BY <1>2, <1>4, <2>4, ReplacedInit
  <2> QED BY <1>4, <2>3, <2>5, <2>6 DEF u
<1> DEFINE pu == Mapped(p, u)
           qu == Mapped(q, u)
<1>10. L2[g] = pu \o qu /\ \A h \in Heads \ {g} : L2[h] = Mapped(L[h], u)
  <2>1. L2[g] = Mapped(p \o q, u) /\ \A h \in Heads \ {g} : L2[h] = Mapped(L[h], u)
    BY <1>1, <1>5 DEF AllMapped
  <2>2. Mapped(p \o q, u) = Mapped(p, u) \o Mapped(q, u)
    BY <1>6, <1>8, MappedJoined
  <2> QED BY <2>1, <2>2
<1> HIDE DEF L2
<1>11. /\ pu \in Seq(Entries) /\ qu \in Seq(Entries) /\ Len(pu) = k /\ k \in 0 .. Len(L2[g])
       /\ \A j \in 1 .. k : pu[j] = u[p[j]]
  <2>1. pu \in Seq(Entries) /\ qu \in Seq(Entries) /\ Len(pu) = k /\ \A j \in 1 .. k : pu[j] = u[p[j]]
    BY <1>6, <1>8, MappedIs
  <2> HIDE DEF pu, qu
  <2>2. Len(pu \o qu) = Len(pu) + Len(qu) /\ Len(qu) \in Nat
    BY <2>1, Joined
  <2> QED BY <1>6, <1>10, <2>1, <2>2
<1> HIDE DEF pu, qu
<1>12. x = IF m[f].prev = e THEN f ELSE m[f].prev
  <2>1. m[f].prev = Before(L, g, k)
    <3>1. k \in 0 .. Len(L[g])
      BY <1>6 DEF s
    <3>2. m[Behind(L, g, k)].prev = Before(L, g, k)
      BY <1>1, <3>1, OpenedRing
    <3>3. (s \o <<g>>)[i] = s[i]
      BY <1>1, RingTyped
    <3>4. Behind(L, g, k) = f
      BY <1>6, <3>3 DEF Behind, s, f
    <3> QED BY <3>2, <3>4
  <2>2. CASE k = 0
    <3>1. k + 1 = 1
      BY <2>2
    <3>2. Ring(g, L[g])[1] = g /\ Ring(g, L2[g])[1] = g
      <4>1. L2[g] \in Seq(Entries)
        BY <1>1, <1>9 DEF Rings
      <4> QED BY <1>1, <4>1, RingTyped DEF s
    <3>3. Before(L, g, k) = g /\ x = g
      BY <3>1, <3>2 DEF Before, Ring
    <3>4. g # e
      BY <1>1, <1>4 DEF List!KernelListAssumption
    <3> QED BY <2>1, <3>3, <3>4
  <2>3. CASE k # 0
    <3>1. k \in 1 .. Len(L[g]) /\ k \in 1 .. Len(L2[g]) /\ k \in 1 .. k /\ k \in 1 .. Len(pu)
      BY <1>6, <1>11, <2>3 DEF s
    <3>2. Ring(g, L[g])[k + 1] = L[g][k] /\ Ring(g, L2[g])[k + 1] = L2[g][k]
      <4>1. L2[g] \in Seq(Entries) /\ L[g] \in Seq(Entries)
        BY <1>1, <1>9 DEF Rings
      <4>2. Ring(g, L[g])[k + 1] = L[g][k]
        BY <1>1, <3>1, <4>1, RingTyped
      <4>3. Ring(g, L2[g])[k + 1] = L2[g][k]
        BY <1>1, <3>1, <4>1, RingTyped
      <4> QED BY <4>2, <4>3
    <3>3. Before(L, g, k) = p[k] /\ x = L2[g][k]
      BY <1>6, <3>1, <3>2 DEF Before, Ring, s
    <3>4. (pu \o qu)[k] = pu[k]
      BY <1>11, <3>1, Joined
    <3>5. x = u[p[k]]
      BY <1>10, <1>11, <3>1, <3>3, <3>4
    <3>6. p[k] \in Entries
      BY <1>6, <3>1, ElementOfSeq
    <3> QED BY <1>8, <2>1, <3>3, <3>5, <3>6
  <2> QED BY <2>2, <2>3
<1>13. m2[x].next = Behind(L2, g, k)
  BY <1>1, <1>9, <1>11, OpenedRing
<1>14. Rings(List!insert(m2, e, Before(L2, g, k), Behind(L2, g, k)), List!Promised!PutIn(L2, g, k, <<e>>), st)
  BY <1>1, <1>9, <1>11, InsertPlaced
<1>15. List!list_swap(m, e, f) = List!insert(m2, e, Before(L2, g, k), Behind(L2, g, k))
  BY <1>12, <1>13 DEF List!list_swap, List!list_add, m1
<1>16. List!Promised!PutIn(L2, g, k, <<e>>) = AllMapped(L, v)
  <2>1. L2 \in [Heads -> Seq(Entries)]
    BY <1>9 DEF Rings
  <2>2. Upto(L2[g], k) = pu /\ Onward(L2[g], k) = qu
    BY <1>10, <1>11, JoinedApart
  <2>3. List!Promised!PutIn(L2, g, k, <<e>>) = [L2 EXCEPT ![g] = (pu \o <<e>>) \o qu]
    BY <2>2 DEF List!Promised!PutIn, Upto, Onward
  <2>4. Mapped(s, v) = (Mapped(p, v) \o <<v[f]>>) \o Mapped(q, v)
    <3>1. v \in [Entries -> Entries] /\ p \in Seq(Entries) /\ q \in Seq(Entries) /\ f \in Entries
      BY <1>4, <1>6, <1>8
    <3>2. Mapped((p \o <<f>>) \o q, v) = (Mapped(p, v) \o <<v[f]>>) \o Mapped(q, v)
      BY <3>1, MappedThird
    <3> QED BY <1>6, <3>2
  <2>5. Mapped(p, v) = pu /\ Mapped(q, v) = qu
    <3>1. Elems(p) \subseteq Entries /\ Elems(q) \subseteq Entries
      BY <1>1, <1>6, RingElems DEF List!KernelListAssumption
    <3> QED BY <1>7, <1>8, <3>1, MappedAlike DEF pu, qu
  <2>6. \A h \in Heads \ {g} : Mapped(L[h], v) = Mapped(L[h], u)
    <3>1. \A h \in Heads : Elems(L[h]) \subseteq Entries
      BY <1>1, RingElems DEF List!KernelListAssumption
    <3> QED BY <1>7, <1>8, <3>1, MappedAlike
  <2> DEFINE t == (pu \o <<e>>) \o qu
  <2>7. Mapped(L[g], v) = t
    BY <1>8, <2>4, <2>5 DEF s
  <2> HIDE DEF t
  <2>8. \A h \in Heads : [L2 EXCEPT ![g] = t][h] = Mapped(L[h], v)
    BY <1>1, <1>10, <2>1, <2>6, <2>7
  <2>9. [L2 EXCEPT ![g] = t] = [h \in Heads |-> Mapped(L[h], v)]
    BY <2>1, <2>8
  <2> QED BY <2>3, <2>9 DEF AllMapped, t
<1> QED BY <1>14, <1>15, <1>16 DEF v, f, s

(* Where a head that is not stale points to.                               *)
LEMMA HeadPoints ==
    ASSUME List!KernelListAssumption, NEW m, NEW L, NEW st, Rings(m, L, st), NEW h \in Heads \ st
    PROVE  /\ List!list_empty(m, h) <=> L[h] = <<>>
           /\ L[h] = <<>> => m[h].next = h /\ m[h].prev = h
           /\ L[h] # <<>> => m[h].next = L[h][1] /\ m[h].prev = L[h][Len(L[h])]
<1> DEFINE s == L[h]
           c == Len(s)
<1>1. s \in Seq(Entries) /\ h \in Heads /\ h \notin Entries
  BY DEF Rings, List!KernelListAssumption
<1>2. /\ c \in Nat /\ \A k \in 1 .. c : s[k] \in Entries /\ (<<h>> \o s)[k + 1] = s[k] /\ (s \o <<h>>)[k] = s[k]
      /\ (<<h>> \o s)[1] = h /\ (s \o <<h>>)[c + 1] = h
  BY <1>1, RingTyped DEF Ring
<1>3. 0 \in 0 .. Len(L[h]) /\ c \in 0 .. Len(L[h]) /\ 0 + 1 = 1
  BY <1>2
<1>4. m[Before(L, h, 0)].next = Behind(L, h, 0) /\ m[Behind(L, h, c)].prev = Before(L, h, c)
  BY <1>3, OpenedRing
<1>5. m[h].next = (s \o <<h>>)[1] /\ m[h].prev = (<<h>> \o s)[c + 1]
  BY <1>2, <1>3, <1>4 DEF Before, Behind
<1>6. CASE s = <<>>
  <2>1. c = 0
    BY <1>6
  <2> QED BY <1>2, <1>3, <1>5, <1>6, <2>1 DEF List!list_empty
<1>7. CASE s # <<>>
  <2>1. 1 \in 1 .. c /\ c \in 1 .. c
    BY <1>1, <1>7, Ends
  <2> QED BY <1>1, <1>2, <1>5, <1>7, <2>1 DEF List!list_empty
<1> QED BY <1>6, <1>7

(* The first i entries of a list come behind the others.                   *)
Turned(L, h, i) == [L EXCEPT ![h] = Onward(L[h], i) \o Upto(L[h], i)]

(* list_rotate_left                                                        *)
LEMMA RotatedLeft ==
    ASSUME List!KernelListAssumption, NEW m, NEW L, NEW st, Rings(m, L, st),
           NEW h \in Heads \ st, L[h] # <<>>
    PROVE  Rings(List!list_rotate_left(m, h), Turned(L, h, 1), st)
<1> DEFINE s == L[h]
           e == s[1]
           n == List!unlink(m, e)
           W == Without(L, h, 1)
           q == Onward(s, 1)
           c == Len(W[h])
<1>1. L \in [Heads -> Seq(Entries)] /\ s \in Seq(Entries) /\ h \in Heads /\ s # <<>>
  BY DEF Rings
<1>2. 1 \in 1 .. Len(s) /\ e \in Entries /\ Len(s) \in Nat /\ 1 \in 0 .. Len(s)
  BY <1>1, Ends
<1>3. List!list_rotate_left(m, h) = List!list_add_tail(n, e, h)
  BY HeadPoints DEF List!list_rotate_left, List!list_move_tail
<1>4. Rings(n, W, st)
  BY <1>2, Unlinked1
<1>5. On(W) = On(L) \ {e}
  BY <1>1, <1>2, OnWithout
<1>6. W[h] = q /\ q \in Seq(Entries)
  <2>1. W[h] = SubSeq(s, 1, 1 - 1) \o q
    BY <1>1 DEF Without, Onward
  <2>2. SubSeq(s, 1, 1 - 1) = <<>>
    BY <1>1, SubSeqEmpty
  <2>3. q \in Seq(Entries)
    BY <1>1, <1>2, TakenApart
  <2>4. <<>> \o q = q
    BY <2>3, ConcatEmptySeq
  <2> QED BY <2>1, <2>2, <2>3, <2>4
<1> HIDE DEF W, n
<1>7. c \in Nat /\ c \in 0 .. Len(W[h]) /\ (q \o <<h>>)[c + 1] = h
  BY <1>1, <1>6, RingTyped
<1>8. Behind(W, h, c) = h
  BY <1>6, <1>7 DEF Behind
<1>9. n[h].prev = Before(W, h, c)
  <2>1. n[Behind(W, h, c)].prev = Before(W, h, c)
    BY <1>4, <1>7, OpenedRing
  <2> QED BY <1>8, <2>1
<1>10. Rings(List!insert(n, e, Before(W, h, c), Behind(W, h, c)), List!Promised!PutIn(W, h, c, <<e>>), st)
  <2>1. e \in Entries \ On(W)
    BY <1>2, <1>5
  <2> HIDE DEF e, c
  <2> QED BY <1>4, <1>7, <2>1, InsertPlaced
<1>11. List!list_add_tail(n, e, h) = List!insert(n, e, Before(W, h, c), Behind(W, h, c))
  BY <1>8, <1>9 DEF List!list_add_tail
<1>12. List!Promised!PutIn(W, h, c, <<e>>) = Turned(L, h, 1)
  <2> DEFINE b == <<e>>
  <2>1. Upto(q, Len(q)) = q /\ Onward(q, Len(q)) = <<>>
    BY <1>6, SubSeqFull, SubSeqEmpty, LenProperties DEF Upto, Onward
  <2>2. b \in Seq(Entries) /\ Upto(s, 1) = b
    <3>1. 1 \in 1 .. Len(s)
      BY <1>2
    <3>2. Middle(s, 1, 1) = <<s[1]>>
      BY <1>1, <1>2, TakenOut
    <3> QED BY <1>2, <3>2, One DEF Middle, Upto
  <2> HIDE DEF b, q
  <2>3. q \o b \in Seq(Entries)
    BY <1>6, <2>2, Joined
  <2>4. (q \o b) \o <<>> = q \o b
    BY <2>3, ConcatEmptySeq
  <2>5. List!Promised!PutIn(W, h, c, b) = [W EXCEPT ![h] = (Upto(W[h], c) \o b) \o Onward(W[h], c)]
    BY DEF List!Promised!PutIn, Upto, Onward
  <2>6. List!Promised!PutIn(W, h, c, b) = [W EXCEPT ![h] = q \o b]
    BY <1>6, <2>1, <2>4, <2>5
  <2>7. [W EXCEPT ![h] = q \o b] = [L EXCEPT ![h] = q \o b]
    BY <1>1 DEF W, Without
  <2> QED BY <2>2, <2>6, <2>7 DEF Turned, q, b
<1> QED BY <1>3, <1>10, <1>11, <1>12

(* list_rotate_to_front: the head moves.                                   *)
LEMMA RotatedToFront ==
    ASSUME List!KernelListAssumption, NEW m, NEW L, NEW st, Rings(m, L, st),
           NEW h \in Heads \ st, NEW j \in 1 .. Len(L[h])
    PROVE  Rings(List!list_rotate_to_front(m, L[h][j], h), Turned(L, h, j - 1), st)
<1> DEFINE s == L[h]
           i == j - 1
           p == Upto(s, i)
           q == Onward(s, i)
           r == q \o p
           b == <<h>>
           e == s[j]
           n == List!unlink(m, h)
           o == List!list_add_tail(n, h, e)
<1>1. /\ L \in [Heads -> Seq(Entries)] /\ s \in Seq(Entries) /\ h \in Heads /\ h \in List!Nodes /\ m \in Memory
      /\ j \in 1 .. Len(s) /\ Distinct(s) /\ Apart(L) /\ IsRing(m, b \o s)
  BY DEF Rings, List!Nodes, Apart, Ring
<1>2. Len(s) \in Nat /\ s # <<>> /\ i \in 0 .. Len(s) /\ 1 \in 1 .. Len(s) - i /\ i + 1 = j
  BY <1>1, LenProperties
<1> HIDE DEF i, s
<1>3. /\ p \in Seq(Entries) /\ q \in Seq(Entries) /\ p \o q = s /\ Len(q) = Len(s) - i
      /\ \A x \in 1 .. Len(s) - i : q[x] = s[i + x]
  BY <1>1, <1>2, TakenApart
<1>4. q # <<>> /\ q[1] = e
  BY <1>2, <1>3, EmptySeq
<1> HIDE DEF p, q, e
<1>5. /\ p \in Seq(List!Nodes) /\ q \in Seq(List!Nodes) /\ s \in Seq(List!Nodes)
      /\ r \in Seq(Entries) /\ r \in Seq(List!Nodes)
      /\ r # <<>> /\ r[1] = e
  <2>1. p \in Seq(List!Nodes) /\ q \in Seq(List!Nodes) /\ s \in Seq(List!Nodes)
    BY <1>1, <1>3, RingTyped
  <2>2. r \in Seq(Entries)
    BY <1>3, Joined
  <2>3. r \in Seq(List!Nodes)
    BY <2>1, Joined
  <2>4. r # <<>> /\ r[1] = q[1]
    BY <1>4, <2>1, JoinedEnds
  <2> QED BY <1>4, <2>1, <2>2, <2>3, <2>4
<1>6. b \in Seq(List!Nodes) /\ b # <<>> /\ b[1] = h /\ b[Len(b)] = h /\ Elems(b) = {h} /\ Distinct(b)
  BY <1>1, One
<1>7. /\ Elems(r) = Elems(s) /\ Distinct(r) /\ Elems(s) \subseteq Entries /\ h \notin Elems(s)
  <2>1. /\ Elems(p \o q) = Elems(p) \cup Elems(q)
        /\ Distinct(p \o q) <=> Distinct(p) /\ Distinct(q) /\ Elems(p) \cap Elems(q) = {}
    BY <1>5, JoinedElems
  <2>2. /\ Elems(q \o p) = Elems(q) \cup Elems(p)
        /\ Distinct(q \o p) <=> Distinct(q) /\ Distinct(p) /\ Elems(q) \cap Elems(p) = {}
    BY <1>5, JoinedElems
  <2>3. Elems(s) \subseteq Entries /\ h \notin Entries
    BY <1>1, RingElems DEF List!KernelListAssumption
  <2> QED BY <1>1, <1>3, <2>1, <2>2, <2>3
<1> HIDE DEF r, b
<1>8. /\ s[1] \in Elems(s) /\ s[Len(s)] \in Elems(s) /\ r[1] \in Elems(s) /\ r[Len(r)] \in Elems(s)
      /\ Elems(s) \subseteq List!Nodes
  BY <1>2, <1>5, <1>7, Ends
<1>9. PICK x \in List!Nodes, y \in List!Nodes : /\ x = s[Len(s)] /\ y = s[1] /\ m[h].prev = x /\ m[h].next = y
                                                /\ x # h /\ y # h
  <2>1. Link(m, b[Len(b)], s[1]) /\ Link(m, s[Len(s)], b[1])
    BY <1>1, <1>2, <1>5, <1>6, RingJoined
  <2> QED BY <1>6, <1>7, <1>8, <2>1 DEF Link
<1>10. n \in Memory /\ Bridged(m, n, x, y)
  BY <1>1, <1>9, MemUnlink
<1> HIDE DEF n
<1>11. IsRing(n, s)
  <2>1. Distinct(s \o b)
    BY <1>1, <1>5, <1>6, <1>7, JoinedElems
  <2>2. IsRing(m, s \o b)
    BY <1>1, <1>5, <1>6, Rotated
  <2>3. Link(n, s[Len(s)], s[1])
    BY <1>9, <1>10 DEF Link, Bridged
  <2>4. Inside(m, n, s) /\ Inside(m, n, b)
    BY <1>6, <1>8, <1>9, <1>10 DEF Inside, Elems, Bridged
  <2> QED BY <1>2, <1>5, <1>6, <2>1, <2>2, <2>3, <2>4, RingWithoutSegment
<1>12. IsRing(n, r)
  <2>1. IsRing(n, p \o q)
    BY <1>3, <1>11
  <2> QED BY <1>5, <2>1, Rotated DEF r
<1>13. PICK v \in List!Nodes : v = r[Len(r)] /\ n[e].prev = v /\ v # h /\ e \in List!Nodes /\ e # h
  BY <1>5, <1>7, <1>8, <1>12 DEF IsRing, Link
<1>14. o \in Memory /\ Between(n, o, v, e, h, h)
  <2>1. List!insert(n, h, v, e) \in Memory /\ Between(n, List!insert(n, h, v, e), v, e, h, h)
    BY <1>1, <1>10, <1>13, MemInsert
  <2> QED BY <1>13, <2>1 DEF List!list_add_tail
<1> HIDE DEF o
<1>15. IsRing(o, Ring(h, r))
  <2>1. Distinct(r \o b) /\ Elems(r \o b) = Elems(r) \cup Elems(b)
    BY <1>5, <1>6, <1>7, JoinedElems
  <2>2. \A z \in Elems(r \o b) :
            /\ o[z].next = IF z = r[Len(r)] THEN b[1] ELSE IF z = b[Len(b)] THEN r[1] ELSE n[z].next
            /\ o[z].prev = IF z = r[1] THEN b[Len(b)] ELSE IF z = b[1] THEN r[Len(r)] ELSE n[z].prev
    BY <1>1, <1>5, <1>6, <1>7, <1>8, <1>13, <1>14, <2>1 DEF Between
  <2>3. Seg(n, b)
    BY <1>1, One DEF b
  <2>4. IsRing(o, r \o b)
    BY <1>5, <1>6, <1>12, <2>1, <2>2, <2>3, RingWithSegment
  <2>5. IsRing(o, b \o r)
    BY <1>5, <1>6, <2>4, Rotated
  <2> QED BY <2>5 DEF Ring, b
<1>16. ASSUME NEW g \in Heads \ (st \cup {h}), NEW z \in {g} \cup Elems(L[g]) PROVE Same(m, o, z)
  <2>1. Elems(L[g]) \subseteq Entries /\ Elems(L[g]) \cap Elems(s) = {}
    BY <1>1, RingElems DEF List!KernelListAssumption, Apart, s
  <2>2. z \in List!Nodes /\ z \notin Elems(s) /\ z # h
    BY <1>7, <2>1 DEF List!Nodes, List!KernelListAssumption
  <2> QED BY <1>5, <1>8, <1>9, <1>10, <1>13, <1>14, <2>2 DEF Same, Bridged, Between
<1>17. \A g \in Heads \ {h} : Elems(L[g]) \cap Elems(r) = {}
  BY <1>1, <1>7 DEF Apart, s
<1>18. Rings(o, [L EXCEPT ![h] = r], st \ {h})
  BY <1>1, <1>5, <1>7, <1>14, <1>15, <1>16, <1>17, OneChanged
<1>19. st \ {h} = st
  OBVIOUS
<1>20. List!list_rotate_to_front(m, e, h) = o
  BY DEF List!list_rotate_to_front, List!list_move_tail, o, n
<1> QED BY <1>18, <1>19, <1>20 DEF Turned, r, p, q, i, e, s

(* The nodes from first to last are a ring with l, and h comes before y.   *)
Parted(m, n, l, h, first, last, y) == \A z \in List!Nodes :
    /\ n[z].next = IF z = l THEN first ELSE IF z = last THEN l ELSE IF z = h THEN y ELSE m[z].next
    /\ n[z].prev = IF z = l THEN last ELSE IF z = first THEN l ELSE IF z = y THEN h ELSE m[z].prev
Unlike(l, h, first, last, y) ==
    l \notin {h, first, last, y} /\ h \notin {first, last} /\ y \notin {first, last}

(* __list_cut_position in memory.                                          *)
LEMMA MemCut ==
    ASSUME NEW m \in Memory, NEW l \in List!Nodes, NEW h \in List!Nodes, NEW first \in List!Nodes,
           NEW x \in List!Nodes,
           NEW y \in List!Nodes, m[h].next = first, m[x].next = y, Unlike(l, h, first, x, y)
    PROVE  LET n == List!cut(m, l, h, x)
           IN  n \in Memory /\ Parted(m, n, l, h, first, x, y)
<1> DEFINE m1 == List!Set(m, l, "next", first)
           m2 == List!Set(m1, first, "prev", l)
           m3 == List!Set(m2, l, "prev", x)
           m4 == List!Set(m3, x, "next", l)
           m5 == List!Set(m4, h, "next", y)
           m6 == List!Set(m5, y, "prev", h)
<1>1. m1 \in Memory
      /\ \A z \in List!Nodes : m1[z].next = (IF z = l THEN first ELSE m[z].next) /\ m1[z].prev = m[z].prev
  BY NodesPoint, SetNext
<1>2. List!cut(m, l, h, x)
       = List!Set(List!Set(List!Set(List!Set(List!SetNextPrev(m1, l, l), l, "prev", x), x, "next", l), h, "next", y), y, "prev", h)
  BY DEF List!cut
<1> HIDE DEF m1
<1>3. List!SetNextPrev(m1, l, l) = m2
  BY <1>1 DEF List!SetNextPrev
<1>4. List!cut(m, l, h, x) = m6
  BY <1>2, <1>3
<1>5. m2 \in Memory
      /\ \A z \in List!Nodes : m2[z].prev = (IF z = first THEN l ELSE m1[z].prev) /\ m2[z].next = m1[z].next
  BY <1>1, NodesPoint, SetPrev
<1> HIDE DEF m2
<1>6. m3 \in Memory
      /\ \A z \in List!Nodes : m3[z].prev = (IF z = l THEN x ELSE m2[z].prev) /\ m3[z].next = m2[z].next
  BY <1>5, NodesPoint, SetPrev
<1> HIDE DEF m3
<1>7. m4 \in Memory
      /\ \A z \in List!Nodes : m4[z].next = (IF z = x THEN l ELSE m3[z].next) /\ m4[z].prev = m3[z].prev
  BY <1>6, NodesPoint, SetNext
<1> HIDE DEF m4
<1>8. m5 \in Memory
      /\ \A z \in List!Nodes : m5[z].next = (IF z = h THEN y ELSE m4[z].next) /\ m5[z].prev = m4[z].prev
  BY <1>7, NodesPoint, SetNext
<1> HIDE DEF m5
<1>9. m6 \in Memory
      /\ \A z \in List!Nodes : m6[z].prev = (IF z = y THEN h ELSE m5[z].prev) /\ m6[z].next = m5[z].next
  BY <1>8, NodesPoint, SetPrev
<1> HIDE DEF m6
<1> QED BY <1>1, <1>4, <1>5, <1>6, <1>7, <1>8, <1>9 DEF Parted, Unlike

(* list_cut_before in memory.                                              *)
LEMMA MemCutBefore ==
    ASSUME NEW m \in Memory, NEW l \in List!Nodes, NEW h \in List!Nodes, NEW first \in List!Nodes,
           NEW x \in List!Nodes,
           NEW y \in List!Nodes, m[h].next = first, m[y].prev = x, Unlike(l, h, first, x, y)
    PROVE  LET n == List!list_cut_before(m, l, h, y)
           IN  n \in Memory /\ Parted(m, n, l, h, first, x, y)
<1> DEFINE m1 == List!Set(m, l, "next", first)
           m2 == List!Set(m1, first, "prev", l)
           m3 == List!Set(m2, l, "prev", x)
           m4 == List!Set(m3, x, "next", l)
           m5 == List!Set(m4, h, "next", y)
           m6 == List!Set(m5, y, "prev", h)
<1>1. m1 \in Memory
      /\ \A z \in List!Nodes : m1[z].next = (IF z = l THEN first ELSE m[z].next) /\ m1[z].prev = m[z].prev
  BY NodesPoint, SetNext
<1>2. List!list_cut_before(m, l, h, y)
          = LET p1 == List!SetNextPrev(m1, l, l)
                p2 == List!SetPrevNext(List!Set(p1, l, "prev", p1[y].prev), l, l)
            IN List!Set(List!Set(p2, h, "next", y), y, "prev", h)
  BY DEF List!list_cut_before, Unlike
<1> HIDE DEF m1
<1>3. List!SetNextPrev(m1, l, l) = m2
  BY <1>1 DEF List!SetNextPrev
<1>4. m2 \in Memory
      /\ \A z \in List!Nodes : m2[z].prev = (IF z = first THEN l ELSE m1[z].prev) /\ m2[z].next = m1[z].next
  BY <1>1, NodesPoint, SetPrev
<1> HIDE DEF m2
<1>5. m2[y].prev = x
  BY <1>1, <1>4 DEF Unlike
<1>6. m3 \in Memory
      /\ \A z \in List!Nodes : m3[z].prev = (IF z = l THEN x ELSE m2[z].prev) /\ m3[z].next = m2[z].next
  BY <1>4, NodesPoint, SetPrev
<1>7. List!list_cut_before(m, l, h, y)
       = List!Set(List!Set(List!SetPrevNext(m3, l, l), h, "next", y), y, "prev", h)
  BY <1>2, <1>3, <1>5
<1> HIDE DEF m3
<1>8. List!SetPrevNext(m3, l, l) = m4
  BY <1>6 DEF List!SetPrevNext
<1>9. m4 \in Memory
      /\ \A z \in List!Nodes : m4[z].next = (IF z = x THEN l ELSE m3[z].next) /\ m4[z].prev = m3[z].prev
  BY <1>6, NodesPoint, SetNext
<1> HIDE DEF m4
<1>10. List!list_cut_before(m, l, h, y) = m6
  BY <1>7, <1>8
<1>11. m5 \in Memory
       /\ \A z \in List!Nodes : m5[z].next = (IF z = h THEN y ELSE m4[z].next) /\ m5[z].prev = m4[z].prev
  BY <1>9, NodesPoint, SetNext
<1> HIDE DEF m5
<1>12. m6 \in Memory
       /\ \A z \in List!Nodes : m6[z].prev = (IF z = y THEN h ELSE m5[z].prev) /\ m6[z].next = m5[z].next
  BY <1>11, NodesPoint, SetPrev
<1> HIDE DEF m6
<1> QED BY <1>1, <1>4, <1>6, <1>9, <1>10, <1>11, <1>12 DEF Parted, Unlike

(* The first i entries of h are on l.                                      *)
Halved(L, l, h, i) == [L EXCEPT ![l] = Upto(L[h], i), ![h] = Onward(L[h], i)]

(* What is cut, and what is next to it.                                    *)
LEMMA CutEnds ==
    ASSUME List!KernelListAssumption, NEW m, NEW L, NEW st, Rings(m, L, st),
           NEW h \in Heads \ st, NEW l \in Heads \ {h}, NEW i \in 1 .. Len(L[h])
    PROVE  LET x == L[h][i]  y == Behind(L, h, i)  first == m[h].next
           IN  /\ i \in 0 .. Len(L[h]) /\ Before(L, h, i) = x
               /\ {x, y, first, l, h} \subseteq List!Nodes /\ m[x].next = y /\ m[y].prev = x
               /\ first = L[h][1] /\ Unlike(l, h, first, x, y)
<1> DEFINE s == L[h]
           x == s[i]
           y == Behind(L, h, i)
           first == m[h].next
<1>1. s \in Seq(Entries) /\ Distinct(s) /\ h \in Heads /\ i \in 1 .. Len(s)
  BY DEF Rings, Apart
<1>2. /\ Len(s) \in Nat
      /\ \A k \in 1 .. Len(s) : s[k] \in Entries /\ (<<h>> \o s)[k + 1] = s[k] /\ (s \o <<h>>)[k] = s[k]
      /\ (s \o <<h>>)[Len(s) + 1] = h
  BY <1>1, RingTyped DEF Ring
<1>3. i \in 0 .. Len(L[h]) /\ 1 \in 1 .. Len(s) /\ s # <<>>
  BY <1>1, <1>2
<1>4. Before(L, h, i) = x
  BY <1>1, <1>2 DEF Before
<1>5. m[x].next = y /\ m[y].prev = x
  BY <1>3, <1>4, OpenedRing
<1>6. first = s[1]
  BY <1>3, HeadPoints
<1>7. y = h \/ (y \in Entries /\ y # s[1] /\ y # x)
  <2>1. CASE i = Len(s)
    BY <1>2, <2>1 DEF Behind
  <2>2. CASE i # Len(s)
    <3> DEFINE k == i + 1
    <3>1. k \in 1 .. Len(s) /\ k # i /\ k # 1
      BY <1>1, <1>2, <2>2
    <3>2. y = s[k]
      BY <1>2, <3>1 DEF Behind
    <3> HIDE DEF k
    <3> QED BY <1>1, <1>2, <1>3, <3>1, <3>2 DEF Distinct
  <2> QED BY <2>1, <2>2
<1>8. x \in Entries /\ first \in Entries /\ h \notin Entries /\ l \notin Entries /\ l # h
  BY <1>1, <1>2, <1>3, <1>6 DEF List!KernelListAssumption
<1> HIDE DEF y, first
<1>9. Unlike(l, h, first, x, y)
  BY <1>6, <1>7, <1>8 DEF Unlike
<1>10. {x, y, first, l, h} \subseteq List!Nodes
  BY <1>1, <1>7, <1>8 DEF List!Nodes
<1> QED BY <1>3, <1>4, <1>5, <1>6, <1>9, <1>10 DEF y, first

(* After either, the two rings are the two parts of the list.              *)
LEMMA CutOff ==
    ASSUME List!KernelListAssumption, NEW m, NEW L, NEW st, Rings(m, L, st),
           NEW h \in Heads \ st, NEW l \in Heads \ {h}, NEW i \in 1 .. Len(L[h]), NEW n \in Memory,
           Parted(m, n, l, h, m[h].next, L[h][i], Behind(L, h, i))
    PROVE  Rings(n, Halved(L, l, h, i), st \ {l})
<1> DEFINE s == L[h]
           c == st \cup {l}
           F == [L EXCEPT ![l] = <<>>]
           b == Upto(s, i)
           q == Onward(s, i)
           p == <<>>
           r == Rest(h, p, q)
           x == s[i]
           y == Behind(L, h, i)
           first == m[h].next
           G == [F EXCEPT ![h] = p \o q]
<1>1. L \in [Heads -> Seq(Entries)] /\ s \in Seq(Entries) /\ h \in Heads /\ st \subseteq Heads
  BY DEF Rings
<1>2. /\ i \in 0 .. Len(s) /\ {x, y, first, l, h} \subseteq List!Nodes /\ m[x].next = y /\ m[y].prev = x
      /\ first = s[1] /\ Unlike(l, h, first, x, y)
  BY CutEnds
<1>3. Rings(m, F, c)
  BY Forgotten
<1>4. F[h] = s /\ h \in Heads \ c /\ F \in [Heads -> Seq(Entries)] /\ F[l] = <<>> /\ Apart(F)
  <2>1. F[h] = s /\ F[l] = <<>>
    BY <1>1
  <2> QED BY <1>3, <2>1 DEF Rings
<1> HIDE DEF s, F, c
<1>5. /\ b \in Seq(Entries) /\ q \in Seq(Entries) /\ b \o q = s /\ Len(b) = i
      /\ \A j \in 1 .. i : b[j] = s[j]
  BY <1>1, <1>2, TakenApart
<1>6. /\ b # <<>> /\ b[1] = first /\ b[Len(b)] = x /\ p \in Seq(Entries)
  <2>1. i \in 1 .. i /\ 1 \in 1 .. i /\ i # 0
    BY <1>2
  <2> QED BY <1>2, <1>5, <2>1, EmptySeq
<1> HIDE DEF b, q, first, y, x
<1>7. Parts(F, h, p, b, q)
  <2>1. <<>> \o b = b
    BY <1>5, ConcatEmptySeq
  <2> QED BY <1>4, <1>5, <1>6, <2>1 DEF Parts
<1>8. p \o q = q
  BY <1>5, ConcatEmptySeq
<1> HIDE DEF p
<1>9. /\ r \in Seq(List!Nodes) /\ r # <<>> /\ b \in Seq(List!Nodes) /\ Distinct(r \o b)
      /\ Link(m, r[Len(r)], b[1]) /\ Link(m, b[Len(b)], r[1])
      /\ Elems(r) = {h} \cup Elems(p \o q) /\ Elems(r) \cap Elems(b) = {}
      /\ Elems(b) \subseteq Entries /\ Elems(b) \subseteq Elems(F[h])
  <2>1. b \in Seq(Entries) /\ q \in Seq(Entries) /\ p \in Seq(Entries)
    BY <1>5, <1>6
  <2> QED BY <1>3, <1>4, <1>7, <2>1, Decomposed
<1>10. r[Len(r)] = h
  <2>1. Ring(h, p) = <<h>>
    BY <1>1, One, ConcatEmptySeq DEF Ring, p
  <2>2. q \in Seq(List!Nodes) /\ <<h>> \in Seq(List!Nodes) /\ <<h>> # <<>> /\ Len(<<h>>) = 1 /\ <<h>>[1] = h
    BY <1>1, <1>2, <1>5, RingTyped, One
  <2>3. (q \o <<h>>)[Len(q \o <<h>>)] = h
    BY <2>2, JoinedEnds
  <2> QED BY <2>1, <2>3 DEF r, Rest
<1> HIDE DEF r
<1>11. m[first].prev = h /\ r[1] = y /\ y \in Elems(r) /\ y \notin Elems(b) /\ h \notin Elems(b)
  <2>1. r[1] \in Elems(r) /\ r[Len(r)] \in Elems(r)
    BY <1>9, Ends
  <2> QED BY <1>2, <1>6, <1>9, <1>10, <2>1 DEF Link
<1>12. first \in Elems(b) /\ x \in Elems(b) /\ Distinct(b) /\ l \notin Elems(b)
  <2>1. b[1] \in Elems(b) /\ b[Len(b)] \in Elems(b)
    BY <1>5, <1>6, Ends
  <2>2. Distinct(b)
    BY <1>9, JoinedElems
  <2> QED BY <1>6, <1>9, <2>1, <2>2 DEF List!KernelListAssumption
<1>13. \A z \in List!Nodes :
           /\ n[z].next = IF z = l THEN first ELSE IF z = x THEN l ELSE IF z = h THEN y ELSE m[z].next
           /\ n[z].prev = IF z = l THEN x ELSE IF z = first THEN l ELSE IF z = y THEN h ELSE m[z].prev
  BY DEF Parted, first, x, y, s
<1>14. Link(n, m[b[1]].prev, m[b[Len(b)]].next)
  BY <1>2, <1>6, <1>11, <1>13 DEF Link, Unlike
<1>15. Around(m, n, F, c, b)
  <2>1. \A g \in Heads : Elems(F[g]) \subseteq Entries
    BY <1>4, RingElems DEF List!KernelListAssumption
  <2>2. Used(F, c) \subseteq List!Nodes /\ l \notin Used(F, c)
    BY <2>1 DEF Used, On, List!Nodes, c, List!KernelListAssumption
  <2> QED BY <1>2, <1>6, <1>11, <1>12, <1>13, <2>2 DEF Around
<1>16. Inside(m, n, b)
  <2>1. Elems(b) \subseteq List!Nodes
    BY <1>9 DEF List!Nodes
  <2> QED BY <1>6, <1>11, <1>12, <1>13, <2>1 DEF Inside, Elems
<1>17. Rings(n, G, c) /\ Seg(n, b)
  <2>1. b \in Seq(Entries) /\ q \in Seq(Entries) /\ p \in Seq(Entries)
    BY <1>5, <1>6
  <2> QED BY <1>3, <1>4, <1>7, <1>14, <1>15, <1>16, <2>1, Taken
<1>18. IsRing(n, Ring(l, b))
  <2> DEFINE a == <<l>>
  <2>1. a \in Seq(List!Nodes) /\ a # <<>> /\ a[1] = l /\ a[Len(a)] = l /\ Seg(n, a)
    BY <1>2, One
  <2> HIDE DEF a
  <2>2. Link(n, l, first) /\ Link(n, x, l)
    BY <1>2, <1>13 DEF Link, Unlike
  <2>3. IsRing(n, a \o b)
    BY <1>6, <1>9, <1>17, <2>1, <2>2, RingJoined
  <2> QED BY <2>3 DEF Ring, a
<1>19. \A g \in Heads \ {l} : Elems(G[g]) \cap Elems(b) = {}
  <2> SUFFICES ASSUME NEW g \in Heads \ {l} PROVE Elems(G[g]) \cap Elems(b) = {}
    OBVIOUS
  <2>1. CASE g = h
    <3>1. G[g] = p \o q
      BY <1>4, <2>1
    <3> QED BY <1>9, <3>1
  <2>2. CASE g # h
    <3>1. G[g] = F[g]
      BY <1>4, <2>2
    <3> QED BY <1>4, <1>9, <2>2, <3>1 DEF Apart
  <2> QED BY <2>1, <2>2
<1> HIDE DEF G
<1>20. Rings(n, [G EXCEPT ![l] = b], c \ {l})
  <2>1. \A g \in Heads \ (c \cup {l}) : \A z \in {g} \cup Elems(G[g]) : Same(n, n, z)
    BY DEF Same
  <2> QED BY <1>5, <1>12, <1>17, <1>18, <1>19, <2>1, OneChanged
<1>21. c \ {l} = st \ {l} /\ [G EXCEPT ![l] = b] = Halved(L, l, h, i)
  <2>1. G = [F EXCEPT ![h] = q]
    BY <1>8 DEF G
  <2>2. [G EXCEPT ![l] = b] = [L EXCEPT ![l] = b, ![h] = q]
    BY <1>1, <2>1 DEF F
  <2> QED BY <2>2 DEF c, Halved, b, q, s
<1> QED BY <1>20, <1>21

(* list_cut_before, at what is behind the first i entries.                 *)
LEMMA CutBefore ==
    ASSUME List!KernelListAssumption, NEW m, NEW L, NEW st, Rings(m, L, st),
           NEW h \in Heads \ st, NEW l \in Heads \ {h}, NEW i \in 1 .. Len(L[h])
    PROVE  Rings(List!list_cut_before(m, l, h, Behind(L, h, i)), Halved(L, l, h, i), st \ {l})
<1> DEFINE x == L[h][i]
           y == Behind(L, h, i)
           first == m[h].next
           n == List!list_cut_before(m, l, h, y)
<1>0. {x, y, first, l, h} \subseteq List!Nodes /\ m[y].prev = x /\ Unlike(l, h, first, x, y)
  BY CutEnds
<1>1. m \in Memory /\ {x, y, first, l, h} \subseteq List!Nodes /\ m[y].prev = x /\ Unlike(l, h, first, x, y)
  BY <1>0 DEF Rings
<1> HIDE DEF x, y, first
<1>2. n \in Memory /\ Parted(m, n, l, h, first, x, y)
  <2>1. first = m[h].next /\ l \in List!Nodes /\ h \in List!Nodes /\ x \in List!Nodes
        /\ y \in List!Nodes /\ first \in List!Nodes
    BY <1>1 DEF first
  <2> QED BY <1>1, <2>1, MemCutBefore
<1> HIDE DEF n
<1>3. Parted(m, n, l, h, m[h].next, L[h][i], Behind(L, h, i))
  BY <1>2 DEF first, x, y
<1>4. Rings(n, Halved(L, l, h, i), st \ {l})
  BY <1>2, <1>3, CutOff
<1> QED BY <1>4 DEF n, y

(* list_cut_position, at the i-th entry: if there is one only it is that.  *)
LEMMA CutPosition ==
    ASSUME List!KernelListAssumption, NEW m, NEW L, NEW st, Rings(m, L, st),
           NEW h \in Heads \ st, NEW l \in Heads \ {h}, NEW i \in 1 .. Len(L[h])
    PROVE  Rings(List!list_cut_position(m, l, h, L[h][i]), Halved(L, l, h, i), st \ {l})
<1> DEFINE s == L[h]
           x == L[h][i]
           y == Behind(L, h, i)
           first == m[h].next
           n == List!cut(m, l, h, x)
<1>0. {x, y, first, l, h} \subseteq List!Nodes /\ m[x].next = y /\ Unlike(l, h, first, x, y)
  BY CutEnds
<1>1. m \in Memory /\ {x, y, first, l, h} \subseteq List!Nodes /\ m[x].next = y /\ Unlike(l, h, first, x, y)
  BY <1>0 DEF Rings
<1>2. s \in Seq(Entries) /\ Distinct(s) /\ h \in Heads /\ h \notin Entries /\ i \in 1 .. Len(s) /\ s # <<>>
  BY DEF Rings, Apart, List!KernelListAssumption
<1>3. 1 \in 1 .. Len(s) /\ Len(s) \in 1 .. Len(s) /\ Len(s) \in Nat
  BY <1>2, Ends
<1>4. m[h].next = s[1] /\ m[h].prev = s[Len(s)] /\ ~List!list_empty(m, h)
  BY <1>2, HeadPoints
<1>5. List!list_is_singular(m, h) => m[h].next = x
  <2> SUFFICES ASSUME s[1] = s[Len(s)] PROVE s[1] = s[i]
    BY <1>4 DEF List!list_is_singular
  <2>1. Len(s) = 1
    BY <1>2, <1>3 DEF Distinct
  <2> QED BY <1>2, <2>1
<1>6. x # h
  BY <1>2, ElementOfSeq
<1>7. List!list_cut_position(m, l, h, x) = n
  BY <1>4, <1>5, <1>6 DEF List!list_cut_position
<1> HIDE DEF x, y, first
<1>8. n \in Memory /\ Parted(m, n, l, h, first, x, y)
  <2>1. first = m[h].next /\ l \in List!Nodes /\ h \in List!Nodes /\ x \in List!Nodes
        /\ y \in List!Nodes /\ first \in List!Nodes
    BY <1>1 DEF first
  <2> QED BY <1>1, <2>1, MemCut
<1> HIDE DEF n
<1>9. Parted(m, n, l, h, m[h].next, L[h][i], Behind(L, h, i))
  BY <1>8 DEF first, x, y
<1>10. Rings(n, Halved(L, l, h, i), st \ {l})
  BY <1>8, <1>9, CutOff
<1> QED BY <1>7, <1>10 DEF x

(* Of a cut at the head nothing comes to l.                                *)
LEMMA CutNothing ==
    ASSUME List!KernelListAssumption, NEW m, NEW L, NEW st, Rings(m, L, st),
           NEW h \in Heads \ st, NEW l \in Heads \ {h}
    PROVE  Rings(List!INIT_LIST_HEAD(m, l), Halved(L, l, h, 0), st \ {l})
<1>1. L \in [Heads -> Seq(Entries)] /\ h \in Heads
  BY DEF Rings
<1>2. Upto(L[h], 0) = <<>> /\ Onward(L[h], 0) = L[h]
  <2>1. Onward(L[h], 0) = SubSeq(L[h], 1, Len(L[h])) /\ Upto(L[h], 0) = <<>>
    <3>1. 0 + 1 = 1
      OBVIOUS
    <3> QED BY <1>1, <3>1, SubSeqEmpty DEF Onward, Upto
  <2> QED BY <1>1, <2>1, SubSeqFull
<1>3. Halved(L, l, h, 0) = [L EXCEPT ![l] = <<>>]
  BY <1>1, <1>2 DEF Halved
<1> QED BY <1>3, Initialised

-----------------------------------------------------------------------------
(* The lists without the entries of l.                                    *)
EmptyAt(L, l) == [L EXCEPT ![l] = <<>>]

(* joined: the entries of l come to a place of the others; l goes stale.   *)
GoneTo(m, L, st, l, g, k) ==
    LET E == EmptyAt(L, l)  x == Before(E, g, k)  y == Behind(E, g, k)  M == List!Promised!PutIn(E, g, k, L[l])
    IN Rings(List!joined(m, l, x, y), M, st \cup {l}) /\ m[x].next = y /\ m[y].prev = x /\ M[l] = <<>>

(* __list_splice, at any place of another list.                            *)
LEMMA JoinedAt ==
    ASSUME List!KernelListAssumption, NEW m, NEW L, NEW st, Rings(m, L, st),
           NEW l \in Heads, l \notin st, L[l] # <<>>,
           NEW g \in Heads, g \notin st, g # l, NEW k \in 0 .. Len(L[g])
    PROVE  GoneTo(m, L, st, l, g, k)
<1> DEFINE b == L[l]
           c == st \cup {l}
           E == EmptyAt(L, l)
           x == Before(E, g, k)
           y == Behind(E, g, k)
           first == b[1]
           last == b[Len(b)]
           n == List!joined(m, l, x, y)
<1>1. /\ m \in Memory /\ L \in [Heads -> Seq(Entries)] /\ b \in Seq(Entries) /\ b # <<>> /\ Distinct(b)
      /\ l \in Heads /\ g \in Heads /\ IsRing(m, Ring(l, b)) /\ Apart(L)
  BY DEF Rings, Apart
<1>2. Rings(m, E, c) /\ g \in Heads \ c /\ k \in 0 .. Len(E[g])
  <2>1. E[g] = L[g]
    BY <1>1 DEF EmptyAt
  <2>2. Rings(m, E, c)
    BY Forgotten DEF EmptyAt
  <2> QED BY <2>1, <2>2
<1>3. E[l] = <<>> /\ \A f \in Heads \ {l} : E[f] = L[f]
  BY <1>1 DEF EmptyAt
<1>4. m[l].next = first /\ m[l].prev = last
  BY HeadPoints
<1>5. first \in Elems(b) /\ last \in Elems(b) /\ Elems(b) \subseteq Entries
  BY <1>1, Ends
<1> HIDE DEF b, E, c
<1>6. /\ Elems(E[g]) \subseteq Entries /\ x \in {g} \cup Elems(E[g]) /\ y \in {g} \cup Elems(E[g])
      /\ m[x].next = y /\ m[y].prev = x
  BY <1>2, OpenedRing
<1>7. Elems(b) \cap On(E) = {}
  <2> SUFFICES ASSUME NEW z \in Elems(b), NEW f \in Heads, z \in Elems(E[f]) PROVE FALSE
    BY DEF On
  <2>1. f # l
    BY <1>3, NoElems
  <2> QED BY <1>1, <1>3, <2>1 DEF Apart, b
<1>8. /\ x \in List!Nodes /\ y \in List!Nodes /\ first \in List!Nodes /\ last \in List!Nodes /\ l \in List!Nodes
      /\ first # y /\ last # x
  <2>1. Elems(E[g]) \cap Elems(b) = {}
    BY <1>2, <1>7, OnOne
  <2> QED BY <1>1, <1>5, <1>6, <2>1 DEF List!Nodes, List!KernelListAssumption
<1> HIDE DEF x, y, first, last
<1>9. n \in Memory /\ Between(m, n, x, y, first, last)
  BY <1>1, <1>4, <1>8, MemJoined
<1> HIDE DEF n
<1>10. Seg(m, b)
  <2> DEFINE a == <<l>>
  <2>1. a \in Seq(List!Nodes) /\ a # <<>> /\ b \in Seq(List!Nodes) /\ b # <<>>
    BY <1>1, <1>8, One, RingTyped
  <2>2. IsRing(m, a \o b)
    BY <1>1 DEF Ring
  <2> HIDE DEF a
  <2> QED BY <2>1, <2>2, RingJoined
<1>11. Rings(n, List!Promised!PutIn(E, g, k, b), c)
  <2>1. Between(m, n, Before(E, g, k), Behind(E, g, k), b[1], b[Len(b)])
    BY <1>9 DEF x, y, first, last
  <2> QED BY <1>1, <1>2, <1>7, <1>9, <1>10, <2>1, Placed
<1>12. List!Promised!PutIn(E, g, k, b)[l] = <<>>
  <2>1. l \in c
    BY DEF c
  <2> QED BY <1>11, <2>1 DEF Rings
<1> QED BY <1>6, <1>11, <1>12 DEF GoneTo, n, x, y, c, E, b

(* list_splice, list_splice_tail, and with _init.                          *)
LEMMA Spliced ==
    ASSUME List!KernelListAssumption, NEW m, NEW L, NEW st, Rings(m, L, st),
           NEW l \in Heads \ st, L[l] # <<>>, NEW x \in Used(L, st), x # l, x \notin Elems(L[l])
    PROVE  /\ \E M : /\ BehindIn(EmptyAt(L, l), M, x, L[l])
                     /\ Rings(List!list_splice(m, l, x), M, st \cup {l})
                     /\ Rings(List!list_splice_init(m, l, x), M, st)
           /\ \E M : /\ BeforeIn(EmptyAt(L, l), M, x, L[l])
                     /\ Rings(List!list_splice_tail(m, l, x), M, st \cup {l})
                     /\ Rings(List!list_splice_tail_init(m, l, x), M, st)
<1> DEFINE E == EmptyAt(L, l)
           c == st \cup {l}
<1>1. Rings(m, E, c)
  BY Forgotten DEF EmptyAt
<1>2. x \in Used(E, c)
  <2>1. L \in [Heads -> Seq(Entries)]
    BY DEF Rings
  <2>2. CASE x \in On(L)
    <3>1. PICK f \in Heads : x \in Elems(L[f])
      BY <2>2 DEF On
    <3>2. E[f] = L[f]
      BY <2>1, <3>1 DEF EmptyAt
    <3>3. x \in On(E)
      BY <3>1, <3>2, OnOne
    <3> QED BY <3>3 DEF Used
  <2> QED BY <2>2 DEF Used
<1>3. ~List!list_empty(m, l)
  BY HeadPoints
<1>4. c \ {l} = st
  OBVIOUS
<1>5. ASSUME NEW n, NEW M, Rings(n, M, c), M[l] = <<>> PROVE Rings(List!INIT_LIST_HEAD(n, l), M, st)
  <2>1. Rings(List!INIT_LIST_HEAD(n, l), [M EXCEPT ![l] = <<>>], c \ {l})
    BY <1>5, Initialised
  <2>2. [M EXCEPT ![l] = <<>>] = M
    BY <1>5 DEF Rings
  <2> QED BY <1>4, <2>1, <2>2
<1> HIDE DEF E, c
<1>6. \E M : /\ BehindIn(E, M, x, L[l])
             /\ Rings(List!list_splice(m, l, x), M, c)
             /\ Rings(List!list_splice_init(m, l, x), M, st)
  <2>1. PICK g \in Heads \ c : \E k \in 0 .. Len(E[g]) : x = Before(E, g, k)
    BY <1>1, <1>2, PlaceFound
  <2>2. PICK k \in 0 .. Len(E[g]) : x = Before(E, g, k)
    BY <2>1
  <2> DEFINE M == List!Promised!PutIn(E, g, k, L[l])
             n == List!joined(m, l, Before(E, g, k), Behind(E, g, k))
  <2>3. Rings(n, M, c) /\ m[Before(E, g, k)].next = Behind(E, g, k) /\ M[l] = <<>>
    <3>1. g \in Heads /\ g \notin st /\ g # l
      BY DEF c
    <3>2. k \in 0 .. Len(L[g])
      BY <3>1 DEF E, EmptyAt, Rings
    <3>3. GoneTo(m, L, st, l, g, k)
      BY <3>1, <3>2, JoinedAt
    <3> QED BY <3>3 DEF GoneTo, E, c
  <2>4. BehindIn(E, M, x, L[l])
    BY <2>2 DEF BehindIn, Before
  <2>5. List!list_splice(m, l, x) = n
    BY <1>3, <2>2, <2>3 DEF List!list_splice
  <2> HIDE DEF M, n
  <2>6. Rings(List!INIT_LIST_HEAD(n, l), M, st)
    BY <1>5, <2>3
  <2>7. List!list_splice_init(m, l, x) = List!INIT_LIST_HEAD(n, l)
    BY <1>3, <2>5 DEF List!list_splice_init
  <2> QED BY <2>3, <2>4, <2>5, <2>6, <2>7
<1>7. \E M : /\ BeforeIn(E, M, x, L[l])
             /\ Rings(List!list_splice_tail(m, l, x), M, c)
             /\ Rings(List!list_splice_tail_init(m, l, x), M, st)
  <2>1. PICK g \in Heads \ c : \E k \in 0 .. Len(E[g]) : x = Behind(E, g, k)
    BY <1>1, <1>2, PlaceFound
  <2>2. PICK k \in 0 .. Len(E[g]) : x = Behind(E, g, k)
    BY <2>1
  <2> DEFINE M == List!Promised!PutIn(E, g, k, L[l])
             n == List!joined(m, l, Before(E, g, k), Behind(E, g, k))
  <2>3. Rings(n, M, c) /\ m[Behind(E, g, k)].prev = Before(E, g, k) /\ M[l] = <<>>
    <3>1. g \in Heads /\ g \notin st /\ g # l
      BY DEF c
    <3>2. k \in 0 .. Len(L[g])
      BY <3>1 DEF E, EmptyAt, Rings
    <3>3. GoneTo(m, L, st, l, g, k)
      BY <3>1, <3>2, JoinedAt
    <3> QED BY <3>3 DEF GoneTo, E, c
  <2>4. BeforeIn(E, M, x, L[l])
    BY <2>2 DEF BeforeIn, Behind
  <2>5. List!list_splice_tail(m, l, x) = n
    BY <1>3, <2>2, <2>3 DEF List!list_splice_tail
  <2> HIDE DEF M, n
  <2>6. Rings(List!INIT_LIST_HEAD(n, l), M, st)
    BY <1>5, <2>3
  <2>7. List!list_splice_tail_init(m, l, x) = List!INIT_LIST_HEAD(n, l)
    BY <1>3, <2>5 DEF List!list_splice_tail_init
  <2> QED BY <2>3, <2>4, <2>5, <2>6, <2>7
<1> QED BY <1>6, <1>7 DEF E, c

(* Of an empty list nothing is spliced.                                    *)
LEMMA SplicedNothing ==
    ASSUME List!KernelListAssumption, NEW m, NEW L, NEW st, Rings(m, L, st),
           NEW l \in Heads \ st, L[l] = <<>>, NEW x \in Used(L, st)
    PROVE  /\ BehindIn(EmptyAt(L, l), L, x, L[l]) /\ BeforeIn(EmptyAt(L, l), L, x, L[l])
           /\ List!list_splice(m, l, x) = m /\ List!list_splice_init(m, l, x) = m
           /\ List!list_splice_tail(m, l, x) = m /\ List!list_splice_tail_init(m, l, x) = m
<1>1. List!list_empty(m, l)
  BY HeadPoints
<1>2. EmptyAt(L, l) = L /\ L \in [Heads -> Seq(Entries)]
  BY DEF EmptyAt, Rings
<1>3. ASSUME NEW g \in Heads, NEW k \in 0 .. Len(L[g]) PROVE List!Promised!PutIn(L, g, k, L[l]) = L
  <2> DEFINE p == Upto(L[g], k)
             q == Onward(L[g], k)
  <2>1. p \in Seq(Entries) /\ q \in Seq(Entries) /\ p \o q = L[g]
    BY <1>2, TakenApart
  <2>2. List!Promised!PutIn(L, g, k, L[l]) = [L EXCEPT ![g] = (p \o <<>>) \o q]
    BY DEF List!Promised!PutIn, Upto, Onward
  <2> HIDE DEF p, q
  <2>3. p \o <<>> = p
    BY <2>1, ConcatEmptySeq
  <2> QED BY <1>2, <2>1, <2>2, <2>3
<1>4. BehindIn(L, L, x, L[l])
  <2>1. PICK g \in Heads \ st : \E k \in 0 .. Len(L[g]) : x = Before(L, g, k)
    BY PlaceFound
  <2> QED BY <1>3, <2>1 DEF BehindIn, Before
<1>5. BeforeIn(L, L, x, L[l])
  <2>1. PICK g \in Heads \ st : \E k \in 0 .. Len(L[g]) : x = Behind(L, g, k)
    BY PlaceFound
  <2> QED BY <1>3, <2>1 DEF BeforeIn, Behind
<1> QED BY <1>1, <1>2, <1>4, <1>5
        DEF List!list_splice, List!list_splice_init, List!list_splice_tail, List!list_splice_tail_init

-----------------------------------------------------------------------------
(* list_replace of a head: another one has its entries.                    *)
LEMMA HeadReplaced ==
    ASSUME List!KernelListAssumption, NEW m, NEW L, NEW st, Rings(m, L, st),
           NEW h \in Heads \ st, NEW l \in Heads \ {h}
    PROVE  /\ Rings(List!list_replace(m, h, l), Halved(L, l, h, Len(L[h])), (st \ {l}) \cup {h})
           /\ Rings(List!list_replace_init(m, h, l), Halved(L, l, h, Len(L[h])), st \ {l})
<1> DEFINE s == L[h]
           c == (st \cup {l}) \cup {h}
           F == [L EXCEPT ![l] = <<>>]
           G == [F EXCEPT ![h] = <<>>]
           n == List!list_replace(m, h, l)
           M == [G EXCEPT ![l] = s]
<1>1. /\ m \in Memory /\ L \in [Heads -> Seq(Entries)] /\ s \in Seq(Entries) /\ Distinct(s)
      /\ h \in Heads /\ h \in List!Nodes /\ l \in List!Nodes /\ IsRing(m, Ring(h, s)) /\ Apart(L)
      /\ Elems(s) \subseteq Entries /\ l # h
  <2>1. s \in Seq(Entries) /\ h \in Heads
    BY DEF Rings
  <2>2. Elems(s) \subseteq Entries
    BY <2>1, RingElems DEF List!KernelListAssumption
  <2> QED BY <2>1, <2>2 DEF Rings, Apart, List!Nodes
<1>2. Rings(m, G, c)
  <2>1. Rings(m, F, st \cup {l})
    BY Forgotten
  <2> HIDE DEF F
  <2> QED BY <1>1, <2>1, Forgotten
<1>3. G \in [Heads -> Seq(Entries)] /\ G[h] = <<>> /\ G[l] = <<>> /\ \A g \in Heads \ {h, l} : G[g] = L[g]
  BY <1>1, EmptySeq
<1>4. c \ {l} = (st \ {l}) \cup {h}
  BY <1>1
<1>5. M = Halved(L, l, h, Len(L[h]))
  <2>1. Upto(s, Len(s)) = s /\ Onward(s, Len(s)) = <<>>
    BY <1>1, SubSeqFull, SubSeqEmpty, LenProperties DEF Upto, Onward
  <2>2. M = [L EXCEPT ![l] = s, ![h] = <<>>]
    BY <1>1
  <2> QED BY <2>1, <2>2 DEF Halved
<1> HIDE DEF s, G, c
<1>6. \A g \in Heads \ {l} : Elems(G[g]) \cap Elems(s) = {}
  <2> SUFFICES ASSUME NEW g \in Heads \ {l} PROVE Elems(G[g]) \cap Elems(s) = {}
    OBVIOUS
  <2>1. CASE g = h
    BY <1>3, <2>1, NoElems
  <2>2. CASE g # h
    BY <1>1, <1>3, <2>2 DEF Apart, s
  <2> QED BY <2>1, <2>2
<1>7. ASSUME NEW g \in Heads \ (c \cup {l}), NEW z \in {g} \cup Elems(G[g])
      PROVE  z \in List!Nodes /\ z # h /\ z # l /\ z \notin Elems(s)
  <2>1. Elems(G[g]) \subseteq Entries /\ Elems(G[g]) \cap Elems(s) = {} /\ g # h
    BY <1>3, <1>6, RingElems DEF List!KernelListAssumption, c
  <2> QED BY <1>1, <2>1 DEF List!Nodes, List!KernelListAssumption
<1>8. n \in Memory /\ IsRing(n, Ring(l, s)) /\ \A z \in List!Nodes \ {h, l} : z \notin Elems(s) => Same(m, n, z)
  <2>1. CASE s = <<>>
    <3>1. m[h].next = h /\ m[h].prev = h
      BY <2>1, HeadPoints DEF s
    <3>2. n \in Memory /\ Link(n, l, l) /\ \A z \in List!Nodes \ {h, l} : Same(m, n, z)
      BY <1>1, <3>1, MemReplace
    <3> HIDE DEF n
    <3>3. Ring(l, s) = <<l>>
      BY <1>1, <2>1, One, ConcatEmptySeq DEF Ring
    <3> QED BY <1>1, <3>2, <3>3, One
  <2>2. CASE s # <<>>
    <3> DEFINE x == s[Len(s)]
               y == s[1]
               a == <<h>>
    <3>1. m[h].next = y /\ m[h].prev = x
      BY <2>2, HeadPoints DEF s
    <3>2. /\ x \in Elems(s) /\ y \in Elems(s) /\ x \in List!Nodes /\ y \in List!Nodes
          /\ x # h /\ y # h /\ x # l /\ y # l /\ s \in Seq(List!Nodes) /\ Elems(s) \subseteq List!Nodes
          /\ l \notin Elems(s)
      BY <1>1, <2>2, Ends, RingTyped DEF List!Nodes, List!KernelListAssumption
    <3> HIDE DEF x, y
    <3>3. n \in Memory
      BY <1>1, <3>1, <3>2, MemReplace
    <3>4. Link(n, x, l) /\ Link(n, l, y)
      BY <1>1, <3>1, <3>2, MemReplace
    <3>5. Elsewhere(m, n, x, y, l)
      BY <1>1, <3>1, <3>2, MemReplace
    <3> HIDE DEF n
    <3>6. Inside(m, n, s)
      BY <3>2, <3>5 DEF Inside, Elsewhere, Elems, x, y
    <3>7. IsRing(n, <<l>> \o s)
      BY <1>1, <2>2, <3>2, <3>4, <3>6, RingReplaced DEF Ring, x, y
    <3>8. \A z \in List!Nodes \ {h, l} : z \notin Elems(s) => Same(m, n, z)
      BY <3>2, <3>5 DEF Elsewhere, Same
    <3> QED BY <3>3, <3>7, <3>8 DEF Ring
  <2> QED BY <2>1, <2>2
<1> HIDE DEF n
<1>9. Rings(n, M, c \ {l})
  <2>1. \A g \in Heads \ (c \cup {l}) : \A z \in {g} \cup Elems(G[g]) : Same(m, n, z)
    BY <1>7, <1>8
  <2> QED BY <1>1, <1>2, <1>6, <1>8, <2>1, OneChanged
<1>10. Rings(List!INIT_LIST_HEAD(n, h), M, st \ {l})
  <2>1. Rings(List!INIT_LIST_HEAD(n, h), [M EXCEPT ![h] = <<>>], (c \ {l}) \ {h})
    <3> HIDE DEF M
    <3> QED BY <1>1, <1>9, Initialised
  <2>2. (c \ {l}) \ {h} = st \ {l}
    BY DEF c
  <2>3. [M EXCEPT ![h] = <<>>] = M
    BY <1>1, <1>3
  <2> QED BY <2>1, <2>2, <2>3
<1> QED BY <1>4, <1>5, <1>9, <1>10 DEF List!list_replace_init, n

(* The rings in memory are the lists that are seen.                        *)
ListInv == Rings(mem, lists, stale)

(* What an operation leaves is what is seen: the lists are its rings.      *)
LEMMA ListLeft ==
    ASSUME List!KernelListAssumption, NEW m, NEW M, NEW st, Rings(m, M, st), List!Leaves(m, st)
    PROVE  lists' = M /\ ListInv'
<1>1. M \in [Heads -> Seq(Entries)] /\ \A h \in st : M[h] = <<>>
  BY DEF Rings
<1>2. ASSUME NEW h \in Heads \ st PROVE List!Seen(m, h) = M[h]
  BY <1>1, SeenIs DEF Rings, Apart
<1>3. [h \in Heads |-> IF h \in st THEN <<>> ELSE List!Seen(m, h)] = M
  BY <1>1, <1>2
<1>4. lists' = M /\ mem' = m /\ stale' = st
  BY <1>3 DEF List!Leaves
<1>5. Rings(mem', lists', stale')
  BY <1>4
<1> QED BY <1>4, <1>5 DEF ListInv

(* The same, if the stale heads are what they were.                        *)
LEMMA ListCalled ==
    ASSUME List!KernelListAssumption, NEW m, NEW M, Rings(m, M, stale), List!Calls(m)
    PROVE  lists' = M /\ ListInv'
BY ListLeft DEF List!Calls

(* What is linked.                                                         *)
LEMMA LinkedIs ==
    ASSUME ListInv
    PROVE  /\ List!Linked = On(lists) /\ List!Live = Heads \ stale /\ List!Places = Used(lists, stale)
           /\ List!Promised!Linked = On(lists) /\ Used(lists, stale) \subseteq List!Promised!Places
           /\ List!Unlinked = Entries \ On(lists) /\ On(lists) \subseteq Entries
           /\ \A h \in Heads : List!ToSet(lists[h]) = Elems(lists[h]) /\ DOMAIN lists[h] = 1 .. Len(lists[h])
<1>1. /\ lists \in [Heads -> Seq(Entries)] /\ \A h \in stale : lists[h] = <<>>
  BY DEF ListInv, Rings
<1>2. \A h \in Heads : /\ List!ToSet(lists[h]) = Elems(lists[h]) /\ DOMAIN lists[h] = 1 .. Len(lists[h])
                       /\ Elems(lists[h]) \subseteq Entries
  BY <1>1, LenProperties, ElementOfSeq DEF List!ToSet, Elems
<1>3. List!Promised!Linked = On(lists)
  BY <1>2 DEF List!Promised!Linked, On, Elems
<1>4. List!Linked = On(lists)
  <2>1. ASSUME NEW z \in List!Linked PROVE z \in On(lists)
    BY <1>2 DEF List!Linked, List!Live, On
  <2>2. ASSUME NEW z \in On(lists) PROVE z \in List!Linked
    <3>1. PICK h \in Heads : z \in Elems(lists[h])
      BY DEF On
    <3>2. h \in List!Live
      BY <1>1, <3>1, NoElems DEF List!Live
    <3> QED BY <1>2, <3>1, <3>2 DEF List!Linked
  <2> QED BY <2>1, <2>2
<1>5. On(lists) \subseteq Entries
  BY <1>2 DEF On
<1> QED BY <1>2, <1>3, <1>4, <1>5 DEF List!Live, List!Places, Used, List!Unlinked, List!Promised!Places

(* An entry that is linked is on a list that is not stale.                 *)
LEMMA LinkedAt ==
    ASSUME ListInv, NEW e \in On(lists)
    PROVE  \E h \in Heads \ stale : \E j \in 1 .. Len(lists[h]) : e = lists[h][j]
<1>1. PICK h \in Heads : \E j \in 1 .. Len(lists[h]) : e = lists[h][j]
  BY OnOne
<1>2. lists[h] # <<>>
  BY <1>1
<1>3. h \in Heads \ stale
  BY <1>2 DEF ListInv, Rings
<1> QED BY <1>1, <1>3

(* What Lists names so.                                                    *)
LEMMA RenamedIs ==
    ASSUME ListInv, NEW r, NEW q, \A z \in On(lists) : q[z] = r[z]
    PROVE  List!Promised!Renamed(q) = AllMapped(lists, r)
<1>1. ASSUME NEW h \in Heads PROVE [j \in DOMAIN lists[h] |-> q[lists[h][j]]] = Mapped(lists[h], r)
  <2>1. DOMAIN lists[h] = 1 .. Len(lists[h])
    BY LinkedIs
  <2>2. \A j \in 1 .. Len(lists[h]) : lists[h][j] \in On(lists)
    BY OnOne DEF Elems
  <2> QED BY <2>1, <2>2 DEF Mapped
<1> QED BY <1>1 DEF List!Promised!Renamed, AllMapped

-----------------------------------------------------------------------------
(* A call of the lists is one of the sequences.                            *)
StepIs == ListInv' /\ List!Promised!Next

(* list_add puts the entry behind its place.                               *)
LEMMA AddStep ==
    ASSUME List!KernelListAssumption, ListInv, NEW e \in Entries, NEW x \in List!Nodes, List!Add(e, x)
    PROVE  StepIs /\ List!Promised!Add(e, x)
<1>1. /\ e \in Entries \ On(lists) /\ x \in Used(lists, stale) /\ x \in List!Promised!Places
      /\ List!Promised!Linked = On(lists) /\ List!Calls(List!list_add(mem, e, x))
  BY LinkedIs DEF List!Add
<1>2. PICK M : Rings(List!list_add(mem, e, x), M, stale) /\ BehindIn(lists, M, x, <<e>>)
  BY <1>1, Added DEF ListInv
<1>3. lists' = M /\ ListInv'
  BY <1>1, <1>2, ListCalled
<1>4. List!Promised!PutBehind(lists, x, <<e>>)
  BY <1>2, <1>3 DEF BehindIn, List!Promised!PutBehind
<1>5. List!Promised!Add(e, x)
  BY <1>1, <1>4 DEF List!Promised!Add
<1> QED BY <1>1, <1>3, <1>5 DEF StepIs, List!Promised!Next

(* list_add_tail puts it before its place.                                 *)
LEMMA AddTailStep ==
    ASSUME List!KernelListAssumption, ListInv, NEW e \in Entries, NEW x \in List!Nodes, List!AddTail(e, x)
    PROVE  StepIs /\ List!Promised!AddTail(e, x)
<1>1. /\ e \in Entries \ On(lists) /\ x \in Used(lists, stale) /\ x \in List!Promised!Places
      /\ List!Promised!Linked = On(lists) /\ List!Calls(List!list_add_tail(mem, e, x))
  BY LinkedIs DEF List!AddTail
<1>2. PICK M : Rings(List!list_add_tail(mem, e, x), M, stale) /\ BeforeIn(lists, M, x, <<e>>)
  BY <1>1, AddedTail DEF ListInv
<1>3. lists' = M /\ ListInv'
  BY <1>1, <1>2, ListCalled
<1>4. List!Promised!PutBefore(lists, x, <<e>>)
  BY <1>2, <1>3 DEF BeforeIn, List!Promised!PutBefore
<1>5. List!Promised!AddTail(e, x)
  BY <1>1, <1>4 DEF List!Promised!AddTail
<1> QED BY <1>1, <1>3, <1>5 DEF StepIs, List!Promised!Next

(* list_replace and list_replace_init put f where e was; behind the second *)
(* e may be used again.                                                    *)
LEMMA ReplaceStep ==
    ASSUME List!KernelListAssumption, ListInv, NEW e \in Entries, NEW f \in Entries,
           List!Replace(e, f) \/ List!ReplaceInit(e, f)
    PROVE  /\ StepIs /\ List!Promised!Replace(e, f)
           /\ List!ReplaceInit(e, f) => List!Initialised(e)'
<1> DEFINE r == Instead(e, f)
           q == [z \in List!Promised!Linked |-> IF z = e THEN f ELSE z]
           M == AllMapped(lists, r)
<1>1. /\ f \in Entries \ On(lists) /\ e \in On(lists) /\ List!Promised!Linked = On(lists)
      /\ On(lists) \subseteq Entries
  BY LinkedIs DEF List!Replace, List!ReplaceInit
<1>2. Rings(mem, lists, stale)
  BY DEF ListInv
<1>3. PICK h \in Heads \ stale : \E j \in 1 .. Len(lists[h]) : e = lists[h][j]
  BY <1>1, LinkedAt
<1>4. PICK j \in 1 .. Len(lists[h]) : e = lists[h][j]
  BY <1>3
<1>5. Rings(List!list_replace(mem, e, f), M, stale) /\ Rings(List!list_replace_init(mem, e, f), M, stale)
  <2>1. Rings(List!list_replace(mem, lists[h][j], f), AllMapped(lists, Instead(lists[h][j], f)), stale)
    BY <1>1, <1>2, Replaced
  <2>2. Rings(List!list_replace_init(mem, lists[h][j], f), AllMapped(lists, Instead(lists[h][j], f)), stale)
    BY <1>1, <1>2, ReplacedInit
  <2> QED BY <1>4, <2>1, <2>2
<1>6. M = List!Promised!Renamed(q)
  <2>1. \A z \in On(lists) : q[z] = r[z]
    BY <1>1 DEF Instead
  <2> QED BY <2>1, RenamedIs
<1> HIDE DEF M
<1>7. lists' = M /\ ListInv'
  <2>1. CASE List!Replace(e, f)
    <3>1. List!Calls(List!list_replace(mem, e, f))
      BY <2>1 DEF List!Replace
    <3> QED BY <1>5, <3>1, ListCalled
  <2>2. CASE List!ReplaceInit(e, f)
    <3>1. List!Calls(List!list_replace_init(mem, e, f))
      BY <2>2 DEF List!ReplaceInit
    <3> QED BY <1>5, <3>1, ListCalled
  <2> QED BY <2>1, <2>2
<1>8. List!Promised!Replace(e, f)
  BY <1>1, <1>6, <1>7 DEF List!Promised!Replace
<1>9. ASSUME List!ReplaceInit(e, f) PROVE List!Initialised(e)'
  <2> DEFINE n == List!list_replace(mem, e, f)
  <2>1. n \in Memory /\ e \in List!Nodes
    BY <1>5 DEF Rings, List!Nodes
  <2>2. mem' = List!INIT_LIST_HEAD(n, e)
    BY <1>9 DEF List!ReplaceInit, List!Calls, List!Leaves, List!list_replace_init
  <2> HIDE DEF n
  <2>3. Link(mem', e, e)
    BY <2>1, <2>2, MemInit
  <2> QED BY <2>3 DEF Link, List!Initialised
<1> QED BY <1>7, <1>8, <1>9 DEF StepIs, List!Promised!Next

(* list_del and list_del_init take the entry off its list, if it is on one;*)
(* behind the second it may be used again.                                 *)
LEMMA DeleteStep ==
    ASSUME List!KernelListAssumption, ListInv, NEW e \in Entries, List!Del(e) \/ List!DelInit(e)
    PROVE  /\ StepIs /\ List!Promised!Delete(e)
           /\ List!DelInit(e) => List!Initialised(e)'
<1>1. /\ List!Linked = On(lists) /\ List!Unlinked = Entries \ On(lists) /\ List!Promised!Linked = On(lists)
      /\ \A h \in Heads : DOMAIN lists[h] = 1 .. Len(lists[h])
  BY LinkedIs
<1>2. Rings(mem, lists, stale) /\ mem \in Memory /\ e \in List!Nodes
  BY DEF ListInv, Rings, List!Nodes
<1>3. ASSUME e \in On(lists)
      PROVE  ListInv' /\ List!Promised!Delete(e) /\ List!unlink(mem, e) \in Memory
  <2>1. PICK h \in Heads \ stale : \E j \in 1 .. Len(lists[h]) : e = lists[h][j]
    BY <1>3, LinkedAt
  <2>2. PICK j \in 1 .. Len(lists[h]) : e = lists[h][j]
    BY <2>1
  <2> DEFINE M == Without(lists, h, j)
  <2>3. /\ Rings(List!list_del(mem, e), M, stale) /\ Rings(List!list_del_init(mem, e), M, stale)
        /\ Rings(List!unlink(mem, e), M, stale)
    <3>1. /\ Rings(List!list_del(mem, lists[h][j]), M, stale)
          /\ Rings(List!list_del_init(mem, lists[h][j]), M, stale)
      BY <1>2, Deleted
    <3>2. Rings(List!unlink(mem, lists[h][j]), M, stale)
      BY <1>2, Unlinked1
    <3> QED BY <2>2, <3>1, <3>2
  <2>4. M = List!Promised!Without(h, j)
    BY DEF Without, List!Promised!Without
  <2> HIDE DEF M
  <2>5. lists' = M /\ ListInv'
    <3>1. CASE List!Del(e)
      <4>1. List!Calls(List!list_del(mem, e))
        BY <3>1 DEF List!Del
      <4> QED BY <2>3, <4>1, ListCalled
    <3>2. CASE List!DelInit(e)
      <4>1. List!Calls(List!list_del_init(mem, e))
        BY <3>2 DEF List!DelInit
      <4> QED BY <2>3, <4>1, ListCalled
    <3> QED BY <3>1, <3>2
  <2>6. List!Promised!Delete(e)
    BY <1>1, <2>2, <2>4, <2>5 DEF List!Promised!Delete
  <2>7. List!unlink(mem, e) \in Memory
    BY <2>3 DEF Rings
  <2> QED BY <2>5, <2>6, <2>7
<1>4. ASSUME e \notin On(lists)
      PROVE  ListInv' /\ List!Promised!Delete(e) /\ List!unlink(mem, e) \in Memory
  <2>1. /\ e \in Entries \ On(lists) /\ mem[e].next = e /\ mem[e].prev = e
        /\ List!Calls(List!list_del_init(mem, e))
    BY <1>1, <1>4 DEF List!Del, List!DelInit, List!Initialised
  <2>2. Rings(List!list_del_init(mem, e), lists, stale)
    BY <1>2, <2>1, DeletedAgain
  <2>3. lists' = lists /\ ListInv'
    BY <2>1, <2>2, ListCalled
  <2>4. List!Promised!Delete(e)
    BY <1>1, <2>1, <2>3 DEF List!Promised!Delete
  <2>5. List!unlink(mem, e) \in Memory
    BY <1>2, <2>1, MemUnlink
  <2> QED BY <2>3, <2>4, <2>5
<1>5. ListInv' /\ List!Promised!Delete(e) /\ List!unlink(mem, e) \in Memory
  BY <1>3, <1>4
<1>6. ASSUME List!DelInit(e) PROVE List!Initialised(e)'
  <2> DEFINE n == List!unlink(mem, e)
  <2>1. mem' = List!INIT_LIST_HEAD(n, e)
    BY <1>6 DEF List!DelInit, List!Calls, List!Leaves, List!list_del_init
  <2>2. n \in Memory
    BY <1>5
  <2> HIDE DEF n
  <2>3. Link(mem', e, e)
    BY <1>2, <2>1, <2>2, MemInit
  <2> QED BY <2>3 DEF Link, List!Initialised
<1> QED BY <1>5, <1>6 DEF StepIs, List!Promised!Next

(* list_swap: the two change places.                                       *)
LEMMA SwapStep ==
    ASSUME List!KernelListAssumption, ListInv, NEW e \in Entries, NEW f \in Entries, List!Swap(e, f)
    PROVE  StepIs /\ List!Promised!Swap(e, f)
<1> DEFINE r == Exchanged(e, f)
           q == [z \in List!Promised!Linked |-> CASE z = e -> f [] z = f -> e [] OTHER -> z]
           M == AllMapped(lists, r)
<1>1. /\ e \in On(lists) /\ f \in On(lists) /\ e # f /\ List!Promised!Linked = On(lists)
      /\ On(lists) \subseteq Entries /\ List!Calls(List!list_swap(mem, e, f))
  BY LinkedIs DEF List!Swap
<1>2. Rings(mem, lists, stale)
  BY DEF ListInv
<1>3. PICK g \in Heads \ stale : \E i \in 1 .. Len(lists[g]) : f = lists[g][i]
  BY <1>1, LinkedAt
<1>4. PICK i \in 1 .. Len(lists[g]) : f = lists[g][i]
  BY <1>3
<1>5. Rings(List!list_swap(mem, e, f), M, stale)
  <2>1. e # lists[g][i]
    BY <1>1, <1>4
  <2>2. Rings(List!list_swap(mem, e, lists[g][i]), AllMapped(lists, Exchanged(e, lists[g][i])), stale)
    BY <1>1, <1>2, <2>1, Swapped
  <2> QED BY <1>4, <2>2
<1>6. M = List!Promised!Renamed(q)
  <2>1. \A z \in On(lists) : q[z] = r[z]
    BY <1>1 DEF Exchanged
  <2> QED BY <2>1, RenamedIs
<1> HIDE DEF M
<1>7. lists' = M /\ ListInv'
  BY <1>1, <1>5, ListCalled
<1>8. List!Promised!Swap(e, f)
  BY <1>1, <1>6, <1>7 DEF List!Promised!Swap
<1> QED BY <1>7, <1>8 DEF StepIs, List!Promised!Next

(* list_move and list_move_tail: the entry goes behind, or before, x.      *)
LEMMA MoveStep ==
    ASSUME List!KernelListAssumption, ListInv, NEW e \in Entries, NEW x \in List!Nodes
    PROVE  /\ List!Move(e, x) => StepIs /\ List!Promised!Move(e, x)
           /\ List!MoveTail(e, x) => StepIs /\ List!Promised!MoveTail(e, x)
<1> SUFFICES ASSUME List!Move(e, x) \/ List!MoveTail(e, x)
             PROVE  /\ List!Move(e, x) => StepIs /\ List!Promised!Move(e, x)
                    /\ List!MoveTail(e, x) => StepIs /\ List!Promised!MoveTail(e, x)
  OBVIOUS
<1>1. /\ e \in On(lists) /\ x \in Used(lists, stale) \ {e} /\ x \in List!Promised!Places
      /\ \A h \in Heads : DOMAIN lists[h] = 1 .. Len(lists[h])
  BY LinkedIs DEF List!Move, List!MoveTail
<1>2. Rings(mem, lists, stale)
  BY DEF ListInv
<1>3. PICK h \in Heads \ stale : \E j \in 1 .. Len(lists[h]) : e = lists[h][j]
  BY <1>1, LinkedAt
<1>4. PICK j \in 1 .. Len(lists[h]) : e = lists[h][j]
  BY <1>3
<1>5. /\ \E M : Rings(List!list_move(mem, e, x), M, stale) /\ BehindIn(Without(lists, h, j), M, x, <<e>>)
      /\ \E M : Rings(List!list_move_tail(mem, e, x), M, stale) /\ BeforeIn(Without(lists, h, j), M, x, <<e>>)
  <2>1. x \in Used(lists, stale) \ {lists[h][j]}
    BY <1>1, <1>4
  <2>2. /\ \E M : /\ Rings(List!list_move(mem, lists[h][j], x), M, stale)
                  /\ BehindIn(Without(lists, h, j), M, x, <<lists[h][j]>>)
        /\ \E M : /\ Rings(List!list_move_tail(mem, lists[h][j], x), M, stale)
                  /\ BeforeIn(Without(lists, h, j), M, x, <<lists[h][j]>>)
    BY <1>2, <2>1, Moved
  <2> QED BY <1>4, <2>2
<1>6. Without(lists, h, j) = List!Promised!Without(h, j)
  BY DEF Without, List!Promised!Without
<1>7. ASSUME List!Move(e, x) PROVE StepIs /\ List!Promised!Move(e, x)
  <2>1. PICK M : Rings(List!list_move(mem, e, x), M, stale) /\ BehindIn(Without(lists, h, j), M, x, <<e>>)
    BY <1>5
  <2>2. List!Calls(List!list_move(mem, e, x))
    BY <1>7 DEF List!Move
  <2>3. lists' = M /\ ListInv'
    BY <2>1, <2>2, ListCalled
  <2>4. List!Promised!PutBehind(List!Promised!Without(h, j), x, <<e>>)
    BY <1>6, <2>1, <2>3 DEF BehindIn, List!Promised!PutBehind
  <2>5. List!Promised!Move(e, x)
    BY <1>1, <1>4, <2>4 DEF List!Promised!Move
  <2> QED BY <1>1, <2>3, <2>5 DEF StepIs, List!Promised!Next
<1>8. ASSUME List!MoveTail(e, x) PROVE StepIs /\ List!Promised!MoveTail(e, x)
  <2>1. PICK M : Rings(List!list_move_tail(mem, e, x), M, stale) /\ BeforeIn(Without(lists, h, j), M, x, <<e>>)
    BY <1>5
  <2>2. List!Calls(List!list_move_tail(mem, e, x))
    BY <1>8 DEF List!MoveTail
  <2>3. lists' = M /\ ListInv'
    BY <2>1, <2>2, ListCalled
  <2>4. List!Promised!PutBefore(List!Promised!Without(h, j), x, <<e>>)
    BY <1>6, <2>1, <2>3 DEF BeforeIn, List!Promised!PutBefore
  <2>5. List!Promised!MoveTail(e, x)
    BY <1>1, <1>4, <2>4 DEF List!Promised!MoveTail
  <2> QED BY <1>1, <2>3, <2>5 DEF StepIs, List!Promised!Next
<1> QED BY <1>7, <1>8

(* What Lists calls a split.                                               *)
LEMMA HalvedIs ==
    ASSUME NEW l, NEW h, NEW n
    PROVE  List!Promised!Split(l, h, n) = Halved(lists, l, h, n)
BY DEF List!Promised!Split, Halved, Upto, Onward

(* list_rotate_left: the second entry, if there is one, becomes the first. *)
LEMMA RotateLeftStep ==
    ASSUME List!KernelListAssumption, ListInv, NEW h \in Heads, List!RotateLeft(h)
    PROVE  StepIs /\ List!Promised!RotateLeft(h)
<1>1. /\ Rings(mem, lists, stale) /\ h \in Heads \ stale /\ lists \in [Heads -> Seq(Entries)]
      /\ List!Calls(List!list_rotate_left(mem, h))
  BY LinkedIs DEF ListInv, Rings, List!RotateLeft
<1>2. CASE lists[h] = <<>>
  <2>1. List!list_rotate_left(mem, h) = mem
    BY <1>1, <1>2, HeadPoints DEF List!list_rotate_left
  <2>2. lists' = lists /\ ListInv'
    BY <1>1, <2>1, ListCalled
  <2>3. List!Promised!RotateLeft(h)
    BY <1>2, <2>2 DEF List!Promised!RotateLeft
  <2> QED BY <2>2, <2>3 DEF StepIs, List!Promised!Next
<1>3. CASE lists[h] # <<>>
  <2>1. Rings(List!list_rotate_left(mem, h), Turned(lists, h, 1), stale)
    BY <1>1, <1>3, RotatedLeft
  <2>2. lists' = Turned(lists, h, 1) /\ ListInv'
    BY <1>1, <2>1, ListCalled
  <2>3. 1 + 1 = 2 /\ 2 - 1 = 1
    OBVIOUS
  <2>4. Turned(lists, h, 1) = List!Promised!RotatedTo(h, 2)
    BY <2>3 DEF Turned, Onward, Upto, List!Promised!RotatedTo
  <2>5. List!Promised!RotateLeft(h)
    BY <1>3, <2>2, <2>4 DEF List!Promised!RotateLeft
  <2> QED BY <2>2, <2>5 DEF StepIs, List!Promised!Next
<1> QED BY <1>2, <1>3

(* list_rotate_to_front: the entry becomes the first.                      *)
LEMMA RotateToFrontStep ==
    ASSUME List!KernelListAssumption, ListInv, NEW e \in Entries, NEW h \in Heads, List!RotateToFront(e, h)
    PROVE  StepIs /\ List!Promised!RotateToFront(e, h)
<1>1. /\ Rings(mem, lists, stale) /\ h \in Heads \ stale /\ DOMAIN lists[h] = 1 .. Len(lists[h])
      /\ List!Contains(lists[h], e) /\ List!Calls(List!list_rotate_to_front(mem, e, h))
  BY LinkedIs DEF ListInv, List!RotateToFront
<1>2. PICK j \in 1 .. Len(lists[h]) : e = lists[h][j]
  BY <1>1 DEF List!Contains
<1>3. Rings(List!list_rotate_to_front(mem, e, h), Turned(lists, h, j - 1), stale)
  <2>1. Rings(List!list_rotate_to_front(mem, lists[h][j], h), Turned(lists, h, j - 1), stale)
    BY <1>1, RotatedToFront
  <2> QED BY <1>2, <2>1
<1>4. lists' = Turned(lists, h, j - 1) /\ ListInv'
  BY <1>1, <1>3, ListCalled
<1>5. j - 1 + 1 = j
  OBVIOUS
<1>6. Turned(lists, h, j - 1) = List!Promised!RotatedTo(h, j)
  BY <1>5 DEF Turned, Onward, Upto, List!Promised!RotatedTo
<1>7. List!Promised!RotateToFront(e, h)
  BY <1>1, <1>2, <1>4, <1>6 DEF List!Promised!RotateToFront
<1> QED BY <1>4, <1>7 DEF StepIs, List!Promised!Next

(* list_bulk_move_tail: the entries from e to f go to the end.             *)
LEMMA BulkMoveStep ==
    ASSUME List!KernelListAssumption, ListInv, NEW h \in Heads, NEW e \in Entries, NEW f \in Entries,
           List!BulkMoveTail(h, e, f)
    PROVE  StepIs /\ List!Promised!BulkMoveTail(h, e, f)
<1>1. /\ Rings(mem, lists, stale) /\ h \in Heads \ stale /\ DOMAIN lists[h] = 1 .. Len(lists[h])
      /\ lists[h] \in Seq(Entries)
  BY LinkedIs DEF ListInv, Rings, List!BulkMoveTail
<1>2. PICK j \in 1 .. Len(lists[h]) : \E k \in j .. Len(lists[h]) :
          /\ e = lists[h][j] /\ f = lists[h][k]
          /\ List!Calls(List!list_bulk_move_tail(mem, h, e, f))
  BY <1>1 DEF List!BulkMoveTail
<1>3. PICK k \in j .. Len(lists[h]) :
          /\ e = lists[h][j] /\ f = lists[h][k]
          /\ List!Calls(List!list_bulk_move_tail(mem, h, e, f))
  BY <1>2
<1>4. Rings(List!list_bulk_move_tail(mem, h, e, f), AtEnd(lists, h, j, k), stale)
  <2>1. Rings(List!list_bulk_move_tail(mem, h, lists[h][j], lists[h][k]), AtEnd(lists, h, j, k), stale)
    BY <1>1, BulkMoved
  <2> QED BY <1>3, <2>1
<1>5. lists' = AtEnd(lists, h, j, k) /\ ListInv'
  BY <1>3, <1>4, ListCalled
<1>6. k \in DOMAIN lists[h] /\ j <= k
  <2>1. Len(lists[h]) \in Nat
    BY <1>1, LenProperties
  <2> QED BY <1>1, <2>1
<1>7. List!Promised!BulkMoveTail(h, e, f)
  BY <1>1, <1>3, <1>5, <1>6 DEF List!Promised!BulkMoveTail, AtEnd, Upto, Onward, Middle
<1> QED BY <1>5, <1>7 DEF StepIs, List!Promised!Next

(* The entries up to x, or to the one before it, are on the other list.    *)
LEMMA CutStep ==
    ASSUME List!KernelListAssumption, ListInv, NEW l \in Heads, NEW h \in Heads, NEW x \in List!Nodes
    PROVE  /\ List!CutPosition(l, h, x) => StepIs /\ List!Promised!CutPosition(l, h, x)
           /\ List!CutBefore(l, h, x) => StepIs /\ List!Promised!CutBefore(l, h, x)
<1> SUFFICES ASSUME List!CanCut(l, h, x)
             PROVE  /\ List!CutPosition(l, h, x) => StepIs /\ List!Promised!CutPosition(l, h, x)
                    /\ List!CutBefore(l, h, x) => StepIs /\ List!Promised!CutBefore(l, h, x)
  BY DEF List!CutPosition, List!CutBefore
<1> DEFINE s == lists[h]
           st == stale \ {l}
<1>1. /\ Rings(mem, lists, stale) /\ h \in Heads \ stale /\ l \in Heads \ {h} /\ l # h
      /\ s \in Seq(Entries) /\ Len(s) \in Nat /\ h \notin Entries
  BY LinkedIs, LenProperties DEF ListInv, Rings, List!CanCut, List!KernelListAssumption
<1>2. /\ x = h \/ \E j \in 1 .. Len(s) : x = s[j]
      /\ x \in List!Promised!Places
  <2>1. x = h \/ \E j \in 1 .. Len(s) : x = s[j]
    BY DEF List!CanCut, List!OnList, List!Contains
  <2>2. DOMAIN s = 1 .. Len(s)
    BY <1>1, LenProperties
  <2> QED BY <1>1, <2>1, <2>2 DEF List!Promised!Places, List!Promised!Linked
<1>3. /\ (<<h>> \o s)[0 + 1] = h /\ \A i \in 1 .. Len(s) : (<<h>> \o s)[i + 1] = s[i]
      /\ (s \o <<h>>)[Len(s) + 1] = h /\ \A i \in 1 .. Len(s) : (s \o <<h>>)[i] = s[i]
  BY <1>1, RingTyped DEF Ring
<1>4. 0 \in 0 .. Len(s) /\ Rings(List!INIT_LIST_HEAD(mem, l), Halved(lists, l, h, 0), st)
  BY <1>1, CutNothing
<1>5. ASSUME List!CutPosition(l, h, x) PROVE StepIs /\ List!Promised!CutPosition(l, h, x)
  <2>1. List!Leaves(List!list_cut_position(mem, l, h, x), IF List!list_empty(mem, h) THEN stale ELSE st)
    BY <1>5 DEF List!CutPosition
  <2>2. List!list_empty(mem, h) <=> s = <<>>
    BY <1>1, HeadPoints
  <2>3. ASSUME NEW i \in 0 .. Len(s), x = (<<h>> \o s)[i + 1], NEW m, s # <<>>,
               Rings(m, Halved(lists, l, h, i), st), List!Leaves(m, st)
        PROVE  StepIs /\ List!Promised!CutPosition(l, h, x)
    <3>1. lists' = List!Promised!Split(l, h, i) /\ ListInv'
      BY <2>3, ListLeft, HalvedIs
    <3>2. List!Promised!CutPosition(l, h, x)
      BY <1>1, <2>3, <3>1 DEF List!Promised!CutPosition
    <3> QED BY <1>2, <3>1, <3>2 DEF StepIs, List!Promised!Next
  <2>4. CASE s = <<>>
    <3>1. List!Leaves(mem, stale)
      BY <2>1, <2>2, <2>4 DEF List!list_cut_position
    <3>2. lists' = lists /\ ListInv'
      BY <1>1, <3>1, ListLeft
    <3>3. x = (<<h>> \o s)[0 + 1]
      BY <1>1, <1>2, <1>3, <2>4
    <3>4. List!Promised!CutPosition(l, h, x)
      BY <1>1, <1>4, <2>4, <3>2, <3>3 DEF List!Promised!CutPosition
    <3> QED BY <1>2, <3>2, <3>4 DEF StepIs, List!Promised!Next
  <2>5. CASE s # <<>> /\ x = h
    <3>1. List!list_cut_position(mem, l, h, x) = List!INIT_LIST_HEAD(mem, l)
      BY <2>2, <2>5 DEF List!list_cut_position
    <3>2. List!Leaves(List!INIT_LIST_HEAD(mem, l), st)
      BY <2>1, <2>2, <2>5, <3>1
    <3>3. x = (<<h>> \o s)[0 + 1]
      BY <1>3, <2>5
    <3> HIDE DEF s, st
    <3> QED BY <1>4, <2>3, <2>5, <3>2, <3>3
  <2>6. CASE s # <<>> /\ x # h
    <3>1. PICK i \in 1 .. Len(s) : x = s[i]
      BY <1>2, <2>6
    <3>2. Rings(List!list_cut_position(mem, l, h, s[i]), Halved(lists, l, h, i), st)
      BY <1>1, CutPosition
    <3>3. List!Leaves(List!list_cut_position(mem, l, h, s[i]), st)
      BY <2>1, <2>2, <2>6, <3>1
    <3>4. i \in 0 .. Len(s) /\ x = (<<h>> \o s)[i + 1]
      BY <1>1, <1>3, <3>1
    <3> HIDE DEF s, st
    <3> QED BY <2>3, <2>6, <3>2, <3>3, <3>4
  <2> QED BY <2>4, <2>5, <2>6
<1>6. ASSUME List!CutBefore(l, h, x) PROVE StepIs /\ List!Promised!CutBefore(l, h, x)
  <2>1. List!Leaves(List!list_cut_before(mem, l, h, x), st)
    BY <1>6 DEF List!CutBefore
  <2>2. ASSUME NEW i \in 0 .. Len(s), x = (s \o <<h>>)[i + 1], NEW m,
               Rings(m, Halved(lists, l, h, i), st), List!Leaves(m, st)
        PROVE  StepIs /\ List!Promised!CutBefore(l, h, x)
    <3>1. lists' = List!Promised!Split(l, h, i) /\ ListInv'
      BY <2>2, ListLeft, HalvedIs
    <3>2. List!Promised!CutBefore(l, h, x)
      BY <1>1, <2>2, <3>1 DEF List!Promised!CutBefore
    <3> QED BY <1>2, <3>1, <3>2 DEF StepIs, List!Promised!Next
  <2>3. /\ s = <<>> => mem[h].next = h /\ Len(s) = 0
        /\ s # <<>> => mem[h].next = s[1] /\ 1 \in 1 .. Len(s)
    BY <1>1, HeadPoints, Ends
  <2>4. CASE mem[h].next = x
    <3>1. List!Leaves(List!INIT_LIST_HEAD(mem, l), st)
      BY <2>1, <2>4 DEF List!list_cut_before
    <3>2. x = (s \o <<h>>)[0 + 1]
      <4>1. CASE s = <<>>
        BY <1>3, <2>3, <2>4, <4>1
      <4>2. CASE s # <<>>
        <5>1. (s \o <<h>>)[1] = s[1]
          BY <1>3, <2>3, <4>2
        <5> QED BY <2>3, <2>4, <4>2, <5>1
      <4> QED BY <4>1, <4>2
    <3> HIDE DEF s, st
    <3> QED BY <1>4, <2>2, <3>1, <3>2
  <2>5. CASE mem[h].next # x
    <3>1. PICK i \in 1 .. Len(s) : x = (s \o <<h>>)[i + 1]
      <4>1. s # <<>>
        BY <1>2, <2>3, <2>5, NoElems
      <4>2. Len(s) \in 1 .. Len(s)
        BY <1>1, <4>1, Ends
      <4>3. CASE x = h
        BY <1>3, <4>2, <4>3
      <4>4. CASE x # h
        <5>1. PICK j \in 1 .. Len(s) : x = s[j]
          BY <1>2, <4>4
        <5>2. j # 1
          BY <2>3, <2>5, <4>1, <5>1
        <5> DEFINE k == j - 1
        <5>3. k \in 1 .. Len(s) /\ k + 1 = j
          BY <1>1, <5>2
        <5> HIDE DEF k
        <5>4. x = (s \o <<h>>)[k + 1]
          BY <1>3, <5>1, <5>3
        <5> QED BY <5>3, <5>4
      <4> QED BY <4>3, <4>4
    <3>2. Rings(List!list_cut_before(mem, l, h, Behind(lists, h, i)), Halved(lists, l, h, i), st)
      BY <1>1, CutBefore
    <3>3. Behind(lists, h, i) = x
      BY <3>1 DEF Behind
    <3>4. Rings(List!list_cut_before(mem, l, h, x), Halved(lists, l, h, i), st)
      BY <3>2, <3>3
    <3>5. i \in 0 .. Len(s)
      BY <1>1
    <3> HIDE DEF s, st
    <3> QED BY <2>1, <2>2, <3>1, <3>4, <3>5
  <2> QED BY <2>4, <2>5
<1> QED BY <1>5, <1>6

(* The four ways to splice: all of l goes behind, or before, x.            *)
LEMMA SpliceStep ==
    ASSUME List!KernelListAssumption, ListInv, NEW l \in Heads, NEW x \in List!Nodes
    PROVE  /\ List!Splice(l, x) \/ List!SpliceInit(l, x) => StepIs /\ List!Promised!Splice(l, x)
           /\ List!SpliceTail(l, x) \/ List!SpliceTailInit(l, x) => StepIs /\ List!Promised!SpliceTail(l, x)
<1> SUFFICES ASSUME List!CanSplice(l, x)
             PROVE  /\ List!Splice(l, x) \/ List!SpliceInit(l, x) => StepIs /\ List!Promised!Splice(l, x)
                    /\ List!SpliceTail(l, x) \/ List!SpliceTailInit(l, x)
                           => StepIs /\ List!Promised!SpliceTail(l, x)
  BY DEF List!Splice, List!SpliceInit, List!SpliceTail, List!SpliceTailInit
<1> DEFINE s == lists[l]
           E == EmptyAt(lists, l)
<1>1. /\ Rings(mem, lists, stale) /\ l \in Heads \ stale /\ l \in Heads /\ x \in Used(lists, stale)
      /\ x \in List!Promised!Places /\ x # l /\ x \notin Elems(s)
  <2>1. ~List!Contains(s, x) /\ x # l
    BY DEF List!CanSplice, List!OnList
  <2>2. x \notin Elems(s)
    BY <2>1 DEF List!Contains, Elems
  <2> QED BY <2>1, <2>2, LinkedIs DEF ListInv, List!CanSplice
<1>2. E = List!Promised!Emptied(l)
  BY DEF EmptyAt, List!Promised!Emptied
<1> HIDE DEF E
<1>3. ASSUME NEW m, NEW M, NEW st, BehindIn(E, M, x, s), Rings(m, M, st), List!Leaves(m, st)
      PROVE  StepIs /\ List!Promised!Splice(l, x)
  <2>1. lists' = M /\ ListInv'
    BY <1>3, ListLeft
  <2>2. List!Promised!PutBehind(List!Promised!Emptied(l), x, lists[l])
    BY <1>2, <1>3, <2>1 DEF BehindIn, List!Promised!PutBehind
  <2>3. List!Promised!Splice(l, x)
    BY <1>1, <2>2 DEF List!Promised!Splice
  <2> QED BY <1>1, <2>1, <2>3 DEF StepIs, List!Promised!Next
<1>4. ASSUME NEW m, NEW M, NEW st, BeforeIn(E, M, x, s), Rings(m, M, st), List!Leaves(m, st)
      PROVE  StepIs /\ List!Promised!SpliceTail(l, x)
  <2>1. lists' = M /\ ListInv'
    BY <1>4, ListLeft
  <2>2. List!Promised!PutBefore(List!Promised!Emptied(l), x, lists[l])
    BY <1>2, <1>4, <2>1 DEF BeforeIn, List!Promised!PutBefore
  <2>3. List!Promised!SpliceTail(l, x)
    BY <1>1, <2>2 DEF List!Promised!SpliceTail
  <2> QED BY <1>1, <2>1, <2>3 DEF StepIs, List!Promised!Next
<1>5. /\ s = <<>> => List!left(l) = stale
      /\ s # <<>> => List!left(l) = stale \cup {l}
  BY <1>1, HeadPoints DEF List!left
<1>6. /\ List!Splice(l, x) => List!Leaves(List!list_splice(mem, l, x), List!left(l))
      /\ List!SpliceInit(l, x) => List!Leaves(List!list_splice_init(mem, l, x), stale)
      /\ List!SpliceTail(l, x) => List!Leaves(List!list_splice_tail(mem, l, x), List!left(l))
      /\ List!SpliceTailInit(l, x) => List!Leaves(List!list_splice_tail_init(mem, l, x), stale)
  BY DEF List!Splice, List!SpliceInit, List!SpliceTail, List!SpliceTailInit, List!Calls
<1>7. CASE s = <<>>
  <2>1. /\ BehindIn(E, lists, x, s) /\ BeforeIn(E, lists, x, s)
        /\ List!list_splice(mem, l, x) = mem /\ List!list_splice_init(mem, l, x) = mem
        /\ List!list_splice_tail(mem, l, x) = mem /\ List!list_splice_tail_init(mem, l, x) = mem
    BY <1>1, <1>7, SplicedNothing DEF E
  <2>2. List!Splice(l, x) \/ List!SpliceInit(l, x) \/ List!SpliceTail(l, x) \/ List!SpliceTailInit(l, x)
            => List!Leaves(mem, stale)
    BY <1>5, <1>6, <1>7, <2>1
  <2> HIDE DEF s
  <2>3. List!Leaves(mem, stale) => StepIs /\ List!Promised!Splice(l, x) /\ List!Promised!SpliceTail(l, x)
    BY <1>1, <1>3, <1>4, <2>1
  <2> QED BY <2>2, <2>3
<1>8. CASE s # <<>>
  <2>1. /\ \E M : /\ BehindIn(E, M, x, s)
                  /\ Rings(List!list_splice(mem, l, x), M, stale \cup {l})
                  /\ Rings(List!list_splice_init(mem, l, x), M, stale)
        /\ \E M : /\ BeforeIn(E, M, x, s)
                  /\ Rings(List!list_splice_tail(mem, l, x), M, stale \cup {l})
                  /\ Rings(List!list_splice_tail_init(mem, l, x), M, stale)
    BY <1>1, <1>8, Spliced DEF E
  <2>2. /\ List!Splice(l, x) => List!Leaves(List!list_splice(mem, l, x), stale \cup {l})
        /\ List!SpliceTail(l, x) => List!Leaves(List!list_splice_tail(mem, l, x), stale \cup {l})
    BY <1>5, <1>6, <1>8
  <2> HIDE DEF s
  <2>3. List!Splice(l, x) \/ List!SpliceInit(l, x) => StepIs /\ List!Promised!Splice(l, x)
    <3>1. PICK M : /\ BehindIn(E, M, x, s)
                   /\ Rings(List!list_splice(mem, l, x), M, stale \cup {l})
                   /\ Rings(List!list_splice_init(mem, l, x), M, stale)
      BY <2>1
    <3> QED BY <1>3, <1>6, <2>2, <3>1
  <2>4. List!SpliceTail(l, x) \/ List!SpliceTailInit(l, x) => StepIs /\ List!Promised!SpliceTail(l, x)
    <3>1. PICK M : /\ BeforeIn(E, M, x, s)
                   /\ Rings(List!list_splice_tail(mem, l, x), M, stale \cup {l})
                   /\ Rings(List!list_splice_tail_init(mem, l, x), M, stale)
      BY <2>1
    <3> QED BY <1>4, <1>6, <2>2, <3>1
  <2> QED BY <2>3, <2>4
<1> QED BY <1>7, <1>8

(* INIT_LIST_HEAD: the list is empty.                                      *)
LEMMA InitHeadStep ==
    ASSUME List!KernelListAssumption, ListInv, NEW h \in Heads, List!InitHead(h)
    PROVE  StepIs /\ List!Promised!Empty(h)
<1>1. Rings(List!INIT_LIST_HEAD(mem, h), List!Promised!Emptied(h), stale \ {h})
  BY Initialised DEF ListInv, List!Promised!Emptied
<1>2. List!Leaves(List!INIT_LIST_HEAD(mem, h), stale \ {h})
  BY DEF List!InitHead
<1>3. lists' = List!Promised!Emptied(h) /\ ListInv'
  BY <1>1, <1>2, ListLeft
<1>4. List!Promised!Empty(h)
  BY <1>3 DEF List!Promised!Empty
<1> QED BY <1>3, <1>4 DEF StepIs, List!Promised!Next

(* list_replace and list_replace_init of a head: l has the entries of h.   *)
LEMMA ReplaceHeadStep ==
    ASSUME List!KernelListAssumption, ListInv, NEW l \in Heads, NEW h \in Heads,
           List!ReplaceHead(h, l) \/ List!ReplaceHeadInit(h, l)
    PROVE  StepIs /\ List!Promised!ReplaceHead(h, l)
<1>1. h \in Heads \ stale /\ l \in Heads \ {h} /\ Rings(mem, lists, stale)
  BY LinkedIs DEF ListInv, List!ReplaceHead, List!ReplaceHeadInit
<1> DEFINE M == Halved(lists, l, h, Len(lists[h]))
<1>2. /\ Rings(List!list_replace(mem, h, l), M, (stale \ {l}) \cup {h})
      /\ Rings(List!list_replace_init(mem, h, l), M, stale \ {l})
  BY <1>1, HeadReplaced
<1>3. M = List!Promised!Split(l, h, Len(lists[h]))
  BY HalvedIs
<1> HIDE DEF M
<1>4. lists' = M /\ ListInv'
  <2>1. CASE List!ReplaceHead(h, l)
    <3>1. List!Leaves(List!list_replace(mem, h, l), (stale \ {l}) \cup {h})
      BY <2>1 DEF List!ReplaceHead
    <3> QED BY <1>2, <3>1, ListLeft
  <2>2. CASE List!ReplaceHeadInit(h, l)
    <3>1. List!Leaves(List!list_replace_init(mem, h, l), stale \ {l})
      BY <2>2 DEF List!ReplaceHeadInit
    <3> QED BY <1>2, <3>1, ListLeft
  <2> QED BY <2>1, <2>2
<1>5. List!Promised!ReplaceHead(h, l)
  BY <1>1, <1>3, <1>4 DEF List!Promised!ReplaceHead
<1> QED BY <1>4, <1>5 DEF StepIs, List!Promised!Next

(* At first every node is alone.                                           *)
LEMMA ListInit ==
    ASSUME List!KernelListAssumption, List!Init
    PROVE  ListInv /\ List!Promised!Init
<1>1. mem \in Memory
  BY DEF List!Init, Memory, Pointers
<1>2. <<>> \in Seq(Entries) /\ Elems(<<>>) = {} /\ Distinct(<<>>)
  BY NoElems, EmptySeq
<1>3. lists \in [Heads -> Seq(Entries)] /\ stale = {} /\ \A h \in Heads : lists[h] = <<>>
  BY <1>2 DEF List!Init
<1>4. Apart(lists)
  BY <1>2, <1>3 DEF Apart
<1>5. ASSUME NEW h \in Heads PROVE IsRing(mem, Ring(h, lists[h]))
  <2>1. h \in List!Nodes /\ Link(mem, h, h)
    BY DEF List!Nodes, List!Init, Link
  <2>2. Ring(h, lists[h]) = <<h>>
    BY <1>3, <2>1, One, ConcatEmptySeq DEF Ring
  <2> QED BY <2>1, <2>2, One
<1>6. List!Promised!Init
  BY DEF List!Init, List!Promised!Init
<1> QED BY <1>1, <1>3, <1>4, <1>5, <1>6 DEF ListInv, Rings

(* Every call is one of the sequences, and the rings stay rings.           *)
LEMMA ListStep ==
    ASSUME List!KernelListAssumption, ListInv, [List!Next]_(List!vars)
    PROVE  ListInv' /\ [List!Promised!Next]_lists
<1>1. CASE UNCHANGED List!vars
  BY <1>1 DEF List!vars, ListInv
<1>2. CASE List!Next
  <2>1. StepIs
    BY <1>2, AddStep, AddTailStep, DeleteStep, ReplaceStep, SwapStep, MoveStep, RotateLeftStep,
       RotateToFrontStep, BulkMoveStep, CutStep, SpliceStep, InitHeadStep, ReplaceHeadStep DEF List!Next
  <2> QED BY <2>1 DEF StepIs
<1> QED BY <1>1, <1>2

(* Every call does what its comment says.                                  *)
LEMMA ListPromises ==
    ASSUME List!KernelListAssumption, ListInv
    PROVE  List!EntriesAsPromised /\ List!HeadsAsPromised
<1>1. List!EntriesAsPromised
  BY AddStep, AddTailStep, DeleteStep, ReplaceStep, SwapStep, MoveStep DEF List!EntriesAsPromised
<1>2. List!HeadsAsPromised
  BY RotateLeftStep, RotateToFrontStep, BulkMoveStep, CutStep, SpliceStep, InitHeadStep, ReplaceHeadStep
     DEF List!HeadsAsPromised
<1> QED BY <1>1, <1>2

(* Pointers of nodes on the rings are to nodes.                            *)
LEMMA ListTyped ==
    ASSUME List!KernelListAssumption, ListInv
    PROVE  List!TypeOK
<1>1. Rings(mem, lists, stale) /\ mem \in Memory /\ stale \subseteq Heads /\ lists \in [Heads -> Seq(Entries)]
  BY DEF ListInv, Rings
<1>2. ASSUME NEW x \in List!Nodes PROVE {mem[x].next, mem[x].prev} \subseteq List!Nodes \cup {POISON}
  BY <1>1 DEF Memory, Pointers
<1>3. ASSUME NEW x \in List!Places PROVE mem[x].next \in List!Nodes /\ mem[x].prev \in List!Nodes
  <2>1. x \in Used(lists, stale)
    BY LinkedIs
  <2>2. PICK h \in Heads \ stale : x \in {h} \cup Elems(lists[h])
    <3>1. CASE x \in Heads \ stale
      BY <3>1
    <3>2. CASE x \in On(lists)
      <4>1. PICK h \in Heads \ stale : \E j \in 1 .. Len(lists[h]) : x = lists[h][j]
        BY <3>2, LinkedAt
      <4> QED BY <4>1 DEF Elems
    <3> QED BY <2>1, <3>1, <3>2 DEF Used
  <2> DEFINE r == Ring(h, lists[h])
  <2>3. h \in Heads /\ lists[h] \in Seq(Entries) /\ IsRing(mem, r)
    BY <1>1 DEF Rings
  <2>4. r \in Seq(List!Nodes) /\ r # <<>> /\ x \in Elems(r)
    BY <2>2, <2>3, RingTyped, RingElems DEF List!KernelListAssumption
  <2> HIDE DEF r
  <2>5. mem[x].next \in Elems(r) /\ mem[x].prev \in Elems(r)
    BY <2>3, <2>4, RingPointers
  <2>6. Elems(r) \subseteq List!Nodes
    BY <2>4, Ends
  <2> QED BY <2>5, <2>6
<1>4. POISON \notin List!Nodes
  BY DEF List!KernelListAssumption, List!Nodes
<1> QED BY <1>1, <1>2, <1>3, <1>4 DEF List!TypeOK

-----------------------------------------------------------------------------
(* The lists are used as KernelList says, or not at all.                   *)
LEMMA ListRuns ==
    /\ LibraryInit => ListInv /\ List!Promised!Init
    /\ ListInv /\ [TableUsed \/ ListUsed]_allVars => ListInv' /\ [List!Promised!Next]_lists
<1>1. List!KernelListAssumption
  BY LibraryAssumption
<1>2. ASSUME LibraryInit PROVE ListInv /\ List!Promised!Init
  BY <1>1, <1>2, ListInit DEF LibraryInit
<1>3. ASSUME ListInv, [TableUsed \/ ListUsed]_allVars PROVE ListInv' /\ [List!Promised!Next]_lists
  <2>1. [List!Next]_(List!vars)
    BY <1>3 DEF TableUsed, ListUsed, allVars, listVars, List!vars
  <2> QED BY <1>1, <1>3, <2>1, ListStep
<1> QED BY <1>2, <1>3

(* The pointers of kernel_list.h always make up rings, and the lists that  *)
(* are seen on them change, as sequences of entries, by every call as its  *)
(* comment there says of the entries, the heads and the place it is told.  *)
THEOREM ListsCorrect == LibrarySpec => ListsSpec
<1>1. LibraryInit => ListInv /\ List!Promised!Init
  BY ListRuns
<1>2. ListInv /\ [TableUsed \/ ListUsed]_allVars => ListInv' /\ [List!Promised!Next]_lists
  BY ListRuns
<1>3. ListInv => [List!EntriesAsPromised /\ List!HeadsAsPromised]_(List!vars)
  BY LibraryAssumption, ListPromises
<1> QED BY <1>1, <1>2, <1>3, PTL DEF LibrarySpec, ListsSpec, List!ListsSpec, List!Promised!Spec

(* Of c_STL.c and kernel_list.h: nodes are well formed and in the chain of *)
(* their key, and no pointer of a node on a list is POISON.                *)
THEOREM TypesCorrect == LibrarySpec => []BothTyped
<1>1. LibraryInit => ListInv
  BY ListRuns
<1>2. ListInv /\ [TableUsed \/ ListUsed]_allVars => ListInv'
  BY ListRuns
<1>3. ListInv => List!TypeOK
  BY LibraryAssumption, ListTyped
<1> QED BY <1>1, <1>2, <1>3, TableTypeCorrect, PTL DEF LibrarySpec, BothTyped
=============================================================================
