-------------------------- MODULE WebSession_proofs --------------------------
(***************************************************************************)
(* For rings, buffers and numbers of boots of any size: wherever the bytes *)
(* typed wait on their way to the machine they keep their order and none   *)
(* is missing, the end of the input comes after the input, the screen      *)
(* shows what the machine wrote, and a machine runs from whole images.     *)
(***************************************************************************)
EXTENDS WebSession, FiniteSetTheorems, SequenceTheorems, WellFoundedInduction, TLAPS

(***************************************************************************)
(* The folds.  A fold picks the greatest index first, so that it is a      *)
(* function on the sets of indices of which the initial segments matter.   *)
(***************************************************************************)

(* Induction: a set of numbers that is not empty has a least one, whose    *)
(* predecessor is not in it.                                               *)
LEMMA LeastOf ==
  ASSUME NEW T \in SUBSET Nat, T # {}
  PROVE  \E n \in T : n - 1 \notin T /\ \A m \in T : n <= m
<1>1. \E x \in T : \A y \in T : <<y, x>> \notin OpToRel(<, Nat)
  BY NatLessThanWellFounded, WFMin
<1>2. PICK x \in T : \A y \in T : <<y, x>> \notin OpToRel(<, Nat)
  BY <1>1
<1>3. \A y \in T : x <= y
  <2> SUFFICES ASSUME NEW y \in T PROVE x <= y
    OBVIOUS
  <2>1. <<y, x>> \in Nat \X Nat
    OBVIOUS
  <2>2. ~(y < x)
    BY <1>2, <2>1 DEF OpToRel
  <2> QED
    BY <2>2
<1>4. x - 1 \notin T
  BY <1>3
<1> QED
  BY <1>3, <1>4

LEMMA MaxIs ==
  ASSUME NEW S \in SUBSET Nat, NEW x \in S, \A y \in S : y <= x
  PROVE  Max(S) = x
<1>1. \A z \in S : (\A y \in S : z >= y) => z = x
  BY SMT
<1>2. \A y \in S : x >= y
  BY SMT
<1> QED
  BY <1>1, <1>2 DEF Max

LEMMA MaxIn ==
  ASSUME NEW n \in Nat, NEW S \in SUBSET (1 .. n), S # {}
  PROVE  Max(S) \in 1 .. n
<1> DEFINE T == {k \in Nat : \E x \in S : x = n - k}
<1>1. T \in SUBSET Nat /\ T # {}
  <2>1. PICK x \in S : TRUE
    OBVIOUS
  <2>2. x \in 1 .. n /\ n - x \in Nat /\ x = n - (n - x)
    BY <2>1
  <2> QED
    BY <2>2
<1>2. PICK k \in T : \A j \in T : k <= j
  BY <1>1, LeastOf
<1>3. k \in Nat /\ n - k \in S
  OBVIOUS
<1>4. \A y \in S : y <= n - k
  <2> SUFFICES ASSUME NEW y \in S PROVE y <= n - k
    OBVIOUS
  <2>1. y \in 1 .. n /\ n - y \in Nat /\ y = n - (n - y)
    OBVIOUS
  <2>2. n - y \in T
    BY <2>1
  <2> QED
    BY <1>2, <1>3, <2>1, <2>2
<1>5. Max(S) = n - k
  <2>1. S \in SUBSET Nat
    OBVIOUS
  <2> QED
    BY <1>3, <1>4, <2>1, MaxIs
<1> QED
  BY <1>3, <1>5

LEMMA Shorter ==
  ASSUME NEW k \in Nat \ {0}
  PROVE  /\ k \in 1 .. k /\ (1 .. k) \ {k} = 1 .. (k - 1)
  OBVIOUS

(* f folds the steps g over sets of the first n indices.                   *)
Folds(f, b, g, n) ==
  \A s \in SUBSET (1 .. n) :
     f[s] = IF s = {} THEN b ELSE g[Max(s)][f[s \ {Max(s)}]]

LEMMA FoldExists ==
  ASSUME NEW A, NEW b \in A, NEW n \in Nat, NEW g \in [1 .. n -> [A -> A]]
  PROVE  \E f \in [SUBSET (1 .. n) -> A] : Folds(f, b, g, n)
<1> DEFINE Can(m) == \E f \in [SUBSET (1 .. m) -> A] : Folds(f, b, g, m)
           T == {m \in 0 .. n : ~ Can(m)}
<1> SUFFICES ASSUME T # {} PROVE FALSE
  <2> HIDE DEF Can
  <2>1. n \in 0 .. n
    OBVIOUS
  <2>2. Can(n)
    BY <2>1
  <2> QED
    BY <2>2 DEF Can
<1>1. T \in SUBSET Nat
  OBVIOUS
<1>2. PICK m \in T : m - 1 \notin T
  BY <1>1, LeastOf
<1>3. m \in 0 .. n /\ ~ Can(m)
  BY <1>2
<1>4. CASE m = 0
  <2> DEFINE f == [s \in SUBSET (1 .. m) |-> b]
  <2>1. f \in [SUBSET (1 .. m) -> A]
    OBVIOUS
  <2>2. 1 .. m = {}
    BY <1>4
  <2>3. Folds(f, b, g, m)
    BY <2>2 DEF Folds
  <2> QED
    BY <1>3, <2>1, <2>3
<1>5. CASE m # 0
  <2>1. m - 1 \in 0 .. n /\ m \in 1 .. n /\ m - 1 \in Nat
    BY <1>3, <1>5
  <2>2. PICK f \in [SUBSET (1 .. (m - 1)) -> A] : Folds(f, b, g, m - 1)
    BY <1>2, <2>1
  <2>3. 1 .. m = (1 .. (m - 1)) \cup {m} /\ m \notin 1 .. (m - 1)
    BY <2>1
  <2> DEFINE h == [s \in SUBSET (1 .. m) |-> IF m \in s THEN g[m][f[s \ {m}]] ELSE f[s]]
  <2>4. h \in [SUBSET (1 .. m) -> A]
    <3> SUFFICES ASSUME NEW s \in SUBSET (1 .. m)
                 PROVE  (IF m \in s THEN g[m][f[s \ {m}]] ELSE f[s]) \in A
      OBVIOUS
    <3>1. s \ {m} \in SUBSET (1 .. (m - 1))
      BY <2>3
    <3>2. f[s \ {m}] \in A /\ g[m] \in [A -> A]
      BY <2>1, <3>1
    <3>3. m \notin s => s = s \ {m}
      OBVIOUS
    <3> QED
      BY <3>2, <3>3
  <2>5. ASSUME NEW s \in SUBSET (1 .. m)
        PROVE  h[s] = IF s = {} THEN b ELSE g[Max(s)][h[s \ {Max(s)}]]
    <3>1. CASE m \in s
      <4>1. s \in SUBSET Nat /\ \A y \in s : y <= m
        BY <2>1
      <4>2. Max(s) = m
        BY <3>1, <4>1, MaxIs
      <4>3. s \ {m} \in SUBSET (1 .. m) /\ m \notin s \ {m}
        OBVIOUS
      <4>4. h[s \ {m}] = f[s \ {m}]
        BY <4>3
      <4>5. h[s] = g[m][f[s \ {m}]]
        BY <3>1
      <4> QED
        BY <3>1, <4>2, <4>4, <4>5
    <3>2. CASE m \notin s
      <4>1. s \in SUBSET (1 .. (m - 1))
        BY <2>3, <3>2
      <4>2. f[s] = IF s = {} THEN b ELSE g[Max(s)][f[s \ {Max(s)}]]
        BY <2>2, <4>1 DEF Folds
      <4>3. h[s] = f[s] /\ h[s \ {Max(s)}] = f[s \ {Max(s)}]
        BY <3>2
      <4> QED
        BY <4>2, <4>3
    <3> QED
      BY <3>1, <3>2
  <2>6. Folds(h, b, g, m)
    BY <2>5 DEF Folds
  <2> QED
    BY <1>3, <2>4, <2>6
<1> QED
  BY <1>4, <1>5

LEMMA Assoc ==
  ASSUME NEW a \in Seq(Nat), NEW b \in Seq(Nat), NEW c \in Seq(Nat)
  PROVE  (a \o b) \o c = a \o (b \o c)
  OBVIOUS

LEMMA AppendBehind ==
  ASSUME NEW q \in Seq(Nat), NEW s \in Seq(Nat), NEW b \in Nat
  PROVE  Append(q \o s, b) = q \o Append(s, b)
<1>1. Append(q \o s, b) = (q \o s) \o <<b>>
  BY AppendIsConcat
<1>2. Append(s, b) = s \o <<b>>
  BY AppendIsConcat
<1>3. <<b>> \in Seq(Nat)
  OBVIOUS
<1>4. (q \o s) \o <<b>> = q \o (s \o <<b>>)
  BY <1>3, ConcatAssociative
<1> QED
  BY <1>1, <1>2, <1>4

(* What a message adds to the bytes of its kind.                           *)
Part(m, t) == IF m.type = t THEN m.data ELSE <<>>

Kinds == {"start", "input", "eof", "out", "images", "running", "exit", "onerror"}
Message == [type : Kinds, data : Seq(Nat)]

LEMMA PartType == ASSUME NEW m \in Message, NEW t PROVE Part(m, t) \in Seq(Nat)
  BY DEF Part, Message

(* d is the fold of Data, message by message.                              *)
Gathers(d, q, t) ==
  /\ d[0] = <<>>
  /\ \A k \in 1 .. Len(q) : d[k] = d[k - 1] \o Part(q[k], t)
  /\ \A k \in 0 .. Len(q) : d[k] \in Seq(Nat)

LEMMA DataGathers ==
  ASSUME NEW q \in Seq(Message), NEW t
  PROVE  \E d : Gathers(d, q, t) /\ Data(q, t) = d[Len(q)]
<1> DEFINE up == CHOOSE f : f = [s \in SUBSET DOMAIN q |->
              IF s = {} THEN <<>>
              ELSE IF q[Max(s)].type = t THEN f[s \ {Max(s)}] \o q[Max(s)].data
                                         ELSE f[s \ {Max(s)}]]
           n == Len(q)
           g == [k \in 1 .. n |-> [out \in Seq(Nat) |-> out \o Part(q[k], t)]]
<1>1. Data(q, t) = up[DOMAIN q]
  BY DEF Data, FoldLeft, MapThenFoldSet
<1>2. n \in Nat /\ DOMAIN q = 1 .. n /\ \A k \in 1 .. n : q[k] \in Message
  OBVIOUS
<1>3. g \in [1 .. n -> [Seq(Nat) -> Seq(Nat)]]
  BY <1>2, PartType
<1>4. <<>> \in Seq(Nat)
  OBVIOUS
<1>5. PICK f \in [SUBSET (1 .. n) -> Seq(Nat)] : Folds(f, <<>>, g, n)
  <2> HIDE DEF g, n
  <2> QED
    BY <1>2, <1>3, <1>4, FoldExists
<1>6. ASSUME NEW s \in SUBSET DOMAIN q
      PROVE  f[s] = IF s = {} THEN <<>>
                    ELSE IF q[Max(s)].type = t THEN f[s \ {Max(s)}] \o q[Max(s)].data
                                               ELSE f[s \ {Max(s)}]
  <2>1. f[s] = IF s = {} THEN <<>> ELSE g[Max(s)][f[s \ {Max(s)}]]
    BY <1>2, <1>5 DEF Folds
  <2>2. CASE s # {}
    <3>1. Max(s) \in 1 .. n
      BY <1>2, <2>2, MaxIn
    <3>2. f[s \ {Max(s)}] \in Seq(Nat)
      BY <1>2, <1>5
    <3>3. g[Max(s)][f[s \ {Max(s)}]] = f[s \ {Max(s)}] \o Part(q[Max(s)], t)
      BY <3>1, <3>2
    <3>4. f[s \ {Max(s)}] \o <<>> = f[s \ {Max(s)}]
      BY <3>2, ConcatEmptySeq
    <3> QED
      BY <2>1, <2>2, <3>3, <3>4 DEF Part
  <2> QED
    BY <2>1, <2>2
<1>7. f = [s \in SUBSET DOMAIN q |->
              IF s = {} THEN <<>>
              ELSE IF q[Max(s)].type = t THEN f[s \ {Max(s)}] \o q[Max(s)].data
                                         ELSE f[s \ {Max(s)}]]
  <2> DEFINE h == [s \in SUBSET DOMAIN q |->
              IF s = {} THEN <<>>
              ELSE IF q[Max(s)].type = t THEN f[s \ {Max(s)}] \o q[Max(s)].data
                                         ELSE f[s \ {Max(s)}]]
  <2>1. DOMAIN f = DOMAIN h /\ \A s \in DOMAIN f : f[s] = h[s]
    BY <1>2, <1>5, <1>6
  <2>2. h = [s \in DOMAIN h |-> h[s]] /\ f = [s \in DOMAIN f |-> f[s]]
    BY <1>5, ZenonT(30)
  <2>3. f = h
    <3> HIDE DEF h
    <3> QED
      BY <2>1, <2>2
  <2> QED
    BY <2>3
<1>8. up = [s \in SUBSET DOMAIN q |->
              IF s = {} THEN <<>>
              ELSE IF q[Max(s)].type = t THEN up[s \ {Max(s)}] \o q[Max(s)].data
                                         ELSE up[s \ {Max(s)}]]
  BY <1>7, ZenonT(60)
<1> DEFINE d == [k \in 0 .. n |-> up[1 .. k]]
<1> HIDE DEF up, g
<1>9. \A k \in 0 .. n : 1 .. k \in SUBSET DOMAIN q
  BY <1>2
<1>10. d[0] = <<>>
  <2>1. 1 .. 0 = {} /\ 0 \in 0 .. n
    BY <1>2
  <2> QED
    BY <1>8, <1>9, <2>1
<1>11. ASSUME NEW k \in 1 .. n
       PROVE  d[k] = IF q[k].type = t THEN d[k - 1] \o q[k].data ELSE d[k - 1]
  <2>1. /\ k \in 0 .. n /\ k - 1 \in 0 .. n /\ 1 .. k # {} /\ k \in 1 .. k
        /\ (1 .. k) \ {k} = 1 .. (k - 1)
    <3> HIDE DEF n, d
    <3>1. n \in Nat
      BY <1>2
    <3>2. k \in Nat \ {0} /\ k \in 0 .. n /\ k - 1 \in 0 .. n
      BY <3>1
    <3>3. k \in 1 .. k /\ (1 .. k) \ {k} = 1 .. (k - 1)
      BY <3>2, Shorter
    <3> QED
      BY <3>2, <3>3
  <2>2. Max(1 .. k) = k
    <3>1. 1 .. k \in SUBSET Nat /\ \A y \in 1 .. k : y <= k
      OBVIOUS
    <3> QED
      BY <2>1, <3>1, MaxIs
  <2> QED
    BY <1>8, <1>9, <2>1, <2>2, ZenonT(60)
<1>12. \A k \in 0 .. n : d[k] \in Seq(Nat)
  <2> DEFINE T == {k \in 0 .. n : d[k] \notin Seq(Nat)}
  <2> SUFFICES ASSUME T # {} PROVE FALSE
    OBVIOUS
  <2>1. T \in SUBSET Nat
    OBVIOUS
  <2>2. PICK k \in T : k - 1 \notin T
    BY <2>1, LeastOf
  <2>3. k \in 0 .. n /\ d[k] \notin Seq(Nat)
    BY <2>2
  <2> HIDE DEF d
  <2>4. k # 0
    BY <1>4, <1>10, <2>3
  <2>5. k \in 1 .. n /\ k - 1 \in 0 .. n /\ d[k - 1] \in Seq(Nat)
    BY <1>2, <2>2, <2>3, <2>4
  <2>6. q[k].data \in Seq(Nat)
    BY <1>2, <2>5 DEF Message
  <2>7. d[k - 1] \o q[k].data \in Seq(Nat)
    BY <2>5, <2>6, ConcatProperties
  <2> QED
    BY <1>11, <2>3, <2>5, <2>7
<1>13. \A k \in 1 .. n : d[k] = d[k - 1] \o Part(q[k], t)
  <2> SUFFICES ASSUME NEW k \in 1 .. n PROVE d[k] = d[k - 1] \o Part(q[k], t)
    OBVIOUS
  <2> HIDE DEF d
  <2>1. k - 1 \in 0 .. n /\ d[k - 1] \in Seq(Nat)
    BY <1>2, <1>12
  <2>2. d[k - 1] \o <<>> = d[k - 1]
    BY <2>1, ConcatEmptySeq
  <2> QED
    BY <1>11, <2>2 DEF Part
<1>14. Data(q, t) = d[n]
  BY <1>1, <1>2
<1> QED
  <2> HIDE DEF d
  <2> QED
    BY <1>10, <1>12, <1>13, <1>14 DEF Gathers

LEMMA DataType ==
  ASSUME NEW q \in Seq(Message), NEW t
  PROVE  Data(q, t) \in Seq(Nat)
<1>1. PICK d : Gathers(d, q, t) /\ Data(q, t) = d[Len(q)]
  BY DataGathers
<1>2. Len(q) \in 0 .. Len(q)
  OBVIOUS
<1> QED
  BY <1>1, <1>2 DEF Gathers

LEMMA DataEmpty ==
  ASSUME NEW t
  PROVE  Data(<<>>, t) = <<>>
<1>1. <<>> \in Seq(Message) /\ Len(<<>>) = 0
  OBVIOUS
<1>2. PICK d : Gathers(d, <<>>, t) /\ Data(<<>>, t) = d[Len(<<>>)]
  BY <1>1, DataGathers
<1> QED
  BY <1>1, <1>2 DEF Gathers

(* Two folds agree as long as the queues do.                               *)
LEMMA DataPrefix ==
  ASSUME NEW q \in Seq(Message), NEW r \in Seq(Message), NEW t,
         NEW d, Gathers(d, q, t), NEW e, Gathers(e, r, t),
         NEW n \in Nat, n <= Len(q), n <= Len(r),
         \A k \in 1 .. n : q[k] = r[k]
  PROVE  d[n] = e[n]
<1> DEFINE T == {k \in 0 .. n : d[k] # e[k]}
<1> SUFFICES ASSUME T # {} PROVE FALSE
  OBVIOUS
<1>1. T \in SUBSET Nat
  OBVIOUS
<1>2. PICK k \in T : k - 1 \notin T
  BY <1>1, LeastOf
<1>3. k \in 0 .. n /\ d[k] # e[k]
  BY <1>2
<1>4. k # 0
  BY <1>3 DEF Gathers
<1>5. /\ k - 1 \in 0 .. n /\ k \in 1 .. n /\ k \in 1 .. Len(q) /\ k \in 1 .. Len(r)
  BY <1>3, <1>4
<1>6. d[k - 1] = e[k - 1]
  BY <1>2, <1>5
<1> QED
  BY <1>3, <1>5, <1>6 DEF Gathers

LEMMA DataAppend ==
  ASSUME NEW q \in Seq(Message), NEW m \in Message, NEW t
  PROVE  Data(Append(q, m), t) = Data(q, t) \o Part(m, t)
<1> DEFINE r == Append(q, m)
<1>1. /\ r \in Seq(Message) /\ Len(r) = Len(q) + 1 /\ r[Len(q) + 1] = m
      /\ \A k \in 1 .. Len(q) : q[k] = r[k]
      /\ Len(q) \in Nat
  OBVIOUS
<1> HIDE DEF r
<1>2. PICK d : Gathers(d, q, t) /\ Data(q, t) = d[Len(q)]
  BY DataGathers
<1>3. PICK e : Gathers(e, r, t) /\ Data(r, t) = e[Len(r)]
  BY <1>1, DataGathers
<1>4. d[Len(q)] = e[Len(q)]
  BY <1>1, <1>2, <1>3, DataPrefix
<1>5. Len(r) \in 1 .. Len(r) /\ Len(r) - 1 = Len(q)
  BY <1>1
<1>6. e[Len(r)] = e[Len(q)] \o Part(r[Len(r)], t)
  BY <1>3, <1>5 DEF Gathers
<1>7. Data(r, t) = Data(q, t) \o Part(m, t)
  BY <1>1, <1>2, <1>3, <1>4, <1>6
<1> QED
  BY <1>7 DEF r

(* The first message's part comes first.                                   *)
LEMMA DataHead ==
  ASSUME NEW q \in Seq(Message), q # <<>>, NEW t
  PROVE  Data(q, t) = Part(Head(q), t) \o Data(Tail(q), t)
<1> DEFINE r == Tail(q)
           p == Part(Head(q), t)
<1>1. /\ r \in Seq(Message) /\ Len(q) \in Nat \ {0} /\ Len(r) = Len(q) - 1
      /\ Head(q) = q[1] /\ q[1] \in Message
      /\ \A k \in 1 .. Len(r) : r[k] = q[k + 1]
  OBVIOUS
<1>2. p \in Seq(Nat)
  BY <1>1, PartType
<1>8. Part(q[1], t) = p
  BY <1>1
<1>9. Part(Head(q), t) \o Data(Tail(q), t) = p \o Data(r, t)
  OBVIOUS
<1> HIDE DEF r, p
<1>3. PICK d : Gathers(d, q, t) /\ Data(q, t) = d[Len(q)]
  BY DataGathers
<1>4. PICK e : Gathers(e, r, t) /\ Data(r, t) = e[Len(r)]
  BY <1>1, DataGathers
<1> DEFINE T == {k \in 0 .. Len(r) : d[k + 1] # p \o e[k]}
<1>5. T = {}
  <2> SUFFICES ASSUME T # {} PROVE FALSE
    OBVIOUS
  <2>1. T \in SUBSET Nat
    BY <1>1
  <2>2. PICK k \in T : k - 1 \notin T
    BY <2>1, LeastOf
  <2>3. k \in 0 .. Len(r) /\ d[k + 1] # p \o e[k]
    BY <2>2
  <2>4. CASE k = 0
    <3>1. 1 \in 1 .. Len(q) /\ 1 - 1 = 0
      BY <1>1
    <3>2. d[1] = d[0] \o Part(q[1], t) /\ d[0] = <<>> /\ e[0] = <<>>
      BY <1>3, <1>4, <3>1 DEF Gathers
    <3>3. <<>> \o p = p /\ p \o <<>> = p
      BY <1>2, ConcatEmptySeq
    <3>5. d[1] = p \o e[0]
      BY <1>8, <3>2, <3>3
    <3> QED
      BY <2>3, <2>4, <3>5
  <2>5. CASE k # 0
    <3>1. /\ k \in 1 .. Len(r) /\ k + 1 \in 1 .. Len(q) /\ k - 1 \in 0 .. Len(r)
          /\ (k + 1) - 1 = k /\ (k - 1) + 1 = k
      BY <1>1, <2>3, <2>5
    <3>2. d[k] = p \o e[k - 1]
      BY <2>2, <3>1
    <3>3. d[k + 1] = d[k] \o Part(q[k + 1], t) /\ e[k] = e[k - 1] \o Part(r[k], t)
      BY <1>3, <1>4, <3>1 DEF Gathers
    <3>4. r[k] = q[k + 1] /\ Part(r[k], t) \in Seq(Nat)
      <4>1. r[k] \in Message /\ r[k] = q[k + 1]
        BY <1>1, <3>1, SMTT(30)
      <4> QED
        BY <4>1, PartType
    <3>6. e[k - 1] \in Seq(Nat)
      BY <1>4, <3>1 DEF Gathers
    <3>5. (p \o e[k - 1]) \o Part(r[k], t) = p \o (e[k - 1] \o Part(r[k], t))
      <4> DEFINE a == e[k - 1]
                 b == Part(r[k], t)
      <4>1. a \in Seq(Nat) /\ b \in Seq(Nat)
        BY <3>4, <3>6
      <4> HIDE DEF a, b
      <4>2. (p \o a) \o b = p \o (a \o b)
        BY <1>2, <4>1, Assoc
      <4> QED
        BY <4>2 DEF a, b
    <3> QED
      BY <2>3, <3>2, <3>3, <3>4, <3>5
  <2> QED
    BY <2>4, <2>5
<1>6. Len(r) \in 0 .. Len(r) /\ Len(r) + 1 = Len(q)
  BY <1>1
<1>7. d[Len(q)] = p \o e[Len(r)]
  BY <1>5, <1>6
<1> QED
  BY <1>3, <1>4, <1>7, <1>9

(* If the bytes of every message exceed a number, so do those of all.      *)
LEMMA DataBehind ==
  ASSUME NEW q \in Seq(Message), NEW t, NEW n \in Nat,
         \A i \in 1 .. Len(q) : q[i].type = t =>
            \A j \in 1 .. Len(q[i].data) : q[i].data[j] > n
  PROVE  \A j \in 1 .. Len(Data(q, t)) : Data(q, t)[j] > n
<1>1. PICK d : Gathers(d, q, t) /\ Data(q, t) = d[Len(q)]
  BY DataGathers
<1> DEFINE Good(s) == \A j \in 1 .. Len(s) : s[j] > n
           T == {k \in 0 .. Len(q) : ~Good(d[k])}
<1>2. T = {}
  <2> SUFFICES ASSUME T # {} PROVE FALSE
    OBVIOUS
  <2>1. T \in SUBSET Nat
    OBVIOUS
  <2>2. PICK k \in T : k - 1 \notin T
    BY <2>1, LeastOf
  <2>3. k \in 0 .. Len(q) /\ ~Good(d[k])
    BY <2>2
  <2>4. k # 0
    BY <1>1, <2>3 DEF Gathers
  <2>5. k \in 1 .. Len(q) /\ k - 1 \in 0 .. Len(q)
    BY <2>3, <2>4
  <2>6. Good(d[k - 1])
    BY <2>2, <2>5
  <2>7. d[k] = d[k - 1] \o Part(q[k], t) /\ d[k - 1] \in Seq(Nat) /\ q[k] \in Message
    <3>1. q[k] \in Message
      BY <2>5
    <3> QED
      BY <1>1, <2>5, <3>1 DEF Gathers
  <2>8. Part(q[k], t) \in Seq(Nat) /\ Good(Part(q[k], t))
    <3>1. Part(q[k], t) \in Seq(Nat)
      BY <2>7, PartType
    <3>2. CASE q[k].type = t
      <4>1. Part(q[k], t) = q[k].data
        BY <3>2 DEF Part
      <4> QED
        BY <2>5, <3>1, <3>2, <4>1
    <3>3. CASE q[k].type # t
      <4>1. Part(q[k], t) = <<>>
        BY <3>3 DEF Part
      <4> QED
        BY <3>1, <4>1
    <3> QED
      BY <3>2, <3>3
  <2>9. Good(d[k - 1] \o Part(q[k], t))
    <3> DEFINE a == d[k - 1]
               b == Part(q[k], t)
    <3>1. a \in Seq(Nat) /\ b \in Seq(Nat) /\ Good(a) /\ Good(b)
      BY <2>6, <2>7, <2>8
    <3> HIDE DEF a, b
    <3>2. Len(a \o b) = Len(a) + Len(b) /\ Len(a) \in Nat /\ Len(b) \in Nat
      BY <3>1, ConcatProperties
    <3>3. ASSUME NEW j \in 1 .. Len(a \o b) PROVE (a \o b)[j] > n
      <4>1. (a \o b)[j] = IF j <= Len(a) THEN a[j] ELSE b[j - Len(a)]
        BY <3>1, ConcatProperties
      <4>2. CASE j <= Len(a)
        BY <3>1, <3>2, <4>1, <4>2
      <4>3. CASE ~(j <= Len(a))
        <5>1. j - Len(a) \in 1 .. Len(b)
          BY <3>2, <4>3
        <5> QED
          BY <3>1, <4>1, <4>3, <5>1
      <4> QED
        BY <4>2, <4>3
    <3>4. Good(a \o b)
      BY <3>3
    <3> QED
      BY <3>4 DEF a, b
  <2> QED
    BY <2>3, <2>7, <2>9
<1>3. Len(q) \in 0 .. Len(q)
  OBVIOUS
<1> QED
  BY <1>1, <1>2, <1>3

(* The ring takes bytes from the front until it is full: of those pushed,  *)
(* the first k, all of them if there is room.                              *)
Fills(r, q, bytes, k) ==
  \E n \in 0 .. k :
    /\ r = q \o SubSeq(bytes, 1, n)
    /\ n < k => Len(q) + n >= WEBIN_CAP
    /\ Len(q) <= WEBIN_CAP => Len(q) + n <= WEBIN_CAP

LEMMA FillsType ==
  ASSUME NEW q \in Seq(Nat), NEW bytes \in Seq(Nat), NEW k \in 0 .. Len(bytes), NEW r,
         Fills(r, q, bytes, k)
  PROVE  r \in Seq(Nat)
<1>1. PICK n \in 0 .. k : r = q \o SubSeq(bytes, 1, n)
  BY DEF Fills
<1>2. SubSeq(bytes, 1, n) \in Seq(Nat)
  OBVIOUS
<1> QED
  BY <1>1, <1>2

LEMMA FillsNone ==
  ASSUME NEW q \in Seq(Nat), NEW bytes \in Seq(Nat)
  PROVE  Fills(q, q, bytes, 0)
<1>1. SubSeq(bytes, 1, 0) = <<>>
  OBVIOUS
<1>2. q \o <<>> = q
  OBVIOUS
<1>3. Len(q) + 0 = Len(q) /\ 0 \in 0 .. 0
  OBVIOUS
<1> QED
  BY <1>1, <1>2, <1>3 DEF Fills

LEMMA FillsNext ==
  ASSUME NEW q \in Seq(Nat), NEW bytes \in Seq(Nat), NEW k \in 1 .. Len(bytes), NEW r,
         Fills(r, q, bytes, k - 1)
  PROVE  Fills(IF Len(r) < WEBIN_CAP THEN Append(r, bytes[k]) ELSE r, q, bytes, k)
<1>1. PICK n \in 0 .. k - 1 :
         /\ r = q \o SubSeq(bytes, 1, n)
         /\ n < k - 1 => Len(q) + n >= WEBIN_CAP
         /\ Len(q) <= WEBIN_CAP => Len(q) + n <= WEBIN_CAP
  BY DEF Fills
<1>2. /\ WEBIN_CAP \in Nat /\ Len(q) \in Nat /\ Len(bytes) \in Nat /\ k \in Nat
      /\ n \in 0 .. k /\ n \in Nat
  BY WebAssumption
<1>3. SubSeq(bytes, 1, n) \in Seq(Nat) /\ Len(SubSeq(bytes, 1, n)) = n
  OBVIOUS
<1>4. Len(r) = Len(q) + n
  BY <1>1, <1>3
<1>5. CASE Len(r) < WEBIN_CAP
  <2>1. n = k - 1
    BY <1>1, <1>2, <1>4, <1>5
  <2>2. Append(r, bytes[k]) = q \o SubSeq(bytes, 1, k)
    <3>1. SubSeq(bytes, 1, k) = Append(SubSeq(bytes, 1, k - 1), bytes[k])
      BY <1>2
    <3>2. bytes[k] \in Nat
      OBVIOUS
    <3>3. Append(q \o SubSeq(bytes, 1, n), bytes[k]) = q \o Append(SubSeq(bytes, 1, n), bytes[k])
      BY <1>3, <3>2, AppendBehind
    <3> QED
      BY <1>1, <2>1, <3>1, <3>3
  <2>3. k \in 0 .. k /\ ~(k < k) /\ Len(q) + k <= WEBIN_CAP
    BY <1>2, <1>4, <1>5, <2>1
  <2> QED
    BY <1>5, <2>2, <2>3 DEF Fills
<1>6. CASE ~(Len(r) < WEBIN_CAP)
  <2>1. Len(q) + n >= WEBIN_CAP
    BY <1>2, <1>4, <1>6
  <2> QED
    BY <1>1, <1>2, <1>6, <2>1 DEF Fills
<1> QED
  BY <1>5, <1>6

LEMMA PushedFills ==
  ASSUME NEW q \in Seq(Nat), NEW bytes \in Seq(Nat)
  PROVE  Fills(Pushed(q, bytes), q, bytes, Len(bytes))
<1> DEFINE up == CHOOSE f : f = [s \in SUBSET DOMAIN bytes |->
              IF s = {} THEN q
              ELSE IF Len(f[s \ {Max(s)}]) < WEBIN_CAP
                     THEN Append(f[s \ {Max(s)}], bytes[Max(s)])
                     ELSE f[s \ {Max(s)}]]
           n == Len(bytes)
           g == [k \in 1 .. n |-> [r \in Seq(Nat) |->
                   IF Len(r) < WEBIN_CAP THEN Append(r, bytes[k]) ELSE r]]
<1>1. Pushed(q, bytes) = up[DOMAIN bytes]
  BY DEF Pushed, FoldLeft, MapThenFoldSet
<1>2. n \in Nat /\ DOMAIN bytes = 1 .. n /\ \A k \in 1 .. n : bytes[k] \in Nat
  OBVIOUS
<1>3. g \in [1 .. n -> [Seq(Nat) -> Seq(Nat)]]
  BY <1>2
<1>5. PICK f \in [SUBSET (1 .. n) -> Seq(Nat)] : Folds(f, q, g, n)
  <2> HIDE DEF g, n
  <2> QED
    BY <1>2, <1>3, FoldExists
<1>6. ASSUME NEW s \in SUBSET DOMAIN bytes
      PROVE  f[s] = IF s = {} THEN q
                    ELSE IF Len(f[s \ {Max(s)}]) < WEBIN_CAP
                           THEN Append(f[s \ {Max(s)}], bytes[Max(s)])
                           ELSE f[s \ {Max(s)}]
  <2>1. f[s] = IF s = {} THEN q ELSE g[Max(s)][f[s \ {Max(s)}]]
    BY <1>2, <1>5 DEF Folds
  <2>2. CASE s # {}
    <3>1. Max(s) \in 1 .. n
      BY <1>2, <2>2, MaxIn
    <3>2. f[s \ {Max(s)}] \in Seq(Nat)
      BY <1>2, <1>5
    <3>3. g[Max(s)][f[s \ {Max(s)}]] =
            IF Len(f[s \ {Max(s)}]) < WEBIN_CAP
              THEN Append(f[s \ {Max(s)}], bytes[Max(s)])
              ELSE f[s \ {Max(s)}]
      BY <3>1, <3>2
    <3> QED
      BY <2>1, <2>2, <3>3
  <2> QED
    BY <2>1, <2>2
<1>7. f = [s \in SUBSET DOMAIN bytes |->
              IF s = {} THEN q
              ELSE IF Len(f[s \ {Max(s)}]) < WEBIN_CAP
                     THEN Append(f[s \ {Max(s)}], bytes[Max(s)])
                     ELSE f[s \ {Max(s)}]]
  <2> DEFINE h == [s \in SUBSET DOMAIN bytes |->
              IF s = {} THEN q
              ELSE IF Len(f[s \ {Max(s)}]) < WEBIN_CAP
                     THEN Append(f[s \ {Max(s)}], bytes[Max(s)])
                     ELSE f[s \ {Max(s)}]]
  <2>1. DOMAIN f = DOMAIN h /\ \A s \in DOMAIN f : f[s] = h[s]
    BY <1>2, <1>5, <1>6
  <2>2. h = [s \in DOMAIN h |-> h[s]] /\ f = [s \in DOMAIN f |-> f[s]]
    BY <1>5, SMTT(30)
  <2>3. f = h
    <3> HIDE DEF h
    <3> QED
      BY <2>1, <2>2
  <2> QED
    BY <2>3
<1>8. up = [s \in SUBSET DOMAIN bytes |->
              IF s = {} THEN q
              ELSE IF Len(up[s \ {Max(s)}]) < WEBIN_CAP
                     THEN Append(up[s \ {Max(s)}], bytes[Max(s)])
                     ELSE up[s \ {Max(s)}]]
  BY <1>7, ZenonT(60)
<1> DEFINE d == [k \in 0 .. n |-> up[1 .. k]]
<1> HIDE DEF up, g
<1>9. \A k \in 0 .. n : 1 .. k \in SUBSET DOMAIN bytes
  BY <1>2
<1>10. d[0] = q
  <2>1. 1 .. 0 = {} /\ 0 \in 0 .. n
    BY <1>2
  <2> QED
    BY <1>8, <1>9, <2>1
<1>11. ASSUME NEW k \in 1 .. n
       PROVE  d[k] = IF Len(d[k - 1]) < WEBIN_CAP
                       THEN Append(d[k - 1], bytes[k]) ELSE d[k - 1]
  <2>1. /\ k \in 0 .. n /\ k - 1 \in 0 .. n /\ 1 .. k # {} /\ k \in 1 .. k
        /\ (1 .. k) \ {k} = 1 .. (k - 1)
    <3> HIDE DEF n, d
    <3>1. n \in Nat
      BY <1>2
    <3>2. k \in Nat \ {0} /\ k \in 0 .. n /\ k - 1 \in 0 .. n
      BY <3>1
    <3>3. k \in 1 .. k /\ (1 .. k) \ {k} = 1 .. (k - 1)
      BY <3>2, Shorter
    <3> QED
      BY <3>2, <3>3
  <2>2. Max(1 .. k) = k
    <3>1. 1 .. k \in SUBSET Nat /\ \A y \in 1 .. k : y <= k
      OBVIOUS
    <3> QED
      BY <2>1, <3>1, MaxIs
  <2> QED
    BY <1>8, <1>9, <2>1, <2>2
<1> DEFINE T == {k \in 0 .. n : ~Fills(d[k], q, bytes, k)}
<1>12. T = {}
  <2> SUFFICES ASSUME T # {} PROVE FALSE
    OBVIOUS
  <2>1. T \in SUBSET Nat
    OBVIOUS
  <2>2. PICK k \in T : k - 1 \notin T
    BY <2>1, LeastOf
  <2>3. k \in 0 .. n /\ ~Fills(d[k], q, bytes, k)
    BY <2>2
  <2> HIDE DEF d
  <2>4. k # 0
    BY <1>10, <2>3, FillsNone
  <2>5. k \in 1 .. n /\ k - 1 \in 0 .. n /\ Fills(d[k - 1], q, bytes, k - 1)
    BY <1>2, <2>2, <2>3, <2>4
  <2> QED
    BY <1>11, <2>3, <2>5, FillsNext, SMTT(30)
<1>14. Pushed(q, bytes) = d[n] /\ n \in 0 .. n
  BY <1>1, <1>2
<1> QED
  <2> HIDE DEF d
  <2> QED
    BY <1>12, <1>14

(* What is pushed ends up behind what was there, cut where the ring is     *)
(* full, and not cut when everything fits.                                 *)
LEMMA PushedIs ==
  ASSUME NEW q \in Seq(Nat), NEW bytes \in Seq(Nat)
  PROVE  \E n \in 0 .. Len(bytes) :
           /\ Pushed(q, bytes) = q \o SubSeq(bytes, 1, n)
           /\ Len(q) + Len(bytes) <= WEBIN_CAP => SubSeq(bytes, 1, n) = bytes
           /\ Len(q) <= WEBIN_CAP => Len(Pushed(q, bytes)) <= WEBIN_CAP
           /\ Pushed(q, bytes) \in Seq(Nat)
<1>1. Fills(Pushed(q, bytes), q, bytes, Len(bytes)) /\ Len(bytes) \in 0 .. Len(bytes)
  BY PushedFills
<1>2. PICK n \in 0 .. Len(bytes) :
        /\ Pushed(q, bytes) = q \o SubSeq(bytes, 1, n)
        /\ n < Len(bytes) => Len(q) + n >= WEBIN_CAP
        /\ Len(q) <= WEBIN_CAP => Len(q) + n <= WEBIN_CAP
  BY <1>1 DEF Fills
<1>3. WEBIN_CAP \in Nat /\ Len(q) \in Nat /\ Len(bytes) \in Nat
  BY WebAssumption
<1>4. SubSeq(bytes, 1, n) \in Seq(Nat) /\ Len(SubSeq(bytes, 1, n)) = n
  OBVIOUS
<1>5. Len(Pushed(q, bytes)) = Len(q) + n
  BY <1>2, <1>4
<1>6. n = Len(bytes) => SubSeq(bytes, 1, n) = bytes
  OBVIOUS
<1>7. Len(q) + Len(bytes) <= WEBIN_CAP => n = Len(bytes)
  BY <1>2, <1>3
<1>8. Pushed(q, bytes) \in Seq(Nat)
  BY <1>1, FillsType
<1> QED
  BY <1>2, <1>5, <1>6, <1>7, <1>8

(***************************************************************************)
(* The inductive invariant                                                 *)
(***************************************************************************)

WorkerMessage == [type : {"start", "input", "eof"}, data : Seq(Nat)]
PageMessage ==
  [type : {"out", "images", "running", "exit", "onerror"}, data : Seq(Nat)]

Types ==
  /\ phase \in {"idle", "loading", "running", "halted"}
  /\ running \in BOOLEAN /\ Module \in BOOLEAN /\ webin_eof \in BOOLEAN
  /\ eof \in BOOLEAN /\ gotEof \in BOOLEAN
  /\ files \in {"none", "whole"} /\ images \in {"none", "whole"}
  /\ boots \in 0 .. MaxBoots
  /\ worker \in {"none", "new", "instantiating", "fetching", "guest", "asleep", "over"}
  /\ toWorker \in Seq(WorkerMessage) /\ toPage \in Seq(PageMessage)
  /\ pendingInput \in Seq(Nat) /\ webin \in Seq(Nat) /\ outBuf \in Seq(Nat)
  /\ got \in Seq(Nat) /\ screen \in Seq(Nat)
  /\ typed \in 0 .. MaxTyped /\ typedBeforeEof \in 0 .. MaxTyped
  /\ typedBeforeEof <= typed
  /\ written \in 0 .. MaxWritten
  /\ Len(webin) <= WEBIN_CAP /\ Len(outBuf) < OutCap

Beyond == {"guest", "asleep", "over"}

(* Where a boot is, and what of it is on its way to the page.              *)
Announced(m, last, w, module, f) ==
  /\ m.type = "running" => w \in Beyond /\ module /\ f = "whole"
  /\ m.type = "images" => w \in Beyond /\ f = "whole"
  /\ m.type \in {"exit", "onerror"} => last /\ w = "over"

AllAnnounced(q, w, module, f) ==
  \A i \in 1 .. Len(q) : Announced(q[i], i = Len(q), w, module, f)

Stages ==
  /\ files = "none" /\ worker \in {"new", "instantiating", "fetching"} => images = "none"
  /\ worker = "fetching" => files = "none"
  /\ worker \in {"guest", "asleep"} => files = "whole"
  /\ worker \in {"new", "instantiating"} => ~Module
  /\ worker \in {"fetching", "guest", "asleep"} => Module
  /\ running => worker \in Beyond /\ Module /\ files = "whole"
  /\ AllAnnounced(toPage, worker, Module, files)
  /\ phase = "halted" => worker \in {"none", "over"} /\ toPage = <<>>
  /\ worker = "none" => toPage = <<>> /\ toWorker = <<>>

(* The message that starts the worker is the first.                        *)
Starting ==
  worker = "new" => toWorker # <<>> /\ Head(toWorker).type = "start"

(* What is shown, on its way to the page or in the buffer is what was      *)
(* written; nothing is left behind when the worker is over.                *)
Shown ==
  /\ worker # "none" => screen \o Data(toPage, "out") \o outBuf = Upto(written)
  /\ worker \notin {"none", "guest", "asleep"} => outBuf = <<>>

(* Bytes keep their order, and all are there if they all fit.              *)
Rising(s) == \A i, j \in 1 .. Len(s) : i < j => s[i] < s[j]

Ordered(s, n) == Rising(s) /\ \A i \in 1 .. Len(s) : s[i] <= n

InOrder ==
  /\ Ordered(OnTheirWay, typed)
  /\ typed <= WEBIN_CAP /\ worker # "none" => OnTheirWay = Upto(typed)

(* Keys are held back only for a machine that was not there.               *)
HeldBack ==
  /\ Module => pendingInput = <<>>
  /\ files = "none" => typed = 0

(* The end of the input is behind the input typed before it.               *)
After(m, n) == m.type = "input" => \A j \in 1 .. Len(m.data) : m.data[j] > n

AllAfter(q, n) == \A k \in 1 .. Len(q) : After(q[k], n)

EofQueued(q, sent, n) ==
  \A i \in 1 .. Len(q) : q[i].type = "eof" =>
    sent /\ \A k \in i + 1 .. Len(q) : After(q[k], n)

EofIsLast ==
  /\ EofQueued(toWorker, eof, typedBeforeEof)
  /\ webin_eof => eof /\ AllAfter(toWorker, typedBeforeEof)
  /\ gotEof => eof
  /\ EndAfterInput

KeysWait == "keys" \notin Impatient

LEMMA TypesOK == Types => TypeOK
<1> SUFFICES ASSUME Types PROVE TypeOK
  OBVIOUS
<1>1. ASSUME NEW i \in 1 .. Len(toWorker)
      PROVE  toWorker[i].type \in {"start", "input", "eof"}
  <2>1. toWorker[i] \in WorkerMessage
    BY DEF Types
  <2> QED
    BY <2>1 DEF WorkerMessage
<1>2. ASSUME NEW i \in 1 .. Len(toPage)
      PROVE  toPage[i].type \in {"out", "images", "running", "exit", "onerror"}
  <2>1. toPage[i] \in PageMessage
    BY DEF Types
  <2> QED
    BY <2>1 DEF PageMessage
<1>3. {running, Module, webin_eof, eof, gotEof} \subseteq BOOLEAN
  BY Zenon DEF Types
<1>4. {pendingInput, webin, outBuf, got, screen} \subseteq Seq(Nat)
  BY Zenon DEF Types
<1>5. {typed, typedBeforeEof} \subseteq 0 .. MaxTyped
  BY Zenon DEF Types
<1>6. /\ images \in {"none", "whole", "detached"}
      /\ files \in {"none", "whole", "detached"}
  BY DEF Types
<1> QED
  BY <1>1, <1>2, <1>3, <1>4, <1>5, <1>6 DEF Types, TypeOK

LEMMA Messages ==
  /\ \A q : q \in Seq(WorkerMessage) => q \in Seq(Message)
  /\ \A q : q \in Seq(PageMessage) => q \in Seq(Message)
<1>1. \A m \in WorkerMessage : m \in Message
  BY DEF WorkerMessage, Message, Kinds
<1>2. \A m \in PageMessage : m \in Message
  BY DEF PageMessage, Message, Kinds
<1>3. ASSUME NEW q \in Seq(WorkerMessage) PROVE q \in Seq(Message)
  <2>1. Len(q) \in Nat /\ q \in [1 .. Len(q) -> WorkerMessage]
    OBVIOUS
  <2>2. q \in [1 .. Len(q) -> Message]
    BY <1>1, <2>1
  <2> QED
    BY <2>1, <2>2, SeqDef
<1>4. ASSUME NEW q \in Seq(PageMessage) PROVE q \in Seq(Message)
  <2>1. Len(q) \in Nat /\ q \in [1 .. Len(q) -> PageMessage]
    OBVIOUS
  <2>2. q \in [1 .. Len(q) -> Message]
    BY <1>2, <2>1
  <2> QED
    BY <2>1, <2>2, SeqDef
<1> QED
  BY <1>3, <1>4

LEMMA Sent ==
  ASSUME NEW data \in Seq(Nat)
  PROVE  /\ \A t \in {"start", "input", "eof"} :
              Msg(t, data) \in WorkerMessage /\ Msg(t, data).type = t
                /\ Msg(t, data).data = data
         /\ \A t \in {"out", "images", "running", "exit", "onerror"} :
              Msg(t, data) \in PageMessage /\ Msg(t, data).type = t
                /\ Msg(t, data).data = data
  BY DEF Msg, WorkerMessage, PageMessage

(* One message more for the page.                                          *)
LEMMA Posted ==
  ASSUME NEW q \in Seq(PageMessage), NEW m \in PageMessage
  PROVE  /\ q \o <<m>> = Append(q, m) /\ Append(q, m) \in Seq(PageMessage)
         /\ Len(q) \in Nat /\ Len(Append(q, m)) = Len(q) + 1
         /\ \A i \in 1 .. Len(q) : Append(q, m)[i] = q[i]
         /\ Append(q, m)[Len(q) + 1] = m
         /\ \A t : Data(Append(q, m), t) = Data(q, t) \o Part(m, t)
<1>1. m \in Message /\ q \in Seq(Message)
  <2>1. m \in Message
    BY DEF PageMessage, Message, Kinds
  <2> QED
    BY <2>1, Messages
<1>2. \A t : Data(Append(q, m), t) = Data(q, t) \o Part(m, t)
  BY <1>1, DataAppend
<1>3. q \o <<m>> = Append(q, m)
  BY AppendIsConcat
<1> QED
  BY <1>2, <1>3, AppendProperties

(* ... and two.                                                            *)
LEMMA PostedTwo ==
  ASSUME NEW q \in Seq(PageMessage), NEW m \in PageMessage, NEW n \in PageMessage
  PROVE  q \o (<<m>> \o <<n>>) = Append(Append(q, m), n)
<1>1. Append(q, m) = q \o <<m>> /\ Append(q, m) \in Seq(PageMessage)
  BY Posted
<1>2. Append(Append(q, m), n) = (q \o <<m>>) \o <<n>>
  BY <1>1, AppendIsConcat
<1>3. <<m>> \in Seq(PageMessage) /\ <<n>> \in Seq(PageMessage)
  OBVIOUS
<1>4. (q \o <<m>>) \o <<n>> = q \o (<<m>> \o <<n>>)
  BY <1>3, ConcatAssociative
<1> QED
  BY <1>2, <1>4

Base == Types /\ Stages

(***************************************************************************)
(* Types and stages, action by action                                      *)
(***************************************************************************)

(* The page takes the first message: the others stay where they are.       *)
LEMMA AnnouncedTail ==
  ASSUME NEW q \in Seq(PageMessage), q # <<>>, NEW w, NEW module, NEW f,
         AllAnnounced(q, w, module, f)
  PROVE  /\ Tail(q) \in Seq(PageMessage) /\ Head(q) \in PageMessage
         /\ Announced(Head(q), Tail(q) = <<>>, w, module, f)
         /\ AllAnnounced(Tail(q), w, module, f)
<1> DEFINE r == Tail(q)
<1>1. /\ r \in Seq(PageMessage) /\ Len(q) \in Nat \ {0} /\ Len(r) = Len(q) - 1
      /\ \A i \in 1 .. Len(r) : r[i] = q[i + 1]
      /\ Head(q) = q[1] /\ Head(q) \in PageMessage
  OBVIOUS
<1> HIDE DEF r
<1>2. r = <<>> <=> 1 = Len(q)
  BY <1>1
<1>3. Announced(Head(q), r = <<>>, w, module, f)
  <2>1. 1 \in 1 .. Len(q)
    BY <1>1
  <2>2. Announced(q[1], 1 = Len(q), w, module, f)
    BY <2>1 DEF AllAnnounced
  <2> QED
    BY <1>1, <1>2, <2>2 DEF Announced
<1>4. ASSUME NEW i \in 1 .. Len(r) PROVE Announced(r[i], i = Len(r), w, module, f)
  <2>1. i + 1 \in 1 .. Len(q) /\ (i + 1 = Len(q) <=> i = Len(r))
    BY <1>1
  <2>2. Announced(q[i + 1], i + 1 = Len(q), w, module, f) /\ r[i] = q[i + 1]
    BY <1>1, <2>1 DEF AllAnnounced
  <2> QED
    BY <2>1, <2>2 DEF Announced
<1>5. AllAnnounced(r, w, module, f)
  BY <1>4 DEF AllAnnounced
<1> QED
  BY <1>1, <1>3, <1>5 DEF r

(* Messages stay announced as the worker moves on to w2.                   *)
MovesOn(w, module, f, w2, module2, f2) ==
  /\ w # "over"
  /\ w \in Beyond /\ f = "whole" => w2 \in Beyond /\ f2 = "whole" /\ (module => module2)

(* One more message is posted, and it may be the last.                     *)
LEMMA AnnouncedAppend ==
  ASSUME NEW q \in Seq(PageMessage), NEW m \in PageMessage,
         NEW w, NEW module, NEW f, NEW w2, NEW module2, NEW f2,
         AllAnnounced(q, w, module, f), MovesOn(w, module, f, w2, module2, f2),
         Announced(m, TRUE, w2, module2, f2)
  PROVE  /\ Append(q, m) \in Seq(PageMessage) /\ Append(q, m) # <<>>
         /\ AllAnnounced(Append(q, m), w2, module2, f2)
<1> DEFINE r == Append(q, m)
<1>1. /\ r \in Seq(PageMessage) /\ Len(q) \in Nat /\ Len(r) = Len(q) + 1
      /\ \A i \in 1 .. Len(q) : r[i] = q[i]
      /\ r[Len(q) + 1] = m /\ r # <<>>
  OBVIOUS
<1> HIDE DEF r
<1>2. ASSUME NEW i \in 1 .. Len(r) PROVE Announced(r[i], i = Len(r), w2, module2, f2)
  <2>1. i \in 1 .. Len(q) \/ i = Len(q) + 1
    BY <1>1
  <2>2. CASE i \in 1 .. Len(q)
    <3>1. Announced(q[i], i = Len(q), w, module, f) /\ r[i] = q[i]
      BY <1>1, <2>2 DEF AllAnnounced
    <3> QED
      BY <3>1 DEF Announced, MovesOn, Beyond
  <2>3. CASE i = Len(q) + 1
    <3>1. r[i] = m /\ i = Len(r)
      BY <1>1, <2>3
    <3> QED
      BY <3>1 DEF Announced
  <2> QED
    BY <2>1, <2>2, <2>3
<1>3. AllAnnounced(r, w2, module2, f2)
  BY <1>2 DEF AllAnnounced
<1> QED
  BY <1>1, <1>3 DEF r

(* ... or none is.                                                         *)
LEMMA AnnouncedStay ==
  ASSUME NEW q, NEW w, NEW module, NEW f, NEW w2, NEW module2, NEW f2,
         AllAnnounced(q, w, module, f), MovesOn(w, module, f, w2, module2, f2)
  PROVE  AllAnnounced(q, w2, module2, f2)
  BY DEF AllAnnounced, Announced, MovesOn, Beyond

LEMMA AnnouncedNone ==
  ASSUME NEW w, NEW module, NEW f
  PROVE  AllAnnounced(<<>>, w, module, f)
  BY DEF AllAnnounced

LEMMA BaseStop == Base /\ Stop => Base'
<1> SUFFICES ASSUME Base, Stop PROVE Base'
  OBVIOUS
<1>3. <<>> \in Seq(WorkerMessage) /\ <<>> \in Seq(PageMessage)
  OBVIOUS
<1>1. Types'
  BY <1>3 DEF Base, Types, Stop, Terminated, page, keys, ring, guest
<1>2. Stages'
  BY AnnouncedNone DEF Base, Types, Stages, Beyond, Stop, Terminated, page, keys, ring, guest
<1> QED
  BY <1>1, <1>2 DEF Base

LEMMA BaseSendEof == Base /\ SendEof => Base'
<1> SUFFICES ASSUME Base, SendEof PROVE Base'
  OBVIOUS
<1>3. Append(toWorker, Msg("eof", <<>>)) \in Seq(WorkerMessage)
  <2>1. <<>> \in Seq(Nat)
    OBVIOUS
  <2>2. Msg("eof", <<>>) \in WorkerMessage
    BY <2>1, Sent
  <2> QED
    BY <2>2, AppendProperties DEF Base, Types
<1>1. Types'
  BY <1>3 DEF Base, Types, SendEof, page, keys, ring, guest
<1>2. Stages'
  BY DEF Base, Types, Stages, Beyond, SendEof, page, keys, ring, guest
<1> QED
  BY <1>1, <1>2 DEF Base

LEMMA BaseType == Base /\ Type => Base'
<1> SUFFICES ASSUME Base, Type PROVE Base'
  OBVIOUS
<1>3. PICK n \in 1 .. 2 :
        /\ typed + n <= MaxTyped
        /\ typed' = typed + n
        /\ toWorker' = Append(toWorker, Msg("input", [i \in 1 .. n |-> typed + i]))
  BY DEF Type
<1>4. toWorker' \in Seq(WorkerMessage)
  <2>1. [i \in 1 .. n |-> typed + i] \in Seq(Nat)
    BY DEF Base, Types
  <2>2. Msg("input", [i \in 1 .. n |-> typed + i]) \in WorkerMessage
    BY <2>1, Sent
  <2> QED
    BY <1>3, <2>2, AppendProperties DEF Base, Types
<1>5. typed' \in 0 .. MaxTyped /\ typedBeforeEof <= typed'
  BY <1>3, WebAssumption DEF Base, Types
<1>1. Types'
  BY <1>4, <1>5 DEF Base, Types, Type, page, keys, ring, guest
<1>2. Stages'
  BY DEF Base, Types, Stages, Beyond, Type, Patient, page, keys, ring, guest
<1> QED
  BY <1>1, <1>2 DEF Base

LEMMA BaseTakeEof == Base /\ TakeEof => Base'
<1> SUFFICES ASSUME Base, TakeEof PROVE Base'
  OBVIOUS
<1>1. Types'
  BY Sent DEF Base, Types, TakeEof, AtLoop, page, keys, ring, guest
<1>2. Stages'
  BY DEF Base, Types, Stages, Beyond, TakeEof, AtLoop, page, keys, ring, guest
<1> QED
  BY <1>1, <1>2 DEF Base

LEMMA BaseWake == Base /\ Wake => Base'
<1> SUFFICES ASSUME Base, Wake PROVE Base'
  OBVIOUS
<1>1. Types'
  BY Sent DEF Base, Types, Wake, page, keys, ring, guest
<1>3. AllAnnounced(toPage', worker', Module', files')
  <2>1. MovesOn(worker, Module, files, worker', Module', files')
    BY DEF MovesOn, Beyond, Wake
  <2> QED
    BY <2>1, AnnouncedStay DEF Base, Stages, Wake
<1>2. Stages'
  BY <1>3 DEF Base, Types, Stages, Beyond, Wake, page, keys, ring, guest
<1> QED
  BY <1>1, <1>2 DEF Base

LEMMA BaseYield == Base /\ Yield => Base'
<1> SUFFICES ASSUME Base, Yield PROVE Base'
  OBVIOUS
<1>1. Types'
  BY Sent DEF Base, Types, Yield, page, keys, ring, guest
<1>3. AllAnnounced(toPage', worker', Module', files')
  <2>1. MovesOn(worker, Module, files, worker', Module', files')
    BY DEF MovesOn, Beyond, Yield
  <2> QED
    BY <2>1, AnnouncedStay DEF Base, Stages, Yield
<1>2. Stages'
  BY <1>3 DEF Base, Types, Stages, Beyond, Yield, page, keys, ring, guest
<1> QED
  BY <1>1, <1>2 DEF Base

LEMMA BaseReads == Base /\ Reads => Base'
<1> SUFFICES ASSUME Base, Reads PROVE Base'
  OBVIOUS
<1>3. /\ Append(got, Head(webin)) \in Seq(Nat) /\ Tail(webin) \in Seq(Nat)
      /\ Len(Tail(webin)) <= WEBIN_CAP
  <2>1. /\ webin \in Seq(Nat) /\ webin # <<>> /\ got \in Seq(Nat) /\ Len(webin) <= WEBIN_CAP
        /\ WEBIN_CAP \in Nat
    BY WebAssumption DEF Base, Types, Reads
  <2>2. Head(webin) \in Nat /\ Tail(webin) \in Seq(Nat) /\ Len(Tail(webin)) = Len(webin) - 1
    BY <2>1
  <2> QED
    BY <2>1, <2>2, AppendProperties
<1>1. Types'
  BY <1>3 DEF Base, Types, Reads, page, keys, ring, guest
<1>2. Stages'
  BY DEF Base, Types, Stages, Beyond, Reads, page, keys, ring, guest
<1> QED
  BY <1>1, <1>2 DEF Base

LEMMA BaseReadsEof == Base /\ ReadsEof => Base'
<1> SUFFICES ASSUME Base, ReadsEof PROVE Base'
  OBVIOUS
<1>1. Types'
  BY Sent DEF Base, Types, ReadsEof, page, keys, ring, guest
<1>2. Stages'
  BY DEF Base, Types, Stages, Beyond, ReadsEof, page, keys, ring, guest
<1> QED
  BY <1>1, <1>2 DEF Base

LEMMA BaseStart == Base /\ Start => Base'
<1> SUFFICES ASSUME Base, Start PROVE Base'
  OBVIOUS
<1>3. /\ <<Msg("start", <<>>)>> \in Seq(WorkerMessage) /\ <<>> \in Seq(PageMessage)
      /\ <<>> \in Seq(Nat) /\ Len(<<>>) = 0
  <2>1. <<>> \in Seq(Nat)
    OBVIOUS
  <2>2. Msg("start", <<>>) \in WorkerMessage
    BY <2>1, Sent
  <2> QED
    BY <2>1, <2>2
<1>4. boots' \in 0 .. MaxBoots /\ 0 \in 0 .. MaxTyped /\ 0 \in 0 .. MaxWritten /\ 0 <= 0
      /\ 0 <= WEBIN_CAP /\ 0 < OutCap
  BY WebAssumption DEF Base, Types, Start
<1>1. Types'
  BY <1>3, <1>4, Zenon DEF Base, Types, Start, Terminated, Cloned
<1>2. Stages'
  BY <1>3, AnnouncedNone DEF Base, Types, Stages, Beyond, Start, Terminated, Cloned
<1> QED
  BY <1>1, <1>2 DEF Base

LEMMA BaseShowOut == Base /\ ShowOut => Base'
<1> SUFFICES ASSUME Base, ShowOut PROVE Base'
  OBVIOUS
<1>3. toPage # <<>> /\ toPage' = Tail(toPage)
  BY DEF ShowOut, Receives
<1>4. /\ toPage' \in Seq(PageMessage) /\ Head(toPage) \in PageMessage
      /\ Announced(Head(toPage), toPage' = <<>>, worker, Module, files)
      /\ AllAnnounced(toPage', worker, Module, files)
  BY <1>3, AnnouncedTail DEF Base, Types, Stages
<1>5. screen \o Head(toPage).data \in Seq(Nat)
  <2>1. Head(toPage).data \in Seq(Nat) /\ screen \in Seq(Nat)
    BY <1>4 DEF Base, Types, PageMessage
  <2> QED
    BY <2>1
<1>1. Types'
  BY <1>4, <1>5 DEF Base, Types, ShowOut, Receives, page, keys, ring, guest
<1>2. Stages'
  BY <1>3, <1>4 DEF Base, Types, Stages, Announced, Beyond, ShowOut, Receives, page, keys, ring, guest
<1> QED
  BY <1>1, <1>2 DEF Base

LEMMA BaseKeepImages == Base /\ KeepImages => Base'
<1> SUFFICES ASSUME Base, KeepImages PROVE Base'
  OBVIOUS
<1>3. toPage # <<>> /\ toPage' = Tail(toPage)
  BY DEF KeepImages, Receives
<1>4. /\ toPage' \in Seq(PageMessage) /\ Head(toPage) \in PageMessage
      /\ Announced(Head(toPage), toPage' = <<>>, worker, Module, files)
      /\ AllAnnounced(toPage', worker, Module, files)
  BY <1>3, AnnouncedTail DEF Base, Types, Stages
<1>1. Types'
  BY <1>4 DEF Base, Types, KeepImages, Receives, page, keys, ring, guest
<1>2. Stages'
  BY <1>3, <1>4 DEF Base, Types, Stages, Announced, Beyond, KeepImages, Receives, page, keys, ring, guest
<1> QED
  BY <1>1, <1>2 DEF Base

LEMMA BaseShowRunning == Base /\ ShowRunning => Base'
<1> SUFFICES ASSUME Base, ShowRunning PROVE Base'
  OBVIOUS
<1>3. toPage # <<>> /\ toPage' = Tail(toPage)
  BY DEF ShowRunning, Receives
<1>4. /\ toPage' \in Seq(PageMessage) /\ Head(toPage) \in PageMessage
      /\ Announced(Head(toPage), toPage' = <<>>, worker, Module, files)
      /\ AllAnnounced(toPage', worker, Module, files)
  BY <1>3, AnnouncedTail DEF Base, Types, Stages
<1>1. Types'
  BY <1>4 DEF Base, Types, ShowRunning, Receives, page, keys, ring, guest
<1>2. Stages'
  BY <1>3, <1>4 DEF Base, Types, Stages, Announced, Beyond, ShowRunning, Receives, page, keys, ring, guest
<1> QED
  BY <1>1, <1>2 DEF Base

LEMMA BaseShowHalted == Base /\ ShowHalted => Base'
<1> SUFFICES ASSUME Base, ShowHalted PROVE Base'
  OBVIOUS
<1>3. toPage # <<>> /\ toPage' = Tail(toPage)
  BY DEF ShowHalted, Receives
<1>4. /\ toPage' \in Seq(PageMessage) /\ Head(toPage) \in PageMessage
      /\ Announced(Head(toPage), toPage' = <<>>, worker, Module, files)
      /\ AllAnnounced(toPage', worker, Module, files)
  BY <1>3, AnnouncedTail DEF Base, Types, Stages
<1>1. Types'
  <2>1. /\ phase' = "halted" /\ (running' = FALSE \/ running' = running)
        /\ UNCHANGED <<images, screen, boots, toWorker, worker, files, Module, pendingInput, webin,
                       webin_eof, outBuf, typed, eof, typedBeforeEof, got, gotEof, written>>
    BY DEF ShowHalted, Receives, keys, ring, guest
  <2> QED
    BY <1>4, <2>1, ZenonT(60) DEF Base, Types
<1>2. Stages'
  BY <1>3, <1>4 DEF Base, Types, Stages, Announced, Beyond, ShowHalted, Receives, page, keys, ring, guest
<1> QED
  BY <1>1, <1>2 DEF Base


LEMMA BaseLoadFails == Base /\ LoadFails => Base'
<1> SUFFICES ASSUME Base, LoadFails PROVE Base'
  OBVIOUS
<1>3. toPage \in Seq(PageMessage) /\ AllAnnounced(toPage, worker, Module, files)
  BY DEF Base, Types, Stages
<1>4. <<>> \in Seq(Nat)
  OBVIOUS
<1>5. /\ worker' = "over" /\ toPage' = Append(toPage, Msg("exit", <<>>))
      /\ worker \in {"instantiating", "fetching"}
      /\ Module' = Module /\ files' = files
  <2>1. toPage' = toPage \o <<Msg("exit", <<>>)>>
    BY DEF LoadFails, Reject, Post
  <2> QED
    BY <1>3, <1>4, <2>1, Sent, Posted DEF LoadFails, Reject
<1>6. Announced(Msg("exit", <<>>), TRUE, "over", Module', files') /\ Msg("exit", <<>>) \in PageMessage
  BY <1>4, Sent DEF Announced
<1>7. MovesOn(worker, Module, files, "over", Module', files')
  BY <1>5 DEF MovesOn, Beyond
<1>8. /\ toPage' \in Seq(PageMessage) /\ toPage' # <<>>
      /\ AllAnnounced(toPage', worker', Module', files')
  BY <1>3, <1>5, <1>6, <1>7, AnnouncedAppend
<1>1. Types'
  BY <1>8 DEF Base, Types, LoadFails, Reject, page, keys, ring, guest
<1>2. Stages'
  BY <1>8 DEF Base, Types, Stages, Beyond, LoadFails, Reject, page, keys, ring, guest
<1> QED
  BY <1>1, <1>2 DEF Base

LEMMA BaseImport == Base /\ Import => Base'
<1> SUFFICES ASSUME Base, Import PROVE Base'
  OBVIOUS
<1>3. toPage \in Seq(PageMessage) /\ AllAnnounced(toPage, worker, Module, files)
  BY DEF Base, Types, Stages
<1>4. <<>> \in Seq(Nat)
  OBVIOUS
<1>5. Tail(toWorker) \in Seq(WorkerMessage)
  BY DEF Base, Types, Import
<1>6. CASE worker' = "instantiating" /\ UNCHANGED toPage
  <2>1. MovesOn(worker, Module, files, worker', Module', files')
    BY <1>6 DEF MovesOn, Beyond, Import
  <2>2. AllAnnounced(toPage', worker', Module', files')
    BY <1>3, <1>6, <2>1, AnnouncedStay
  <2>3. Types'
    BY <1>5, <1>6 DEF Base, Types, Import, page, keys, ring, guest
  <2>4. Stages'
    BY <1>6, <2>2 DEF Base, Types, Stages, Beyond, Import, page, keys, ring, guest
  <2> QED
    BY <2>3, <2>4 DEF Base
<1>7. CASE worker' = "over" /\ Post(<<Msg("onerror", <<>>)>>)
  <2>1. toPage' = Append(toPage, Msg("onerror", <<>>))
    BY <1>3, <1>4, <1>7, Sent, Posted DEF Post
  <2>2. Announced(Msg("onerror", <<>>), TRUE, "over", Module', files')
        /\ Msg("onerror", <<>>) \in PageMessage
    BY <1>4, Sent DEF Announced
  <2>3. MovesOn(worker, Module, files, "over", Module', files')
    BY DEF MovesOn, Beyond, Import
  <2>4. /\ toPage' \in Seq(PageMessage) /\ toPage' # <<>>
        /\ AllAnnounced(toPage', worker', Module', files')
    BY <1>3, <1>7, <2>1, <2>2, <2>3, AnnouncedAppend
  <2>5. Types'
    BY <1>5, <1>7, <2>4 DEF Base, Types, Import, page, keys, ring, guest
  <2>6. Stages'
    BY <1>7, <2>4 DEF Base, Types, Stages, Beyond, Import, page, keys, ring, guest
  <2> QED
    BY <2>5, <2>6 DEF Base
<1> QED
  BY <1>6, <1>7 DEF Import

(* What is flushed into the ring leaves it within its capacity.            *)
LEMMA FlushedType ==
  ASSUME Types, Flushed
  PROVE  webin' \in Seq(Nat) /\ Len(webin') <= WEBIN_CAP /\ pendingInput' = <<>>
  BY PushedIs DEF Types, Flushed

LEMMA BaseInstantiated == Base /\ Instantiated => Base'
<1> SUFFICES ASSUME Base, Instantiated PROVE Base'
  OBVIOUS
<1>3. toPage \in Seq(PageMessage) /\ AllAnnounced(toPage, worker, Module, files)
  BY DEF Base, Types, Stages
<1>4. <<>> \in Seq(Nat)
  OBVIOUS
<1>5. CASE files # "none"
  <2>1. RunMachine(<<>>) /\ worker = "instantiating" /\ Module' = TRUE /\ files' = files
    BY <1>5 DEF Instantiated
  <2>2. /\ webin' \in Seq(Nat) /\ Len(webin') <= WEBIN_CAP /\ pendingInput' = <<>>
        /\ worker' = "guest"
    BY <2>1, FlushedType DEF RunMachine, Base
  <2>3. toPage' = Append(toPage, Msg("running", <<>>))
    <3>1. <<>> \o <<Msg("running", <<>>)>> = <<Msg("running", <<>>)>>
      OBVIOUS
    <3>2. toPage' = toPage \o <<Msg("running", <<>>)>>
      BY <2>1, <3>1 DEF RunMachine, Post
    <3> QED
      BY <1>3, <1>4, <3>2, Sent, Posted
  <2>4. files = "whole"
    BY <1>5 DEF Base, Types
  <2>5. Announced(Msg("running", <<>>), TRUE, "guest", Module', files')
        /\ Msg("running", <<>>) \in PageMessage
    BY <1>4, <2>1, <2>4, Sent DEF Announced, Beyond
  <2>6. MovesOn(worker, Module, files, "guest", Module', files')
    BY <2>1 DEF MovesOn, Beyond
  <2>7. /\ toPage' \in Seq(PageMessage) /\ toPage' # <<>>
        /\ AllAnnounced(toPage', worker', Module', files')
    BY <1>3, <2>2, <2>3, <2>5, <2>6, AnnouncedAppend
  <2>8. Types'
    BY <1>4, <2>1, <2>2, <2>7 DEF Base, Types, Instantiated, page, keys, ring, guest
  <2>9. Stages'
    BY <2>1, <2>2, <2>4, <2>7 DEF Base, Types, Stages, Beyond, Instantiated, page, keys, ring, guest
  <2> QED
    BY <2>8, <2>9 DEF Base
<1>6. CASE files = "none"
  <2>1. worker' = "fetching" /\ UNCHANGED <<webin, pendingInput, toPage>>
    BY <1>6 DEF Instantiated
  <2>2. MovesOn(worker, Module, files, worker', Module', files')
    BY <2>1 DEF MovesOn, Beyond, Instantiated
  <2>3. AllAnnounced(toPage', worker', Module', files')
    BY <1>3, <2>1, <2>2, AnnouncedStay
  <2>4. Types'
    BY <2>1 DEF Base, Types, Instantiated, page, keys, ring, guest
  <2>5. Stages'
    BY <1>6, <2>1, <2>3 DEF Base, Types, Stages, Beyond, Instantiated, page, keys, ring, guest
  <2> QED
    BY <2>4, <2>5 DEF Base
<1> QED
  BY <1>5, <1>6

LEMMA BaseFetched == Base /\ Fetched => Base'
<1> SUFFICES ASSUME Base, Fetched PROVE Base'
  OBVIOUS
<1>3. toPage \in Seq(PageMessage) /\ AllAnnounced(toPage, worker, Module, files)
  BY DEF Base, Types, Stages
<1>4. <<>> \in Seq(Nat)
  OBVIOUS
<1> DEFINE i == Msg("images", <<>>)
           m == Msg("running", <<>>)
<1>5. i \in PageMessage /\ m \in PageMessage /\ i.type = "images" /\ m.type = "running"
  BY <1>4, Sent, ZenonT(60)
<1>6. toPage' = toPage \o (<<i>> \o <<m>>)
  BY DEF Fetched, RunMachine, Post
<1> HIDE DEF i, m
<1>7. toPage' = Append(Append(toPage, i), m)
  BY <1>3, <1>5, <1>6, PostedTwo
<1>8. /\ webin' \in Seq(Nat) /\ Len(webin') <= WEBIN_CAP /\ pendingInput' = <<>>
      /\ worker' = "guest" /\ worker = "fetching" /\ Module' = Module /\ files' = "whole"
      /\ Module
  BY FlushedType DEF Fetched, RunMachine, Base, Stages
<1>9. MovesOn(worker, Module, files, "guest", Module', "whole")
      /\ MovesOn("guest", Module', "whole", "guest", Module', "whole")
  BY <1>8 DEF MovesOn, Beyond
<1>10. Announced(i, TRUE, "guest", Module', "whole") /\ Announced(m, TRUE, "guest", Module', "whole")
  BY <1>5, <1>8 DEF Announced, Beyond
<1>11. /\ Append(toPage, i) \in Seq(PageMessage)
       /\ AllAnnounced(Append(toPage, i), "guest", Module', "whole")
  BY <1>3, <1>5, <1>9, <1>10, AnnouncedAppend
<1>12. /\ Append(Append(toPage, i), m) \in Seq(PageMessage)
       /\ AllAnnounced(Append(Append(toPage, i), m), "guest", Module', "whole")
  BY <1>5, <1>9, <1>10, <1>11, AnnouncedAppend
<1>13. toPage' \in Seq(PageMessage) /\ AllAnnounced(toPage', worker', Module', files')
  BY <1>7, <1>8, <1>12
<1>1. Types'
  BY <1>4, <1>8, <1>13 DEF Base, Types, Fetched, page, keys, ring, guest
<1>14. phase' = phase /\ phase # "halted" /\ running' = running
  BY <1>8 DEF Base, Stages, Fetched, page
<1>2. Stages'
  BY <1>8, <1>13, <1>14 DEF Stages, Beyond
<1> QED
  BY <1>1, <1>2 DEF Base

LEMMA BaseTakeInput == Base /\ TakeInput => Base'
<1> SUFFICES ASSUME Base, TakeInput PROVE Base'
  OBVIOUS
<1>3. /\ Tail(toWorker) \in Seq(WorkerMessage) /\ Head(toWorker).data \in Seq(Nat)
  <2>1. Tail(toWorker) \in Seq(WorkerMessage) /\ Head(toWorker) \in WorkerMessage
    BY DEF Base, Types, TakeInput
  <2> QED
    BY <2>1 DEF WorkerMessage
<1>4. webin' \in Seq(Nat) /\ Len(webin') <= WEBIN_CAP /\ pendingInput' \in Seq(Nat)
  <2>1. CASE Module
    BY <1>3, <2>1, PushedIs DEF Base, Types, TakeInput
  <2>2. CASE ~Module
    <3>1. pendingInput \o Head(toWorker).data \in Seq(Nat)
      BY <1>3 DEF Base, Types
    <3> QED
      BY <2>2, <3>1 DEF Base, Types, TakeInput
  <2> QED
    BY <2>1, <2>2
<1>1. Types'
  BY <1>3, <1>4 DEF Base, Types, TakeInput, AtLoop, page, keys, ring, guest
<1>2. Stages'
  BY DEF Base, Types, Stages, Beyond, TakeInput, AtLoop, page, keys, ring, guest
<1> QED
  BY <1>1, <1>2 DEF Base

(* Bytes are sent while the machine goes on.                               *)
LEMMA OutMessage ==
  ASSUME NEW bytes \in Seq(Nat), bytes # <<>>
  PROVE  /\ Out(bytes) = <<Msg("out", bytes)>> /\ Msg("out", bytes) \in PageMessage
         /\ \A w, module, f : Announced(Msg("out", bytes), TRUE, w, module, f)
<1>1. Msg("out", bytes) \in PageMessage /\ Msg("out", bytes).type = "out"
  BY Sent
<1> QED
  BY <1>1 DEF Out, Announced

LEMMA OutPosted ==
  ASSUME Base, worker \in {"guest", "asleep"},
         NEW bytes \in Seq(Nat), bytes # <<>>, Post(Out(bytes)),
         worker' = worker, Module' = Module, files' = files
  PROVE  /\ toPage' = Append(toPage, Msg("out", bytes))
         /\ toPage' \in Seq(PageMessage)
         /\ AllAnnounced(toPage', worker', Module', files')
<1> DEFINE m == Msg("out", bytes)
<1>1. /\ Out(bytes) = <<m>> /\ m \in PageMessage
      /\ \A w, module, f : Announced(m, TRUE, w, module, f)
  BY OutMessage
<1>2. toPage' = toPage \o <<m>>
  BY <1>1 DEF Post
<1> HIDE DEF m
<1>3. toPage \in Seq(PageMessage) /\ AllAnnounced(toPage, worker, Module, files)
  BY DEF Base, Types, Stages
<1>4. toPage' = Append(toPage, m)
  BY <1>1, <1>2, <1>3, Posted
<1>5. MovesOn(worker, Module, files, worker, Module, files)
  BY DEF MovesOn, Beyond
<1>6. Append(toPage, m) \in Seq(PageMessage) /\ AllAnnounced(Append(toPage, m), worker, Module, files)
  BY <1>1, <1>3, <1>5, AnnouncedAppend
<1> QED
  BY <1>4, <1>6 DEF m

LEMMA BaseFlushOut == Base /\ FlushOut => Base'
<1> SUFFICES ASSUME Base, FlushOut PROVE Base'
  OBVIOUS
<1>3. toPage' \in Seq(PageMessage) /\ AllAnnounced(toPage', worker', Module', files')
  BY OutPosted DEF FlushOut, Base, Types
<1>4. <<>> \in Seq(Nat) /\ Len(<<>>) < OutCap
  BY WebAssumption
<1>1. Types'
  BY <1>3, <1>4 DEF Base, Types, FlushOut, page, keys, ring, guest
<1>2. Stages'
  BY <1>3 DEF Base, Types, Stages, Beyond, FlushOut, page, keys, ring, guest
<1> QED
  BY <1>1, <1>2 DEF Base

LEMMA BaseWrites == Base /\ Writes => Base'
<1> SUFFICES ASSUME Base, Writes PROVE Base'
  OBVIOUS
<1> DEFINE all == Append(outBuf, written + 1)
<1>3. written' \in 0 .. MaxWritten
  BY WebAssumption DEF Base, Types, Writes
<1>4. <<>> \in Seq(Nat) /\ Len(<<>>) < OutCap
  BY WebAssumption
<1>5. all \in Seq(Nat) /\ all # <<>>
  <2>1. outBuf \in Seq(Nat) /\ written + 1 \in Nat
    BY WebAssumption DEF Base, Types
  <2> QED
    BY <2>1, AppendProperties
<1>6. CASE Len(all) >= OutCap
  <2>1. Post(Out(all)) /\ outBuf' = <<>>
    BY <1>6 DEF Writes
  <2> HIDE DEF all
  <2>2. toPage' \in Seq(PageMessage) /\ AllAnnounced(toPage', worker', Module', files')
    BY <1>5, <2>1, OutPosted DEF Writes
  <2>3. Types'
    BY <1>3, <1>4, <2>1, <2>2 DEF Base, Types, Writes, page, keys, ring, guest
  <2>4. Stages'
    BY <2>2 DEF Base, Types, Stages, Beyond, Writes, page, keys, ring, guest
  <2> QED
    BY <2>3, <2>4 DEF Base
<1>7. CASE ~(Len(all) >= OutCap)
  <2>1. outBuf' = all /\ UNCHANGED toPage
    BY <1>7 DEF Writes
  <2>2. Len(all) < OutCap
    BY <1>5, <1>7, WebAssumption
  <2> HIDE DEF all
  <2>3. Types'
    BY <1>3, <1>5, <2>1, <2>2 DEF Base, Types, Writes, page, keys, ring, guest
  <2>4. Stages'
    BY <2>1 DEF Base, Types, Stages, Beyond, Writes, page, keys, ring, guest
  <2> QED
    BY <2>3, <2>4 DEF Base
<1> QED
  BY <1>6, <1>7

(* The last output, and then the end.                                      *)
LEMMA LastPosted ==
  ASSUME Base, Halts
  PROVE  /\ Msg("exit", <<>>) \in PageMessage /\ Msg("out", outBuf) \in PageMessage
         /\ toPage' = IF outBuf = <<>> THEN Append(toPage, Msg("exit", <<>>))
                      ELSE Append(Append(toPage, Msg("out", outBuf)), Msg("exit", <<>>))
<1> DEFINE x == Msg("exit", <<>>)
           o == Msg("out", outBuf)
<1>1. x \in PageMessage /\ o \in PageMessage /\ toPage \in Seq(PageMessage)
  <2>1. <<>> \in Seq(Nat) /\ outBuf \in Seq(Nat) /\ toPage \in Seq(PageMessage)
    BY DEF Base, Types
  <2> QED
    BY <2>1, Sent
<1>2. toPage' = toPage \o (Out(outBuf) \o <<x>>)
  BY DEF Halts, Post, LastWords
<1>3. CASE outBuf = <<>>
  <2>1. Out(outBuf) = <<>>
    BY <1>3 DEF Out
  <2> HIDE DEF x, o
  <2>2. <<>> \o <<x>> = <<x>>
    BY <1>1
  <2> QED
    BY <1>1, <1>2, <1>3, <2>1, <2>2, Posted DEF x, o
<1>4. CASE outBuf # <<>>
  <2>1. Out(outBuf) = <<o>>
    BY <1>4 DEF Out
  <2>2. toPage \o (<<o>> \o <<x>>) = Append(Append(toPage, o), x)
    BY <1>1, PostedTwo
  <2> QED
    BY <1>1, <1>2, <1>4, <2>1, <2>2
<1> QED
  BY <1>1, <1>3, <1>4

LEMMA BaseHalts == Base /\ Halts => Base'
<1> SUFFICES ASSUME Base, Halts PROVE Base'
  OBVIOUS
<1> DEFINE x == Msg("exit", <<>>)
           o == Msg("out", outBuf)
<1>3. /\ x \in PageMessage /\ o \in PageMessage
      /\ toPage' = IF outBuf = <<>> THEN Append(toPage, x) ELSE Append(Append(toPage, o), x)
  BY LastPosted
<1>4. x.type = "exit" /\ o.type = "out"
  <2>1. <<>> \in Seq(Nat) /\ outBuf \in Seq(Nat)
    BY DEF Base, Types
  <2> QED
    BY <2>1, Sent, ZenonT(60)
<1> HIDE DEF x, o
<1>5. /\ Announced(x, TRUE, "over", Module, files)
      /\ Announced(o, TRUE, "guest", Module, files)
  BY <1>4 DEF Announced
<1>6. /\ MovesOn("guest", Module, files, "guest", Module, files)
      /\ MovesOn("guest", Module, files, "over", Module, files)
  BY DEF MovesOn, Beyond
<1>7. /\ toPage \in Seq(PageMessage) /\ AllAnnounced(toPage, "guest", Module, files)
  BY DEF Base, Types, Stages, Halts
<1>8. /\ Append(toPage, o) \in Seq(PageMessage)
      /\ AllAnnounced(Append(toPage, o), "guest", Module, files)
  BY <1>3, <1>5, <1>6, <1>7, AnnouncedAppend
<1>9. toPage' \in Seq(PageMessage) /\ AllAnnounced(toPage', "over", Module, files)
  <2>1. CASE outBuf = <<>>
    BY <1>3, <1>5, <1>6, <1>7, <2>1, AnnouncedAppend
  <2>2. CASE outBuf # <<>>
    BY <1>3, <1>5, <1>6, <1>8, <2>2, AnnouncedAppend
  <2> QED
    BY <2>1, <2>2
<1>10. <<>> \in Seq(Nat) /\ Len(<<>>) < OutCap
  BY WebAssumption
<1>1. Types'
  BY <1>9, <1>10 DEF Base, Types, Halts, page, keys, ring, guest
<1>2. Stages'
  BY <1>9 DEF Base, Types, Stages, Beyond, Halts, page, keys, ring, guest
<1> QED
  BY <1>1, <1>2 DEF Base

LEMMA BaseInit == Init => Base
<1> SUFFICES ASSUME Init PROVE Base
  OBVIOUS
<1>1. /\ <<>> \in Seq(Nat) /\ <<>> \in Seq(WorkerMessage) /\ <<>> \in Seq(PageMessage)
      /\ Len(<<>>) = 0
  OBVIOUS
<1>2. /\ 0 \in 0 .. MaxBoots /\ 0 \in 0 .. MaxTyped /\ 0 \in 0 .. MaxWritten /\ 0 <= 0
      /\ 0 <= WEBIN_CAP /\ 0 < OutCap
  BY WebAssumption
<1>3. Types
  BY <1>1, <1>2, Zenon DEF Init, Types
<1>4. Stages
  BY AnnouncedNone DEF Init, Stages, Beyond
<1> QED
  BY <1>3, <1>4 DEF Base

LEMMA BaseNext == Base /\ [Next]_vars => Base'
<1> SUFFICES ASSUME Base, [Next]_vars PROVE Base'
  OBVIOUS
<1>1. CASE Page
  BY <1>1, BaseStart, BaseStop, BaseType, BaseSendEof DEF Page
<1>2. CASE Shows
  BY <1>2, BaseShowOut, BaseKeepImages, BaseShowRunning, BaseShowHalted DEF Shows
<1>3. CASE Loads
  BY <1>3, BaseImport, BaseLoadFails, BaseInstantiated, BaseFetched DEF Loads
<1>4. CASE Takes \/ FlushOut \/ Wake
  BY <1>4, BaseTakeInput, BaseTakeEof, BaseFlushOut, BaseWake DEF Takes
<1>5. CASE Machine
  BY <1>5, BaseYield, BaseReads, BaseReadsEof, BaseWrites, BaseHalts DEF Machine
<1>6. CASE UNCHANGED vars
  BY <1>6 DEF Base, Types, Stages, vars, page, keys, ring, guest
<1> QED
  BY <1>1, <1>2, <1>3, <1>4, <1>5, <1>6 DEF Next

(***************************************************************************)
(* The output                                                              *)
(***************************************************************************)

Displayed(s, q, b) == s \o Data(q, "out") \o b

LEMMA NothingMore == ASSUME NEW a \in Seq(Nat) PROVE a \o <<>> = a /\ <<>> \o a = a
  OBVIOUS

LEMMA OneMore ==
  ASSUME NEW n \in Nat
  PROVE  Upto(n + 1) = Append(Upto(n), n + 1)
<1>1. Upto(n) \in Seq(Nat) /\ Len(Upto(n)) = n /\ Upto(n + 1) \in Seq(Nat) /\ Len(Upto(n + 1)) = n + 1
  BY DEF Upto
<1>2. \A i \in 1 .. n : Append(Upto(n), n + 1)[i] = i
  BY <1>1 DEF Upto
<1>3. Append(Upto(n), n + 1)[n + 1] = n + 1 /\ Len(Append(Upto(n), n + 1)) = n + 1
  BY <1>1
<1>4. \A i \in 1 .. n + 1 : Upto(n + 1)[i] = i
  BY DEF Upto
<1> DEFINE a == Append(Upto(n), n + 1)
           b == Upto(n + 1)
<1>5. a \in Seq(Nat) /\ b \in Seq(Nat) /\ Len(a) = Len(b) /\ Len(b) = n + 1
      /\ \A i \in 1 .. n + 1 : a[i] = b[i]
  <2>1. \A i \in 1 .. n + 1 : a[i] = i
    BY <1>2, <1>3
  <2>2. a \in Seq(Nat)
    BY <1>1, AppendProperties
  <2> QED
    BY <1>1, <1>3, <1>4, <2>1, <2>2
<1> HIDE DEF a, b
<1>6. a = b
  BY <1>5, SeqEqual
<1> QED
  BY <1>6 DEF a, b

(* The page shows the first message.                                       *)
LEMMA DisplayedTail ==
  ASSUME NEW s \in Seq(Nat), NEW q \in Seq(PageMessage), q # <<>>, NEW b \in Seq(Nat)
  PROVE  /\ Head(q).type = "out" => Displayed(s \o Head(q).data, Tail(q), b) = Displayed(s, q, b)
         /\ Head(q).type # "out" => Displayed(s, Tail(q), b) = Displayed(s, q, b)
<1> DEFINE p == Part(Head(q), "out")
           d == Data(Tail(q), "out")
<1>1. Head(q) \in Message /\ q \in Seq(Message) /\ Tail(q) \in Seq(Message)
  <2>1. Head(q) \in PageMessage
    OBVIOUS
  <2>2. Head(q) \in Message
    BY <2>1 DEF PageMessage, Message, Kinds
  <2>3. q \in Seq(Message)
    BY Messages
  <2> QED
    BY <2>2, <2>3
<1>2. Data(q, "out") = p \o d /\ p \in Seq(Nat) /\ d \in Seq(Nat)
  BY <1>1, DataHead, DataType, PartType
<1>3. /\ Head(q).type = "out" => p = Head(q).data
      /\ Head(q).type # "out" => p = <<>>
  BY DEF Part
<1> HIDE DEF p, d
<1>4. s \o (p \o d) = (s \o p) \o d
  BY <1>2, Assoc
<1>5. s \o <<>> = s
  BY NothingMore
<1>6. Displayed(s, q, b) = ((s \o p) \o d) \o b
  BY <1>2, <1>4 DEF Displayed
<1> QED
  BY <1>3, <1>5, <1>6 DEF Displayed, d

(* A message that is no output changes nothing, and one that sends the     *)
(* whole buffer only where the bytes are.                                  *)
LEMMA DisplayedPost ==
  ASSUME NEW s \in Seq(Nat), NEW q \in Seq(PageMessage), NEW b \in Seq(Nat),
         NEW m \in PageMessage
  PROVE  /\ m.type # "out" => Displayed(s, Append(q, m), b) = Displayed(s, q, b)
         /\ m.type = "out" /\ m.data = b => Displayed(s, Append(q, m), <<>>) = Displayed(s, q, b)
<1> DEFINE d == Data(q, "out")
<1>1. Data(Append(q, m), "out") = d \o Part(m, "out")
  BY Posted
<1>2. d \in Seq(Nat)
  BY Messages, DataType
<1>3. /\ m.type # "out" => Part(m, "out") = <<>>
      /\ m.type = "out" => Part(m, "out") = m.data
  BY DEF Part
<1>4. Displayed(s, q, b) = (s \o d) \o b
  BY DEF Displayed
<1> HIDE DEF d
<1>5. d \o <<>> = d /\ (s \o (d \o b)) \o <<>> = (s \o d) \o b
  <2>1. s \o (d \o b) = (s \o d) \o b
    BY <1>2, Assoc
  <2>2. d \o b \in Seq(Nat)
    BY <1>2
  <2>3. s \o (d \o b) \in Seq(Nat)
    BY <2>2
  <2> QED
    BY <1>2, <2>1, <2>3, NothingMore
<1> QED
  BY <1>1, <1>3, <1>4, <1>5 DEF Displayed

LEMMA DisplayedMore ==
  ASSUME NEW s \in Seq(Nat), NEW q \in Seq(PageMessage), NEW b \in Seq(Nat),
         NEW n \in Nat, Displayed(s, q, b) = Upto(n)
  PROVE  Displayed(s, q, Append(b, n + 1)) = Upto(n + 1)
<1> DEFINE d == Data(q, "out")
<1>1. d \in Seq(Nat)
  BY Messages, DataType
<1>2. (s \o d) \o b = Upto(n) /\ Displayed(s, q, Append(b, n + 1)) = (s \o d) \o Append(b, n + 1)
  BY DEF Displayed
<1> HIDE DEF d
<1>3. s \o d \in Seq(Nat) /\ n + 1 \in Nat
  BY <1>1
<1>4. Append((s \o d) \o b, n + 1) = (s \o d) \o Append(b, n + 1)
  BY <1>3, AppendBehind
<1> QED
  BY <1>2, <1>4, OneMore


LEMMA ShownNext == Base /\ Shown /\ [Next]_vars => Shown'
<1> SUFFICES ASSUME Base, Shown, [Next]_vars PROVE Shown'
  OBVIOUS
<1>1. /\ toPage \in Seq(PageMessage) /\ screen \in Seq(Nat) /\ outBuf \in Seq(Nat)
      /\ written \in Nat
      /\ worker # "none" => Displayed(screen, toPage, outBuf) = Upto(written)
      /\ worker \notin {"none", "guest", "asleep"} => outBuf = <<>>
  BY DEF Base, Types, Shown, Displayed
<1>2. SUFFICES /\ worker' # "none" => Displayed(screen', toPage', outBuf') = Upto(written')
               /\ worker' \notin {"none", "guest", "asleep"} => outBuf' = <<>>
  BY DEF Shown, Displayed
<1>3. CASE Start
  <2>1. /\ screen' = <<>> /\ toPage' = <<>> /\ outBuf' = <<>> /\ written' = 0
    BY <1>3 DEF Start, Terminated
  <2>2. Upto(0) = <<>> /\ (<<>> \o <<>>) \o <<>> = <<>>
    BY DEF Upto
  <2> QED
    BY <2>1, <2>2, DataEmpty DEF Displayed
<1>4. CASE Stop
  BY <1>4 DEF Stop
<1>5. CASE Type \/ SendEof \/ TakeInput \/ TakeEof \/ Wake \/ Yield \/ Reads \/ ReadsEof
  <2>1. UNCHANGED <<screen, toPage, outBuf, written>>
    BY <1>5 DEF Type, SendEof, TakeInput, TakeEof, Wake, Yield, Reads, ReadsEof, page, keys, ring, guest
  <2>2. \/ worker' = worker
        \/ worker \in {"guest", "asleep"} /\ worker' \in {"guest", "asleep"}
    <3>1. Wake \/ Yield => worker \in {"guest", "asleep"} /\ worker' \in {"guest", "asleep"}
      BY DEF Wake, Yield
    <3>3. CASE Wake \/ Yield
      BY <3>1, <3>3
    <3>4. CASE Type \/ SendEof \/ TakeInput \/ TakeEof \/ Reads \/ ReadsEof
      <4>1. worker' = worker
        BY <3>4, Zenon DEF Type, SendEof, TakeInput, TakeEof, Reads, ReadsEof
      <4> QED
        BY <4>1
    <3> QED
      BY <1>5, <3>3, <3>4
  <2> QED
    BY <1>1, <2>1, <2>2
<1>6. CASE Shows
  <2>1. /\ toPage # <<>> /\ toPage' = Tail(toPage)
        /\ UNCHANGED <<worker, outBuf, written>>
        /\ \/ Head(toPage).type = "out" /\ screen' = screen \o Head(toPage).data
           \/ Head(toPage).type # "out" /\ screen' = screen
    BY <1>6 DEF Shows, ShowOut, KeepImages, ShowRunning, ShowHalted, Receives, guest
  <2> QED
    BY <1>1, <2>1, DisplayedTail
<1>7. CASE Import \/ LoadFails \/ Instantiated \/ Fetched
  <2>1. /\ UNCHANGED <<screen, outBuf, written>> /\ worker \in {"new", "instantiating", "fetching"}
    BY <1>7 DEF Import, LoadFails, Instantiated, Fetched, Reject, page, keys, guest
  <2>2. Displayed(screen, toPage', outBuf) = Displayed(screen, toPage, outBuf)
    <3> DEFINE x == Msg("exit", <<>>)
               e == Msg("onerror", <<>>)
               i == Msg("images", <<>>)
               m == Msg("running", <<>>)
    <3>1. /\ x \in PageMessage /\ e \in PageMessage /\ i \in PageMessage /\ m \in PageMessage
          /\ x.type # "out" /\ e.type # "out" /\ i.type # "out" /\ m.type # "out"
      <4>1. <<>> \in Seq(Nat)
        OBVIOUS
      <4> QED
        BY <4>1, Sent
    <3>2. \/ toPage' = toPage \/ toPage' = toPage \o <<x>> \/ toPage' = toPage \o <<e>>
          \/ toPage' = toPage \o (<<>> \o <<m>>)
          \/ toPage' = toPage \o (<<i>> \o <<m>>)
      BY <1>7 DEF Import, LoadFails, Instantiated, Fetched, Reject, Post, RunMachine
    <3> HIDE DEF x, e, i, m
    <3>3. <<>> \o <<m>> = <<m>>
      BY <3>1
    <3>6. /\ toPage \o <<x>> = Append(toPage, x) /\ toPage \o <<e>> = Append(toPage, e)
          /\ toPage \o <<m>> = Append(toPage, m)
          /\ toPage \o (<<i>> \o <<m>>) = Append(Append(toPage, i), m)
      BY <1>1, <3>1, Posted, PostedTwo
    <3>4. \/ toPage' = toPage \/ toPage' = Append(toPage, x) \/ toPage' = Append(toPage, e)
          \/ toPage' = Append(toPage, m)
          \/ toPage' = Append(Append(toPage, i), m)
      BY <3>2, <3>3, <3>6, Zenon
    <3>5. Append(toPage, i) \in Seq(PageMessage)
      BY <1>1, <3>1, Posted
    <3>7. /\ Displayed(screen, Append(toPage, x), outBuf) = Displayed(screen, toPage, outBuf)
          /\ Displayed(screen, Append(toPage, e), outBuf) = Displayed(screen, toPage, outBuf)
          /\ Displayed(screen, Append(toPage, m), outBuf) = Displayed(screen, toPage, outBuf)
          /\ Displayed(screen, Append(toPage, i), outBuf) = Displayed(screen, toPage, outBuf)
      BY <1>1, <3>1, DisplayedPost
    <3>8. Displayed(screen, Append(Append(toPage, i), m), outBuf)
            = Displayed(screen, Append(toPage, i), outBuf)
      BY <1>1, <3>1, <3>5, DisplayedPost
    <3> QED
      BY <3>4, <3>7, <3>8
  <2> QED
    BY <1>1, <2>1, <2>2
<1>8. CASE FlushOut
  <2>1. /\ worker = "asleep" /\ outBuf # <<>> /\ Post(Out(outBuf)) /\ outBuf' = <<>>
        /\ UNCHANGED <<screen, written, worker, Module, files>>
    BY <1>8 DEF FlushOut, page, guest
  <2>2. toPage' = Append(toPage, Msg("out", outBuf))
    BY <1>1, <2>1, OutPosted
  <2>3. Msg("out", outBuf) \in PageMessage /\ Msg("out", outBuf).type = "out"
        /\ Msg("out", outBuf).data = outBuf
    BY <1>1, Sent
  <2> QED
    BY <1>1, <2>1, <2>2, <2>3, DisplayedPost
<1>9. CASE Writes
  <2> DEFINE all == Append(outBuf, written + 1)
  <2>1. /\ worker = "guest" /\ written' = written + 1
        /\ UNCHANGED <<screen, worker, Module, files>>
        /\ \/ Post(Out(all)) /\ outBuf' = <<>>
           \/ toPage' = toPage /\ outBuf' = all
    BY <1>9 DEF Writes, page
  <2>2. Displayed(screen, toPage, all) = Upto(written')
    BY <1>1, <2>1, DisplayedMore
  <2>3. all \in Seq(Nat) /\ all # <<>>
    <3>1. written + 1 \in Nat
      BY <1>1
    <3> QED
      BY <1>1, <3>1, AppendProperties, ZenonT(60)
  <2> HIDE DEF all
  <2>4. CASE Post(Out(all)) /\ outBuf' = <<>>
    <3>1. toPage' = Append(toPage, Msg("out", all))
      BY <2>1, <2>3, <2>4, OutPosted
    <3>2. Msg("out", all) \in PageMessage /\ Msg("out", all).type = "out"
          /\ Msg("out", all).data = all
      BY <2>3, Sent
    <3> QED
      BY <1>1, <2>1, <2>2, <2>3, <2>4, <3>1, <3>2, DisplayedPost
  <2> QED
    BY <2>1, <2>2, <2>4
<1>10. CASE Halts
  <2> DEFINE x == Msg("exit", <<>>)
             o == Msg("out", outBuf)
  <2>1. /\ x \in PageMessage /\ o \in PageMessage
        /\ toPage' = IF outBuf = <<>> THEN Append(toPage, x) ELSE Append(Append(toPage, o), x)
    BY <1>10, LastPosted
  <2>2. x.type = "exit" /\ o.type = "out" /\ o.data = outBuf
    <3>1. <<>> \in Seq(Nat)
      OBVIOUS
    <3> QED
      BY <1>1, <3>1, Sent, ZenonT(60)
  <2>3. /\ worker = "guest" /\ worker' = "over" /\ outBuf' = <<>>
        /\ UNCHANGED <<screen, written>>
    BY <1>10 DEF Halts, guest
  <2> HIDE DEF x, o
  <2>4. Append(toPage, o) \in Seq(PageMessage) /\ <<>> \in Seq(Nat)
    BY <1>1, <2>1, Posted
  <2>5. CASE outBuf = <<>>
    <3>1. Displayed(screen, Append(toPage, x), outBuf) = Displayed(screen, toPage, outBuf)
      BY <1>1, <2>1, <2>2, DisplayedPost
    <3>2. Displayed(screen, toPage, outBuf) = Upto(written) /\ toPage' = Append(toPage, x)
      BY <1>1, <2>1, <2>3, <2>5
    <3> QED
      BY <2>3, <2>5, <3>1, <3>2
  <2>6. CASE outBuf # <<>>
    <3>1. Displayed(screen, Append(toPage, o), <<>>) = Displayed(screen, toPage, outBuf)
      BY <1>1, <2>1, <2>2, DisplayedPost
    <3>2. Displayed(screen, Append(Append(toPage, o), x), <<>>)
            = Displayed(screen, Append(toPage, o), <<>>)
      BY <1>1, <2>1, <2>2, <2>4, DisplayedPost, ZenonT(60)
    <3>3. /\ Displayed(screen, toPage, outBuf) = Upto(written)
          /\ toPage' = Append(Append(toPage, o), x)
      BY <1>1, <2>1, <2>3, <2>6
    <3> QED
      BY <2>3, <3>1, <3>2, <3>3
  <2> QED
    BY <2>5, <2>6
<1>11. CASE UNCHANGED vars
  BY <1>1, <1>11 DEF vars, page, guest
<1> QED
  BY <1>3, <1>4, <1>5, <1>6, <1>7, <1>8, <1>9, <1>10, <1>11
     DEF Next, Page, Loads, Takes, Machine

LEMMA ShownInit == Init => Shown
<1> SUFFICES ASSUME Init PROVE Shown
  OBVIOUS
<1> QED
  BY DEF Init, Shown

(* The screen shows this machine's output from its first byte, without     *)
(* gaps, and all of it by the time the page says that it has halted        *)
(* (nx88-worker.js, web.c): whatever the sizes of the buffers, wherever    *)
(* the machine yields, and however often the page stops and boots again.   *)
THEOREM ScreenIsComplete == Spec => []ScreenShowsAll
<1>1. Init => Base /\ Shown
  BY BaseInit, ShownInit
<1>2. Base /\ Shown /\ [Next]_vars => (Base /\ Shown)'
  BY BaseNext, ShownNext
<1>3. Base /\ Shown => ScreenShowsAll
  <2> SUFFICES ASSUME Base, Shown PROVE ScreenShowsAll
    OBVIOUS
  <2>1. worker # "none" => screen \o Data(toPage, "out") \o outBuf = Upto(written)
    BY DEF Shown
  <2>2. ASSUME phase = "halted", worker # "none" PROVE screen = Upto(written)
    <3>1. toPage = <<>> /\ outBuf = <<>>
      BY <2>2 DEF Base, Stages, Shown
    <3>2. (screen \o <<>>) \o <<>> = screen
      BY NothingMore DEF Base, Types
    <3> QED
      BY <2>1, <2>2, <3>1, <3>2, DataEmpty
  <2> QED
    BY <2>1, <2>2 DEF ScreenShowsAll
<1> QED
  BY <1>1, <1>2, <1>3, PTL DEF Spec

(* "The structured clone leaves the page's own copy intact and the machine *)
(* can be rebooted any number of times" (tc2000.js:233).                   *)
THEOREM ImagesAreWhole == Spec => []BootsFromImages
<1>1. Base => BootsFromImages
  BY DEF Base, Stages, BootsFromImages
<1> QED
  BY <1>1, BaseInit, BaseNext, PTL DEF Spec

(***************************************************************************)
(* The input                                                               *)
(***************************************************************************)

LEMMA StartingNext == Base /\ Starting /\ [Next]_vars => Starting'
<1> SUFFICES ASSUME Base, Starting, [Next]_vars PROVE Starting'
  OBVIOUS
<1>1. CASE Start
  <2>1. <<Msg("start", <<>>)>> # <<>> /\ Head(<<Msg("start", <<>>)>>) = Msg("start", <<>>)
    OBVIOUS
  <2>2. Msg("start", <<>>).type = "start"
    BY DEF Msg
  <2> QED
    BY <1>1, <2>1, <2>2 DEF Start, Starting
<1>2. CASE Type \/ SendEof
  <2>1. PICK m : toWorker' = Append(toWorker, m) /\ m \in WorkerMessage
    <3>1. CASE SendEof
      <4>1. <<>> \in Seq(Nat)
        OBVIOUS
      <4> QED
        BY <3>1, <4>1, Sent DEF SendEof
    <3>2. CASE Type
      <4>1. PICK n \in 1 .. 2 : toWorker' = Append(toWorker, Msg("input", [i \in 1 .. n |-> typed + i]))
        BY <3>2 DEF Type
      <4>2. [i \in 1 .. n |-> typed + i] \in Seq(Nat)
        BY DEF Base, Types
      <4>3. Msg("input", [i \in 1 .. n |-> typed + i]) \in WorkerMessage
        BY <4>2, Sent
      <4> QED
        BY <4>1, <4>3
    <3> QED
      BY <1>2, <3>1, <3>2
  <2>2. toWorker \in Seq(WorkerMessage)
    BY DEF Base, Types
  <2>3. toWorker # <<>> => toWorker' # <<>> /\ Head(toWorker') = Head(toWorker)
    BY <2>1, <2>2
  <2>4. worker' = worker
    BY <1>2 DEF Type, SendEof
  <2> QED
    BY <2>3, <2>4 DEF Starting
<1>3. CASE Shows \/ UNCHANGED vars
  <2>1. UNCHANGED <<worker, toWorker>>
    BY <1>3 DEF Shows, ShowOut, KeepImages, ShowRunning, ShowHalted, Receives, vars
  <2> QED
    BY <2>1 DEF Starting
<1>4. CASE Stop \/ Loads
  BY <1>4 DEF Starting, Stop, Loads, Import, LoadFails, Reject, Instantiated, Fetched, RunMachine
<1>5. CASE Takes \/ FlushOut \/ Wake \/ Machine
  BY <1>5 DEF Starting, Takes, TakeInput, TakeEof, AtLoop, FlushOut, Wake, Machine, Yield,
     Reads, ReadsEof, Writes, Halts
<1> QED
  BY <1>1, <1>2, <1>3, <1>4, <1>5 DEF Next, Page

Way(g, w, p, q) == g \o w \o p \o Data(q, "input")

LEMMA TwoParts ==
  ASSUME NEW a \in Seq(Nat), NEW b \in Seq(Nat)
  PROVE  /\ a \o b \in Seq(Nat) /\ Len(a \o b) = Len(a) + Len(b)
         /\ \A i \in 1 .. Len(a \o b) :
              (a \o b)[i] = IF i <= Len(a) THEN a[i] ELSE b[i - Len(a)]
  OBVIOUS

LEMMA ThreeParts ==
  ASSUME NEW a \in Seq(Nat), NEW b \in Seq(Nat), NEW c \in Seq(Nat)
  PROVE  /\ Len((a \o b) \o c) = Len(a) + Len(b) + Len(c)
         /\ \A i \in 1 .. Len((a \o b) \o c) :
              ((a \o b) \o c)[i] = IF i <= Len(a) THEN a[i]
                                   ELSE IF i <= Len(a) + Len(b) THEN b[i - Len(a)]
                                   ELSE c[i - (Len(a) + Len(b))]
  OBVIOUS

(* Bytes cut out of the middle leave the others in their order.            *)
LEMMA OrderedCut ==
  ASSUME NEW a \in Seq(Nat), NEW b \in Seq(Nat), NEW c \in Seq(Nat), NEW n \in Nat,
         NEW k \in 0 .. Len(b), Ordered((a \o b) \o c, n)
  PROVE  Ordered((a \o SubSeq(b, 1, k)) \o c, n)
<1> DEFINE d == SubSeq(b, 1, k)
           s == (a \o b) \o c
           r == (a \o d) \o c
           m(i) == IF i <= Len(a) + k THEN i ELSE i + (Len(b) - k)
<1>1. d \in Seq(Nat) /\ Len(d) = k /\ \A i \in 1 .. k : d[i] = b[i]
  OBVIOUS
<1>2. Len(a) \in Nat /\ Len(b) \in Nat /\ Len(c) \in Nat /\ k \in Nat /\ k <= Len(b)
  OBVIOUS
<1> HIDE DEF d
<1>3. /\ Len(r) = Len(a) + k + Len(c)
      /\ \A i \in 1 .. Len(r) : r[i] = IF i <= Len(a) THEN a[i]
                                       ELSE IF i <= Len(a) + k THEN d[i - Len(a)]
                                       ELSE c[i - (Len(a) + k)]
  BY <1>1, ThreeParts, ZenonT(60)
<1>4. /\ Len(s) = Len(a) + Len(b) + Len(c)
      /\ \A i \in 1 .. Len(s) : s[i] = IF i <= Len(a) THEN a[i]
                                       ELSE IF i <= Len(a) + Len(b) THEN b[i - Len(a)]
                                       ELSE c[i - (Len(a) + Len(b))]
  BY ThreeParts
<1> HIDE DEF r, s
<1>5. ASSUME NEW i \in 1 .. Len(r) PROVE m(i) \in 1 .. Len(s) /\ r[i] = s[m(i)]
  <2>1. m(i) \in 1 .. Len(s)
    BY <1>2, <1>3, <1>4
  <2>2. CASE i <= Len(a)
    <3>1. m(i) = i
      BY <1>2, <2>2
    <3> QED
      BY <1>3, <1>4, <2>1, <2>2, <3>1
  <2>3. CASE ~(i <= Len(a)) /\ i <= Len(a) + k
    <3>1. i - Len(a) \in 1 .. k /\ m(i) = i /\ i <= Len(a) + Len(b)
      BY <1>2, <2>3
    <3> QED
      BY <1>1, <1>3, <1>4, <2>1, <2>3, <3>1
  <2>4. CASE ~(i <= Len(a) + k)
    <3>1. /\ m(i) = i + (Len(b) - k) /\ ~(m(i) <= Len(a) + Len(b)) /\ ~(m(i) <= Len(a))
          /\ ~(i <= Len(a))
          /\ m(i) - (Len(a) + Len(b)) = i - (Len(a) + k)
      BY <1>2, <2>4
    <3> QED
      BY <1>3, <1>4, <2>1, <2>4, <3>1
  <2> QED
    BY <2>2, <2>3, <2>4
<1>6. ASSUME NEW i \in 1 .. Len(r), NEW j \in 1 .. Len(r), i < j PROVE m(i) < m(j)
  BY <1>2, <1>3, <1>6
<1> HIDE DEF m
<1>7. Ordered(s, n)
  BY DEF s
<1>8. Ordered(r, n)
  BY <1>5, <1>6, <1>7 DEF Ordered, Rising
<1> QED
  BY <1>8 DEF r, d

(* The next bytes typed come last.                                         *)
LEMMA OrderedMore ==
  ASSUME NEW s \in Seq(Nat), NEW n \in Nat, NEW k \in Nat, Ordered(s, n)
  PROVE  /\ Ordered(s \o [i \in 1 .. k |-> n + i], n + k)
         /\ s = Upto(n) => s \o [i \in 1 .. k |-> n + i] = Upto(n + k)
<1> DEFINE d == [i \in 1 .. k |-> n + i]
           r == s \o d
<1>1. d \in Seq(Nat) /\ Len(d) = k /\ \A i \in 1 .. k : d[i] = n + i
  OBVIOUS
<1>2. Len(s) \in Nat /\ \A i \in 1 .. Len(s) : s[i] \in Nat
  OBVIOUS
<1> HIDE DEF d
<1>3. /\ r \in Seq(Nat) /\ Len(r) = Len(s) + k
      /\ \A i \in 1 .. Len(r) : r[i] = IF i <= Len(s) THEN s[i] ELSE d[i - Len(s)]
  BY <1>1, TwoParts
<1> HIDE DEF r
<1>4. \A i \in 1 .. Len(r) : IF i <= Len(s) THEN i \in 1 .. Len(s) /\ r[i] = s[i]
                             ELSE i - Len(s) \in 1 .. k /\ r[i] = n + (i - Len(s))
  BY <1>1, <1>2, <1>3
<1>5. Ordered(r, n + k)
  <2>1. ASSUME NEW i \in 1 .. Len(r) PROVE r[i] <= n + k
    BY <1>2, <1>4 DEF Ordered
  <2>2. ASSUME NEW i \in 1 .. Len(r), NEW j \in 1 .. Len(r), i < j PROVE r[i] < r[j]
    <3>1. CASE j <= Len(s)
      BY <1>2, <1>4, <2>2, <3>1 DEF Ordered, Rising
    <3>2. CASE ~(j <= Len(s)) /\ i <= Len(s)
      BY <1>2, <1>4, <3>2 DEF Ordered
    <3>3. CASE ~(i <= Len(s))
      BY <1>2, <1>4, <2>2, <3>3
    <3> QED
      BY <3>1, <3>2, <3>3
  <2> QED
    BY <2>1, <2>2 DEF Ordered, Rising
<1>6. ASSUME s = Upto(n) PROVE r = Upto(n + k)
  <2>1. Len(s) = n /\ \A i \in 1 .. n : s[i] = i
    BY <1>6 DEF Upto
  <2>2. Upto(n + k) \in Seq(Nat) /\ Len(Upto(n + k)) = n + k
        /\ \A i \in 1 .. n + k : Upto(n + k)[i] = i
    BY DEF Upto
  <2>3. \A i \in 1 .. n + k : r[i] = i
    BY <1>3, <1>4, <2>1
  <2> DEFINE u == Upto(n + k)
  <2>4. u \in Seq(Nat) /\ Len(u) = Len(r) /\ \A i \in 1 .. Len(r) : r[i] = u[i]
    BY <1>3, <2>1, <2>2, <2>3
  <2> HIDE DEF u
  <2>5. r = u
    BY <1>3, <2>4, SeqEqual
  <2> QED
    BY <2>5 DEF u
<1> QED
  BY <1>5, <1>6 DEF r, d

(* What the way of the bytes is made of.                                   *)
LEMMA WayTypes ==
  ASSUME NEW g \in Seq(Nat), NEW w \in Seq(Nat), NEW p \in Seq(Nat),
         NEW q \in Seq(WorkerMessage)
  PROVE  Data(q, "input") \in Seq(Nat) /\ Way(g, w, p, q) \in Seq(Nat)
<1> DEFINE d == Data(q, "input")
<1>1. d \in Seq(Nat)
  BY Messages, DataType
<1> HIDE DEF d
<1>2. ((g \o w) \o p) \o d \in Seq(Nat)
  BY <1>1
<1> QED
  BY <1>1, <1>2 DEF Way, d

(* A message more, or one less.                                            *)
LEMMA WayAppend ==
  ASSUME NEW g \in Seq(Nat), NEW w \in Seq(Nat), NEW p \in Seq(Nat),
         NEW q \in Seq(WorkerMessage), NEW m \in WorkerMessage
  PROVE  Way(g, w, p, Append(q, m)) = Way(g, w, p, q) \o Part(m, "input")
<1> DEFINE d == Data(q, "input")
           t == Part(m, "input")
           a == (g \o w) \o p
<1>1. m \in Message /\ q \in Seq(Message)
  <2>1. m \in Message
    BY DEF WorkerMessage, Message, Kinds
  <2> QED
    BY <2>1, Messages
<1>2. Data(Append(q, m), "input") = d \o t /\ d \in Seq(Nat) /\ t \in Seq(Nat)
  BY <1>1, DataAppend, DataType, PartType
<1>3. a \in Seq(Nat)
  OBVIOUS
<1>4. Way(g, w, p, Append(q, m)) = a \o (d \o t) /\ Way(g, w, p, q) = a \o d
  BY <1>2 DEF Way
<1> HIDE DEF a, d, t
<1>5. a \o (d \o t) = (a \o d) \o t
  BY <1>2, <1>3, Assoc
<1> QED
  BY <1>4, <1>5 DEF t

LEMMA WayTail ==
  ASSUME NEW q \in Seq(WorkerMessage), q # <<>>
  PROVE  /\ Head(q) \in WorkerMessage /\ Tail(q) \in Seq(WorkerMessage)
         /\ Head(q).data \in Seq(Nat)
         /\ Head(q).type = "input" => Data(q, "input") = Head(q).data \o Data(Tail(q), "input")
         /\ Head(q).type # "input" => Data(q, "input") = Data(Tail(q), "input")
<1>1. Head(q) \in WorkerMessage /\ Tail(q) \in Seq(WorkerMessage)
  OBVIOUS
<1>2. q \in Seq(Message) /\ Tail(q) \in Seq(Message)
  BY <1>1, Messages
<1>3. Head(q).data \in Seq(Nat)
  BY <1>1 DEF WorkerMessage
<1>4. Data(q, "input") = Part(Head(q), "input") \o Data(Tail(q), "input")
  BY <1>2, DataHead
<1>5. Data(Tail(q), "input") \in Seq(Nat)
  BY <1>2, DataType
<1>6. <<>> \o Data(Tail(q), "input") = Data(Tail(q), "input")
  BY <1>5, NothingMore
<1> QED
  BY <1>1, <1>3, <1>4, <1>6 DEF Part

(* What there is of n bytes, all of them if they fit in the ring.          *)
UptoIfFits(s, n) == Ordered(s, n) /\ (n <= WEBIN_CAP => s = Upto(n))

(* Bytes flushed or taken into the ring: those that do not fit are lost,   *)
(* the others come in the same order, and if all typed fit none is lost.   *)
LEMMA WayPushed ==
  ASSUME NEW g \in Seq(Nat), NEW w \in Seq(Nat), NEW b \in Seq(Nat), NEW c \in Seq(Nat),
         NEW n \in Nat, UptoIfFits(((g \o w) \o b) \o c, n)
  PROVE  UptoIfFits((g \o Pushed(w, b)) \o c, n)
<1>1. PICK k \in 0 .. Len(b) :
         /\ Pushed(w, b) = w \o SubSeq(b, 1, k)
         /\ Len(w) + Len(b) <= WEBIN_CAP => SubSeq(b, 1, k) = b
  BY PushedIs
<1>2. g \o w \in Seq(Nat) /\ SubSeq(b, 1, k) \in Seq(Nat)
  OBVIOUS
<1>0. Ordered(((g \o w) \o b) \o c, n) /\ (n <= WEBIN_CAP => ((g \o w) \o b) \o c = Upto(n))
  BY DEF UptoIfFits
<1>3. Ordered(((g \o w) \o SubSeq(b, 1, k)) \o c, n)
  BY <1>0, <1>2, OrderedCut
<1>4. (g \o w) \o SubSeq(b, 1, k) = g \o (w \o SubSeq(b, 1, k))
  BY <1>2, Assoc, ZenonT(60)
<1>5. ASSUME n <= WEBIN_CAP PROVE Len(w) + Len(b) <= WEBIN_CAP
  <2>1. Len(((g \o w) \o b) \o c) = Len(g \o w) + Len(b) + Len(c)
    BY <1>2, ThreeParts
  <2>2. Len(g \o w) = Len(g) + Len(w)
    BY TwoParts
  <2>3. Len(Upto(n)) = n
    BY DEF Upto
  <2>4. Len(g) \in Nat /\ Len(w) \in Nat /\ Len(b) \in Nat /\ Len(c) \in Nat
    OBVIOUS
  <2>5. ((g \o w) \o b) \o c = Upto(n)
    BY <1>0, <1>5
  <2>6. Len(g \o w) + Len(b) + Len(c) = n
    BY <2>1, <2>3, <2>5
  <2> QED
    BY <1>5, <2>2, <2>4, <2>6, WebAssumption
<1>6. Ordered((g \o Pushed(w, b)) \o c, n)
  BY <1>1, <1>3, <1>4
<1>7. n <= WEBIN_CAP => (g \o Pushed(w, b)) \o c = Upto(n)
  BY <1>0, <1>1, <1>4, <1>5
<1> QED
  BY <1>6, <1>7 DEF UptoIfFits

LEMMA InOrderSame ==
  ASSUME InOrder, OnTheirWay' = OnTheirWay, typed' = typed,
         worker = "none" => worker' = "none"
  PROVE  InOrder'
  BY DEF InOrder

LEMMA HeldBackNext ==
  ASSUME KeysWait
  PROVE  Base /\ InOrder /\ HeldBack /\ [Next]_vars => HeldBack'
<1> SUFFICES ASSUME Base, InOrder, HeldBack, [Next]_vars PROVE HeldBack'
  OBVIOUS
<1>1. CASE Start
  BY <1>1 DEF Start, HeldBack
<1>2. CASE Type
  <2>1. UNCHANGED <<Module, pendingInput, files>> /\ Patient
    BY <1>2 DEF Type, KeysWait
  <2>2. files # "none"
    BY <2>1 DEF Patient, Base, Stages
  <2> QED
    BY <2>1, <2>2 DEF HeldBack
<1>3. CASE Instantiated
  <2>1. CASE files # "none"
    BY <1>3, <2>1 DEF Instantiated, RunMachine, Flushed, HeldBack
  <2>2. CASE files = "none"
    <3>1. typed = 0 /\ worker # "none"
      BY <1>3, <2>2 DEF HeldBack, Instantiated
    <3>2. OnTheirWay = <<>>
      BY <3>1, WebAssumption DEF InOrder, Upto
    <3>3. pendingInput = <<>>
      <4> DEFINE d == Data(toWorker, "input")
      <4>1. d \in Seq(Nat) /\ got \in Seq(Nat) /\ webin \in Seq(Nat) /\ pendingInput \in Seq(Nat)
        BY WayTypes DEF Base, Types
      <4>2. ((got \o webin) \o pendingInput) \o d = <<>>
        BY <3>2 DEF OnTheirWay
      <4> HIDE DEF d
      <4>3. got \o webin \in Seq(Nat)
        BY <4>1
      <4>4. Len(((got \o webin) \o pendingInput) \o d) = Len(got \o webin) + Len(pendingInput) + Len(d)
        BY <4>1, <4>3, ThreeParts
      <4>5. Len(((got \o webin) \o pendingInput) \o d) = 0
        BY <4>2
      <4>6. Len(got \o webin) \in Nat /\ Len(pendingInput) \in Nat /\ Len(d) \in Nat
        BY <4>1, <4>3
      <4>7. Len(pendingInput) = 0
        BY <4>4, <4>5, <4>6
      <4> QED
        BY <4>1, <4>7
    <3> QED
      BY <1>3, <2>2, <3>1, <3>3 DEF Instantiated, HeldBack, keys
  <2> QED
    BY <2>1, <2>2
<1>4. CASE Fetched
  BY <1>4 DEF Fetched, RunMachine, Flushed, HeldBack
<1>5. CASE TakeInput
  BY <1>5 DEF TakeInput, HeldBack, keys
<1>6. CASE \/ Stop \/ SendEof \/ Shows \/ Import \/ LoadFails \/ TakeEof \/ FlushOut
           \/ Wake \/ Machine \/ UNCHANGED vars
  <2>1. UNCHANGED <<Module, pendingInput, files, typed>>
    BY <1>6 DEF Stop, SendEof, Shows, ShowOut, KeepImages, ShowRunning, ShowHalted, Receives,
       Import, LoadFails, TakeEof, FlushOut, Wake, Machine, Yield, Reads, ReadsEof, Writes,
       Halts, vars, keys
  <2> QED
    BY <2>1 DEF HeldBack
<1> QED
  BY <1>1, <1>2, <1>3, <1>4, <1>5, <1>6 DEF Next, Page, Loads, Takes

LEMMA FlushedInOrder ==
  ASSUME Base, InOrder, worker # "none", Flushed,
         UNCHANGED <<got, toWorker, typed>>
  PROVE  InOrder'
<1> DEFINE d == Data(toWorker, "input")
           x == (got \o Pushed(webin, pendingInput)) \o d
<1>1. /\ got \in Seq(Nat) /\ webin \in Seq(Nat) /\ pendingInput \in Seq(Nat) /\ d \in Seq(Nat)
      /\ typed \in Nat
  BY WayTypes DEF Base, Types
<1>2. /\ Ordered(((got \o webin) \o pendingInput) \o d, typed)
      /\ typed <= WEBIN_CAP => ((got \o webin) \o pendingInput) \o d = Upto(typed)
  BY DEF InOrder, OnTheirWay
<1>3. OnTheirWay' = x
  <2>1. got \o Pushed(webin, pendingInput) \in Seq(Nat)
    BY <1>1, PushedIs
  <2>2. (got \o Pushed(webin, pendingInput)) \o <<>> = got \o Pushed(webin, pendingInput)
    BY <2>1, NothingMore
  <2> QED
    BY <2>2 DEF Flushed, OnTheirWay
<1> HIDE DEF d
<1>4. UptoIfFits(((got \o webin) \o pendingInput) \o d, typed)
  BY <1>2 DEF UptoIfFits
<1>5. UptoIfFits(x, typed)
  BY <1>1, <1>4, WayPushed
<1> HIDE DEF x
<1> QED
  BY <1>3, <1>5 DEF InOrder, UptoIfFits

LEMMA InOrderNext ==
  ASSUME KeysWait
  PROVE  Base /\ Starting /\ InOrder /\ HeldBack /\ [Next]_vars => InOrder'
<1> SUFFICES ASSUME Base, Starting, InOrder, HeldBack, [Next]_vars PROVE InOrder'
  OBVIOUS
<1>0. /\ got \in Seq(Nat) /\ webin \in Seq(Nat) /\ pendingInput \in Seq(Nat)
      /\ toWorker \in Seq(WorkerMessage)
  BY DEF Base, Types
<1>1. /\ got \in Seq(Nat) /\ webin \in Seq(Nat) /\ pendingInput \in Seq(Nat)
      /\ toWorker \in Seq(WorkerMessage) /\ typed \in Nat
      /\ OnTheirWay = Way(got, webin, pendingInput, toWorker)
      /\ OnTheirWay' = Way(got', webin', pendingInput', toWorker')
      /\ OnTheirWay \in Seq(Nat)
  BY WayTypes DEF Base, Types, OnTheirWay, Way
<1>2. CASE Start
  <2>1. /\ got' = <<>> /\ webin' = <<>> /\ pendingInput' = <<>> /\ typed' = 0
        /\ toWorker' = <<Msg("start", <<>>)>>
    BY <1>2 DEF Start
  <2>2. Msg("start", <<>>) \in WorkerMessage /\ Msg("start", <<>>).type = "start"
    <3>1. <<>> \in Seq(Nat)
      OBVIOUS
    <3> QED
      BY <3>1, Sent
  <2>3. Data(<<Msg("start", <<>>)>>, "input") = <<>>
    <3> DEFINE m == Msg("start", <<>>)
    <3>1. m \in WorkerMessage /\ m.type = "start"
      BY <2>2
    <3> HIDE DEF m
    <3>2. <<m>> \in Seq(WorkerMessage) /\ <<m>> # <<>> /\ Head(<<m>>) = m /\ Tail(<<m>>) = <<>>
      BY <3>1
    <3>3. Data(<<m>>, "input") = Data(<<>>, "input")
      BY <3>1, <3>2, WayTail
    <3> QED
      BY <3>3, DataEmpty DEF m
  <2>4. OnTheirWay' = <<>>
    <3>1. ((<<>> \o <<>>) \o <<>>) \o <<>> = <<>>
      OBVIOUS
    <3> QED
      BY <1>1, <2>1, <2>3, <3>1 DEF Way
  <2>5. Upto(0) = <<>> /\ Ordered(<<>>, 0)
    BY DEF Upto, Ordered, Rising
  <2> QED
    BY <2>1, <2>4, <2>5 DEF InOrder
<1>3. CASE Stop
  <2>1. UNCHANGED <<got, webin, pendingInput, typed>> /\ toWorker' = <<>> /\ worker' = "none"
    BY <1>3 DEF Stop, ring, keys, guest
  <2> DEFINE a == (got \o webin) \o pendingInput
             d == Data(toWorker, "input")
  <2>2. a \in Seq(Nat) /\ d \in Seq(Nat) /\ <<>> \in Seq(Nat)
    BY <1>1, WayTypes
  <2>3. OnTheirWay = a \o d /\ OnTheirWay' = a \o <<>>
    BY <1>1, <2>1, DataEmpty DEF Way
  <2> HIDE DEF a, d
  <2>4. /\ (a \o d) \o <<>> = a \o d /\ SubSeq(d, 1, 0) = <<>> /\ 0 \in 0 .. Len(d)
        /\ (a \o <<>>) \o <<>> = a \o <<>>
    <3>1. a \o d \in Seq(Nat) /\ a \o <<>> \in Seq(Nat)
      BY <2>2
    <3> QED
      BY <2>2, <3>1, NothingMore
  <2>5. Ordered((a \o d) \o <<>>, typed)
    BY <2>3, <2>4 DEF InOrder
  <2>6. Ordered((a \o SubSeq(d, 1, 0)) \o <<>>, typed)
    BY <1>1, <2>2, <2>4, <2>5, OrderedCut
  <2>7. Ordered(OnTheirWay', typed)
    BY <2>3, <2>4, <2>6
  <2> QED
    BY <2>1, <2>7 DEF InOrder
<1>4. CASE Type
  <2>1. PICK n \in 1 .. 2 :
          /\ typed' = typed + n
          /\ toWorker' = Append(toWorker, Msg("input", [i \in 1 .. n |-> typed + i]))
    BY <1>4 DEF Type
  <2> DEFINE d == [i \in 1 .. n |-> typed + i]
             m == Msg("input", d)
             s == OnTheirWay
  <2>2. d \in Seq(Nat) /\ n \in Nat
    BY <1>1
  <2>3. m \in WorkerMessage /\ Part(m, "input") = d
    BY <2>2, Sent DEF Part
  <2>4. UNCHANGED <<got, webin, pendingInput, worker>>
    BY <1>4 DEF Type, ring, guest
  <2> HIDE DEF m
  <2>5. OnTheirWay' = s \o d
    <3>1. Way(got, webin, pendingInput, Append(toWorker, m))
            = Way(got, webin, pendingInput, toWorker) \o Part(m, "input")
      BY <1>0, <2>3, WayAppend, ZenonT(60)
    <3>2. OnTheirWay' = Way(got, webin, pendingInput, Append(toWorker, m))
      BY <1>1, <2>1, <2>4 DEF m
    <3> QED
      BY <1>1, <2>3, <3>1, <3>2
  <2>6. s \in Seq(Nat) /\ Ordered(s, typed) /\ (typed <= WEBIN_CAP /\ worker # "none" => s = Upto(typed))
    BY <1>1 DEF InOrder
  <2> HIDE DEF s
  <2>7. Ordered(s \o d, typed + n) /\ (s = Upto(typed) => s \o d = Upto(typed + n))
    BY <1>1, <2>2, <2>6, OrderedMore
  <2>8. typed + n <= WEBIN_CAP => typed <= WEBIN_CAP
    BY <1>1, <2>2, WebAssumption
  <2> HIDE DEF d
  <2> QED
    BY <2>1, <2>4, <2>5, <2>6, <2>7, <2>8 DEF InOrder
<1>5. CASE SendEof
  <2>1. /\ toWorker' = Append(toWorker, Msg("eof", <<>>))
        /\ UNCHANGED <<got, webin, pendingInput, worker, typed>>
    BY <1>5 DEF SendEof, ring, guest
  <2>2. Msg("eof", <<>>) \in WorkerMessage /\ Part(Msg("eof", <<>>), "input") = <<>>
    <3>1. <<>> \in Seq(Nat)
      OBVIOUS
    <3> QED
      BY <3>1, Sent DEF Part
  <2>3. OnTheirWay' = OnTheirWay \o <<>>
    <3>1. Way(got, webin, pendingInput, Append(toWorker, Msg("eof", <<>>)))
            = Way(got, webin, pendingInput, toWorker) \o Part(Msg("eof", <<>>), "input")
      <4> DEFINE m == Msg("eof", <<>>)
      <4>1. m \in WorkerMessage
        BY <2>2
      <4> HIDE DEF m
      <4>2. Way(got, webin, pendingInput, Append(toWorker, m))
              = Way(got, webin, pendingInput, toWorker) \o Part(m, "input")
        BY <1>0, <4>1, WayAppend, ZenonT(60)
      <4> QED
        BY <4>2 DEF m
    <3>2. OnTheirWay' = Way(got, webin, pendingInput, Append(toWorker, Msg("eof", <<>>)))
      BY <1>1, <2>1
    <3> QED
      BY <1>1, <2>2, <3>1, <3>2
  <2>4. OnTheirWay' = OnTheirWay
    BY <1>1, <2>3, NothingMore
  <2> QED
    BY <2>1, <2>4, InOrderSame
<1>6. CASE Import
  <2>1. /\ toWorker # <<>> /\ toWorker' = Tail(toWorker) /\ Head(toWorker).type # "input"
        /\ UNCHANGED <<got, webin, pendingInput, typed>> /\ worker # "none"
    BY <1>6 DEF Import, Starting, ring, guest, keys
  <2>2. Data(toWorker', "input") = Data(toWorker, "input")
    BY <1>1, <2>1, WayTail
  <2>3. OnTheirWay' = OnTheirWay
    BY <1>1, <2>1, <2>2 DEF Way
  <2> QED
    BY <2>1, <2>3, InOrderSame
<1>7. CASE Instantiated
  <2>1. CASE files # "none"
    BY <1>7, <2>1, FlushedInOrder DEF Instantiated, RunMachine, keys, guest
  <2>2. CASE files = "none"
    <3>1. UNCHANGED <<got, webin, pendingInput, toWorker, typed>> /\ worker # "none"
      BY <1>7, <2>2 DEF Instantiated, keys, guest
    <3> QED
      BY <1>1, <3>1, InOrderSame
  <2> QED
    BY <2>1, <2>2
<1>8. CASE Fetched
  BY <1>8, FlushedInOrder DEF Fetched, RunMachine, keys, guest
<1>9. CASE TakeInput
  <2> DEFINE b == Head(toWorker).data
             d == Data(Tail(toWorker), "input")
  <2>1. /\ toWorker # <<>> /\ Head(toWorker).type = "input" /\ toWorker' = Tail(toWorker)
        /\ UNCHANGED <<got, typed, worker>> /\ worker # "none"
    BY <1>9 DEF TakeInput, AtLoop, keys, guest
  <2>2. /\ b \in Seq(Nat) /\ Tail(toWorker) \in Seq(WorkerMessage)
        /\ Data(toWorker, "input") = b \o d /\ d \in Seq(Nat)
    BY <1>1, <2>1, WayTail, WayTypes
  <2>3. /\ Module => webin' = Pushed(webin, b) /\ pendingInput' = pendingInput
        /\ ~Module => pendingInput' = pendingInput \o b /\ webin' = webin
    BY <1>9 DEF TakeInput
  <2>4. /\ OnTheirWay = ((got \o webin) \o pendingInput) \o (b \o d)
        /\ OnTheirWay' = ((got \o webin') \o pendingInput') \o d
    BY <1>1, <2>1, <2>2 DEF Way
  <2>5. UptoIfFits(OnTheirWay, typed)
    BY <2>1 DEF InOrder, UptoIfFits
  <2> HIDE DEF b, d
  <2>6. CASE Module
    <3>1. pendingInput = <<>>
      BY <2>6 DEF HeldBack
    <3>2. /\ got \o webin \in Seq(Nat) /\ Pushed(webin, b) \in Seq(Nat)
      BY <1>1, <2>2, PushedIs
    <3>3. (got \o webin) \o <<>> = got \o webin
      BY <3>2, NothingMore
    <3>4. (got \o webin) \o (b \o d) = ((got \o webin) \o b) \o d
      BY <2>2, <3>2, Assoc
    <3>5. OnTheirWay = ((got \o webin) \o b) \o d
      BY <2>4, <3>1, <3>3, <3>4
    <3>6. OnTheirWay' = (got \o Pushed(webin, b)) \o d
      <4>1. got \o Pushed(webin, b) \in Seq(Nat)
        BY <1>1, <3>2
      <4>2. (got \o Pushed(webin, b)) \o <<>> = got \o Pushed(webin, b)
        BY <4>1, NothingMore
      <4> QED
        BY <2>3, <2>4, <2>6, <3>1, <4>2
    <3> DEFINE x == (got \o Pushed(webin, b)) \o d
    <3>7. UptoIfFits(x, typed)
      <4>1. UptoIfFits(((got \o webin) \o b) \o d, typed)
        BY <2>5, <3>5
      <4> QED
        BY <1>1, <2>2, <4>1, WayPushed
    <3> HIDE DEF x
    <3>8. OnTheirWay' = x
      BY <3>6 DEF x
    <3> QED
      BY <2>1, <3>7, <3>8 DEF InOrder, UptoIfFits
  <2>7. CASE ~Module
    <3> DEFINE a == got \o webin
    <3>1. a \in Seq(Nat) /\ pendingInput \in Seq(Nat)
      BY <1>1
    <3> HIDE DEF a
    <3>2. (a \o pendingInput) \o (b \o d) = (a \o (pendingInput \o b)) \o d
      <4>1. a \o pendingInput \in Seq(Nat)
        BY <3>1
      <4>2. (a \o pendingInput) \o (b \o d) = ((a \o pendingInput) \o b) \o d
        BY <2>2, <4>1, Assoc
      <4>3. (a \o pendingInput) \o b = a \o (pendingInput \o b)
        BY <2>2, <3>1, Assoc
      <4> QED
        BY <4>2, <4>3
    <3>3. OnTheirWay' = OnTheirWay
      BY <2>3, <2>4, <2>7, <3>2 DEF a
    <3> QED
      BY <2>1, <3>3, InOrderSame
  <2> QED
    BY <2>6, <2>7
<1>10. CASE TakeEof
  <2>1. /\ toWorker # <<>> /\ Head(toWorker).type # "input" /\ toWorker' = Tail(toWorker)
        /\ UNCHANGED <<got, webin, pendingInput, typed, worker>>
    BY <1>10 DEF TakeEof, keys, guest
  <2>2. Data(toWorker', "input") = Data(toWorker, "input")
    BY <1>1, <2>1, WayTail
  <2>3. OnTheirWay' = OnTheirWay
    BY <1>1, <2>1, <2>2 DEF Way
  <2> QED
    BY <2>1, <2>3, InOrderSame
<1>11. CASE Reads
  <2> DEFINE h == Head(webin)
             t == Tail(webin)
  <2>1. /\ webin # <<>> /\ got' = Append(got, h) /\ webin' = t
        /\ UNCHANGED <<pendingInput, toWorker, typed, worker>>
    BY <1>11 DEF Reads, keys
  <2>2. h \in Nat /\ t \in Seq(Nat) /\ webin = <<h>> \o t
    BY <1>1, <2>1
  <2> HIDE DEF h, t
  <2>3. got \o webin = got' \o webin'
    <3>1. Append(got, h) = got \o <<h>>
      BY <1>1, <2>2, AppendIsConcat
    <3>2. <<h>> \in Seq(Nat)
      BY <2>2
    <3>3. (got \o <<h>>) \o t = got \o (<<h>> \o t)
      BY <1>1, <2>2, <3>2, Assoc
    <3> QED
      BY <2>1, <2>2, <3>1, <3>3
  <2>4. OnTheirWay' = OnTheirWay
    BY <1>1, <2>1, <2>3 DEF Way
  <2> QED
    BY <2>1, <2>4, InOrderSame
<1>12. CASE \/ Shows \/ LoadFails \/ FlushOut \/ Wake \/ Yield \/ ReadsEof \/ Writes \/ Halts
            \/ UNCHANGED vars
  <2>1. UNCHANGED <<got, webin, pendingInput, toWorker, typed>>
    BY <1>12 DEF Shows, ShowOut, KeepImages, ShowRunning, ShowHalted, Receives, LoadFails,
       FlushOut, Wake, Yield, ReadsEof, Writes, Halts, vars, keys, ring, guest
  <2>2. worker = "none" => worker' = "none"
    BY <1>12 DEF Shows, ShowOut, KeepImages, ShowRunning, ShowHalted, Receives, LoadFails,
       FlushOut, Wake, Yield, ReadsEof, Writes, Halts, vars
  <2>3. OnTheirWay' = OnTheirWay
    BY <1>1, <2>1
  <2> QED
    BY <2>1, <2>2, <2>3, InOrderSame
<1> QED
  BY <1>2, <1>3, <1>4, <1>5, <1>6, <1>7, <1>8, <1>9, <1>10, <1>11, <1>12
     DEF Next, Page, Loads, Takes, Machine

(* A message more behind the end of the input, or one less.                *)
LEMMA EofAppend ==
  ASSUME NEW q \in Seq(WorkerMessage), NEW m \in WorkerMessage, NEW sent, NEW n \in Nat,
         EofQueued(q, sent, n), After(m, n), m.type # "eof"
  PROVE  /\ EofQueued(Append(q, m), sent, n)
         /\ AllAfter(q, n) => AllAfter(Append(q, m), n)
<1>1. /\ Len(Append(q, m)) = Len(q) + 1 /\ Len(q) \in Nat
      /\ \A i \in 1 .. Len(q) : Append(q, m)[i] = q[i]
      /\ Append(q, m)[Len(q) + 1] = m
  BY AppendProperties
<1> DEFINE r == Append(q, m)
<1> HIDE DEF r
<1>2. /\ Len(r) = Len(q) + 1 /\ Len(q) \in Nat /\ r[Len(q) + 1] = m
      /\ \A i \in 1 .. Len(q) : r[i] = q[i]
  BY <1>1 DEF r
<1>3. AllAfter(q, n) => AllAfter(r, n)
  <2> SUFFICES ASSUME AllAfter(q, n), NEW k \in 1 .. Len(r) PROVE After(r[k], n)
    BY DEF AllAfter
  <2>1. CASE k = Len(q) + 1
    BY <1>2, <2>1
  <2>2. CASE k \in 1 .. Len(q)
    BY <1>2, <2>2 DEF AllAfter
  <2> QED
    BY <1>2, <2>1, <2>2
<1>4. EofQueued(r, sent, n)
  <2> SUFFICES ASSUME NEW i \in 1 .. Len(r), r[i].type = "eof"
               PROVE  sent /\ \A k \in i + 1 .. Len(r) : After(r[k], n)
    BY DEF EofQueued
  <2>1. i \in 1 .. Len(q) /\ q[i].type = "eof"
    BY <1>2
  <2>2. sent /\ \A k \in i + 1 .. Len(q) : After(q[k], n)
    BY <2>1 DEF EofQueued
  <2>3. ASSUME NEW k \in i + 1 .. Len(r) PROVE After(r[k], n)
    <3>1. CASE k = Len(q) + 1
      BY <1>2, <3>1
    <3>2. CASE k \in i + 1 .. Len(q)
      <4>1. k \in 1 .. Len(q)
        BY <2>1, <3>2
      <4> QED
        BY <1>2, <2>2, <3>2, <4>1
    <3> QED
      BY <1>2, <2>1, <2>3, <3>1, <3>2
  <2> QED
    BY <2>2, <2>3
<1> QED
  BY <1>3, <1>4 DEF r

LEMMA EofTail ==
  ASSUME NEW q \in Seq(WorkerMessage), q # <<>>, NEW sent, NEW n \in Nat,
         EofQueued(q, sent, n)
  PROVE  /\ EofQueued(Tail(q), sent, n)
         /\ AllAfter(q, n) => AllAfter(Tail(q), n)
         /\ Head(q).type = "eof" => sent /\ AllAfter(Tail(q), n)
<1> DEFINE r == Tail(q)
<1>1. /\ Len(r) = Len(q) - 1 /\ Len(q) \in Nat /\ Len(q) >= 1 /\ Len(r) \in Nat
      /\ \A i \in 1 .. Len(r) : r[i] = q[i + 1] /\ i + 1 \in 1 .. Len(q)
      /\ Head(q) = q[1]
  OBVIOUS
<1> HIDE DEF r
<1>2. EofQueued(r, sent, n)
  <2> SUFFICES ASSUME NEW i \in 1 .. Len(r), r[i].type = "eof"
               PROVE  sent /\ \A k \in i + 1 .. Len(r) : After(r[k], n)
    BY DEF EofQueued
  <2>1. i + 1 \in 1 .. Len(q) /\ q[i + 1].type = "eof"
    BY <1>1
  <2>2. sent /\ \A k \in (i + 1) + 1 .. Len(q) : After(q[k], n)
    BY <2>1 DEF EofQueued
  <2>3. ASSUME NEW k \in i + 1 .. Len(r) PROVE After(r[k], n)
    <3>1. k \in 1 .. Len(r) /\ k + 1 \in (i + 1) + 1 .. Len(q)
      BY <1>1
    <3> QED
      BY <1>1, <2>2, <3>1
  <2> QED
    BY <2>2, <2>3
<1>3. AllAfter(q, n) => AllAfter(r, n)
  BY <1>1 DEF AllAfter
<1>4. ASSUME Head(q).type = "eof" PROVE sent /\ AllAfter(r, n)
  <2>1. 1 \in 1 .. Len(q) /\ q[1].type = "eof"
    BY <1>1, <1>4
  <2>2. sent /\ \A k \in 1 + 1 .. Len(q) : After(q[k], n)
    BY <2>1 DEF EofQueued
  <2>3. ASSUME NEW k \in 1 .. Len(r) PROVE After(r[k], n)
    <3>1. k + 1 \in 1 + 1 .. Len(q)
      BY <1>1
    <3> QED
      BY <1>1, <2>2, <3>1
  <2> QED
    BY <2>2, <2>3 DEF AllAfter
<1> QED
  BY <1>2, <1>3, <1>4 DEF r

(* What the guest has read when nothing of the input typed before its end  *)
(* is in the ring.                                                         *)
LEMMA ReadUpTo ==
  ASSUME NEW g \in Seq(Nat), NEW q \in Seq(WorkerMessage), NEW n \in Nat, NEW k \in Nat,
         k <= n, ((g \o <<>>) \o <<>>) \o Data(q, "input") = Upto(n), AllAfter(q, k)
  PROVE  Len(g) >= k
<1> DEFINE d == Data(q, "input")
<1>1. d \in Seq(Nat) /\ \A j \in 1 .. Len(d) : d[j] > k
  <2>1. q \in Seq(Message)
    BY Messages
  <2>2. \A i \in 1 .. Len(q) : q[i].type = "input" =>
           \A j \in 1 .. Len(q[i].data) : q[i].data[j] > k
    BY DEF AllAfter, After
  <2> QED
    BY <2>1, <2>2, DataBehind, DataType
<1> HIDE DEF d
<1>2. (g \o <<>>) \o <<>> = g
  BY NothingMore
<1>3. g \o d = Upto(n)
  BY <1>2 DEF d
<1>4. Len(Upto(n)) = n /\ \A i \in 1 .. n : Upto(n)[i] = i
  BY DEF Upto
<1>5. /\ Len(g \o d) = Len(g) + Len(d) /\ Len(g) \in Nat /\ Len(d) \in Nat
      /\ \A i \in 1 .. Len(g \o d) : (g \o d)[i] = IF i <= Len(g) THEN g[i] ELSE d[i - Len(g)]
  BY <1>1, TwoParts
<1> DEFINE u == Upto(n)
<1>6. /\ n = Len(g) + Len(d)
      /\ \A i \in 1 .. n : i = IF i <= Len(g) THEN g[i] ELSE d[i - Len(g)]
  <2>1. Len(u) = Len(g) + Len(d)
        /\ \A i \in 1 .. Len(u) : u[i] = IF i <= Len(g) THEN g[i] ELSE d[i - Len(g)]
    BY <1>3, <1>5
  <2>2. Len(u) = n /\ \A i \in 1 .. n : u[i] = i
    BY <1>4
  <2> HIDE DEF u
  <2> QED
    BY <2>1, <2>2
<1> SUFFICES ASSUME Len(g) < k PROVE FALSE
  BY <1>5
<1>7. Len(g) + 1 \in 1 .. n /\ ~(Len(g) + 1 <= Len(g)) /\ (Len(g) + 1) - Len(g) = 1 /\ 1 \in 1 .. Len(d)
  BY <1>5, <1>6
<1>8. Len(g) + 1 = d[1]
  BY <1>6, <1>7
<1> QED
  BY <1>1, <1>5, <1>7, <1>8

LEMMA EofNext ==
  ASSUME KeysWait
  PROVE  Base /\ Starting /\ InOrder /\ HeldBack /\ EofIsLast /\ [Next]_vars => EofIsLast'
<1> SUFFICES ASSUME Base, Starting, InOrder, HeldBack, EofIsLast, [Next]_vars PROVE EofIsLast'
  OBVIOUS
<1> USE DEF EofIsLast
<1>1. /\ toWorker \in Seq(WorkerMessage) /\ typed \in Nat /\ typedBeforeEof \in Nat
      /\ typedBeforeEof <= typed
  BY DEF Base, Types
<1>2. CASE Start
  <2>1. /\ toWorker' = <<Msg("start", <<>>)>> /\ ~webin_eof' /\ ~gotEof'
    BY <1>2 DEF Start
  <2> DEFINE m == Msg("start", <<>>)
  <2>2. m.type = "start"
    BY DEF Msg
  <2> HIDE DEF m
  <2>3. Len(<<m>>) = 1 /\ <<m>>[1] = m
    OBVIOUS
  <2>4. EofQueued(<<m>>, eof', typedBeforeEof')
    BY <2>2, <2>3 DEF EofQueued
  <2>5. EofQueued(toWorker', eof', typedBeforeEof')
    BY <2>1, <2>4 DEF m
  <2> QED
    BY <2>1, <2>5 DEF EndAfterInput
<1>3. CASE Stop
  <2>1. toWorker' = <<>> /\ UNCHANGED <<webin_eof, eof, gotEof, typed, typedBeforeEof, got>>
    BY <1>3 DEF Stop, ring, keys, guest
  <2>2. EofQueued(<<>>, eof, typedBeforeEof) /\ AllAfter(<<>>, typedBeforeEof)
    BY DEF EofQueued, AllAfter
  <2> QED
    BY <2>1, <2>2 DEF EndAfterInput
<1>4. CASE Type
  <2>1. PICK n \in 1 .. 2 :
          /\ typed' = typed + n
          /\ toWorker' = Append(toWorker, Msg("input", [i \in 1 .. n |-> typed + i]))
    BY <1>4 DEF Type
  <2>2. UNCHANGED <<webin_eof, eof, gotEof, typedBeforeEof, got>>
    BY <1>4 DEF Type, ring, guest
  <2> DEFINE d == [i \in 1 .. n |-> typed + i]
             m == Msg("input", d)
  <2>3. d \in Seq(Nat) /\ Len(d) = n /\ \A j \in 1 .. n : d[j] = typed + j /\ j > 0
    BY <1>1
  <2>4. m \in WorkerMessage /\ m.type = "input" /\ m.data = d
    BY <2>3, Sent
  <2> HIDE DEF d, m
  <2>5. After(m, typedBeforeEof)
    BY <1>1, <2>3, <2>4 DEF After
  <2>6. /\ EofQueued(Append(toWorker, m), eof, typedBeforeEof)
        /\ AllAfter(toWorker, typedBeforeEof) => AllAfter(Append(toWorker, m), typedBeforeEof)
    BY <1>1, <2>4, <2>5, EofAppend
  <2>7. toWorker' = Append(toWorker, m)
    BY <2>1 DEF m, d
  <2>8. typed' <= WEBIN_CAP => typed <= WEBIN_CAP
    BY <1>1, <2>1, WebAssumption
  <2>9. EndAfterInput'
    BY <2>2, <2>8 DEF EndAfterInput
  <2> QED
    BY <2>2, <2>6, <2>7, <2>9
<1>5. CASE SendEof
  <2>1. /\ ~eof /\ eof' /\ typedBeforeEof' = typed
        /\ toWorker' = Append(toWorker, Msg("eof", <<>>))
        /\ UNCHANGED <<webin_eof, gotEof, typed, got>>
    BY <1>5 DEF SendEof, ring, guest
  <2> DEFINE m == Msg("eof", <<>>)
  <2>2. /\ ~webin_eof /\ ~gotEof
        /\ \A i \in 1 .. Len(toWorker) : toWorker[i].type # "eof"
    BY <2>1 DEF EofQueued
  <2> HIDE DEF m
  <2> DEFINE r == Append(toWorker, m)
  <2>3. /\ Len(r) = Len(toWorker) + 1 /\ Len(toWorker) \in Nat
        /\ \A i \in 1 .. Len(toWorker) : r[i] = toWorker[i]
    BY <1>1
  <2> HIDE DEF r
  <2>4. EofQueued(r, TRUE, typed)
    <3> SUFFICES ASSUME NEW i \in 1 .. Len(r), r[i].type = "eof"
                 PROVE  \A k \in i + 1 .. Len(r) : After(r[k], typed)
      BY DEF EofQueued
    <3>1. i = Len(r)
      BY <2>2, <2>3
    <3> QED
      BY <2>3, <3>1
  <2>5. EofQueued(toWorker', eof', typedBeforeEof')
    BY <2>1, <2>4 DEF r, m
  <2> QED
    BY <2>1, <2>2, <2>5 DEF EndAfterInput
<1>6. CASE Import \/ TakeInput
  <2>1. /\ toWorker # <<>> /\ toWorker' = Tail(toWorker)
        /\ UNCHANGED <<webin_eof, eof, gotEof, typed, typedBeforeEof, got>>
    BY <1>6 DEF Import, TakeInput, ring, keys, guest
  <2>2. /\ EofQueued(Tail(toWorker), eof, typedBeforeEof)
        /\ AllAfter(toWorker, typedBeforeEof) => AllAfter(Tail(toWorker), typedBeforeEof)
    BY <1>1, <2>1, EofTail
  <2> QED
    BY <2>1, <2>2 DEF EndAfterInput
<1>7. CASE TakeEof
  <2>1. /\ toWorker # <<>> /\ toWorker' = Tail(toWorker) /\ Head(toWorker).type = "eof"
        /\ UNCHANGED <<eof, gotEof, typed, typedBeforeEof, got>>
    BY <1>7 DEF TakeEof, keys, guest
  <2>2. /\ EofQueued(Tail(toWorker), eof, typedBeforeEof)
        /\ eof /\ AllAfter(Tail(toWorker), typedBeforeEof)
    BY <1>1, <2>1, EofTail
  <2> QED
    BY <2>1, <2>2 DEF EndAfterInput
<1>8. CASE Reads
  <2>1. ~gotEof /\ UNCHANGED <<toWorker, webin_eof, eof, gotEof, typed, typedBeforeEof>>
    BY <1>8 DEF Reads, keys
  <2> QED
    BY <2>1 DEF EndAfterInput
<1>9. CASE ReadsEof
  <2>1. /\ worker = "guest" /\ webin = <<>> /\ webin_eof
        /\ UNCHANGED <<toWorker, webin_eof, eof, typed, typedBeforeEof, got>>
    BY <1>9 DEF ReadsEof, AtEnd, ring, keys
  <2>2. pendingInput = <<>> /\ eof /\ AllAfter(toWorker, typedBeforeEof)
    BY <2>1 DEF Base, Stages, HeldBack
  <2>3. ASSUME typed <= WEBIN_CAP PROVE Len(got) >= typedBeforeEof
    <3>1. OnTheirWay = Upto(typed)
      BY <2>1, <2>3 DEF InOrder
    <3>2. ((got \o <<>>) \o <<>>) \o Data(toWorker, "input") = Upto(typed)
      BY <2>1, <2>2, <3>1 DEF OnTheirWay
    <3>3. got \in Seq(Nat)
      BY DEF Base, Types
    <3> QED
      BY <1>1, <2>2, <3>2, <3>3, ReadUpTo
  <2> QED
    BY <2>1, <2>2, <2>3 DEF EndAfterInput
<1>10. CASE \/ Shows \/ LoadFails \/ Instantiated \/ Fetched \/ FlushOut \/ Wake \/ Yield
            \/ Writes \/ Halts \/ UNCHANGED vars
  <2>1. UNCHANGED <<toWorker, webin_eof, eof, gotEof, typed, typedBeforeEof, got>>
    BY <1>10 DEF Shows, ShowOut, KeepImages, ShowRunning, ShowHalted, Receives, LoadFails,
       Instantiated, Fetched, FlushOut, Wake, Yield, Writes, Halts, vars, keys, ring, guest
  <2> QED
    BY <2>1 DEF EndAfterInput
<1> QED
  BY <1>2, <1>3, <1>4, <1>5, <1>6, <1>7, <1>8, <1>9, <1>10
     DEF Next, Page, Loads, Takes, Machine

LEMMA InputInit == Init => Starting /\ InOrder /\ HeldBack /\ EofIsLast
<1> SUFFICES ASSUME Init PROVE Starting /\ InOrder /\ HeldBack /\ EofIsLast
  OBVIOUS
<1>1. /\ got = <<>> /\ webin = <<>> /\ pendingInput = <<>> /\ toWorker = <<>> /\ typed = 0
      /\ worker = "none" /\ webin_eof = FALSE /\ gotEof = FALSE
  BY DEF Init
<1>2. OnTheirWay = <<>>
  <2>1. ((<<>> \o <<>>) \o <<>>) \o <<>> = <<>>
    OBVIOUS
  <2> QED
    BY <1>1, <2>1, DataEmpty DEF OnTheirWay
<1>3. Ordered(<<>>, 0)
  BY DEF Ordered, Rising
<1>4. EofQueued(<<>>, eof, typedBeforeEof)
  BY DEF EofQueued
<1> QED
  BY <1>1, <1>2, <1>3, <1>4 DEF Starting, InOrder, HeldBack, EofIsLast, EndAfterInput

(* "Feed the guest as if it had been typed" (tc2000.js:265): wherever they *)
(* wait on their way, bytes keep the order they were typed in, none is     *)
(* missing unless more were typed than the ring holds, and the end of the  *)
(* input comes after the input.  This is so if no key is sent before the   *)
(* machine runs, as the page sees to; the end of the input may be.         *)
THEOREM InputInOrder ==
  ASSUME "keys" \notin Impatient
  PROVE  Spec => []TypedInOrder
<1> DEFINE I == Base /\ Starting /\ InOrder /\ HeldBack /\ EofIsLast
<1>0. KeysWait
  BY DEF KeysWait
<1>1. Init => I
  BY BaseInit, InputInit
<1>2. I /\ [Next]_vars => I'
  BY <1>0, BaseNext, StartingNext, InOrderNext, HeldBackNext, EofNext
<1>3. I => TypedInOrder
  <2> SUFFICES ASSUME I PROVE TypedInOrder
    OBVIOUS
  <2>1. TypeOK /\ EndAfterInput
    BY TypesOK DEF Base, EofIsLast
  <2> DEFINE s == OnTheirWay
  <2>2. s \in Seq(Nat)
    <3>1. Way(got, webin, pendingInput, toWorker) \in Seq(Nat)
      BY WayTypes DEF Base, Types
    <3> QED
      BY <3>1 DEF Way, OnTheirWay
  <2>3. Rising(s)
    BY DEF InOrder, Ordered
  <2>4. typed <= WEBIN_CAP /\ worker # "none" => s = Upto(typed)
    BY DEF InOrder
  <2>5. Len(Upto(typed)) = typed
    BY DEF Upto, Base, Types
  <2> HIDE DEF s
  <2>6. \A i \in 1 .. Len(s) - 1 : s[i] < s[i + 1]
    <3> SUFFICES ASSUME NEW i \in 1 .. Len(s) - 1 PROVE s[i] < s[i + 1]
      OBVIOUS
    <3>1. i \in 1 .. Len(s) /\ i + 1 \in 1 .. Len(s) /\ i < i + 1
      BY <2>2
    <3> QED
      BY <2>3, <3>1 DEF Rising
  <2>7. typed <= WEBIN_CAP /\ worker # "none" => Len(s) = typed
    BY <2>4, <2>5
  <2> QED
    BY <2>1, <2>6, <2>7 DEF TypedInOrder, s
<1> QED
  BY <1>1, <1>2, <1>3, PTL DEF Spec
=============================================================================
