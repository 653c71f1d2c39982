---------------------------- MODULE TxFifoProofs ----------------------------
(***************************************************************************)
(* The byte FIFO implements the queue of chunks, as long as no callback    *)
(* writes to it in the middle of a chunk.                                  *)
(*                                                                         *)
(* The chunks in the FIFO are what WholeChunks parses from its bytes, a    *)
(* function that is defined by recursion.  That it is defined everywhere   *)
(* is shown from the least length at which it would not be; from then on   *)
(* the proofs use the equation that defines it.                            *)
(*                                                                         *)
(* That a step adds one chunk at the end, or takes the first, is seen on   *)
(* the bytes: Layout says that they begin with given chunks, one after the *)
(* other, and ParseOfLayout that WholeChunks then yields these.  The parse *)
(* alone is not inductive: while a sysex chunk is written its header is in *)
(* the FIFO and its data is not, and a chunk written behind that header    *)
(* would be taken for the data.  FifoInv says that after the last chunk    *)
(* comes nothing, or the header of the data still to be written, for which *)
(* there is room (Pending).                                                *)
(***************************************************************************)
EXTENDS TxFifo, SequenceTheorems, WellFoundedInduction, TLAPS

(* What the FIFO holds.                                                    *)
Byte == 0 .. 255

-----------------------------------------------------------------------------
(* The parse of the bytes in the FIFO.                                     *)

(* The size of the first chunk of b and what follows it, and one step of   *)
(* the parse that continues with f.                                        *)
Size(b) == IF Len(b) >= 3 /\ b[1] = SYSEX_DATA_CHUNK_ID
           THEN 3 + Count(b[2], b[3]) ELSE 3
Rest(b) == SubSeq(b, Size(b) + 1, Len(b))
ParseOnce(f, b) == IF Len(b) < Size(b) THEN <<>>
                   ELSE <<SubSeq(b, 1, Size(b))>> \o f[Rest(b)]

(* A non-empty set of natural numbers has a least element.                 *)
LEMMA LeastNumber ==
    ASSUME NEW T \in SUBSET Nat, T # {}
    PROVE  \E m \in T : \A k \in T : m <= k
<1> DEFINE R == OpToRel(<, Nat)
<1>1. IsWellFoundedOn(R, Nat)
  BY NatLessThanWellFounded
<1>2. PICK m \in T : \A y \in T : ~(<<y, m>> \in R)
  BY <1>1, WFMin
<1>3. ASSUME NEW k \in T PROVE m <= k
  <2>1. ~(k < m)
    BY <1>2 DEF OpToRel
  <2> QED BY <2>1
<1> QED BY <1>3

(* The end of a sequence.                                                  *)
LEMMA Suffix ==
    ASSUME NEW S, NEW b \in Seq(S), NEW k \in 0 .. Len(b)
    PROVE  /\ SubSeq(b, k + 1, Len(b)) \in Seq(S)
           /\ Len(SubSeq(b, k + 1, Len(b))) = Len(b) - k
           /\ \A j \in 1 .. Len(b) - k : SubSeq(b, k + 1, Len(b))[j] = b[k + j]
OBVIOUS

(* The elements of a concatenation.                                        *)
LEMMA Joined ==
    ASSUME NEW u \in Seq(Byte), NEW v \in Seq(Byte), NEW c, c = u \o v
    PROVE  /\ c \in Seq(Byte) /\ Len(c) = Len(u) + Len(v)
           /\ \A i \in 1 .. Len(u) : c[i] = u[i]
           /\ \A i \in 1 .. Len(v) : c[Len(u) + i] = v[i]
<1>1. /\ c \in Seq(Byte) /\ Len(c) = Len(u) + Len(v)
      /\ \A i \in 1 .. Len(u) + Len(v) : c[i] = IF i <= Len(u) THEN u[i] ELSE v[i - Len(u)]
  BY ConcatProperties
<1>2. \A i \in 1 .. Len(u) : i \in 1 .. Len(u) + Len(v) /\ i <= Len(u)
  OBVIOUS
<1>3. \A i \in 1 .. Len(v) : Len(u) + i \in 1 .. Len(u) + Len(v)
                             /\ ~(Len(u) + i <= Len(u)) /\ (Len(u) + i) - Len(u) = i
  OBVIOUS
<1> QED BY <1>1, <1>2, <1>3

(* A prefix, extended by the elements that follow it.                      *)
LEMMA Prefix ==
    ASSUME NEW b \in Seq(Byte), NEW a \in Nat, NEW c \in Seq(Byte),
           a + Len(c) <= Len(b), \A j \in 1 .. Len(c) : b[a + j] = c[j]
    PROVE  SubSeq(b, 1, a + Len(c)) = SubSeq(b, 1, a) \o c
<1> DEFINE u == SubSeq(b, 1, a + Len(c))
           v == SubSeq(b, 1, a)
<1>1. /\ u \in Seq(Byte) /\ Len(u) = a + Len(c)
      /\ \A j \in 1 .. a + Len(c) : u[j] = b[j]
  OBVIOUS
<1>2. /\ v \in Seq(Byte) /\ Len(v) = a /\ \A j \in 1 .. a : v[j] = b[j]
  OBVIOUS
<1> DEFINE r == v \o c
<1>3. r = v \o c
  OBVIOUS
<1> HIDE DEF u, v, r
<1>4. /\ r \in Seq(Byte) /\ Len(r) = Len(v) + Len(c)
      /\ \A i \in 1 .. Len(v) : r[i] = v[i]
      /\ \A i \in 1 .. Len(c) : r[Len(v) + i] = c[i]
  <2>1. v \in Seq(Byte)
    BY <1>2
  <2> QED BY <1>3, <2>1, Joined
<1>5. ASSUME NEW j \in 1 .. Len(u)
      PROVE  u[j] = r[j]
  <2>1. CASE j <= a
    <3>1. j \in 1 .. a /\ j \in 1 .. a + Len(c)
      BY <1>1, <2>1
    <3> QED BY <1>1, <1>2, <1>4, <3>1
  <2>2. CASE j > a
    <3>1. j - a \in 1 .. Len(c) /\ a + (j - a) = j
      BY <1>1, <2>2
    <3>2. r[a + (j - a)] = c[j - a]
      BY <1>2, <1>4, <3>1
    <3> QED BY <1>1, <3>1, <3>2
  <2>3. j <= a \/ j > a
    BY <1>1
  <2> QED BY <2>1, <2>2, <2>3
<1>6. r \in Seq(Byte) /\ Len(r) = Len(u)
  BY <1>1, <1>2, <1>4
<1>7. u = r
  BY <1>1, <1>5, <1>6, SeqEqual
<1> QED BY <1>7 DEF u, v, r

(* A count in a header is a number.                                        *)
LEMMA CountType ==
    ASSUME NEW x \in Byte, NEW y \in Byte
    PROVE  Count(x, y) \in Nat
BY DEF Count, Byte

(* A chunk has at least three bytes.                                       *)
LEMMA SizeType ==
    ASSUME NEW b \in Seq(Byte)
    PROVE  Size(b) \in Nat /\ Size(b) >= 3
<1>1. CASE Len(b) >= 3
  <2>1. b[2] \in Byte /\ b[3] \in Byte
    BY <1>1
  <2>2. Count(b[2], b[3]) \in Nat
    BY <2>1, CountType
  <2> QED BY <2>2 DEF Size
<1>2. CASE ~(Len(b) >= 3)
  BY <1>2 DEF Size
<1> QED BY <1>1, <1>2

(* What follows a chunk is shorter.                                        *)
LEMMA RestType ==
    ASSUME NEW b \in Seq(Byte), ~(Len(b) < Size(b))
    PROVE  /\ Rest(b) \in Seq(Byte)
           /\ Len(Rest(b)) = Len(b) - Size(b)
           /\ Len(Rest(b)) \in Nat /\ Len(b) \in Nat /\ Len(Rest(b)) < Len(b)
<1>1. Size(b) \in 0 .. Len(b) /\ Size(b) >= 3 /\ Len(b) \in Nat
  BY SizeType
<1> HIDE DEF Size
<1>2. Rest(b) \in Seq(Byte) /\ Len(Rest(b)) = Len(b) - Size(b)
  BY <1>1, Suffix DEF Rest
<1> QED BY <1>1, <1>2

(* f parses the sequences of at most n bytes.                              *)
ParsesTo(f, n) == \A b \in Seq(Byte) : Len(b) <= n => f[b] = ParseOnce(f, b)

(* There is only one way to do it.                                         *)
LEMMA ParseAgrees ==
    ASSUME NEW f, NEW g, NEW n \in Nat, ParsesTo(f, n), ParsesTo(g, n),
           NEW r \in Seq(Byte), Len(r) <= n
    PROVE  f[r] = g[r]
<1> DEFINE T == {m \in 0 .. n : \E b \in Seq(Byte) : Len(b) = m /\ f[b] # g[b]}
<1>1. SUFFICES ASSUME T # {} PROVE FALSE
  <2>1. Len(r) \in 0 .. n
    OBVIOUS
  <2> QED BY <2>1
<1>2. PICK m \in T : \A k \in T : m <= k
  <2>1. T \in SUBSET Nat
    OBVIOUS
  <2> HIDE DEF T
  <2> QED BY <1>1, <2>1, LeastNumber
<1>3. PICK b \in Seq(Byte) : Len(b) = m /\ f[b] # g[b]
  OBVIOUS
<1>4. m \in 0 .. n
  OBVIOUS
<1>5. f[b] = ParseOnce(f, b) /\ g[b] = ParseOnce(g, b)
  BY <1>3, <1>4 DEF ParsesTo
<1>6. CASE Len(b) < Size(b)
  BY <1>3, <1>5, <1>6 DEF ParseOnce
<1>7. CASE ~(Len(b) < Size(b))
  <2>1. /\ Rest(b) \in Seq(Byte) /\ Len(Rest(b)) \in 0 .. n
        /\ ~(m <= Len(Rest(b)))
    BY <1>3, <1>4, <1>7, RestType
  <2>2. f[Rest(b)] = g[Rest(b)]
    BY <1>2, <2>1
  <2> HIDE DEF T
  <2> QED BY <1>3, <1>5, <2>2 DEF ParseOnce
<1> QED BY <1>6, <1>7

(* It can be done for every length.                                        *)
LEMMA ParseExistsTo ==
    ASSUME NEW n \in Nat
    PROVE  \E f : ParsesTo(f, n)
<1> DEFINE T == {m \in Nat : ~\E f : ParsesTo(f, m)}
<1>1. SUFFICES ASSUME T # {} PROVE FALSE
  OBVIOUS
<1>2. PICK m \in T : \A k \in T : m <= k
  <2>1. T \in SUBSET Nat
    OBVIOUS
  <2> HIDE DEF T
  <2> QED BY <1>1, <2>1, LeastNumber
<1>3. m \in Nat
  OBVIOUS
<1>4. PICK g : m > 0 => ParsesTo(g, m - 1)
  <2>1. CASE m > 0
    <3>1. m - 1 \in Nat /\ ~(m <= m - 1)
      BY <1>3, <2>1
    <3>2. m - 1 \notin T
      BY <1>2, <3>1
    <3> QED BY <3>1, <3>2
  <2> QED BY <2>1
<1> DEFINE h == [b \in Seq(Byte) |-> IF Len(b) = m THEN ParseOnce(g, b) ELSE g[b]]
<1>5. ASSUME NEW b \in Seq(Byte), Len(b) <= m
      PROVE  h[b] = ParseOnce(h, b)
  <2>1. ParseOnce(h, b) = ParseOnce(g, b)
    <3>1. CASE Len(b) < Size(b)
      BY <3>1 DEF ParseOnce
    <3>2. CASE ~(Len(b) < Size(b))
      <4>1. Rest(b) \in Seq(Byte) /\ Len(Rest(b)) # m
        BY <1>3, <1>5, <3>2, RestType
      <4>2. h[Rest(b)] = g[Rest(b)]
        BY <4>1
      <4> HIDE DEF h
      <4> QED BY <4>2 DEF ParseOnce
    <3> QED BY <3>1, <3>2
  <2>2. h[b] = ParseOnce(g, b)
    <3>1. CASE Len(b) = m
      BY <3>1
    <3>2. CASE Len(b) # m
      <4>1. m > 0 /\ Len(b) <= m - 1
        BY <1>3, <1>5, <3>2
      <4>2. g[b] = ParseOnce(g, b)
        BY <1>4, <4>1 DEF ParsesTo
      <4> QED BY <3>2, <4>2
    <3> QED BY <3>1, <3>2
  <2> QED BY <2>1, <2>2
<1>6. ParsesTo(h, m)
  <2> HIDE DEF h
  <2> QED BY <1>5 DEF ParsesTo
<1> HIDE DEF h
<1> QED BY <1>6

(* Hence for all lengths at once.                                          *)
LEMMA ParseExists == \E f : f = [b \in Seq(Byte) |-> ParseOnce(f, b)]
<1> DEFINE G(n) == CHOOSE f : ParsesTo(f, n)
           f == [b \in Seq(Byte) |-> G(Len(b))[b]]
<1>1. ASSUME NEW n \in Nat PROVE ParsesTo(G(n), n)
  BY ParseExistsTo
<1> HIDE DEF G
<1>2. ASSUME NEW b \in Seq(Byte) PROVE f[b] = ParseOnce(f, b)
  <2>1. Len(b) \in Nat /\ Len(b) <= Len(b)
    OBVIOUS
  <2>2. f[b] = ParseOnce(G(Len(b)), b)
    BY <1>1, <2>1 DEF ParsesTo
  <2>3. CASE Len(b) < Size(b)
    BY <2>2, <2>3 DEF ParseOnce
  <2>4. CASE ~(Len(b) < Size(b))
    <3> DEFINE r == Rest(b)
    <3>1. r \in Seq(Byte) /\ Len(r) \in Nat /\ Len(r) <= Len(b)
      BY <2>4, RestType
    <3> HIDE DEF r
    <3>2. ParsesTo(G(Len(b)), Len(r))
      <4>1. \A a \in Seq(Byte) : Len(a) <= Len(r) => Len(a) <= Len(b)
        BY <2>1, <3>1
      <4> QED BY <1>1, <2>1, <4>1 DEF ParsesTo
    <3>3. ParsesTo(G(Len(r)), Len(r)) /\ Len(r) <= Len(r)
      BY <1>1, <3>1
    <3>4. G(Len(r))[r] = G(Len(b))[r]
      BY <3>1, <3>2, <3>3, ParseAgrees
    <3>5. f[r] = G(Len(b))[r]
      BY <3>1, <3>4
    <3> HIDE DEF f
    <3> QED BY <2>2, <3>5 DEF ParseOnce, r
  <2> QED BY <2>3, <2>4
<1>3. f = [b \in Seq(Byte) |-> ParseOnce(f, b)]
  <2>1. f = [b \in Seq(Byte) |-> f[b]]
    OBVIOUS
  <2> HIDE DEF f
  <2> QED BY <1>2, <2>1
<1> HIDE DEF f
<1> QED BY <1>3

(* WholeChunks does what its definition says.                              *)
LEMMA WholeChunksEquation ==
    ASSUME NEW b \in Seq(Byte)
    PROVE  WholeChunks[b] = ParseOnce(WholeChunks, b)
<1>1. WholeChunks = [a \in Seq(Byte) |-> ParseOnce(WholeChunks, a)]
  BY ParseExists DEF WholeChunks, ParseOnce, Size, Rest, Byte
<1> QED BY <1>1

-----------------------------------------------------------------------------
(* The layout of the FIFO.                                                 *)

(* A chunk that a producer wrote, of the size that its header says.        *)
Proper == {c \in Seq(Byte) : c \in WrittenChunks /\ Len(c) = Size(c)}

(* The bytes b begin with the chunks cs; p[i] is where the i-th one ends.  *)
Layout(b, cs, p) ==
    /\ b \in Seq(Byte)
    /\ cs \in Seq(Proper)
    /\ p \in [0 .. Len(cs) -> Nat]
    /\ p[0] = 0
    /\ \A i, k \in 0 .. Len(cs) : i <= k => p[i] <= p[k]
    /\ p[Len(cs)] <= Len(b)
    /\ \A i \in 1 .. Len(cs) :
          /\ p[i] = p[i - 1] + Len(cs[i])
          /\ \A j \in 1 .. Len(cs[i]) : b[p[i - 1] + j] = cs[i][j]

(* After the first e bytes comes nothing, or the header of a chunk of      *)
(* which no data byte has been written.                                    *)
Ends(b, e) == \/ e = Len(b)
              \/ /\ e + 3 = Len(b)
                 /\ b[e + 1] = SYSEX_DATA_CHUNK_ID
                 /\ Count(b[e + 2], b[e + 3]) > 0

(* Where the chunks after the first one end.                               *)
Shift(p, n) == [i \in 0 .. n - 1 |-> p[i + 1] - p[1]]

(* What a proper chunk is.                                                 *)
LEMMA ProperType ==
    ASSUME NEW c \in Proper
    PROVE  /\ c \in Seq(Byte) /\ c \in WrittenChunks /\ Len(c) = Size(c)
           /\ Len(c) \in Nat /\ Len(c) >= 3
BY SizeType DEF Proper

(* The parse finds the first chunk.                                        *)
LEMMA LayoutFirst ==
    ASSUME NEW b, NEW cs, NEW p, Layout(b, cs, p), cs # <<>>
    PROVE  /\ Len(cs) \in Nat /\ Len(cs) >= 1
           /\ Head(cs) \in Proper
           /\ Size(b) = Len(Head(cs)) /\ Size(b) = p[1] /\ Size(b) <= Len(b)
           /\ SubSeq(b, 1, Size(b)) = Head(cs)
<1>1. b \in Seq(Byte) /\ cs \in Seq(Proper) /\ Len(b) \in Nat
  BY DEF Layout
<1>2. Len(cs) \in Nat /\ Len(cs) >= 1 /\ cs[1] \in Proper /\ Head(cs) = cs[1]
  BY <1>1
<1> DEFINE c == cs[1]
<1>3. /\ c \in Seq(Byte) /\ Len(c) \in Nat /\ Len(c) >= 3 /\ Len(c) = Size(c)
  BY <1>2, ProperType
<1>4. p[1] = Len(c) /\ p[1] <= Len(b) /\ \A j \in 1 .. Len(c) : b[j] = c[j]
  <2>1. 1 \in 1 .. Len(cs) /\ 1 \in 0 .. Len(cs) /\ Len(cs) \in 0 .. Len(cs)
    BY <1>2
  <2>2. p[1] = p[0] + Len(c) /\ p[0] = 0 /\ p[1] <= p[Len(cs)] /\ p[Len(cs)] <= Len(b)
    BY <1>2, <2>1 DEF Layout
  <2>3. \A j \in 1 .. Len(c) : b[p[0] + j] = c[j]
    BY <2>1 DEF Layout
  <2>4. p[Len(cs)] \in Nat
    BY <1>2 DEF Layout
  <2>5. \A j \in 1 .. Len(c) : 0 + j = j
    BY <1>3
  <2> HIDE DEF c
  <2> QED BY <1>1, <1>3, <2>2, <2>3, <2>4, <2>5
<1> HIDE DEF c
<1>5. Size(b) = Size(c)
  <2>1. 1 \in 1 .. Len(c) /\ 2 \in 1 .. Len(c) /\ 3 \in 1 .. Len(c) /\ Len(b) >= 3
    BY <1>1, <1>3, <1>4
  <2>2. b[1] = c[1] /\ b[2] = c[2] /\ b[3] = c[3]
    BY <1>4, <2>1
  <2> QED BY <1>3, <2>1, <2>2 DEF Size
<1>6. SubSeq(b, 1, Size(b)) = c
  <2>1. Len(c) <= Len(b) /\ Size(b) = Len(c)
    BY <1>1, <1>3, <1>4, <1>5
  <2>2. ASSUME NEW n \in Nat, n <= Len(b), n = Len(c)
        PROVE  SubSeq(b, 1, n) = c
    BY <1>1, <1>3, <1>4, <2>2
  <2> QED BY <1>3, <2>1, <2>2
<1> QED BY <1>2, <1>3, <1>4, <1>5, <1>6 DEF c

(* What follows the first chunk is laid out in the same way.               *)
LEMMA LayoutRest ==
    ASSUME NEW b, NEW cs, NEW p, Layout(b, cs, p), cs # <<>>
    PROVE  /\ Len(Tail(cs)) = Len(cs) - 1
           /\ Layout(Rest(b), Tail(cs), Shift(p, Len(cs)))
           /\ Shift(p, Len(cs))[Len(Tail(cs))] = p[Len(cs)] - Size(b)
           /\ Ends(b, p[Len(cs)])
              => Ends(Rest(b), p[Len(cs)] - Size(b))
<1> DEFINE n == Len(cs)
           q == Shift(p, n)
           r == Rest(b)
           t == Tail(cs)
           s == Size(b)
<1>1. b \in Seq(Byte) /\ cs \in Seq(Proper) /\ Len(b) \in Nat
  BY DEF Layout
<1>2. n \in Nat /\ n >= 1 /\ s \in Nat /\ s = p[1] /\ s <= Len(b)
  BY <1>1, LayoutFirst, SizeType
<1>3. t \in Seq(Proper) /\ Len(t) = n - 1 /\ \A i \in 1 .. n - 1 : t[i] = cs[i + 1]
  BY <1>1
<1>4. r \in Seq(Byte) /\ Len(r) = Len(b) - s /\ \A j \in 1 .. Len(b) - s : r[j] = b[s + j]
  <2>1. s \in 0 .. Len(b)
    BY <1>1, <1>2
  <2> HIDE DEF s
  <2>2. SubSeq(b, s + 1, Len(b)) = r
    BY DEF s, Rest
  <2> QED BY <1>1, <2>1, <2>2, Suffix
<1>5. /\ p \in [0 .. n -> Nat] /\ p[0] = 0 /\ p[n] <= Len(b)
      /\ \A i, k \in 0 .. n : i <= k => p[i] <= p[k]
      /\ \A i \in 1 .. n : /\ p[i] = p[i - 1] + Len(cs[i])
                           /\ \A j \in 1 .. Len(cs[i]) : b[p[i - 1] + j] = cs[i][j]
  BY DEF Layout
<1>6. \A i \in 1 .. n : cs[i] \in Proper /\ Len(cs[i]) \in Nat
  BY <1>1, ProperType
<1> HIDE DEF n, r, t, s
<1>7. \A i \in 0 .. n - 1 : i + 1 \in 0 .. n /\ p[i + 1] \in Nat /\ s <= p[i + 1]
                          /\ q[i] = p[i + 1] - s
  BY <1>2, <1>5 DEF Shift
<1>8. q \in [0 .. n - 1 -> Nat]
  <2>1. ASSUME NEW i \in 0 .. n - 1
        PROVE  p[i + 1] - p[1] \in Nat
    <3>1. p[i + 1] \in Nat /\ s <= p[i + 1]
      BY <1>7
    <3>2. p[i + 1] - s \in Nat
      BY <1>2, <3>1
    <3> QED BY <1>2, <3>2
  <2> QED BY <2>1 DEF Shift
<1> HIDE DEF q
<1>9. q[0] = 0 /\ q[n - 1] = p[n] - s
  BY <1>2, <1>7
<1>10. \A i, k \in 0 .. n - 1 : i <= k => q[i] <= q[k]
  <2> SUFFICES ASSUME NEW i \in 0 .. n - 1, NEW k \in 0 .. n - 1, i <= k
               PROVE  q[i] <= q[k]
    OBVIOUS
  <2>1. i + 1 \in 0 .. n /\ k + 1 \in 0 .. n /\ i + 1 <= k + 1
    BY <1>2
  <2>2. p[i + 1] <= p[k + 1]
    BY <1>5, <2>1
  <2> QED BY <1>2, <1>7, <2>2
<1>11. q[n - 1] <= Len(r)
  <2>1. p[n] \in Nat
    BY <1>2, <1>5
  <2> QED BY <1>1, <1>2, <1>4, <1>5, <1>9, <2>1
<1>12. ASSUME NEW i \in 1 .. n - 1
       PROVE  /\ q[i] = q[i - 1] + Len(t[i])
              /\ \A j \in 1 .. Len(t[i]) : r[q[i - 1] + j] = t[i][j]
  <2> DEFINE a == p[i]
             e == p[i + 1]
             c == t[i]
  <2>1. i + 1 \in 1 .. n /\ (i + 1) - 1 = i /\ c = cs[i + 1] /\ i \in 0 .. n
        /\ i + 1 \in 0 .. n
    BY <1>2, <1>3
  <2>2. /\ e = a + Len(c) /\ Len(c) \in Nat
        /\ \A j \in 1 .. Len(c) : b[a + j] = c[j]
    <3>1. \A k \in 1 .. n : /\ p[k] = p[k - 1] + Len(cs[k])
                            /\ \A j \in 1 .. Len(cs[k]) : b[p[k - 1] + j] = cs[k][j]
      BY <1>5
    <3>2. /\ p[i + 1] = p[(i + 1) - 1] + Len(cs[i + 1])
          /\ \A j \in 1 .. Len(cs[i + 1]) : b[p[(i + 1) - 1] + j] = cs[i + 1][j]
      BY <2>1, <3>1
    <3> QED BY <1>6, <2>1, <3>2
  <2>3. a \in Nat /\ e \in Nat /\ s <= a /\ e <= Len(b)
    <3>1. 1 \in 0 .. n /\ 1 <= i /\ i + 1 <= n /\ n \in 0 .. n
      BY <1>2
    <3>2. p[1] <= p[i] /\ p[i + 1] <= p[n] /\ p[n] \in Nat /\ p[i] \in Nat /\ p[i + 1] \in Nat
      BY <1>5, <2>1, <3>1
    <3> QED BY <1>1, <1>2, <1>5, <3>2
  <2>4. q[i] = e - s /\ q[i - 1] = a - s
    <3>1. i - 1 \in 0 .. n - 1 /\ (i - 1) + 1 = i /\ i \in 0 .. n - 1
      BY <1>2
    <3> QED BY <1>7, <3>1
  <2> HIDE DEF a, e, c
  <2>5. q[i] = q[i - 1] + Len(c)
    BY <1>2, <2>2, <2>3, <2>4
  <2>6. ASSUME NEW j \in 1 .. Len(c)
        PROVE  r[q[i - 1] + j] = c[j]
    <3> DEFINE k == q[i - 1] + j
    <3>1. k \in 1 .. Len(b) - s /\ s + k = a + j
      <4>1. \A u, v, w, x, y \in Nat : u <= v /\ v + w <= x /\ y \in 1 .. w
               => v - u + y \in 1 .. x - u /\ u + (v - u + y) = v + y
        OBVIOUS
      <4>2. a + Len(c) <= Len(b) /\ k = a - s + j /\ j \in Nat
        BY <2>2, <2>3, <2>4
      <4>3. s \in Nat /\ a \in Nat /\ Len(c) \in Nat /\ Len(b) \in Nat /\ s <= a
        BY <1>1, <1>2, <2>2, <2>3
      <4> HIDE DEF k
      <4> QED BY <4>1, <4>2, <4>3
    <3> HIDE DEF k
    <3>2. r[k] = b[s + k]
      BY <1>4, <3>1
    <3>3. r[k] = c[j]
      BY <2>2, <3>1, <3>2
    <3> QED BY <3>3 DEF k
  <2> QED BY <2>5, <2>6 DEF c
<1>13. Layout(r, t, q)
  BY <1>3, <1>4, <1>8, <1>9, <1>10, <1>11, <1>12 DEF Layout
<1>14. ASSUME Ends(b, p[n]) PROVE Ends(r, p[n] - s)
  <2> DEFINE e == p[n]
  <2>1. e \in Nat /\ s <= e
    <3>1. 1 \in 0 .. n /\ n \in 0 .. n /\ 1 <= n
      BY <1>2
    <3> QED BY <1>2, <1>5, <3>1
  <2> HIDE DEF e
  <2>2. CASE e = Len(b)
    BY <1>4, <2>2 DEF Ends, e
  <2>3. CASE e # Len(b)
    <3>1. e + 3 = Len(b) /\ b[e + 1] = SYSEX_DATA_CHUNK_ID
          /\ Count(b[e + 2], b[e + 3]) > 0
      BY <1>14, <2>3 DEF Ends, e
    <3> DEFINE d == e - s
    <3>2. /\ d + 1 \in 1 .. Len(b) - s /\ d + 2 \in 1 .. Len(b) - s
          /\ d + 3 \in 1 .. Len(b) - s /\ d + 3 = Len(b) - s
          /\ s + (d + 1) = e + 1 /\ s + (d + 2) = e + 2 /\ s + (d + 3) = e + 3
      <4>1. \A u, v, x \in Nat : u <= v /\ v + 3 = x
               => /\ v - u + 1 \in 1 .. x - u /\ v - u + 2 \in 1 .. x - u
                  /\ v - u + 3 \in 1 .. x - u /\ v - u + 3 = x - u
                  /\ u + (v - u + 1) = v + 1 /\ u + (v - u + 2) = v + 2
                  /\ u + (v - u + 3) = v + 3
        OBVIOUS
      <4> QED BY <1>1, <1>2, <2>1, <3>1, <4>1
    <3> HIDE DEF d
    <3>3. r[d + 1] = b[e + 1] /\ r[d + 2] = b[e + 2] /\ r[d + 3] = b[e + 3]
      BY <1>4, <3>2
    <3>4. Ends(r, d)
      BY <1>4, <3>1, <3>2, <3>3 DEF Ends
    <3> QED BY <3>4 DEF d, e
  <2> QED BY <2>2, <2>3
<1> QED BY <1>3, <1>9, <1>13, <1>14 DEF n, q, r, t, s

(* The parse finds exactly the chunks that are laid out.                   *)
LEMMA ParseOfLayout ==
    ASSUME NEW b0, NEW cs0, NEW p0, Layout(b0, cs0, p0), Ends(b0, p0[Len(cs0)])
    PROVE  WholeChunks[b0] = cs0
<1> DEFINE Bad(b, cs, p) == /\ Layout(b, cs, p) /\ Ends(b, p[Len(cs)])
                            /\ WholeChunks[b] # cs
           T == {m \in Nat : \E b, cs, p : Len(cs) = m /\ Bad(b, cs, p)}
<1>1. SUFFICES ASSUME T # {} PROVE FALSE
  <2>1. Len(cs0) \in Nat
    BY DEF Layout
  <2> QED BY <2>1
<1>2. PICK m \in T : \A k \in T : m <= k
  <2>1. T \in SUBSET Nat
    OBVIOUS
  <2> HIDE DEF T
  <2> QED BY <1>1, <2>1, LeastNumber
<1>3. PICK b, cs, p : Len(cs) = m /\ Bad(b, cs, p)
  OBVIOUS
<1>4. /\ Layout(b, cs, p) /\ Ends(b, p[Len(cs)]) /\ WholeChunks[b] # cs
      /\ b \in Seq(Byte) /\ Len(b) \in Nat /\ cs \in Seq(Proper)
  BY <1>3 DEF Layout
<1>5. WholeChunks[b] = ParseOnce(WholeChunks, b)
  BY <1>4, WholeChunksEquation
<1>6. CASE cs = <<>>
  <2>1. Len(cs) = 0 /\ p[0] = 0
    BY <1>4, <1>6 DEF Layout
  <2>2. Len(b) < Size(b)
    <3>1. CASE Len(b) = 0
      BY <3>1 DEF Size
    <3>2. CASE Len(b) # 0
      <4>1. Len(b) = 3 /\ b[1] = SYSEX_DATA_CHUNK_ID /\ Count(b[2], b[3]) > 0
        BY <1>4, <2>1, <3>2 DEF Ends
      <4>2. Size(b) = 3 + Count(b[2], b[3]) /\ Size(b) \in Nat
        BY <1>4, <4>1, SizeType DEF Size
      <4> HIDE DEF T
      <4>3. b[2] \in Byte /\ b[3] \in Byte
        <5>1. 2 \in 1 .. Len(b) /\ 3 \in 1 .. Len(b)
          BY <4>1
        <5> QED BY <1>4, <5>1, ElementOfSeq
      <4>4. Count(b[2], b[3]) \in Nat
        BY <4>3, CountType
      <4> QED BY <4>1, <4>2, <4>4
    <3> QED BY <3>1, <3>2
  <2> QED BY <1>4, <1>5, <1>6, <2>2 DEF ParseOnce
<1>7. CASE cs # <<>>
  <2> DEFINE q == Shift(p, Len(cs))
  <2>1. /\ Len(Tail(cs)) = Len(cs) - 1 /\ Layout(Rest(b), Tail(cs), q)
        /\ Ends(Rest(b), q[Len(Tail(cs))])
    BY <1>4, <1>7, LayoutRest
  <2>2. Len(cs) \in Nat /\ Size(b) <= Len(b) /\ SubSeq(b, 1, Size(b)) = Head(cs)
        /\ Len(cs) >= 1
    BY <1>4, <1>7, LayoutFirst
  <2>3. WholeChunks[Rest(b)] = Tail(cs)
    <3>1. Len(Tail(cs)) \in Nat /\ ~(m <= Len(Tail(cs)))
      BY <1>3, <2>1, <2>2
    <3>2. Len(Tail(cs)) \notin T
      BY <1>2, <3>1
    <3> QED BY <2>1, <3>1, <3>2
  <2>4. WholeChunks[b] = <<Head(cs)>> \o Tail(cs)
    <3>1. Size(b) \in Nat /\ ~(Len(b) < Size(b))
      BY <1>4, <2>2, SizeType
    <3> QED BY <1>5, <2>2, <2>3, <3>1 DEF ParseOnce
  <2>5. <<Head(cs)>> \o Tail(cs) = cs
    BY <1>4, <1>7
  <2> QED BY <1>4, <2>4, <2>5
<1> QED BY <1>6, <1>7

(* The chunks take as many bytes as they have in the FIFO.                 *)
LEMMA LayoutUsed ==
    ASSUME NEW b, NEW cs, NEW p, Layout(b, cs, p)
    PROVE  Len(Abstract!FlattenSeq(cs)) = p[Len(cs)]
<1> DEFINE n == Len(cs)
           f == [i \in 1 .. n |-> SubSeq(b, 1, p[i])]
           g == CHOOSE g : g = [i \in 1 .. Len(cs) |->
                    IF i = 1 THEN cs[i] ELSE g[i - 1] \o cs[i]]
<1>1. b \in Seq(Byte) /\ Len(b) \in Nat /\ cs \in Seq(Proper) /\ n \in Nat
  BY DEF Layout
<1>2. /\ p \in [0 .. n -> Nat] /\ p[0] = 0 /\ p[n] <= Len(b)
      /\ \A i, k \in 0 .. n : i <= k => p[i] <= p[k]
      /\ \A i \in 1 .. n : /\ p[i] = p[i - 1] + Len(cs[i])
                           /\ \A j \in 1 .. Len(cs[i]) : b[p[i - 1] + j] = cs[i][j]
  BY DEF Layout
<1>3. \A i \in 1 .. n : cs[i] \in Seq(Byte) /\ Len(cs[i]) \in Nat
  BY <1>1, ProperType
<1>4. CASE n = 0
  <2>1. Abstract!FlattenSeq(cs) = cs
    BY <1>4 DEF Abstract!FlattenSeq
  <2> QED BY <1>2, <1>4, <2>1
<1>5. CASE n # 0
  <2>1. Abstract!FlattenSeq(cs) = g[n]
    BY <1>5 DEF Abstract!FlattenSeq
  <2> HIDE DEF n
  <2>2. ASSUME NEW i \in 1 .. n
        PROVE  f[i] = IF i = 1 THEN cs[i] ELSE f[i - 1] \o cs[i]
    <3> DEFINE a == p[i - 1]
               c == cs[i]
    <3>1. i - 1 \in 0 .. n /\ i \in 0 .. n /\ n \in 0 .. n /\ i <= n
      BY <1>1
    <3>2. /\ a \in Nat /\ c \in Seq(Byte) /\ Len(c) \in Nat
          /\ p[i] = a + Len(c) /\ a + Len(c) <= Len(b)
          /\ \A j \in 1 .. Len(c) : b[a + j] = c[j]
      <4>1. p[i] = a + Len(c) /\ \A j \in 1 .. Len(c) : b[a + j] = c[j]
        BY <1>2
      <4>2. p[i] <= p[n] /\ p[n] \in Nat /\ a \in Nat /\ p[i] \in Nat
        BY <1>2, <3>1
      <4> QED BY <1>1, <1>2, <1>3, <4>1, <4>2
    <3> HIDE DEF a, c
    <3>3. SubSeq(b, 1, a + Len(c)) = SubSeq(b, 1, a) \o c
      BY <1>1, <3>2, Prefix
    <3>4. CASE i = 1
      <4>1. a = 0
        BY <1>2, <3>4 DEF a
      <4>2. SubSeq(b, 1, a) = <<>>
        BY <1>1, <4>1
      <4>3. SubSeq(b, 1, a) \o c = c
        BY <3>2, <4>2
      <4> QED BY <3>2, <3>3, <3>4, <4>3 DEF c
    <3>5. CASE i # 1
      <4>1. i - 1 \in 1 .. n
        BY <1>1, <3>5
      <4>2. f[i - 1] = SubSeq(b, 1, a)
        BY <4>1 DEF a
      <4>3. f[i] = SubSeq(b, 1, a + Len(c))
        BY <3>2
      <4> HIDE DEF f
      <4> QED BY <3>3, <3>5, <4>2, <4>3 DEF c
    <3> QED BY <3>4, <3>5
  <2>3. f = [i \in 1 .. n |-> IF i = 1 THEN cs[i] ELSE f[i - 1] \o cs[i]]
    <3>1. f = [i \in 1 .. n |-> f[i]]
      OBVIOUS
    <3> HIDE DEF f
    <3> QED BY <2>2, <3>1
  <2>4. g = [i \in 1 .. n |-> IF i = 1 THEN cs[i] ELSE g[i - 1] \o cs[i]]
    <3> HIDE DEF f
    <3> QED BY <2>3 DEF n
  <2>5. f[n] = SubSeq(b, 1, p[n]) /\ n \in 1 .. n /\ Len(SubSeq(b, 1, p[n])) = p[n]
    <3>1. n \in 1 .. n /\ n \in 0 .. n
      BY <1>1, <1>5
    <3>2. p[n] \in Nat
      BY <1>2, <3>1
    <3> QED BY <1>1, <1>2, <3>1, <3>2
  <2> HIDE DEF f, g
  <2>6. f[n] = g[n]
    <3> DEFINE T == {i \in 1 .. n : f[i] # g[i]}
    <3>1. SUFFICES ASSUME T # {} PROVE FALSE
      BY <2>5
    <3>2. PICK m \in T : \A k \in T : m <= k
      <4>1. T \in SUBSET Nat
        OBVIOUS
      <4> HIDE DEF T
      <4> QED BY <3>1, <4>1, LeastNumber
    <3>3. m \in 1 .. n /\ f[m] # g[m]
      OBVIOUS
    <3>4. CASE m = 1
      BY <2>3, <2>4, <3>3, <3>4
    <3>5. CASE m # 1
      <4>1. m - 1 \in 1 .. n /\ ~(m <= m - 1)
        BY <1>1, <3>3, <3>5
      <4>2. f[m - 1] = g[m - 1]
        BY <3>2, <4>1
      <4> HIDE DEF T
      <4>3. f[m] = f[m - 1] \o cs[m]
        BY <2>3, <3>3, <3>5
      <4>4. g[m] = g[m - 1] \o cs[m]
        BY <2>4, <3>3, <3>5
      <4> QED BY <3>3, <4>2, <4>3, <4>4
    <3> QED BY <3>4, <3>5
  <2> QED BY <2>1, <2>5, <2>6 DEF n
<1> QED BY <1>4, <1>5

(* Bytes added behind the chunks do not disturb them.                      *)
LEMMA LayoutGrows ==
    ASSUME NEW b, NEW cs, NEW p, Layout(b, cs, p), NEW x \in Seq(Byte)
    PROVE  Layout(b \o x, cs, p)
<1>1. b \in Seq(Byte) /\ Len(b) \in Nat /\ cs \in Seq(Proper) /\ Len(cs) \in Nat
  BY DEF Layout
<1>2. /\ b \o x \in Seq(Byte) /\ Len(b \o x) = Len(b) + Len(x) /\ Len(x) \in Nat
      /\ \A j \in 1 .. Len(b) : (b \o x)[j] = b[j]
  BY <1>1
<1>3. ASSUME NEW i \in 1 .. Len(cs), NEW j \in 1 .. Len(cs[i])
      PROVE  (b \o x)[p[i - 1] + j] = cs[i][j]
  <2>1. /\ i - 1 \in 0 .. Len(cs) /\ i \in 0 .. Len(cs)
        /\ Len(cs) \in 0 .. Len(cs) /\ i <= Len(cs)
    BY <1>1
  <2>2. /\ p[i - 1] \in Nat /\ p[i] \in Nat /\ p[Len(cs)] \in Nat
        /\ p[i] <= p[Len(cs)] /\ p[Len(cs)] <= Len(b) /\ p[i] = p[i - 1] + Len(cs[i])
        /\ b[p[i - 1] + j] = cs[i][j]
    BY <2>1 DEF Layout
  <2>3. Len(cs[i]) \in Nat
    BY <1>1, ProperType
  <2>4. p[i - 1] + j \in 1 .. Len(b)
    <3>1. p[i - 1] + Len(cs[i]) <= Len(b)
      BY <1>1, <2>2
    <3>2. p[i - 1] \in Nat /\ j \in Nat /\ 1 <= j /\ j <= Len(cs[i])
      BY <2>2, <2>3
    <3> QED BY <1>1, <2>3, <3>1, <3>2
  <2> QED BY <1>2, <2>2, <2>4
<1>4. p[Len(cs)] <= Len(b \o x)
  <2>1. p[Len(cs)] \in Nat /\ p[Len(cs)] <= Len(b)
    BY <1>1 DEF Layout
  <2> QED BY <1>1, <1>2, <2>1
<1> QED BY <1>2, <1>3, <1>4 DEF Layout

(* One more chunk.                                                         *)
Extend(p, n, e) == [i \in 0 .. n + 1 |-> IF i = n + 1 THEN e ELSE p[i]]

(* A chunk behind the others is laid out as they are.                      *)
LEMMA LayoutAdds ==
    ASSUME NEW b, NEW cs, NEW p, Layout(b, cs, p), NEW c \in Proper,
           p[Len(cs)] + Len(c) <= Len(b),
           \A j \in 1 .. Len(c) : b[p[Len(cs)] + j] = c[j]
    PROVE  /\ Layout(b, Append(cs, c), Extend(p, Len(cs), p[Len(cs)] + Len(c)))
           /\ Extend(p, Len(cs), p[Len(cs)] + Len(c))[Len(Append(cs, c))]
              = p[Len(cs)] + Len(c)
<1> DEFINE n == Len(cs)
           e == p[n] + Len(c)
           d == Append(cs, c)
           q == Extend(p, n, e)
<1>1. b \in Seq(Byte) /\ Len(b) \in Nat /\ cs \in Seq(Proper) /\ n \in Nat
  BY DEF Layout
<1>2. /\ p \in [0 .. n -> Nat] /\ p[0] = 0
      /\ \A i, k \in 0 .. n : i <= k => p[i] <= p[k]
      /\ \A i \in 1 .. n : /\ p[i] = p[i - 1] + Len(cs[i])
                           /\ \A j \in 1 .. Len(cs[i]) : b[p[i - 1] + j] = cs[i][j]
  BY DEF Layout
<1>3. /\ d \in Seq(Proper) /\ Len(d) = n + 1 /\ d[n + 1] = c
      /\ \A i \in 1 .. n : d[i] = cs[i]
  BY <1>1
<1>4. Len(c) \in Nat /\ p[n] \in Nat /\ e \in Nat /\ p[n] <= e /\ e <= Len(b)
  <2>1. Len(c) \in Nat /\ n \in 0 .. n
    BY <1>1, ProperType
  <2>2. p[n] \in Nat
    BY <1>2, <2>1
  <2> QED BY <2>1, <2>2
<1>5. /\ q \in [0 .. n + 1 -> Nat] /\ q[n + 1] = e
      /\ \A i \in 0 .. n : q[i] = p[i] /\ i # n + 1
  <2>1. n + 1 \in 0 .. n + 1 /\ \A i \in 0 .. n : i \in 0 .. n + 1 /\ i # n + 1
    BY <1>1
  <2>2. \A i \in 0 .. n + 1 : i # n + 1 => i \in 0 .. n
    BY <1>1
  <2> HIDE DEF n, e
  <2> QED BY <1>2, <1>4, <2>1, <2>2 DEF Extend
<1>6. \A j \in 1 .. Len(c) : b[p[n] + j] = c[j]
  OBVIOUS
<1>7. e = p[n] + Len(c)
  OBVIOUS
<1> HIDE DEF n, e, d, q
<1>8. q[0] = 0
  <2>1. 0 \in 0 .. n
    BY <1>1
  <2> QED BY <1>2, <1>5, <2>1
<1>9. ASSUME NEW i \in 0 .. n + 1, NEW k \in 0 .. n + 1, i <= k
      PROVE  q[i] <= q[k]
  <2>1. CASE k \in 0 .. n
    <3>1. i \in 0 .. n
      BY <1>1, <1>9, <2>1
    <3> QED BY <1>2, <1>5, <1>9, <2>1, <3>1
  <2>2. CASE k = n + 1
    <3>1. CASE i = n + 1
      BY <1>4, <1>5, <2>2, <3>1
    <3>2. CASE i # n + 1
      <4>1. i \in 0 .. n /\ n \in 0 .. n /\ i <= n
        BY <1>1, <3>2
      <4>2. p[i] <= p[n] /\ p[i] \in Nat
        BY <1>2, <4>1
      <4> QED BY <1>4, <1>5, <2>2, <4>1, <4>2
    <3> QED BY <3>1, <3>2
  <2>3. k \in 0 .. n \/ k = n + 1
    BY <1>1
  <2> QED BY <2>1, <2>2, <2>3
<1>10. ASSUME NEW i \in 1 .. n + 1
       PROVE  /\ q[i] = q[i - 1] + Len(d[i])
              /\ \A j \in 1 .. Len(d[i]) : b[q[i - 1] + j] = d[i][j]
  <2>1. CASE i \in 1 .. n
    <3>1. i \in 0 .. n /\ i - 1 \in 0 .. n
      BY <1>1, <2>1
    <3>2. q[i] = p[i] /\ q[i - 1] = p[i - 1] /\ d[i] = cs[i]
      BY <1>3, <1>5, <2>1, <3>1
    <3> QED BY <1>2, <2>1, <3>2
  <2>2. CASE i = n + 1
    <3>1. n \in 0 .. n /\ i - 1 = n
      BY <1>1, <2>2
    <3>2. q[i] = e /\ q[i - 1] = p[n] /\ d[i] = c
      BY <1>3, <1>5, <2>2, <3>1
    <3> QED BY <1>6, <1>7, <3>2
  <2>3. i \in 1 .. n \/ i = n + 1
    BY <1>1
  <2> QED BY <2>1, <2>2, <2>3
<1>11. Layout(b, d, q)
  BY <1>1, <1>3, <1>4, <1>5, <1>8, <1>9, <1>10 DEF Layout
<1> QED BY <1>3, <1>5, <1>11 DEF n, e, d, q

-----------------------------------------------------------------------------
(* The chunks that producers write are proper.                             *)

(* A 16 bit count in two bytes.                                            *)
LEMMA Encode16 ==
    ASSUME NEW n \in Nat, n < 65536
    PROVE  n % 256 \in Byte /\ n \div 256 \in Byte /\ Count(n % 256, n \div 256) = n
<1> DEFINE q == n \div 256
           r == n % 256
<1>1. n \in Int /\ r \in 0 .. 255 /\ q \in Int /\ n = 256 * q + r
  OBVIOUS
<1>2. ASSUME NEW m \in Int, NEW d \in Int, NEW e \in Int,
             0 <= m, m < 65536, 0 <= e, e <= 255, m = 256 * d + e
      PROVE  0 <= d /\ d <= 255 /\ e + 256 * d = m
  BY <1>2
<1> HIDE DEF q, r
<1>3. 0 <= q /\ q <= 255 /\ r + 256 * q = n
  BY <1>1, <1>2
<1> QED BY <1>1, <1>3 DEF q, r, Count, Byte

(* Three bytes, written as one and two.                                    *)
LEMMA OneAndTwo ==
    ASSUME NEW x \in Byte, NEW y \in Byte, NEW z \in Byte
    PROVE  <<x>> \o <<y, z>> = <<x, y, z>>
<1> DEFINE u == <<x>>
           v == <<y, z>>
           t == <<x, y, z>>
<1>1. u \in Seq(Byte) /\ Len(u) = 1 /\ u[1] = x
  OBVIOUS
<1>2. v \in Seq(Byte) /\ Len(v) = 2 /\ v[1] = y /\ v[2] = z
  OBVIOUS
<1>3. t \in Seq(Byte) /\ Len(t) = 3 /\ t[1] = x /\ t[2] = y /\ t[3] = z
  OBVIOUS
<1> HIDE DEF u, v, t
<1> DEFINE c == u \o v
<1>4. /\ c \in Seq(Byte) /\ Len(c) = Len(u) + Len(v)
      /\ \A i \in 1 .. Len(u) : c[i] = u[i]
      /\ \A i \in 1 .. Len(v) : c[Len(u) + i] = v[i]
  <2>1. c = u \o v
    OBVIOUS
  <2>2. u \in Seq(Byte) /\ v \in Seq(Byte)
    BY <1>1, <1>2
  <2> HIDE DEF c
  <2> QED BY <2>1, <2>2, Joined
<1> HIDE DEF c
<1>5. Len(c) = 3 /\ c[1] = x /\ c[2] = y /\ c[3] = z
  BY <1>1, <1>2, <1>4
<1>6. \A i \in 1 .. Len(c) : c[i] = t[i]
  <2>1. \A i \in 1 .. 3 : i = 1 \/ i = 2 \/ i = 3
    OBVIOUS
  <2> QED BY <1>3, <1>5, <2>1
<1>7. c = t
  BY <1>3, <1>4, <1>5, <1>6, SeqEqual
<1> QED BY <1>7 DEF u, v, t, c

(* A chunk of three bytes that is not a sysex data chunk.                  *)
LEMMA ThreeBytes ==
    ASSUME NEW x \in Byte, NEW y \in Byte, NEW z \in Byte, x # SYSEX_DATA_CHUNK_ID,
           <<x, y, z>> \in WrittenChunks
    PROVE  <<x, y, z>> \in Proper /\ Len(<<x, y, z>>) = 3
<1>1. <<x, y, z>> \in Seq(Byte) /\ Len(<<x, y, z>>) = 3
  OBVIOUS
<1>2. Size(<<x, y, z>>) = 3
  BY DEF Size
<1> QED BY <1>1, <1>2 DEF Proper

(* Messages.                                                               *)
LEMMA MessageProper ==
    ASSUME NEW m \in Messages
    PROVE  m \in Proper /\ Len(m) = 3
<1>1. m \in (128 .. 255) \X (0 .. 255) \X (0 .. 255)
  BY FifoConstants
<1>2. PICK x \in 128 .. 255, y \in 0 .. 255, z \in 0 .. 255 : m = <<x, y, z>>
  <2> DEFINE A == 128 .. 255
             B == 0 .. 255
  <2>1. m \in A \X B \X B
    BY <1>1
  <2> HIDE DEF A, B
  <2>2. \E x \in A, y \in B, z \in B : m = <<x, y, z>>
    BY <2>1
  <2> QED BY <2>2 DEF A, B
<1>3. x \in Byte /\ y \in Byte /\ z \in Byte /\ x # SYSEX_DATA_CHUNK_ID
  BY DEF Byte, SYSEX_DATA_CHUNK_ID
<1>4. m \in WrittenChunks
  BY DEF WrittenChunks
<1> QED BY <1>2, <1>3, <1>4, ThreeBytes

(* Packet sizes.                                                           *)
LEMMA SizeProper ==
    ASSUME NEW size \in Sizes
    PROVE  SizeChunk(size) \in Proper /\ Len(SizeChunk(size)) = 3
<1>1. size \in Nat /\ size < 65536
  BY FifoConstants
<1>2. size % 256 \in Byte /\ size \div 256 \in Byte
  BY <1>1, Encode16
<1>3. /\ TX_MAX_PACKET_SIZE_CHUNK_ID \in Byte
      /\ TX_MAX_PACKET_SIZE_CHUNK_ID # SYSEX_DATA_CHUNK_ID
  BY DEF Byte, TX_MAX_PACKET_SIZE_CHUNK_ID, SYSEX_DATA_CHUNK_ID
<1>4. SizeChunk(size) = <<TX_MAX_PACKET_SIZE_CHUNK_ID, size % 256, size \div 256>>
  BY <1>2, <1>3, OneAndTwo DEF SizeChunk, LsbMsb
<1>5. SizeChunk(size) \in WrittenChunks
  BY DEF WrittenChunks
<1> QED BY <1>2, <1>3, <1>4, <1>5, ThreeBytes

(* The header of a sysex data chunk.                                       *)
Header(n) == <<SYSEX_DATA_CHUNK_ID, n % 256, n \div 256>>

(* It says how many data bytes follow.                                     *)
LEMMA HeaderType ==
    ASSUME NEW n \in Nat, n < 65536
    PROVE  /\ Header(n) \in Seq(Byte) /\ Len(Header(n)) = 3
           /\ Header(n)[1] = SYSEX_DATA_CHUNK_ID
           /\ Count(Header(n)[2], Header(n)[3]) = n
<1>1. n % 256 \in Byte /\ n \div 256 \in Byte /\ Count(n % 256, n \div 256) = n
  BY Encode16
<1>2. SYSEX_DATA_CHUNK_ID \in Byte
  BY DEF Byte, SYSEX_DATA_CHUNK_ID
<1>3. Header(n)[2] = n % 256 /\ Header(n)[3] = n \div 256
  BY DEF Header
<1>4. Header(n) \in Seq(Byte) /\ Len(Header(n)) = 3 /\ Header(n)[1] = SYSEX_DATA_CHUNK_ID
  BY <1>1, <1>2 DEF Header
<1> QED BY <1>1, <1>3, <1>4

(* It is written as one byte and two.                                      *)
LEMMA HeaderBytes ==
    ASSUME NEW n \in Nat, n < 65536
    PROVE  <<SYSEX_DATA_CHUNK_ID>> \o LsbMsb(n) = Header(n)
<1>1. n % 256 \in Byte /\ n \div 256 \in Byte
  BY Encode16
<1>2. SYSEX_DATA_CHUNK_ID \in Byte
  BY DEF Byte, SYSEX_DATA_CHUNK_ID
<1> QED BY <1>1, <1>2, OneAndTwo DEF Header, LsbMsb

(* Sysex data.                                                             *)
LEMMA DataProper ==
    ASSUME NEW w \in Seq(Byte), Len(w) < 65536
    PROVE  /\ DataChunk(w) = Header(Len(w)) \o w
           /\ DataChunk(w) \in Seq(Byte) /\ Len(DataChunk(w)) = 3 + Len(w)
           /\ \A j \in 1 .. 3 : DataChunk(w)[j] = Header(Len(w))[j]
           /\ \A j \in 1 .. Len(w) : DataChunk(w)[3 + j] = w[j]
           /\ Len(DataChunk(w)) = Size(DataChunk(w))
<1> DEFINE n == Len(w)
           h == Header(n)
<1>1. n \in Nat /\ n < 65536
  OBVIOUS
<1>2. /\ h \in Seq(Byte) /\ Len(h) = 3 /\ h[1] = SYSEX_DATA_CHUNK_ID
      /\ Count(h[2], h[3]) = n
  BY <1>1, HeaderType
<1>3. DataChunk(w) = h \o w
  <2>1. <<SYSEX_DATA_CHUNK_ID>> \o LsbMsb(n) = h
    BY <1>1, HeaderBytes
  <2> DEFINE g == <<SYSEX_DATA_CHUNK_ID>> \o LsbMsb(n)
  <2>2. DataChunk(w) = g \o w
    BY DEF DataChunk
  <2> HIDE DEF g, h
  <2>3. g = h
    BY <2>1 DEF g
  <2> QED BY <2>2, <2>3
<1> HIDE DEF h
<1> DEFINE c == h \o w
<1>4. /\ c \in Seq(Byte) /\ Len(c) = Len(h) + Len(w)
      /\ \A j \in 1 .. Len(h) : c[j] = h[j]
      /\ \A j \in 1 .. Len(w) : c[Len(h) + j] = w[j]
  <2>1. c = h \o w
    OBVIOUS
  <2>2. h \in Seq(Byte)
    BY <1>2
  <2> HIDE DEF c
  <2> QED BY <2>1, <2>2, Joined
<1> HIDE DEF c
<1>5. Size(c) = 3 + n
  <2>1. c[1] = h[1] /\ c[2] = h[2] /\ c[3] = h[3] /\ Len(c) >= 3
    BY <1>1, <1>2, <1>4
  <2> QED BY <1>2, <2>1 DEF Size
<1> QED BY <1>2, <1>3, <1>4, <1>5 DEF h, c

-----------------------------------------------------------------------------
(* The invariant.                                                          *)

(* Behind the chunks, which end at e, comes the header of the chunk whose  *)
(* data w is about to be written, for which there is room.                 *)
Pending(b, e, w) ==
    \/ w = <<>> /\ e = Len(b)
    \/ /\ w # <<>>
       /\ e + 3 = Len(b)
       /\ \A j \in 1 .. 3 : b[e + j] = Header(Len(w))[j]
       /\ DataChunk(w) \in WrittenChunks
       /\ Len(b) + Len(w) <= TX_FIFO_SIZE

(* The invariant: the FIFO holds chunks that were written, and possibly    *)
(* the header of the chunk that is being written.                          *)
FifoInv ==
    /\ bytes \in Seq(Byte) /\ Len(bytes) <= TX_FIFO_SIZE
    /\ writing \in Seq(Byte) /\ Len(writing) <= 255
    /\ \E cs, p : Layout(bytes, cs, p) /\ Pending(bytes, p[Len(cs)], writing)
    /\ TakesWhatWasWritten

(* What is pending ends the parse.                                         *)
LEMMA PendingEnds ==
    ASSUME NEW b, NEW cs, NEW p, NEW w \in Seq(Byte), Len(w) <= 255,
           Layout(b, cs, p), Pending(b, p[Len(cs)], w)
    PROVE  WholeChunks[b] = cs
<1>1. CASE w = <<>>
  BY <1>1, ParseOfLayout DEF Pending, Ends
<1>2. CASE w # <<>>
  <2> DEFINE e == p[Len(cs)]
             n == Len(w)
  <2>1. n \in Nat /\ n < 65536 /\ n > 0
    BY <1>2
  <2>2. /\ Header(n)[1] = SYSEX_DATA_CHUNK_ID
        /\ Count(Header(n)[2], Header(n)[3]) = n
    BY <2>1, HeaderType
  <2>3. e + 3 = Len(b) /\ \A j \in 1 .. 3 : b[e + j] = Header(n)[j]
    BY <1>2 DEF Pending
  <2> HIDE DEF e, n
  <2>4. b[e + 1] = Header(n)[1] /\ b[e + 2] = Header(n)[2] /\ b[e + 3] = Header(n)[3]
    BY <2>3
  <2>5. Ends(b, e)
    BY <2>1, <2>2, <2>3, <2>4 DEF Ends
  <2> QED BY <2>5, ParseOfLayout DEF e
<1> QED BY <1>1, <1>2

(* The invariant, with names for the chunks and where they end.            *)
LEMMA InvUnfolds ==
    ASSUME FifoInv
    PROVE  \E cs, p : /\ Layout(bytes, cs, p) /\ Pending(bytes, p[Len(cs)], writing)
                      /\ WholeChunks[bytes] = cs /\ cs \in Seq(Proper)
                      /\ p[Len(cs)] \in Nat
                      /\ Len(Abstract!FlattenSeq(cs)) = p[Len(cs)]
<1>1. PICK cs, p : Layout(bytes, cs, p) /\ Pending(bytes, p[Len(cs)], writing)
  BY DEF FifoInv
<1>2. WholeChunks[bytes] = cs
  BY <1>1, PendingEnds DEF FifoInv
<1>3. cs \in Seq(Proper) /\ Len(cs) \in Nat
  BY <1>1 DEF Layout
<1>4. p[Len(cs)] \in Nat
  BY <1>1, <1>3 DEF Layout
<1>5. Len(Abstract!FlattenSeq(cs)) = p[Len(cs)]
  BY <1>1, LayoutUsed
<1> QED BY <1>1, <1>2, <1>3, <1>4, <1>5

(* The first state.                                                        *)
LEMMA EmptyLayout == \E p : Layout(<<>>, <<>>, p) /\ Pending(<<>>, p[Len(<<>>)], <<>>)
<1> DEFINE p == [i \in 0 .. 0 |-> 0]
<1>1. <<>> \in Seq(Byte) /\ <<>> \in Seq(Proper) /\ Len(<<>>) = 0
  OBVIOUS
<1>2. p \in [0 .. 0 -> Nat] /\ p[0] = 0 /\ \A i \in 0 .. 0 : p[i] = 0
  OBVIOUS
<1> HIDE DEF p
<1>3. Layout(<<>>, <<>>, p)
  BY <1>1, <1>2 DEF Layout
<1>4. Pending(<<>>, p[Len(<<>>)], <<>>)
  BY <1>1, <1>2 DEF Pending
<1> QED BY <1>3, <1>4

(* An empty FIFO has no chunks.                                            *)
LEMMA EmptyParse == WholeChunks[<<>>] = <<>>
<1> DEFINE b == <<>>
<1>1. b \in Seq(Byte) /\ Len(b) = 0
  OBVIOUS
<1>2. b = <<>>
  OBVIOUS
<1> HIDE DEF b
<1>3. Len(b) < Size(b)
  BY <1>1 DEF Size
<1>4. WholeChunks[b] = <<>>
  BY <1>1, <1>3, WholeChunksEquation DEF ParseOnce
<1> QED BY <1>2, <1>4

(* fifo_write of bytes for which there is room.                            *)
LEMMA FifoWrite ==
    ASSUME NEW s \in Seq(Byte), bytes \in Seq(Byte),
           Len(bytes) + Len(s) <= TX_FIFO_SIZE, fifo_write(s)
    PROVE  bytes' = bytes \o s
<1>1. TX_FIFO_SIZE \in Nat /\ Len(s) \in Nat /\ Len(bytes) \in Nat
  BY FifoConstants
<1>2. Least(Len(s), fifo_get_free_space) = Len(s)
  BY <1>1 DEF Least, fifo_get_free_space
<1>3. SubSeq(s, 1, Len(s)) = s
  OBVIOUS
<1> QED BY <1>2, <1>3 DEF fifo_write

(* A chunk of three bytes is added.                                        *)
LEMMA StepAdd ==
    ASSUME FifoInv, writing = <<>>, NEW c \in Proper,
           Len(bytes) + Len(c) <= TX_FIFO_SIZE, fifo_write(c),
           writing' = writing, taken' = taken
    PROVE  FifoInv' /\ Abstract!Put(c)
<1>1. /\ bytes \in Seq(Byte) /\ Len(bytes) \in Nat
      /\ c \in Seq(Byte) /\ Len(c) \in Nat /\ c \in WrittenChunks
  BY ProperType DEF FifoInv
<1>2. PICK cs, p : /\ Layout(bytes, cs, p) /\ Pending(bytes, p[Len(cs)], writing)
                   /\ WholeChunks[bytes] = cs /\ cs \in Seq(Proper)
                   /\ p[Len(cs)] \in Nat
                   /\ Len(Abstract!FlattenSeq(cs)) = p[Len(cs)]
  BY InvUnfolds
<1> DEFINE b == bytes'
           e == p[Len(cs)]
           d == Append(cs, c)
           q == Extend(p, Len(cs), e + Len(c))
<1>3. bytes' = bytes \o c
  BY <1>1, FifoWrite
<1>4. e = Len(bytes)
  BY <1>2 DEF Pending
<1>5. /\ b \in Seq(Byte) /\ Len(b) = Len(bytes) + Len(c)
      /\ \A j \in 1 .. Len(c) : b[Len(bytes) + j] = c[j]
  BY <1>1, <1>3, Joined
<1>6. Layout(b, cs, p)
  BY <1>1, <1>2, <1>3, LayoutGrows
<1>7. e + Len(c) <= Len(b) /\ \A j \in 1 .. Len(c) : b[e + j] = c[j]
  BY <1>1, <1>4, <1>5
<1>8. Layout(b, d, q) /\ q[Len(d)] = e + Len(c)
  BY <1>6, <1>7, LayoutAdds
<1>9. Pending(b, q[Len(d)], writing')
  BY <1>4, <1>5, <1>8 DEF Pending
<1>10. writing' \in Seq(Byte) /\ Len(writing') <= 255 /\ Len(b) <= TX_FIFO_SIZE
       /\ TakesWhatWasWritten'
  BY <1>5 DEF FifoInv, TakesWhatWasWritten
<1>11. FifoInv'
  <2> HIDE DEF q, d
  <2> QED BY <1>5, <1>8, <1>9, <1>10 DEF FifoInv
<1>12. WholeChunks[b] = d
  <2> HIDE DEF q, d
  <2> QED BY <1>8, <1>9, <1>10, PendingEnds
<1>13. Abstract!Used + Len(c) <= TX_FIFO_SIZE
  BY <1>2, <1>4 DEF Abstract!Used
<1> QED BY <1>2, <1>11, <1>12, <1>13 DEF Abstract!Put

(* The number of data bytes for which there is room.                       *)
LEMMA BytesToSend ==
    ASSUME NEW n \in Nat, n > 0, bytes \in Seq(Byte),
           fifo_get_free_space > SYSEX_DATA_CHUNK_HEADER_SIZE
    PROVE  /\ num_bytes_to_send(n) \in 1 .. n /\ num_bytes_to_send(n) <= 255
           /\ Len(bytes) + 3 + num_bytes_to_send(n) <= TX_FIFO_SIZE
<1>1. TX_FIFO_SIZE \in Nat /\ SYSEX_DATA_CHUNK_MAX_BYTE_COUNT \in Nat
      /\ 1 <= SYSEX_DATA_CHUNK_MAX_BYTE_COUNT /\ SYSEX_DATA_CHUNK_MAX_BYTE_COUNT <= 255
  <2>1. SYSEX_DATA_CHUNK_MAX_BYTE_COUNT \in 1 .. 255 /\ TX_FIFO_SIZE \in Nat
    BY FifoConstants
  <2> QED BY <2>1
<1>2. Len(bytes) \in Nat
  OBVIOUS
<1>3. ASSUME NEW m \in Nat, 1 <= m, m <= 255, NEW f \in Int, f > 3,
             NEW k, k = Least(Least(n, m), f - 3)
      PROVE  k \in 1 .. n /\ k <= 255 /\ k <= f - 3
  BY <1>3 DEF Least
<1> DEFINE k == num_bytes_to_send(n)
           f == fifo_get_free_space
<1>4. f = TX_FIFO_SIZE - Len(bytes) /\ f > 3
  BY DEF fifo_get_free_space, SYSEX_DATA_CHUNK_HEADER_SIZE
<1>5. k = Least(Least(n, SYSEX_DATA_CHUNK_MAX_BYTE_COUNT), f - 3)
  BY DEF num_bytes_to_send, SYSEX_DATA_CHUNK_HEADER_SIZE
<1> HIDE DEF k, f
<1>6. f \in Int
  BY <1>1, <1>2, <1>4
<1>7. k \in 1 .. n /\ k <= 255 /\ k <= f - 3
  BY <1>1, <1>3, <1>4, <1>5, <1>6
<1>8. Len(bytes) + 3 + k <= TX_FIFO_SIZE
  BY <1>1, <1>2, <1>4, <1>7
<1> QED BY <1>7, <1>8 DEF k

(* The header of a sysex data chunk: the queue of chunks is not affected.  *)
LEMMA StepHeader ==
    ASSUME FifoInv, NEW d \in SysexData, WriteHeader(d)
    PROVE  FifoInv' /\ WholeChunks[bytes'] = WholeChunks[bytes] /\ taken' = taken
<1> DEFINE n == num_bytes_to_send(Len(d))
           w == writing'
           h == Header(n)
           b == bytes'
<1>1. bytes \in Seq(Byte) /\ Len(bytes) \in Nat
  BY DEF FifoInv
<1>2. d \in Seq(Byte) /\ Len(d) \in Nat /\ Len(d) > 0
  <2>1. d \in Seq(Byte) /\ d # <<>>
    BY FifoConstants DEF Byte
  <2> QED BY <2>1
<1>3. /\ writing = <<>> /\ fifo_get_free_space > SYSEX_DATA_CHUNK_HEADER_SIZE
      /\ fifo_write(<<SYSEX_DATA_CHUNK_ID>> \o LsbMsb(n))
      /\ w = SubSeq(d, 1, n) /\ taken' = taken
  BY DEF WriteHeader
<1>4. n \in 1 .. Len(d) /\ n \in Nat /\ n <= 255 /\ Len(bytes) + 3 + n <= TX_FIFO_SIZE
  <2>1. n \in 1 .. Len(d) /\ n <= 255 /\ Len(bytes) + 3 + n <= TX_FIFO_SIZE
    BY <1>1, <1>2, <1>3, BytesToSend
  <2> HIDE DEF n
  <2> QED BY <1>2, <2>1
<1> HIDE DEF n, w
<1>5. w \in Seq(Byte) /\ Len(w) = n /\ w # <<>>
  BY <1>2, <1>3, <1>4
<1>6. DataChunk(w) \in WrittenChunks
  BY <1>3, <1>4 DEF WrittenChunks
<1>7. /\ h \in Seq(Byte) /\ Len(h) = 3
      /\ <<SYSEX_DATA_CHUNK_ID>> \o LsbMsb(n) = h
  <2>1. n < 65536
    BY <1>4
  <2>2. h \in Seq(Byte) /\ Len(h) = 3
    BY <1>4, <2>1, HeaderType
  <2>3. <<SYSEX_DATA_CHUNK_ID>> \o LsbMsb(n) = h
    BY <1>4, <2>1, HeaderBytes
  <2> QED BY <2>2, <2>3
<1> HIDE DEF h
<1>8. b = bytes \o h
  <2>1. Len(bytes) + Len(h) <= TX_FIFO_SIZE /\ fifo_write(h)
    <3>1. TX_FIFO_SIZE \in Nat
      BY FifoConstants
    <3>2. fifo_write(h)
      BY <1>3, <1>7
    <3>3. Len(h) = 3 /\ Len(bytes) + 3 + n <= TX_FIFO_SIZE
      BY <1>4, <1>7
    <3>4. Len(bytes) + Len(h) <= TX_FIFO_SIZE
      BY <1>1, <1>4, <3>1, <3>3
    <3> QED BY <3>2, <3>4
  <2> QED BY <1>1, <1>7, <2>1, FifoWrite
<1> HIDE DEF b
<1>9. /\ b \in Seq(Byte) /\ Len(b) = Len(bytes) + 3
      /\ \A j \in 1 .. 3 : b[Len(bytes) + j] = h[j]
  <2>1. /\ b \in Seq(Byte) /\ Len(b) = Len(bytes) + Len(h)
        /\ \A j \in 1 .. Len(h) : b[Len(bytes) + j] = h[j]
    <3>1. bytes \in Seq(Byte) /\ h \in Seq(Byte)
      BY <1>1, <1>7
    <3> QED BY <1>8, <3>1, Joined
  <2> QED BY <1>7, <2>1
<1>10. PICK cs, p : /\ Layout(bytes, cs, p) /\ Pending(bytes, p[Len(cs)], writing)
                    /\ WholeChunks[bytes] = cs
  BY InvUnfolds
<1>11. Layout(b, cs, p)
  BY <1>7, <1>8, <1>10, LayoutGrows
<1>12. p[Len(cs)] = Len(bytes)
  BY <1>3, <1>10 DEF Pending
<1>13. Pending(b, p[Len(cs)], w)
  <2>1. Len(b) + Len(w) <= TX_FIFO_SIZE
    BY <1>1, <1>4, <1>5, <1>9
  <2>2. \A j \in 1 .. 3 : b[Len(bytes) + j] = Header(Len(w))[j]
    BY <1>5, <1>9 DEF h
  <2> QED BY <1>5, <1>6, <1>9, <1>12, <2>1, <2>2 DEF Pending
<1>14. Len(b) <= TX_FIFO_SIZE /\ Len(w) <= 255 /\ TakesWhatWasWritten'
  <2>1. TX_FIFO_SIZE \in Nat
    BY FifoConstants
  <2>2. TakesWhatWasWritten'
    BY <1>3 DEF FifoInv, TakesWhatWasWritten
  <2> QED BY <1>1, <1>4, <1>5, <1>9, <2>1, <2>2
<1>15. FifoInv'
  BY <1>5, <1>9, <1>11, <1>13, <1>14 DEF FifoInv, b, w
<1>16. WholeChunks[b] = cs
  BY <1>5, <1>11, <1>13, <1>14, PendingEnds
<1> QED BY <1>3, <1>10, <1>15, <1>16 DEF b

(* The data bytes complete the chunk.                                      *)
LEMMA StepData ==
    ASSUME FifoInv, WriteData
    PROVE  /\ FifoInv' /\ Abstract!Put(DataChunk(writing))
           /\ DataChunk(writing) \in WrittenChunks
<1> DEFINE w == writing
           c == DataChunk(w)
           b == bytes'
<1>1. /\ bytes \in Seq(Byte) /\ Len(bytes) \in Nat
      /\ w \in Seq(Byte) /\ Len(w) \in Nat /\ Len(w) <= 255 /\ w # <<>>
      /\ fifo_write(w) /\ writing' = <<>> /\ taken' = taken
  BY DEF FifoInv, WriteData
<1>2. PICK cs, p : /\ Layout(bytes, cs, p) /\ Pending(bytes, p[Len(cs)], w)
                   /\ WholeChunks[bytes] = cs /\ cs \in Seq(Proper)
                   /\ p[Len(cs)] \in Nat
                   /\ Len(Abstract!FlattenSeq(cs)) = p[Len(cs)]
  BY InvUnfolds
<1> DEFINE e == p[Len(cs)]
           h == Header(Len(w))
<1>3. /\ e + 3 = Len(bytes) /\ \A j \in 1 .. 3 : bytes[e + j] = h[j]
      /\ c \in WrittenChunks /\ Len(bytes) + Len(w) <= TX_FIFO_SIZE
  BY <1>1, <1>2 DEF Pending
<1>4. /\ c \in Seq(Byte) /\ Len(c) = 3 + Len(w) /\ Len(c) = Size(c)
      /\ \A j \in 1 .. 3 : c[j] = h[j]
      /\ \A j \in 1 .. Len(w) : c[3 + j] = w[j]
  <2>1. Len(w) < 65536
    BY <1>1
  <2> QED BY <1>1, <2>1, DataProper
<1>5. c \in Proper
  BY <1>3, <1>4 DEF Proper
<1>6. b = bytes \o w
  BY <1>1, <1>3, FifoWrite
<1> HIDE DEF b, c, h, e
<1>7. /\ b \in Seq(Byte) /\ Len(b) = Len(bytes) + Len(w)
      /\ \A j \in 1 .. Len(bytes) : b[j] = bytes[j]
      /\ \A j \in 1 .. Len(w) : b[Len(bytes) + j] = w[j]
  BY <1>1, <1>6, Joined
<1>8. e \in Nat
  BY <1>2 DEF e
<1>9. ASSUME NEW j \in 1 .. Len(c) PROVE b[e + j] = c[j]
  <2>1. CASE j <= 3
    <3>1. j \in 1 .. 3 /\ e + j \in 1 .. Len(bytes)
      BY <1>3, <1>4, <1>8, <2>1
    <3> QED BY <1>3, <1>4, <1>7, <3>1
  <2>2. CASE j > 3
    <3> DEFINE k == j - 3
    <3>1. k \in 1 .. Len(w) /\ 3 + k = j /\ e + j = Len(bytes) + k
      <4>1. e + 3 = Len(bytes) /\ Len(c) = 3 + Len(w)
        BY <1>3, <1>4
      <4>2. Len(w) \in Nat
        BY <1>1
      <4>3. j \in 1 .. 3 + Len(w)
        BY <4>1
      <4> QED BY <1>8, <2>2, <4>1, <4>2, <4>3
    <3> HIDE DEF k
    <3>2. c[3 + k] = w[k] /\ b[Len(bytes) + k] = w[k]
      BY <1>4, <1>7, <3>1
    <3> QED BY <3>1, <3>2
  <2>3. j <= 3 \/ j > 3
    BY <1>1, <1>4
  <2> QED BY <2>1, <2>2, <2>3
<1>10. e + Len(c) = Len(b)
  <2>1. e + 3 = Len(bytes) /\ Len(c) = 3 + Len(w) /\ Len(b) = Len(bytes) + Len(w)
    BY <1>3, <1>4, <1>7
  <2>2. Len(w) \in Nat
    BY <1>1
  <2> QED BY <1>8, <2>1, <2>2
<1>11. Layout(b, cs, p)
  BY <1>1, <1>2, <1>6, LayoutGrows
<1> DEFINE d == Append(cs, c)
           q == Extend(p, Len(cs), e + Len(c))
<1>12. Layout(b, d, q) /\ q[Len(d)] = e + Len(c)
  <2>1. Len(b) <= Len(b)
    BY <1>7
  <2> QED BY <1>5, <1>9, <1>10, <1>11, <2>1, LayoutAdds DEF e
<1> HIDE DEF q, d
<1>13. Pending(b, q[Len(d)], writing')
  BY <1>1, <1>10, <1>12 DEF Pending
<1>14. writing' \in Seq(Byte) /\ Len(writing') <= 255 /\ Len(b) <= TX_FIFO_SIZE
       /\ TakesWhatWasWritten'
  BY <1>1, <1>3, <1>7 DEF FifoInv, TakesWhatWasWritten
<1>15. FifoInv'
  BY <1>7, <1>12, <1>13, <1>14 DEF FifoInv, b
<1>16. WholeChunks[b] = d
  BY <1>12, <1>13, <1>14, PendingEnds
<1>17. Abstract!Used + Len(c) <= TX_FIFO_SIZE
  <2>1. Abstract!Used = e
    BY <1>2 DEF Abstract!Used, e
  <2>2. e + 3 = Len(bytes) /\ Len(c) = 3 + Len(w) /\ Len(bytes) + Len(w) <= TX_FIFO_SIZE
    BY <1>3, <1>4
  <2>3. Len(w) \in Nat /\ Len(bytes) \in Nat
    BY <1>1
  <2> QED BY <1>8, <2>1, <2>2, <2>3
<1> QED BY <1>1, <1>2, <1>3, <1>15, <1>16, <1>17 DEF Abstract!Put, b, c, d

(* The reader takes the first chunk, whole.                                *)
LEMMA StepTake ==
    ASSUME FifoInv, TakeChunk
    PROVE  FifoInv' /\ Abstract!Take
<1>1. bytes \in Seq(Byte) /\ Len(bytes) \in Nat /\ writing \in Seq(Byte)
      /\ Len(writing) <= 255 /\ Len(bytes) <= TX_FIFO_SIZE /\ TX_FIFO_SIZE \in Nat
  BY FifoConstants DEF FifoInv
<1>2. PICK cs, p : /\ Layout(bytes, cs, p) /\ Pending(bytes, p[Len(cs)], writing)
                   /\ WholeChunks[bytes] = cs /\ cs \in Seq(Proper)
                   /\ p[Len(cs)] \in Nat
  BY InvUnfolds
<1>3. /\ bytes # <<>> /\ ~NothingToAdd /\ taken' = fifo_peek(ChunkSize)
      /\ fifo_read(ChunkSize) /\ writing' = writing
  BY DEF TakeChunk
<1>4. cs # <<>>
  <2> SUFFICES ASSUME cs = <<>> PROVE FALSE
    OBVIOUS
  <2>1. p[Len(cs)] = 0
    BY <1>2 DEF Layout
  <2>2. Len(bytes) # 0
    BY <1>1, <1>3
  <2>3. /\ writing # <<>> /\ Len(bytes) = 3
        /\ \A j \in 1 .. 3 : bytes[0 + j] = Header(Len(writing))[j]
    BY <1>2, <2>1, <2>2 DEF Pending
  <2>4. bytes[1] = SYSEX_DATA_CHUNK_ID
    <3>1. Len(writing) \in Nat /\ Len(writing) < 65536
      BY <1>1
    <3>2. Header(Len(writing))[1] = SYSEX_DATA_CHUNK_ID
      BY <3>1, HeaderType
    <3>3. 1 \in 1 .. 3 /\ 0 + 1 = 1
      OBVIOUS
    <3> QED BY <2>3, <3>2, <3>3
  <2>5. NothingToAdd
    BY <2>3, <2>4 DEF NothingToAdd, Peeked, SYSEX_DATA_CHUNK_HEADER_SIZE
  <2> QED BY <1>3, <2>5
<1> DEFINE s == Size(bytes)
<1>5. /\ Head(cs) \in Proper /\ s = Len(Head(cs)) /\ s <= Len(bytes)
      /\ SubSeq(bytes, 1, s) = Head(cs) /\ s \in Nat /\ s >= 3
  BY <1>1, <1>2, <1>4, LayoutFirst, SizeType
<1>6. Len(bytes) >= 3
  <2> HIDE DEF s
  <2> QED BY <1>1, <1>5
<1>7. ChunkSize = s
  <2>1. Peeked[1] = bytes[1] /\ Peeked[2] = bytes[2] /\ Peeked[3] = bytes[3]
    BY <1>1, <1>6 DEF Peeked
  <2> QED BY <1>6, <2>1 DEF ChunkSize, Size, SYSEX_DATA_CHUNK_HEADER_SIZE
<1>8. taken' = Head(cs)
  <2>1. Least(s, Len(bytes)) = s
    <3> HIDE DEF s
    <3> QED BY <1>1, <1>5 DEF Least
  <2> QED BY <1>3, <1>5, <1>7, <2>1 DEF fifo_peek
<1>9. bytes' = Rest(bytes)
  BY <1>3, <1>7 DEF fifo_read, Rest
<1>10. bytes' \in Seq(Byte) /\ Len(bytes') <= TX_FIFO_SIZE
       /\ Len(bytes') = Len(bytes) - s
  <2>1. ~(Len(bytes) < Size(bytes))
    <3> HIDE DEF s
    <3>1. ~(Len(bytes) < s)
      BY <1>1, <1>5
    <3> QED BY <3>1 DEF s
  <2>2. /\ Rest(bytes) \in Seq(Byte) /\ Len(Rest(bytes)) = Len(bytes) - s
    BY <1>1, <2>1, RestType
  <2> HIDE DEF s
  <2> QED BY <1>1, <1>5, <1>9, <2>2
<1> DEFINE q == Shift(p, Len(cs))
           t == Tail(cs)
           e == p[Len(cs)]
<1>11. /\ Layout(bytes', t, q) /\ q[Len(t)] = e - s
  BY <1>2, <1>4, <1>9, LayoutRest
<1>12. Pending(bytes', q[Len(t)], writing')
  <2> HIDE DEF s, q, t
  <2>1. CASE writing = <<>>
    <3>1. e = Len(bytes)
      BY <1>2, <2>1 DEF Pending
    <3> HIDE DEF e
    <3> QED BY <1>3, <1>10, <1>11, <2>1, <3>1 DEF Pending
  <2>2. CASE writing # <<>>
    <3>1. /\ e + 3 = Len(bytes) /\ DataChunk(writing) \in WrittenChunks
          /\ \A j \in 1 .. 3 : bytes[e + j] = Header(Len(writing))[j]
          /\ Len(bytes) + Len(writing) <= TX_FIFO_SIZE
      BY <1>2, <2>2 DEF Pending
    <3>2. e \in Nat /\ s <= e
      <4>1. p[1] <= p[Len(cs)] /\ s = p[1]
        <5>1. Len(cs) \in Nat /\ Len(cs) >= 1 /\ s = p[1]
          BY <1>2, <1>4, LayoutFirst DEF s
        <5>2. 1 \in 0 .. Len(cs) /\ Len(cs) \in 0 .. Len(cs)
          BY <5>1
        <5> QED BY <1>2, <5>1, <5>2 DEF Layout
      <4> QED BY <1>2, <4>1
    <3> HIDE DEF e
    <3> DEFINE x == e - s
    <3>3. x + 3 = Len(bytes') /\ Len(bytes') + Len(writing) <= TX_FIFO_SIZE
      <4>1. Len(writing) \in Nat
        BY <1>1
      <4>2. Len(bytes') = Len(bytes) - s /\ s \in Nat
        BY <1>5, <1>10
      <4> QED BY <1>1, <3>1, <3>2, <4>1, <4>2
    <3>4. ASSUME NEW j \in 1 .. 3 PROVE bytes'[x + j] = bytes[e + j]
      <4> DEFINE k == x + j
      <4>1. s \in 0 .. Len(bytes) /\ k \in 1 .. Len(bytes) - s /\ s + k = e + j
        <5>1. s \in Nat
          BY <1>5
        <5> QED BY <1>1, <3>1, <3>2, <5>1
      <4>2. bytes' = SubSeq(bytes, s + 1, Len(bytes))
        BY <1>9 DEF Rest, s
      <4> HIDE DEF k
      <4>3. bytes'[k] = bytes[s + k]
        BY <1>1, <4>1, <4>2, Suffix
      <4> QED BY <4>1, <4>3 DEF k
    <3>5. Pending(bytes', x, writing)
      <4> HIDE DEF x
      <4>1. \A j \in 1 .. 3 : bytes'[x + j] = Header(Len(writing))[j]
        BY <3>1, <3>4
      <4> QED BY <2>2, <3>1, <3>3, <4>1 DEF Pending
    <3> QED BY <1>3, <1>11, <3>5
  <2> QED BY <2>1, <2>2
<1>13. WholeChunks[bytes'] = t
  <2> HIDE DEF q, t
  <2> QED BY <1>1, <1>3, <1>11, <1>12, PendingEnds
<1>14. TakesWhatWasWritten'
  <2>1. Head(cs) \in WrittenChunks
    BY <1>5, ProperType
  <2> QED BY <1>8, <2>1 DEF TakesWhatWasWritten
<1>15. FifoInv'
  <2> HIDE DEF q, t
  <2> QED BY <1>1, <1>3, <1>10, <1>11, <1>12, <1>14 DEF FifoInv
<1> QED BY <1>2, <1>4, <1>8, <1>13, <1>15 DEF Abstract!Take

(* The FIFO is emptied.                                                    *)
LEMMA StepClear ==
    ASSUME FifoInv, writing = <<>>, fifo_clear
    PROVE  FifoInv' /\ Abstract!Clear
<1>1. bytes' = <<>> /\ writing' = <<>> /\ taken' = taken
  BY DEF fifo_clear
<1>2. PICK p : Layout(<<>>, <<>>, p) /\ Pending(<<>>, p[Len(<<>>)], <<>>)
  BY EmptyLayout
<1>3. <<>> \in Seq(Byte) /\ Len(<<>>) = 0
  OBVIOUS
<1>4. WholeChunks[<<>>] = <<>>
  BY EmptyParse
<1>5. TX_FIFO_SIZE \in Nat
  BY FifoConstants
<1>6. FifoInv'
  <2>1. TakesWhatWasWritten'
    BY <1>1 DEF FifoInv, TakesWhatWasWritten
  <2>2. Len(bytes') <= TX_FIFO_SIZE /\ Len(writing') <= 255
    BY <1>1, <1>3, <1>5
  <2> QED BY <1>1, <1>2, <1>3, <2>1, <2>2 DEF FifoInv
<1> QED BY <1>1, <1>4, <1>6 DEF Abstract!Clear

(* Every step of the FIFO is a step of the queue of chunks, or none.       *)
LEMMA FifoStep ==
    ASSUME ~CallbackPreempts
    PROVE  FifoInv /\ [Next]_vars
           => FifoInv' /\ [Abstract!FifoNext]_(Abstract!fifoState)
<1> SUFFICES ASSUME FifoInv, [Next]_vars
             PROVE  FifoInv' /\ [Abstract!FifoNext]_(Abstract!fifoState)
  OBVIOUS
<1>1. bytes \in Seq(Byte) /\ Len(bytes) \in Nat /\ TX_FIFO_SIZE \in Nat
  BY FifoConstants DEF FifoInv
<1>2. ASSUME NEW c \in Proper, Len(c) = 3, write_3_byte_chunk_to_fifo(c)
      PROVE  fifo_write(c) /\ Len(bytes) + Len(c) <= TX_FIFO_SIZE /\ c \in WrittenChunks
  BY <1>1, <1>2, ProperType DEF write_3_byte_chunk_to_fifo, fifo_get_free_space
<1>3. ASSUME NEW m \in Messages, tx_queue_fifo_add_msg(m)
      PROVE  FifoInv' /\ Abstract!FifoNext
  <2>1. m \in Proper /\ Len(m) = 3
    BY MessageProper
  <2>2. /\ writing = <<>> /\ write_3_byte_chunk_to_fifo(m)
        /\ writing' = writing /\ taken' = taken
    BY <1>3 DEF tx_queue_fifo_add_msg
  <2>3. FifoInv' /\ Abstract!Put(m) /\ m \in WrittenChunks
    BY <1>2, <2>1, <2>2, StepAdd
  <2> QED BY <2>3 DEF Abstract!FifoNext
<1>4. ASSUME NEW size \in Sizes, tx_queue_fifo_add_tx_packet_size(size)
      PROVE  FifoInv' /\ Abstract!FifoNext
  <2> DEFINE c == SizeChunk(size)
  <2>1. c \in Proper /\ Len(c) = 3
    BY SizeProper
  <2>2. /\ writing = <<>> /\ write_3_byte_chunk_to_fifo(c)
        /\ writing' = writing /\ taken' = taken
    BY <1>4 DEF tx_queue_fifo_add_tx_packet_size, CallbackMayRun
  <2> HIDE DEF c
  <2>3. FifoInv' /\ Abstract!Put(c) /\ c \in WrittenChunks
    BY <1>2, <2>1, <2>2, StepAdd
  <2> QED BY <2>3 DEF Abstract!FifoNext
<1>5. ASSUME NEW d \in SysexData, WriteHeader(d)
      PROVE  FifoInv' /\ UNCHANGED Abstract!fifoState
  BY <1>5, StepHeader DEF Abstract!fifoState
<1>6. ASSUME WriteData PROVE FifoInv' /\ Abstract!FifoNext
  BY <1>6, StepData DEF Abstract!FifoNext
<1>7. ASSUME fifo_clear PROVE FifoInv' /\ Abstract!FifoNext
  <2>1. writing = <<>>
    BY <1>7 DEF fifo_clear, CallbackMayRun
  <2> QED BY <1>7, <2>1, StepClear DEF Abstract!FifoNext
<1>8. ASSUME TakeChunk PROVE FifoInv' /\ Abstract!FifoNext
  BY <1>8, StepTake DEF Abstract!FifoNext
<1>9. ASSUME UNCHANGED <<bytes, writing, taken>>
      PROVE  FifoInv' /\ UNCHANGED Abstract!fifoState
  BY <1>9 DEF FifoInv, TakesWhatWasWritten, Abstract!fifoState
<1>10. ASSUME ReadStart \/ ReadEmpty \/ LeaveChunk \/ UNCHANGED vars
       PROVE  UNCHANGED <<bytes, writing, taken>>
  BY <1>10 DEF ReadStart, ReadEmpty, LeaveChunk, vars
<1> QED BY <1>3, <1>4, <1>5, <1>6, <1>7, <1>8, <1>9, <1>10 DEF Next

(* It begins empty.                                                        *)
LEMMA FifoStart == Init => FifoInv /\ Abstract!FifoInit
<1> SUFFICES ASSUME Init PROVE FifoInv /\ Abstract!FifoInit
  OBVIOUS
<1>1. bytes = <<>> /\ writing = <<>> /\ taken = <<>>
  BY DEF Init
<1>2. PICK p : Layout(<<>>, <<>>, p) /\ Pending(<<>>, p[Len(<<>>)], <<>>)
  BY EmptyLayout
<1>3. <<>> \in Seq(Byte) /\ Len(<<>>) = 0
  OBVIOUS
<1>4. WholeChunks[<<>>] = <<>>
  BY EmptyParse
<1>5. TX_FIFO_SIZE \in Nat
  BY FifoConstants
<1>6. FifoInv
  <2>1. Len(bytes) <= TX_FIFO_SIZE /\ Len(writing) <= 255
    BY <1>1, <1>3, <1>5
  <2> QED BY <1>1, <1>2, <1>3, <2>1 DEF FifoInv, TakesWhatWasWritten
<1> QED BY <1>1, <1>4, <1>6 DEF Abstract!FifoInit

(* FifoIsChunkQueue: the byte FIFO with the chunk layout of tx_queue.c     *)
(* implements a bounded queue of whole chunks, as long as no Bluetooth     *)
(* callback writes to it or clears it between the two fifo_write calls of  *)
(* tx_queue_fifo_add_sysex_data.                                           *)
THEOREM FifoIsChunkQueue ==
    ASSUME ~CallbackPreempts
    PROVE  Spec => Abstract!FifoSafety
<1>1. FifoInv /\ [Next]_vars => FifoInv' /\ [Abstract!FifoNext]_(Abstract!fifoState)
  BY FifoStep
<1> QED BY <1>1, FifoStart, PTL DEF Spec, Abstract!FifoSafety

(* OnlyWrittenIsTaken: tx_queue_read_from_fifo only takes chunks that a    *)
(* producer wrote.                                                         *)
THEOREM OnlyWrittenIsTaken ==
    ASSUME ~CallbackPreempts
    PROVE  Spec => []TakesWhatWasWritten
<1>1. FifoInv /\ [Next]_vars => FifoInv' /\ [Abstract!FifoNext]_(Abstract!fifoState)
  BY FifoStep
<1>2. FifoInv => TakesWhatWasWritten
  BY DEF FifoInv
<1> QED BY <1>1, <1>2, FifoStart, PTL DEF Spec
=============================================================================
