---------------------------- MODULE SequenceFacts ---------------------------
(***************************************************************************)
(* Facts about numbers and sequences that the proofs about PathNorm and    *)
(* ToolResults rest on. None is about the daemon.                          *)
(*                                                                         *)
(* Induction takes the form of a set: whatever holds of the empty          *)
(* sequence, and of s \o <<x>> when it holds of s, is a set that contains  *)
(* every sequence. A recursive function is shown to exist as the limit of  *)
(* the functions on shorter arguments.                                     *)
(***************************************************************************)
EXTENDS Integers, Sequences, SequencesExt, FiniteSetTheorems, FunctionTheorems, WellFoundedInduction,
        SequenceTheorems, TLAPS

-----------------------------------------------------------------------------
(* Induction over numbers.                                                 *)

\* The order of the natural numbers, as a relation.
Smaller == {ss \in Nat \X Nat : ss[1] < ss[2]}

\* A set of natural numbers has a least one.
LEMMA LeastNumber ==
    ASSUME NEW T \in SUBSET Nat, T # {}
    PROVE  \E x \in T : \A y \in T : x <= y
<1>1. IsWellFoundedOn(Smaller, Nat)
  BY NatLessThanWellFounded DEF OpToRel, Smaller
<1>2. PICK x \in T : \A y \in T : ~(<<y, x>> \in Smaller)
  BY <1>1, WFMin
<1>3. ASSUME NEW y \in T PROVE x <= y
  <2>1. <<y, x>> \in Nat \X Nat /\ ~(<<y, x>> \in Smaller)
    BY <1>2
  <2>2. <<y, x>>[1] = y /\ <<y, x>>[2] = x
    OBVIOUS
  <2> QED BY <2>1, <2>2 DEF Smaller
<1> QED BY <1>3

\* Induction: a set that contains 0, and n + 1 whenever it contains n, contains
\* every natural number.
LEMMA UpFromZero ==
    ASSUME NEW T, 0 \in T, \A n \in Nat : n \in T => n + 1 \in T
    PROVE  Nat \subseteq T
<1> SUFFICES ASSUME Nat \ T # {} PROVE FALSE
  OBVIOUS
<1>1. PICK x \in Nat \ T : \A y \in Nat \ T : x <= y
  BY LeastNumber
<1>2. x - 1 \in Nat
  BY <1>1
<1>3. x - 1 \in T
  BY <1>1, <1>2
<1> QED BY <1>1, <1>2, <1>3

\* Induction over the nodes of a tree whose children have greater numbers than
\* their parent: from the children to the node.
LEMMA FromTheLeaves ==
    ASSUME NEW N \in Nat, NEW T,
           \A n \in 0..N : (\A c \in 0..N : c > n => c \in T) => n \in T
    PROVE  0..N \subseteq T
<1> DEFINE U == {N - n : n \in (0..N) \ T}
<1> SUFFICES ASSUME U # {} PROVE FALSE
  OBVIOUS
<1>1. U \in SUBSET Nat
  OBVIOUS
<1> HIDE DEF U
<1>2. PICK x \in U : \A y \in U : x <= y
  BY <1>1, LeastNumber
<1>3. PICK n \in (0..N) \ T : x = N - n
  BY <1>2 DEF U
<1>4. ASSUME NEW c \in 0..N, c > n, c \notin T PROVE FALSE
  <2>1. N - c \in U
    BY <1>4 DEF U
  <2>2. N - n <= N - c
    BY <1>2, <1>3, <2>1
  <2> QED BY <1>3, <1>4, <2>2
<1> QED BY <1>3, <1>4

\* The same in the other direction.
LEMMA FromTheRoot ==
    ASSUME NEW N \in Nat, NEW T,
           \A n \in 0..N : (\A c \in 0..N : c < n => c \in T) => n \in T
    PROVE  0..N \subseteq T
<1> SUFFICES ASSUME (0..N) \ T # {} PROVE FALSE
  OBVIOUS
<1>1. (0..N) \ T \in SUBSET Nat
  OBVIOUS
<1>2. PICK x \in (0..N) \ T : \A y \in (0..N) \ T : x <= y
  BY <1>1, LeastNumber
<1> QED BY <1>2

-----------------------------------------------------------------------------
(* Sequences from their ends.                                              *)

\* Append and Front, Last undo each other.
LEMMA FrontOfAppend ==
    ASSUME NEW S, NEW s \in Seq(S), NEW x \in S
    PROVE  /\ Front(Append(s, x)) = s /\ Last(Append(s, x)) = x
           /\ Append(s, x) # <<>> /\ Append(s, x) \in Seq(S)
           /\ Len(Append(s, x)) = Len(s) + 1
BY AppendProperties, SeqEqual DEF Front, Last

\* A sequence that is not empty is its front and its last element.
LEMMA FrontLast ==
    ASSUME NEW S, NEW s \in Seq(S), s # <<>>
    PROVE  /\ Front(s) \in Seq(S) /\ Last(s) \in S
           /\ Len(Front(s)) = Len(s) - 1
           /\ s = Append(Front(s), Last(s))
<1>1. PICK t \in Seq(S), x \in S : s = Append(t, x)
  BY SequenceEmptyOrAppend
<1>2. Front(s) = t /\ Last(s) = x /\ Len(s) = Len(t) + 1 /\ Len(t) \in Nat
  BY <1>1, FrontOfAppend
<1> QED BY <1>1, <1>2

\* Appending to the second of two sequences is appending to both.
LEMMA ConcatAppend ==
    ASSUME NEW S, NEW a \in Seq(S), NEW b \in Seq(S), NEW x \in S
    PROVE  a \o Append(b, x) = Append(a \o b, x)
<1>1. Append(b, x) = b \o <<x>> /\ <<x>> \in Seq(S)
  BY AppendIsConcat
<1>2. a \o b \in Seq(S)
  BY ConcatProperties
<1>3. Append(a \o b, x) = (a \o b) \o <<x>>
  BY <1>2, AppendIsConcat
<1>4. (a \o b) \o <<x>> = a \o (b \o <<x>>)
  BY <1>1, ConcatAssociative
<1> QED BY <1>1, <1>3, <1>4

\* The front and the last element of two sequences are those of the second.
LEMMA ConcatFront ==
    ASSUME NEW S, NEW a \in Seq(S), NEW b \in Seq(S), b # <<>>
    PROVE  Front(a \o b) = a \o Front(b) /\ Last(a \o b) = Last(b)
<1>1. Front(b) \in Seq(S) /\ Last(b) \in S /\ b = Append(Front(b), Last(b))
  BY FrontLast
<1> DEFINE c == a \o Front(b)
<1>2. c \in Seq(S)
  BY <1>1, ConcatProperties
<1>3. a \o b = Append(c, Last(b))
  <2>1. a \o Append(Front(b), Last(b)) = Append(a \o Front(b), Last(b))
    BY <1>1, ConcatAppend
  <2> QED BY <1>1, <2>1
<1> HIDE DEF c
<1>4. Front(Append(c, Last(b))) = c /\ Last(Append(c, Last(b))) = Last(b)
  BY <1>1, <1>2, FrontOfAppend
<1> QED BY <1>3, <1>4 DEF c

\* The first i elements of a sequence, and what Front and Last make of them.
LEMMA PrefixFacts ==
    ASSUME NEW S, NEW s \in Seq(S), NEW i \in 1..Len(s)
    PROVE  /\ SubSeq(s, 1, i) \in Seq(S) /\ SubSeq(s, 1, i) # <<>>
           /\ Front(SubSeq(s, 1, i)) = SubSeq(s, 1, i - 1)
           /\ Last(SubSeq(s, 1, i)) = s[i]
           /\ SubSeq(s, 1, 0) = <<>> /\ SubSeq(s, 1, Len(s)) = s
<1>1. SubSeq(s, 1, i) \in Seq(S) /\ Len(SubSeq(s, 1, i)) = i
      /\ \A j \in 1..i : SubSeq(s, 1, i)[j] = s[j]
  BY SubSeqProperties, LenProperties
<1>2. SubSeq(SubSeq(s, 1, i), 1, i - 1) = SubSeq(s, 1, i - 1)
  <2>1. CASE i = 1
    BY <2>1, SubSeqEmpty
  <2>2. CASE i # 1
    <3>1. SubSeq(s, 1, i - 1) \in Seq(S) /\ Len(SubSeq(s, 1, i - 1)) = i - 1
          /\ \A j \in 1..(i - 1) : SubSeq(s, 1, i - 1)[j] = s[j]
      BY <2>2, SubSeqProperties, LenProperties
    <3> DEFINE t == SubSeq(s, 1, i)
    <3> HIDE DEF t
    <3>2. t \in Seq(S) /\ Len(t) = i /\ \A j \in 1..i : t[j] = s[j]
      BY <1>1 DEF t
    <3>3. SubSeq(t, 1, i - 1) \in Seq(S) /\ Len(SubSeq(t, 1, i - 1)) = i - 1
          /\ \A j \in 1..(i - 1) : SubSeq(t, 1, i - 1)[j] = t[j]
      BY <2>2, <3>2, SubSeqProperties, LenProperties
    <3>4. SubSeq(t, 1, i - 1) = SubSeq(s, 1, i - 1)
      BY <3>1, <3>2, <3>3, SeqEqual
    <3> QED BY <3>4 DEF t
  <2> QED BY <2>1, <2>2
<1>3. SubSeq(s, 1, 0) = <<>> /\ SubSeq(s, 1, Len(s)) = s
  BY SubSeqEmpty, SubSeqFull
<1> QED BY <1>1, <1>2, <1>3 DEF Front, Last

\* Two sequences that agree up to l have one prefix of length l.
LEMMA PrefixEqual ==
    ASSUME NEW S, NEW s \in Seq(S), NEW t \in Seq(S), NEW l \in Nat, l <= Len(s), l <= Len(t),
           \A k \in 1..l : s[k] = t[k]
    PROVE  SubSeq(s, 1, l) = SubSeq(t, 1, l)
<1>1. Len(s) \in Nat /\ Len(t) \in Nat
  OBVIOUS
<1>2. \A k \in 1..l : k \in 1..Len(s) /\ k \in 1..Len(t)
  BY <1>1
<1>3. /\ SubSeq(s, 1, l) \in Seq(S) /\ Len(SubSeq(s, 1, l)) = l
      /\ \A k \in 1..l : SubSeq(s, 1, l)[k] = s[k]
  <2>1. Len(SubSeq(s, 1, l)) = IF 1 <= l THEN l - 1 + 1 ELSE 0
    BY <1>2, SubSeqProperties
  <2> QED BY <1>2, <2>1, SubSeqProperties
<1>4. /\ SubSeq(t, 1, l) \in Seq(S) /\ Len(SubSeq(t, 1, l)) = l
      /\ \A k \in 1..l : SubSeq(t, 1, l)[k] = t[k]
  <2>1. Len(SubSeq(t, 1, l)) = IF 1 <= l THEN l - 1 + 1 ELSE 0
    BY <1>2, SubSeqProperties
  <2> QED BY <1>2, <2>1, SubSeqProperties
<1> QED BY <1>3, <1>4, SeqEqual

\* An element before a sequence.
LEMMA ConsFacts ==
    ASSUME NEW S, NEW s \in Seq(S), NEW x \in S
    PROVE  /\ <<x>> \o s \in Seq(S) /\ <<x>> \o s # <<>>
           /\ (<<x>> \o s)[1] = x /\ Tail(<<x>> \o s) = s
           /\ Len(<<x>> \o s) = Len(s) + 1
<1> DEFINE c == <<x>> \o s
<1>1. <<x>> \in Seq(S) /\ Len(<<x>>) = 1 /\ Len(s) \in Nat
  OBVIOUS
<1>2. /\ c \in Seq(S) /\ Len(c) = Len(s) + 1
      /\ \A i \in 1..Len(s) + 1 : c[i] = IF i <= 1 THEN <<x>>[1] ELSE s[i - 1]
  <2> HIDE DEF c
  <2>1. c = <<x>> \o s
    BY DEF c
  <2> QED BY <1>1, <2>1, ConcatProperties
<1> HIDE DEF c
<1>3. c # <<>> /\ c[1] = x
  BY <1>1, <1>2
<1>4. Tail(c) \in Seq(S) /\ Len(Tail(c)) = Len(s)
      /\ \A i \in 1..Len(Tail(c)) : Tail(c)[i] = c[i + 1]
  BY <1>1, <1>2, <1>3, HeadTailProperties
<1>5. \A i \in 1..Len(s) : Tail(c)[i] = s[i]
  BY <1>1, <1>2, <1>4
<1>6. Tail(c) = s
  BY <1>4, <1>5, SeqEqual
<1> QED BY <1>2, <1>3, <1>6 DEF c

\* A sequence that is not empty is its first element and its tail.
LEMMA ConsOf ==
    ASSUME NEW S, NEW s \in Seq(S), s # <<>>
    PROVE  /\ s[1] \in S /\ Tail(s) \in Seq(S)
           /\ s = <<s[1]>> \o Tail(s)
<1>1. Len(s) \in Nat \ {0}
  BY EmptySeq
<1>2. s[1] \in S
  BY <1>1, ElementOfSeq
<1>3. Tail(s) \in Seq(S) /\ Len(Tail(s)) = Len(s) - 1
      /\ \A i \in 1..Len(Tail(s)) : Tail(s)[i] = s[i + 1]
  BY HeadTailProperties
<1> DEFINE t == Tail(s)
           c == <<s[1]>> \o t
<1> HIDE DEF t
<1>4. /\ c \in Seq(S) /\ Len(c) = 1 + Len(t)
      /\ \A i \in 1..1 + Len(t) : c[i] = IF i <= 1 THEN <<s[1]>>[1] ELSE t[i - 1]
  <2>1. <<s[1]>> \in Seq(S) /\ Len(<<s[1]>>) = 1 /\ t \in Seq(S)
    BY <1>2, <1>3 DEF t
  <2> HIDE DEF c
  <2>2. c = <<s[1]>> \o t
    BY DEF c
  <2> QED BY <2>1, <2>2, ConcatProperties
<1> HIDE DEF c
<1>5. \A i \in 1..Len(s) : c[i] = s[i]
  BY <1>1, <1>3, <1>4 DEF t
<1>6. c = s
  BY <1>1, <1>3, <1>4, <1>5, SeqEqual DEF t
<1> QED BY <1>2, <1>3, <1>6 DEF c, t

\* Sequences of one and of two elements.
LEMMA TwoOf ==
    ASSUME NEW S, NEW x \in S, NEW y \in S
    PROVE  /\ Append(<<>>, x) = <<x>> /\ Append(<<x>>, y) = <<x, y>> /\ <<x>> \o <<y>> = <<x, y>>
           /\ <<x>> \o <<>> = <<x>> /\ <<>> \o <<x>> = <<x>>
           /\ <<x>> \in Seq(S) /\ <<x, y>> \in Seq(S)
<1>1. <<x>> \in Seq(S) /\ <<y>> \in Seq(S) /\ Len(<<x>>) = 1 /\ <<x>>[1] = x
  OBVIOUS
<1>2. <<x, y>> \in Seq(S) /\ Len(<<x, y>>) = 2 /\ <<x, y>>[1] = x /\ <<x, y>>[2] = y
  OBVIOUS
<1>3. Append(<<x>>, y) \in Seq(S) /\ Len(Append(<<x>>, y)) = 2
      /\ Append(<<x>>, y)[1] = x /\ Append(<<x>>, y)[2] = y
  BY <1>1, AppendProperties
<1>4. Append(<<x>>, y) = <<x, y>>
  <2>1. \A i \in 1..2 : Append(<<x>>, y)[i] = <<x, y>>[i]
    BY <1>2, <1>3
  <2> QED BY <1>2, <1>3, <2>1, SeqEqual
<1>5. Append(<<x>>, y) = <<x>> \o <<y>>
  BY <1>1, AppendIsConcat
<1>6. Append(<<>>, x) = <<x>>
  OBVIOUS
<1>7. <<x>> \o <<>> = <<x>> /\ <<>> \o <<x>> = <<x>>
  BY <1>1, ConcatEmptySeq
<1> QED BY <1>1, <1>2, <1>4, <1>5, <1>6, <1>7

\* A sequence of three elements.
LEMMA ThreeOf ==
    ASSUME NEW S, NEW x \in S, NEW y \in S, NEW z \in S
    PROVE  /\ Append(<<x, y>>, z) = <<x, y, z>>
           /\ <<x, y>> \in Seq(S) /\ <<x, y, z>> \in Seq(S)
<1>1. <<x, y>> \in Seq(S) /\ Len(<<x, y>>) = 2 /\ <<x, y>>[1] = x /\ <<x, y>>[2] = y
  OBVIOUS
<1>2. <<x, y, z>> \in Seq(S) /\ Len(<<x, y, z>>) = 3
      /\ <<x, y, z>>[1] = x /\ <<x, y, z>>[2] = y /\ <<x, y, z>>[3] = z
  OBVIOUS
<1>3. /\ Append(<<x, y>>, z) \in Seq(S) /\ Len(Append(<<x, y>>, z)) = 3
      /\ Append(<<x, y>>, z)[1] = x /\ Append(<<x, y>>, z)[2] = y
      /\ Append(<<x, y>>, z)[3] = z
  BY <1>1, AppendProperties
<1>4. \A i \in 1..3 : Append(<<x, y>>, z)[i] = <<x, y, z>>[i]
  BY <1>2, <1>3
<1>5. Append(<<x, y>>, z) = <<x, y, z>>
  BY <1>2, <1>3, <1>4, SeqEqual
<1> QED BY <1>1, <1>2, <1>5

\* Sequences of four and of five elements, as the prefixes of paths are.
LEMMA FourOf ==
    ASSUME NEW S, NEW x \in S, NEW y \in S, NEW z \in S, NEW w \in S, NEW s \in Seq(S)
    PROVE  /\ <<x, y, z, w>> \in Seq(S)
           /\ <<x, y, z, w>> = Append(<<x, y>>, z) \o <<w>>
           /\ <<x, y, z, w>> \o (<<x>> \o s) = <<x, y, z, w, x>> \o s
           /\ <<x, y, z, w, x>> = Append(<<x, y, z, w>>, x)
<1>1. <<x, y, z, w>> \in Seq(S) /\ <<x, y, z, w, x>> \in Seq(S) /\ <<x>> \in Seq(S) /\ <<w>> \in Seq(S)
      /\ Append(<<x, y>>, z) \in Seq(S)
  OBVIOUS
<1>2. <<x, y, z, w>> = Append(<<x, y>>, z) \o <<w>>
  OBVIOUS
<1>3. <<x, y, z, w, x>> = Append(<<x, y, z, w>>, x)
  OBVIOUS
<1>4. Append(<<x, y, z, w>>, x) = <<x, y, z, w>> \o <<x>>
  BY <1>1, AppendIsConcat
<1>5. (<<x, y, z, w>> \o <<x>>) \o s = <<x, y, z, w>> \o (<<x>> \o s)
  BY <1>1, ConcatAssociative
<1> QED BY <1>1, <1>2, <1>3, <1>4, <1>5

\* A sequence is over any set that has its elements.
LEMMA SeqOver ==
    ASSUME NEW S, NEW s \in Seq(S), NEW T, \A i \in 1..Len(s) : s[i] \in T
    PROVE  s \in Seq(T)
<1>1. SubSeq(s, 1, Len(s)) \in Seq(T)
  BY SubSeqProperties
<1> QED BY <1>1, SubSeqFull

\* Two elements before a sequence, as the drive and its separator.
LEMMA TwoBefore ==
    ASSUME NEW S, NEW t \in Seq(S), NEW x \in S, NEW y \in S
    PROVE  LET win == <<x>> \o (<<y>> \o t)
           IN  /\ win \in Seq(S) /\ Len(win) = Len(t) + 2 /\ Len(t) \in Nat
               /\ win[1] = x /\ win[2] = y /\ SubSeq(win, 3, Len(win)) = t
<1> DEFINE win == <<x>> \o (<<y>> \o t)
<1> DEFINE c == <<y>> \o t
<1>1. c \in Seq(S) /\ c # <<>> /\ c[1] = y /\ Tail(c) = t /\ Len(c) = Len(t) + 1
  BY ConsFacts
<1> HIDE DEF c, win
<1>2. win = <<x>> \o c
  BY DEF win, c
<1>3. win \in Seq(S) /\ win # <<>> /\ win[1] = x /\ Tail(win) = c /\ Len(win) = Len(c) + 1
  BY <1>1, <1>2, ConsFacts
<1>4. Len(t) \in Nat
  OBVIOUS
<1>5. \A i \in 1..Len(t) : t[i] = c[i + 1]
  BY <1>1, HeadTailProperties
<1>6. \A i \in 1..Len(c) : c[i] = win[i + 1]
  BY <1>3, HeadTailProperties
<1>7. win[2] = y
  <2>1. 1 \in 1..Len(c)
    BY <1>1, <1>4
  <2>2. c[1] = win[1 + 1]
    BY <1>6, <2>1
  <2> QED BY <1>1, <2>2
<1>8. SubSeq(win, 3, Len(win)) = t
  <2> DEFINE n == Len(win)
             u == SubSeq(win, 3, n)
  <2>1. n \in Int /\ n = Len(t) + 2 /\ \A i \in 3..n : win[i] \in S
    <3>1. n = Len(t) + 2
      BY <1>1, <1>3, <1>4
    <3>2. \A i \in 1..n : win[i] \in S
      BY <1>3, ElementOfSeq
    <3> QED BY <1>4, <3>1, <3>2
  <2> HIDE DEF n
  <2>2. /\ u \in Seq(S) /\ Len(u) = IF 3 <= n THEN n - 3 + 1 ELSE 0
        /\ \A i \in 1..n - 3 + 1 : u[i] = win[3 + i - 1]
    BY <2>1, SubSeqProperties
  <2> HIDE DEF u
  <2>3. Len(u) = Len(t)
    BY <1>4, <2>1, <2>2
  <2>4. ASSUME NEW i \in 1..Len(t) PROVE u[i] = t[i]
    <3>1. i \in 1..n - 3 + 1 /\ 3 + i - 1 = (i + 1) + 1 /\ i + 1 \in 1..Len(c)
      BY <1>1, <1>4, <2>1
    <3> QED BY <1>5, <1>6, <2>2, <3>1
  <2>5. u = t
    BY <2>2, <2>3, <2>4, SeqEqual
  <2> QED BY <2>5 DEF u, n
<1>9. Len(win) = Len(t) + 2
  BY <1>1, <1>3, <1>4
<1> QED BY <1>3, <1>4, <1>7, <1>8, <1>9 DEF win

\* An element between two sequences belongs to either.
LEMMA AppendConcat ==
    ASSUME NEW S, NEW t \in Seq(S), NEW v \in S, NEW u \in Seq(S)
    PROVE  Append(t, v) \o u = t \o (<<v>> \o u) /\ <<v>> \o u \in Seq(S)
<1>1. <<v>> \in Seq(S) /\ Append(t, v) = t \o <<v>>
  BY AppendIsConcat
<1>2. (t \o <<v>>) \o u = t \o (<<v>> \o u)
  BY <1>1, ConcatAssociative
<1>3. <<v>> \o u \in Seq(S)
  BY ConsFacts
<1> QED BY <1>1, <1>2, <1>3

\* The elements of two sequences, by their place.
LEMMA ConcatIndex ==
    ASSUME NEW S, NEW a \in Seq(S), NEW b \in Seq(S)
    PROVE  /\ a \o b \in Seq(S) /\ Len(a \o b) = Len(a) + Len(b)
           /\ Len(a) \in Nat /\ Len(b) \in Nat
           /\ \A i \in 1..Len(a) : (a \o b)[i] = a[i]
           /\ \A i \in 1..Len(b) : (a \o b)[Len(a) + i] = b[i]
<1>1. Len(a) \in Nat /\ Len(b) \in Nat
  OBVIOUS
<1>2. /\ a \o b \in Seq(S) /\ Len(a \o b) = Len(a) + Len(b)
      /\ \A i \in 1..(Len(a) + Len(b)) :
            (a \o b)[i] = IF i <= Len(a) THEN a[i] ELSE b[i - Len(a)]
  BY ConcatProperties
<1>3. \A i \in 1..Len(a) : i \in 1..(Len(a) + Len(b)) /\ i <= Len(a)
  BY <1>1
<1>4. \A i \in 1..Len(b) : /\ Len(a) + i \in 1..(Len(a) + Len(b))
                           /\ ~(Len(a) + i <= Len(a)) /\ (Len(a) + i) - Len(a) = i
  BY <1>1
<1> QED BY <1>1, <1>2, <1>3, <1>4

\* A list cut at a cap, as GetOutline and the lookups cut theirs: it is a
\* prefix, and it is shorter than the list exactly if the list was longer than
\* the cap.
LEMMA CappedFacts ==
    ASSUME NEW V, NEW list \in Seq(V), NEW cap \in Nat
    PROVE  LET capped == IF Len(list) > cap THEN SubSeq(list, 1, cap) ELSE list
           IN  /\ capped \in Seq(V)
               /\ Len(capped) = IF Len(list) > cap THEN cap ELSE Len(list)
               /\ \A j \in 1..Len(capped) : j \in 1..Len(list) /\ capped[j] = list[j]
               /\ Len(list) > Len(capped) <=> Len(list) > cap
<1>0. Len(list) \in Nat
  OBVIOUS
<1>1. CASE Len(list) > cap
  <2> DEFINE c == SubSeq(list, 1, cap)
  <2>1. c \in Seq(V) /\ Len(c) = cap /\ \A j \in 1..cap : c[j] = list[j]
    <3>1. \A j \in 1..cap : j \in 1..Len(list)
      BY <1>0, <1>1
    <3>2. Len(c) = IF 1 <= cap THEN cap - 1 + 1 ELSE 0
      BY <3>1, SubSeqProperties
    <3> QED BY <3>1, <3>2, SubSeqProperties
  <2> HIDE DEF c
  <2> QED BY <1>0, <1>1, <2>1 DEF c
<1>2. CASE ~(Len(list) > cap)
  BY <1>0, <1>2
<1> QED BY <1>1, <1>2

-----------------------------------------------------------------------------
(* Induction and recursion over sequences.                                 *)

\* Induction: a set with the empty sequence, and with Append(s, x) whenever it
\* has s, has every sequence.
LEMMA SeqInduction ==
    ASSUME NEW S, NEW T, <<>> \in T,
           \A s \in Seq(S), x \in S : s \in T => Append(s, x) \in T
    PROVE  Seq(S) \subseteq T
<1> DEFINE N == {n \in Nat : \A s \in Seq(S) : Len(s) = n => s \in T}
<1>1. 0 \in N
  BY EmptySeq
<1>2. ASSUME NEW n \in Nat, n \in N PROVE n + 1 \in N
  <2> SUFFICES ASSUME NEW s \in Seq(S), Len(s) = n + 1 PROVE s \in T
    OBVIOUS
  <2>1. s # <<>>
    OBVIOUS
  <2>2. Front(s) \in Seq(S) /\ Last(s) \in S /\ Len(Front(s)) = n
        /\ s = Append(Front(s), Last(s))
    BY <2>1, FrontLast
  <2> QED BY <1>2, <2>2
<1> HIDE DEF N
<1>3. Nat \subseteq N
  BY <1>1, <1>2, UpFromZero
<1> QED BY <1>3 DEF N

\* f is computed from the front of its argument and the last element.
Computes(f, D, base, step) ==
    f = [s \in D |-> IF s = <<>> THEN base ELSE step[<<f[Front(s)], Last(s)>>]]

\* The sequences of at most n elements.
Upto(S, n) == {s \in Seq(S) : Len(s) <= n}

\* The function that a base and a step describe exists.
LEMMA SeqRecursion ==
    ASSUME NEW S, NEW R, NEW base \in R, NEW step \in [R \X S -> R]
    PROVE  \E f \in [Seq(S) -> R] : Computes(f, Seq(S), base, step)
<1> DEFINE Good(f, n) == f \in [Upto(S, n) -> R] /\ Computes(f, Upto(S, n), base, step)
<1>1. ASSUME NEW n \in Nat, NEW f, Good(f, n), NEW m \in Nat, NEW g, Good(g, m), n <= m
      PROVE  \A s \in Upto(S, n) : f[s] = g[s]
  <2> DEFINE T == {s \in Seq(S) : Len(s) <= n => f[s] = g[s]}
  <2>1. <<>> \in T
    <3>1. <<>> \in Upto(S, n) /\ <<>> \in Upto(S, m)
      BY EmptySeq DEF Upto
    <3> QED BY <1>1, <3>1, EmptySeq DEF Computes
  <2>2. ASSUME NEW s \in Seq(S), NEW x \in S, s \in T PROVE Append(s, x) \in T
    <3> DEFINE sx == Append(s, x)
    <3> HIDE DEF sx
    <3>1. sx \in Seq(S) /\ sx # <<>> /\ Front(sx) = s /\ Last(sx) = x /\ Len(sx) = Len(s) + 1
      BY FrontOfAppend DEF sx
    <3> SUFFICES ASSUME Len(sx) <= n PROVE f[sx] = g[sx]
      BY <3>1 DEF sx
    <3>2. sx \in Upto(S, n) /\ sx \in Upto(S, m) /\ Len(s) <= n
      BY <3>1, <1>1 DEF Upto
    <3>3. f[s] = g[s]
      BY <3>2, <2>2
    <3>4. f[sx] = step[<<f[s], x>>]
      BY <3>1, <3>2, <1>1 DEF Computes
    <3>5. g[sx] = step[<<g[s], x>>]
      BY <3>1, <3>2, <1>1 DEF Computes
    <3> QED BY <3>3, <3>4, <3>5
  <2> HIDE DEF T
  <2>3. Seq(S) \subseteq T
    BY <2>1, <2>2, SeqInduction
  <2> QED BY <2>3 DEF T, Upto
<1> DEFINE N == {n \in Nat : \E f : Good(f, n)}
<1>2. 0 \in N
  <2> DEFINE f == [s \in Upto(S, 0) |-> base]
  <2>1. \A s \in Upto(S, 0) : s = <<>>
    BY EmptySeq DEF Upto
  <2>2. Good(f, 0)
    BY <2>1 DEF Computes
  <2> QED BY <2>2
<1>3. ASSUME NEW n \in Nat, n \in N PROVE n + 1 \in N
  <2>1. PICK f : Good(f, n)
    BY <1>3
  <2> DEFINE g == [s \in Upto(S, n + 1) |->
                     IF s = <<>> THEN base ELSE step[<<f[Front(s)], Last(s)>>]]
  <2>2. ASSUME NEW s \in Upto(S, n + 1), s # <<>>
        PROVE  Front(s) \in Upto(S, n) /\ Front(s) \in Upto(S, n + 1) /\ Last(s) \in S
    BY <2>2, FrontLast DEF Upto
  <2>3. \A s \in Upto(S, n) : s \in Upto(S, n + 1) /\ g[s] = f[s]
    <3> SUFFICES ASSUME NEW s \in Upto(S, n)
                 PROVE  s \in Upto(S, n + 1) /\ g[s] = f[s]
      OBVIOUS
    <3>1. s \in Upto(S, n + 1)
      BY DEF Upto
    <3>2. f[s] = IF s = <<>> THEN base ELSE step[<<f[Front(s)], Last(s)>>]
      BY <2>1 DEF Computes
    <3> QED BY <3>1, <3>2
  <2>4. g \in [Upto(S, n + 1) -> R]
    <3> SUFFICES ASSUME NEW s \in Upto(S, n + 1), s # <<>>
                 PROVE step[<<f[Front(s)], Last(s)>>] \in R
      OBVIOUS
    <3>1. f[Front(s)] \in R
      BY <2>1, <2>2
    <3> QED BY <3>1, <2>2
  <2>5. Computes(g, Upto(S, n + 1), base, step)
    <3>1. \A s \in Upto(S, n + 1) : s # <<>> => g[Front(s)] = f[Front(s)]
      BY <2>2, <2>3
    <3> QED BY <3>1 DEF Computes
  <2>6. Good(g, n + 1)
    BY <2>4, <2>5
  <2> HIDE DEF Good, g
  <2> QED BY <2>6
<1> HIDE DEF N, Good
<1>4. Nat \subseteq N
  BY <1>2, <1>3, UpFromZero
<1> DEFINE at(n) == CHOOSE f : Good(f, n)
           f == [s \in Seq(S) |-> at(Len(s))[s]]
<1>5. \A n \in Nat : Good(at(n), n)
  BY <1>4 DEF N
<1> HIDE DEF at
<1>6. \A s \in Seq(S) : s \in Upto(S, Len(s)) /\ Len(s) \in Nat
  BY DEF Upto
<1>7. f \in [Seq(S) -> R]
  BY <1>5, <1>6 DEF Good
<1>8. ASSUME NEW s \in Seq(S)
      PROVE f[s] = IF s = <<>> THEN base ELSE step[<<f[Front(s)], Last(s)>>]
  <2>1. f[s] = IF s = <<>> THEN base ELSE step[<<at(Len(s))[Front(s)], Last(s)>>]
    BY <1>5, <1>6 DEF Good, Computes
  <2>2. ASSUME s # <<>> PROVE at(Len(s))[Front(s)] = f[Front(s)]
    <3>1. Front(s) \in Seq(S) /\ Len(Front(s)) \in Nat /\ Len(s) \in Nat /\ Len(Front(s)) <= Len(s)
      <4>1. Front(s) \in Seq(S) /\ Len(Front(s)) = Len(s) - 1
        BY <2>2, FrontLast
      <4> QED BY <4>1
    <3>2. Front(s) \in Upto(S, Len(Front(s)))
      BY <3>1, <1>6
    <3>3. at(Len(Front(s)))[Front(s)] = at(Len(s))[Front(s)]
      BY <1>1, <1>5, <3>1, <3>2
    <3> QED BY <3>1, <3>3
  <2> QED BY <2>1, <2>2
<1>9. Computes(f, Seq(S), base, step)
  BY <1>7, <1>8 DEF Computes
<1> QED BY <1>7, <1>9

\* f is computed from what it is one place earlier.
Iterates(f, n, base, step) ==
    f = [i \in 0..n |-> IF i = 0 THEN base ELSE step[<<f[i - 1], i>>]]

\* The function that a base and a step describe exists.
LEMMA NatRecursion ==
    ASSUME NEW R, NEW base \in R, NEW n \in Nat, NEW step \in [R \X (1..n) -> R]
    PROVE  \E f \in [0..n -> R] : Iterates(f, n, base, step)
<1> DEFINE Good(f, m) == /\ f \in [0..m -> R]
                         /\ \A i \in 0..m : f[i] = IF i = 0 THEN base ELSE step[<<f[i - 1], i>>]
           N == {m \in Nat : m <= n => \E f : Good(f, m)}
<1>1. 0 \in N
  <2> DEFINE f == [i \in 0..0 |-> base]
  <2>1. f \in [0..0 -> R] /\ \A i \in 0..0 : i = 0 /\ f[i] = base
    OBVIOUS
  <2>2. Good(f, 0)
    BY <2>1
  <2> QED BY <2>2
<1>2. ASSUME NEW m \in Nat, m \in N PROVE m + 1 \in N
  <2> SUFFICES ASSUME m + 1 <= n PROVE \E f : Good(f, m + 1)
    OBVIOUS
  <2>1. PICK f : Good(f, m)
    BY <1>2
  <2> DEFINE g == [i \in 0..(m + 1) |-> IF i = m + 1 THEN step[<<f[m], m + 1>>] ELSE f[i]]
  <2>2. f[m] \in R /\ m + 1 \in 1..n /\ (m + 1) - 1 = m
    BY <2>1
  <2>3. step[<<f[m], m + 1>>] \in R
    BY <2>2
  <2>4. g \in [0..(m + 1) -> R]
    <3>1. \A i \in 0..(m + 1) : i # m + 1 => i \in 0..m
      OBVIOUS
    <3> QED BY <2>1, <2>3, <3>1
  <2>5. ASSUME NEW i \in 0..(m + 1)
        PROVE  g[i] = IF i = 0 THEN base ELSE step[<<g[i - 1], i>>]
    <3>1. CASE i = m + 1
      <4>1. g[m] = f[m]
        OBVIOUS
      <4>2. i # 0 /\ i - 1 = m
        BY <3>1
      <4> QED BY <3>1, <4>1, <4>2
    <3>2. CASE i # m + 1
      <4>1. i \in 0..m /\ (i # 0 => i - 1 \in 0..(m + 1) /\ i - 1 # m + 1)
        BY <3>2
      <4>2. i # 0 => g[i - 1] = f[i - 1]
        BY <4>1
      <4>3. g[i] = f[i]
        BY <3>2
      <4> QED BY <2>1, <4>1, <4>2, <4>3
    <3> QED BY <3>1, <3>2
  <2>6. Good(g, m + 1)
    BY <2>4, <2>5
  <2> HIDE DEF Good, g
  <2> QED BY <2>6
<1> HIDE DEF N
<1>3. n \in N
  BY <1>1, <1>2, UpFromZero
<1>4. PICK f : Good(f, n)
  BY <1>3 DEF N
<1> QED BY <1>4 DEF Iterates

-----------------------------------------------------------------------------
(* Sequences of sequences, one after the other.                            *)

\* Concatenation, as a step.
Joined(S) == [p \in Seq(S) \X Seq(S) |-> p[1] \o p[2]]

\* FlattenSeq, which the library defines by a fold, is the function computed by
\* concatenation.
LEMMA FlattenFold ==
    ASSUME NEW S, NEW F \in [Seq(Seq(S)) -> Seq(S)],
           Computes(F, Seq(Seq(S)), <<>>, Joined(S)), NEW seqs \in Seq(Seq(S))
    PROVE  FlattenSeq(seqs) = F[seqs]
<1>1. CASE Len(seqs) = 0
  <2>1. seqs = <<>>
    BY <1>1, EmptySeq
  <2>2. F[<<>>] = <<>>
    BY EmptySeq DEF Computes
  <2> QED BY <1>1, <2>1, <2>2 DEF FlattenSeq
<1>2. CASE Len(seqs) # 0
  <2> DEFINE n == Len(seqs)
             Eq(g) == g = [i \in 1..n |-> IF i = 1 THEN seqs[i] ELSE g[i - 1] \o seqs[i]]
             g0 == [i \in 1..n |-> F[SubSeq(seqs, 1, i)]]
  <2>1. n \in Nat \ {0}
    BY <1>2
  <2>2. ASSUME NEW i \in 1..n
        PROVE  F[SubSeq(seqs, 1, i)] = IF i = 1 THEN seqs[i] ELSE F[SubSeq(seqs, 1, i - 1)] \o seqs[i]
    <3>0. /\ SubSeq(seqs, 1, i) \in Seq(Seq(S)) /\ SubSeq(seqs, 1, i) # <<>>
          /\ Front(SubSeq(seqs, 1, i)) = SubSeq(seqs, 1, i - 1)
          /\ Last(SubSeq(seqs, 1, i)) = seqs[i]
      <4> DEFINE T == Seq(S)
      <4> HIDE DEF T
      <4>1. seqs \in Seq(T) /\ i \in 1..Len(seqs)
        BY DEF T
      <4>2. /\ SubSeq(seqs, 1, i) \in Seq(T) /\ SubSeq(seqs, 1, i) # <<>>
            /\ Front(SubSeq(seqs, 1, i)) = SubSeq(seqs, 1, i - 1)
            /\ Last(SubSeq(seqs, 1, i)) = seqs[i]
        BY <4>1, PrefixFacts
      <4> QED BY <4>2 DEF T
    <3>9. SubSeq(seqs, 1, 0) = <<>>
      BY SubSeqEmpty
    <3>1. F[SubSeq(seqs, 1, i)] = Joined(S)[<<F[SubSeq(seqs, 1, i - 1)], seqs[i]>>]
      BY <3>0 DEF Computes
    <3>2. SubSeq(seqs, 1, i - 1) \in Seq(Seq(S))
      <4>1. i = 1 \/ i - 1 \in 1..Len(seqs)
        OBVIOUS
      <4> QED BY <4>1, PrefixFacts, EmptySeq
    <3>3. F[SubSeq(seqs, 1, i - 1)] \in Seq(S) /\ seqs[i] \in Seq(S)
      BY <3>2, ElementOfSeq
    <3>4. F[SubSeq(seqs, 1, i)] = F[SubSeq(seqs, 1, i - 1)] \o seqs[i]
      BY <3>1, <3>3 DEF Joined
    <3>5. F[<<>>] = <<>>
      BY EmptySeq DEF Computes
    <3>6. i = 1 => F[SubSeq(seqs, 1, i - 1)] = <<>>
      <4>1. SUFFICES ASSUME i = 1 PROVE F[SubSeq(seqs, 1, i - 1)] = <<>>
        OBVIOUS
      <4>2. i - 1 = 0
        BY <4>1
      <4> QED BY <4>2, <3>5, <3>9
    <3> QED BY <3>3, <3>4, <3>6, ConcatEmptySeq
  <2>3. Eq(g0)
    <3>1. \A i \in 1..n : i # 1 => i - 1 \in 1..n
      BY <2>1
    <3> QED BY <2>2, <3>1
  <2> DEFINE flatten == CHOOSE g : Eq(g)
  <2> HIDE DEF g0
  <2>4. Eq(flatten)
    BY <2>3
  <2>5. FlattenSeq(seqs) = flatten[n]
    BY <1>2 DEF FlattenSeq
  <2> HIDE DEF flatten
  <2> DEFINE N == {i \in Nat : i + 1 \in 1..n => flatten[i + 1] = F[SubSeq(seqs, 1, i + 1)]}
  <2>6. 0 \in N
    <3>1. 1 \in 1..n
      BY <2>1
    <3> QED BY <2>2, <2>4, <3>1
  <2>7. ASSUME NEW i \in Nat, i \in N PROVE i + 1 \in N
    <3> SUFFICES ASSUME (i + 1) + 1 \in 1..n
                 PROVE  flatten[(i + 1) + 1] = F[SubSeq(seqs, 1, (i + 1) + 1)]
      OBVIOUS
    <3>1. i + 1 \in 1..n /\ ((i + 1) + 1) - 1 = i + 1 /\ (i + 1) + 1 # 1
      BY <2>1
    <3>2. flatten[(i + 1) + 1] = flatten[i + 1] \o seqs[(i + 1) + 1]
      BY <2>4, <3>1
    <3>3. F[SubSeq(seqs, 1, (i + 1) + 1)] = F[SubSeq(seqs, 1, i + 1)] \o seqs[(i + 1) + 1]
      BY <2>2, <3>1
    <3> QED BY <2>7, <3>1, <3>2, <3>3
  <2> HIDE DEF N
  <2>8. Nat \subseteq N
    BY <2>6, <2>7, UpFromZero
  <2>9. n - 1 \in N
    BY <2>1, <2>8
  <2>10. flatten[n] = F[SubSeq(seqs, 1, n)]
    <3>1. (n - 1) + 1 = n /\ n \in 1..n
      BY <2>1
    <3> QED BY <2>9, <3>1 DEF N
  <2>11. SubSeq(seqs, 1, n) = seqs
    BY SubSeqFull
  <2> QED BY <2>5, <2>10, <2>11
<1> QED BY <1>1, <1>2

\* What FlattenSeq makes of no sequences, and of one more.
LEMMA FlattenFacts ==
    ASSUME NEW S, NEW seqs \in Seq(Seq(S)), NEW s \in Seq(S)
    PROVE  /\ FlattenSeq(<<>>) = <<>>
           /\ FlattenSeq(seqs) \in Seq(S)
           /\ FlattenSeq(Append(seqs, s)) = FlattenSeq(seqs) \o s
<1>1. Joined(S) \in [Seq(S) \X Seq(S) -> Seq(S)] /\ <<>> \in Seq(S)
  BY ConcatProperties, EmptySeq DEF Joined
<1>2. PICK F \in [Seq(Seq(S)) -> Seq(S)] : Computes(F, Seq(Seq(S)), <<>>, Joined(S))
  BY <1>1, SeqRecursion
<1>3. \A t \in Seq(Seq(S)) : FlattenSeq(t) = F[t]
  BY <1>2, FlattenFold
<1>4. F[<<>>] = <<>>
  BY <1>2, EmptySeq DEF Computes
<1>5. F[Append(seqs, s)] = Joined(S)[<<F[seqs], s>>]
  BY <1>2, FrontOfAppend DEF Computes
<1>6. F[seqs] \in Seq(S)
  BY <1>2
<1>7. F[Append(seqs, s)] = F[seqs] \o s
  BY <1>5, <1>6 DEF Joined
<1> QED BY <1>3, <1>4, <1>6, <1>7, FrontOfAppend, EmptySeq

\* What is closed under concatenation has all flattened sequences of its
\* members.
LEMMA FlattenClosed ==
    ASSUME NEW S, NEW F \in SUBSET Seq(S), <<>> \in F,
           \A a, b \in F : a \o b \in F,
           NEW rows \in Seq(F)
    PROVE  FlattenSeq(rows) \in F
<1> DEFINE T == {r \in Seq(F) : FlattenSeq(r) \in F}
           W == Seq(S)
<1>1. <<>> \in T
  <2>1. FlattenSeq(<<>>) = <<>> /\ <<>> \in Seq(F)
    BY FlattenFacts, EmptySeq
  <2> QED BY <2>1
<1>2. ASSUME NEW r \in Seq(F), NEW x \in F, r \in T PROVE Append(r, x) \in T
  <2>1. F \subseteq W
    OBVIOUS
  <2> HIDE DEF W
  <2>2. r \in Seq(W) /\ x \in W
    BY <2>1, SeqMonotonic
  <2>3. r \in Seq(Seq(S)) /\ x \in Seq(S)
    BY <2>2 DEF W
  <2>4. FlattenSeq(Append(r, x)) = FlattenSeq(r) \o x
    BY <2>3, FlattenFacts
  <2>5. FlattenSeq(r) \o x \in F
    BY <1>2
  <2>6. Append(r, x) \in Seq(F)
    BY AppendProperties
  <2> QED BY <2>4, <2>5, <2>6
<1> HIDE DEF T
<1>3. Seq(F) \subseteq T
  BY <1>1, <1>2, SeqInduction
<1> QED BY <1>3 DEF T

\* The elements of two sequences, as a set.
LEMMA MembersConcat ==
    ASSUME NEW S, NEW a \in Seq(S), NEW b \in Seq(S)
    PROVE  ToSet(a \o b) = ToSet(a) \cup ToSet(b)
<1> DEFINE c == a \o b
<1>1. /\ c \in Seq(S) /\ Len(c) = Len(a) + Len(b) /\ Len(a) \in Nat /\ Len(b) \in Nat
      /\ \A i \in 1..Len(a) : c[i] = a[i]
      /\ \A i \in 1..Len(b) : c[Len(a) + i] = b[i]
  BY ConcatIndex
<1>2. DOMAIN a = 1..Len(a) /\ DOMAIN b = 1..Len(b) /\ DOMAIN c = 1..Len(c)
  BY <1>1
<1> HIDE DEF c
<1>3. ASSUME NEW i \in 1..Len(c) PROVE c[i] \in ToSet(a) \cup ToSet(b)
  <2>1. CASE i \in 1..Len(a)
    BY <1>1, <1>2, <2>1 DEF ToSet
  <2>2. CASE i \notin 1..Len(a)
    <3>1. i - Len(a) \in 1..Len(b) /\ Len(a) + (i - Len(a)) = i
      BY <1>1, <2>2
    <3>2. c[Len(a) + (i - Len(a))] = b[i - Len(a)]
      BY <1>1, <3>1
    <3> QED BY <1>2, <3>1, <3>2 DEF ToSet
  <2> QED BY <2>1, <2>2
<1>4. ASSUME NEW i \in 1..Len(a) PROVE a[i] \in ToSet(c)
  <2>1. i \in 1..Len(c) /\ c[i] = a[i]
    BY <1>1
  <2> QED BY <1>2, <2>1 DEF ToSet
<1>5. ASSUME NEW i \in 1..Len(b) PROVE b[i] \in ToSet(c)
  <2>1. Len(a) + i \in 1..Len(c) /\ c[Len(a) + i] = b[i]
    BY <1>1
  <2> QED BY <1>2, <2>1 DEF ToSet
<1>6. ToSet(c) \subseteq ToSet(a) \cup ToSet(b)
  BY <1>2, <1>3 DEF ToSet
<1>7. ToSet(a) \subseteq ToSet(c) /\ ToSet(b) \subseteq ToSet(c)
  BY <1>2, <1>4, <1>5 DEF ToSet
<1> QED BY <1>6, <1>7 DEF c

\* The elements of the rows are those of the flattened sequence.
LEMMA FlattenMembers ==
    ASSUME NEW S, NEW rows \in Seq(Seq(S)), NEW x
    PROVE  x \in ToSet(FlattenSeq(rows)) <=> \E i \in 1..Len(rows) : x \in ToSet(rows[i])
<1> DEFINE W == Seq(S)
           P(r) == x \in ToSet(FlattenSeq(r)) <=> \E i \in 1..Len(r) : x \in ToSet(r[i])
           T == {r \in Seq(W) : P(r)}
<1>1. <<>> \in T
  <2>1. FlattenSeq(<<>>) = <<>> /\ <<>> \in Seq(W)
    BY FlattenFacts, EmptySeq
  <2>2. ToSet(<<>>) = {} /\ \A i \in 1..Len(<<>>) : FALSE
    BY DEF ToSet
  <2>3. P(<<>>)
    BY <2>1, <2>2
  <2> HIDE DEF P
  <2> QED BY <2>1, <2>3
<1>2. ASSUME NEW r \in Seq(W), NEW s \in W, r \in T PROVE Append(r, s) \in T
  <2> DEFINE rs == Append(r, s)
  <2>1. FlattenSeq(rs) = FlattenSeq(r) \o s /\ FlattenSeq(r) \in Seq(S)
    BY FlattenFacts
  <2>2. ToSet(FlattenSeq(r) \o s) = ToSet(FlattenSeq(r)) \cup ToSet(s)
    <3> DEFINE f == FlattenSeq(r)
    <3>1. f \in Seq(S) /\ s \in Seq(S)
      BY <2>1
    <3> HIDE DEF f
    <3>2. ToSet(f \o s) = ToSet(f) \cup ToSet(s)
      BY <3>1, MembersConcat
    <3> QED BY <3>2 DEF f
  <2> HIDE DEF W
  <2>3. rs \in Seq(W) /\ Len(rs) = Len(r) + 1 /\ rs[Len(r) + 1] = s
        /\ \A i \in 1..Len(r) : rs[i] = r[i]
    BY AppendProperties
  <2>4. Len(r) \in Nat
    OBVIOUS
  <2> HIDE DEF rs
  <2>5. P(r)
    BY <1>2
  <2>6. (\E i \in 1..Len(rs) : x \in ToSet(rs[i])) <=> (\E i \in 1..Len(r) : x \in ToSet(r[i])) \/ x \in ToSet(s)
    <3>1. \A i : i \in 1..Len(rs) <=> i \in 1..Len(r) \/ i = Len(r) + 1
      BY <2>3, <2>4
    <3> QED BY <2>3, <3>1
  <2>7. P(rs)
    BY <2>1, <2>2, <2>5, <2>6
  <2> HIDE DEF P
  <2> QED BY <2>3, <2>7 DEF rs
<1> HIDE DEF T
<1>3. Seq(W) \subseteq T
  <2> HIDE DEF W
  <2> QED BY <1>1, <1>2, SeqInduction
<1> QED BY <1>3 DEF T

-----------------------------------------------------------------------------
(* Order and counting.                                                     *)

\* Every two elements of s are related, the earlier to the later.
Sorted(R, s) == \A i, j \in 1..Len(s) : i < j => <<s[i], s[j]>> \in R

\* Every row is sorted, and the elements of an earlier row come before those of
\* a later one.
Ascending(R, rows) ==
    /\ \A i \in 1..Len(rows) : Sorted(R, rows[i])
    /\ \A i, j \in 1..Len(rows) :
          i < j => \A x \in ToSet(rows[i]), y \in ToSet(rows[j]) : <<x, y>> \in R

\* Two sorted sequences, the first before the second, are sorted.
LEMMA SortedConcat ==
    ASSUME NEW S, NEW R, NEW a \in Seq(S), NEW b \in Seq(S), Sorted(R, a), Sorted(R, b),
           \A x \in ToSet(a), y \in ToSet(b) : <<x, y>> \in R
    PROVE  Sorted(R, a \o b)
<1> DEFINE c == a \o b
<1>1. /\ c \in Seq(S) /\ Len(c) = Len(a) + Len(b) /\ Len(a) \in Nat /\ Len(b) \in Nat
      /\ \A i \in 1..Len(a) : c[i] = a[i]
      /\ \A i \in 1..Len(b) : c[Len(a) + i] = b[i]
  BY ConcatIndex
<1>2. \A i \in 1..Len(a) : a[i] \in ToSet(a)
  BY DEF ToSet
<1>3. \A i \in 1..Len(b) : b[i] \in ToSet(b)
  BY DEF ToSet
<1> HIDE DEF c
<1>4. ASSUME NEW i \in 1..Len(c), NEW j \in 1..Len(c), i < j PROVE <<c[i], c[j]>> \in R
  <2>1. CASE j \in 1..Len(a)
    <3>1. i \in 1..Len(a)
      BY <1>1, <1>4, <2>1
    <3>2. c[i] = a[i] /\ c[j] = a[j]
      BY <1>1, <2>1, <3>1
    <3>3. <<a[i], a[j]>> \in R
      BY <1>4, <2>1, <3>1 DEF Sorted
    <3> QED BY <3>2, <3>3
  <2>2. CASE j \notin 1..Len(a)
    <3> DEFINE l == j - Len(a)
    <3>1. l \in 1..Len(b) /\ Len(a) + l = j
      BY <1>1, <2>2
    <3> HIDE DEF l
    <3>2. c[j] = b[l]
      BY <1>1, <3>1
    <3>3. CASE i \in 1..Len(a)
      <4>1. c[i] = a[i]
        BY <1>1, <3>3
      <4> QED BY <1>2, <1>3, <3>1, <3>2, <3>3, <4>1
    <3>4. CASE i \notin 1..Len(a)
      <4> DEFINE k == i - Len(a)
      <4>1. k \in 1..Len(b) /\ Len(a) + k = i
        BY <1>1, <3>4
      <4>2. k < l
        BY <1>1, <1>4, <3>1, <4>1
      <4> HIDE DEF k
      <4>3. c[i] = b[k]
        BY <1>1, <4>1
      <4>4. <<b[k], b[l]>> \in R
        BY <3>1, <4>1, <4>2 DEF Sorted
      <4> QED BY <3>2, <4>3, <4>4
    <3> QED BY <3>3, <3>4
  <2> QED BY <2>1, <2>2
<1> QED BY <1>4 DEF Sorted, c

\* Ascending rows are sorted when flattened.
LEMMA FlattenSorted ==
    ASSUME NEW S, NEW R, NEW rows \in Seq(Seq(S)), Ascending(R, rows)
    PROVE  Sorted(R, FlattenSeq(rows))
<1> DEFINE W == Seq(S)
           T == {r \in Seq(W) : Ascending(R, r) => Sorted(R, FlattenSeq(r))}
<1>1. <<>> \in T
  <2>1. FlattenSeq(<<>>) = <<>> /\ <<>> \in Seq(W)
    BY FlattenFacts, EmptySeq
  <2>2. Sorted(R, <<>>)
    BY DEF Sorted
  <2> QED BY <2>1, <2>2
<1>2. ASSUME NEW r \in Seq(W), NEW s \in W, r \in T PROVE Append(r, s) \in T
  <2> DEFINE rs == Append(r, s)
             f == FlattenSeq(r)
  <2>1. FlattenSeq(rs) = f \o s /\ f \in Seq(S) /\ s \in Seq(S)
    BY FlattenFacts
  <2>2. ASSUME NEW x \in ToSet(f) PROVE \E i \in 1..Len(r) : x \in ToSet(r[i])
    <3>1. r \in Seq(Seq(S))
      OBVIOUS
    <3> QED BY <2>2, <3>1, FlattenMembers
  <2> HIDE DEF W, f
  <2>3. rs \in Seq(W) /\ Len(rs) = Len(r) + 1 /\ rs[Len(r) + 1] = s
        /\ \A i \in 1..Len(r) : rs[i] = r[i]
    BY AppendProperties
  <2>4. Len(r) \in Nat
    OBVIOUS
  <2> HIDE DEF rs
  <2> SUFFICES ASSUME Ascending(R, rs) PROVE Sorted(R, f \o s)
    BY <2>1, <2>3 DEF rs
  <2>5. Len(r) + 1 \in 1..Len(rs) /\ \A i \in 1..Len(r) : i \in 1..Len(rs) /\ i < Len(r) + 1
    BY <2>3, <2>4
  <2>6. Ascending(R, r)
    BY <2>3, <2>5 DEF Ascending
  <2>7. Sorted(R, f)
    BY <1>2, <2>6 DEF f
  <2>8. Sorted(R, s)
    BY <2>3, <2>5 DEF Ascending
  <2>9. ASSUME NEW x \in ToSet(f), NEW y \in ToSet(s) PROVE <<x, y>> \in R
    <3>1. PICK i \in 1..Len(r) : x \in ToSet(r[i])
      BY <2>2
    <3> QED BY <2>3, <2>5, <3>1 DEF Ascending
  <2> QED BY <2>1, <2>7, <2>8, <2>9, SortedConcat
<1> HIDE DEF T
<1>3. Seq(W) \subseteq T
  <2> HIDE DEF W
  <2> QED BY <1>1, <1>2, SeqInduction
<1> QED BY <1>3 DEF T

\* t goes on where s ends.
Under(s, t) == Len(s) < Len(t) /\ \A k \in 1..Len(s) : t[k] = s[k]

\* Under is transitive, and makes a strict prefix.
LEMMA UnderFacts ==
    ASSUME NEW S, NEW s \in Seq(S), NEW t \in Seq(S), NEW u \in Seq(S), NEW x \in S
    PROVE  /\ Under(s, Append(s, x))
           /\ Under(s, t) /\ Under(t, u) => Under(s, u)
           /\ Under(s, t) => IsStrictPrefix(s, t)
<1>1. Len(s) \in Nat /\ Len(t) \in Nat /\ Len(u) \in Nat
  OBVIOUS
<1>2. Under(s, Append(s, x))
  BY <1>1, AppendProperties DEF Under
<1>3. ASSUME Under(s, t), Under(t, u) PROVE Under(s, u)
  <2>1. \A k \in 1..Len(s) : k \in 1..Len(t)
    BY <1>1, <1>3 DEF Under
  <2> QED BY <1>1, <1>3, <2>1 DEF Under
<1>4. ASSUME Under(s, t) PROVE IsStrictPrefix(s, t)
  <2>1. SubSeq(s, 1, Len(s)) = SubSeq(t, 1, Len(s))
    BY <1>1, <1>4, PrefixEqual DEF Under
  <2>2. s # t
    BY <1>1, <1>4 DEF Under
  <2> QED BY <1>1, <1>4, <2>1, <2>2, SubSeqFull DEF Under, IsStrictPrefix, IsPrefix
<1> QED BY <1>2, <1>3, <1>4

\* There are n numbers from 1 to n.
LEMMA CountUpTo ==
    ASSUME NEW n \in Nat
    PROVE  IsFiniteSet(1..n) /\ Cardinality(1..n) = n
<1>1. 1 \in Int /\ n \in Int /\ (IF 1 > n THEN 0 ELSE n - 1 + 1) = n
  OBVIOUS
<1> QED BY <1>1, FS_Interval

\* The j-th element of a set in order has j - 1 elements below it.
LEMMA CountBelow ==
    ASSUME NEW T \in SUBSET Nat, NEW q \in Seq(T), NEW j \in 1..Len(q),
           \A a, b \in 1..Len(q) : a < b => q[a] < q[b],
           \A x \in T : \E a \in 1..Len(q) : q[a] = x
    PROVE  Cardinality({x \in T : x < q[j]}) = j - 1
<1> DEFINE U == {x \in T : x < q[j]}
           f == [a \in 1..(j - 1) |-> q[a]]
<1>8. Len(q) \in Nat /\ \A a \in 1..Len(q) : q[a] \in T
  OBVIOUS
<1>9. T \subseteq Nat
  OBVIOUS
<1>0. Len(q) \in Nat /\ j \in Nat /\ \A a \in 1..Len(q) : q[a] \in T /\ q[a] \in Nat
  <2>1. j \in Nat
    BY <1>8
  <2> QED BY <1>8, <1>9, <2>1
<1>1. ASSUME NEW a \in 1..(j - 1) PROVE a \in 1..Len(q) /\ q[a] \in U
  BY <1>0
<1>2. f \in [1..(j - 1) -> U]
  BY <1>1
<1>3. ASSUME NEW a \in 1..(j - 1), NEW b \in 1..(j - 1), f[a] = f[b] PROVE a = b
  <2>1. q[a] = q[b] /\ a \in 1..Len(q) /\ b \in 1..Len(q) /\ a \in Int /\ b \in Int
    BY <1>1, <1>3
  <2>2. q[a] \in Nat /\ q[b] \in Nat
    BY <1>0, <2>1
  <2>3. ~(a < b) /\ ~(b < a)
    BY <2>1, <2>2
  <2> QED BY <2>1, <2>3
<1>4. ASSUME NEW x \in U PROVE \E a \in 1..(j - 1) : f[a] = x
  <2>1. PICK a \in 1..Len(q) : q[a] = x
    OBVIOUS
  <2>2. a \in Int /\ j \in Int /\ x < q[j] /\ q[j] \in Nat
    BY <1>0
  <2>3. a < j
    <3>1. CASE a = j
      BY <2>1, <2>2, <3>1
    <3>2. CASE j < a
      <4>1. q[j] < q[a] /\ q[a] \in Nat
        BY <1>0, <3>2
      <4> QED BY <2>1, <2>2, <4>1
    <3> QED BY <2>2, <3>1, <3>2
  <2>4. a \in 1..(j - 1)
    BY <2>2, <2>3
  <2> QED BY <2>1, <2>4
<1>5. ExistsBijection(1..(j - 1), U)
  <2> HIDE DEF f, U
  <2>1. f \in Bijection(1..(j - 1), U)
    BY <1>2, <1>3, <1>4, Fun_IsBij
  <2> QED BY <2>1 DEF ExistsBijection
<1>6. IsFiniteSet(1..(j - 1)) /\ Cardinality(1..(j - 1)) = j - 1
  <2>1. j - 1 \in Nat
    BY <1>0
  <2> QED BY <2>1, CountUpTo
<1>7. Cardinality(U) = Cardinality(1..(j - 1))
  <2> HIDE DEF U
  <2> QED BY <1>5, <1>6, FS_Bijection
<1> QED BY <1>6, <1>7

\* The minimum of two numbers.
LEMMA LeastOfTwo ==
    ASSUME NEW a \in Int, NEW b \in Int
    PROVE  Min({a, b}) = IF a <= b THEN a ELSE b
<1> DEFINE m == IF a <= b THEN a ELSE b
<1>1. m \in {a, b} /\ \A y \in {a, b} : m <= y
  OBVIOUS
<1>2. \A x \in {a, b} : (\A y \in {a, b} : x <= y) => x = m
  OBVIOUS
<1> QED BY <1>1, <1>2 DEF Min
=============================================================================
