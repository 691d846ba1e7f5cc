---------------------------- MODULE OutlineProofs ---------------------------
(***************************************************************************)
(* What the operators of ToolResults compute, for trees and replies of any *)
(* size: the decoding of a reply, the walk that makes an outline, and the  *)
(* lookup in it.                                                           *)
(*                                                                         *)
(* The children of a symbol come after it, so a statement about the walk   *)
(* below a symbol is proved from the leaves (FromTheLeaves), and one about *)
(* the way down to a symbol from the root (FromTheRoot).                   *)
(***************************************************************************)
EXTENDS ToolResults, SequenceFacts

-----------------------------------------------------------------------------
(* The members of a set, in order.                                         *)

\* f[i] lists the members of S up to i.
Collects(f, S, n) ==
    /\ f \in [0..n -> Seq(Nat)]
    /\ f[0] = <<>>
    /\ \A i \in 1..n : f[i] = IF i \in S THEN Append(f[i - 1], i) ELSE f[i - 1]

\* InOrder is computed by going up from 1 to n.
LEMMA InOrderStep ==
    ASSUME NEW S, NEW n \in Nat
    PROVE  \E f : InOrder(S, n) = f[n] /\ Collects(f, S, n)
<1> DEFINE W == Seq(Nat)
           step == [x \in W \X (1..n) |-> IF x[2] \in S THEN Append(x[1], x[2]) ELSE x[1]]
           Eq(f) == f = [i \in 0..n |-> IF i = 0 THEN <<>>
                                        ELSE IF i \in S THEN Append(f[i - 1], i) ELSE f[i - 1]]
<1>1. <<>> \in W /\ \A s \in W, i \in 1..n : Append(s, i) \in W
  BY EmptySeq, AppendProperties
<1> HIDE DEF W
<1>2. step \in [W \X (1..n) -> W]
  BY <1>1
<1>3. \A s \in W, i \in 1..n : step[<<s, i>>] = IF i \in S THEN Append(s, i) ELSE s
  OBVIOUS
<1> DEFINE base == <<>>
<1>12. base \in W
  BY <1>1
<1> HIDE DEF step, base
<1>4. PICK f \in [0..n -> W] : Iterates(f, n, base, step)
  BY <1>12, <1>2, NatRecursion
<1>5. ASSUME NEW i \in 0..n
      PROVE  f[i] = IF i = 0 THEN <<>> ELSE IF i \in S THEN Append(f[i - 1], i) ELSE f[i - 1]
  <2>1. CASE i = 0
    BY <1>4, <2>1 DEF base, Iterates
  <2>2. CASE i # 0
    <3>1. i \in 1..n /\ i - 1 \in 0..n
      BY <2>2
    <3>2. f[i] = step[<<f[i - 1], i>>]
      BY <1>4, <2>2 DEF Iterates
    <3> QED BY <1>3, <2>2, <3>1, <3>2
  <2> QED BY <2>1, <2>2
<1>6. Eq(f)
  BY <1>5, <1>4
<1> DEFINE u == CHOOSE g : Eq(g)
<1>7. Eq(u) /\ InOrder(S, n) = u[n]
  BY <1>6 DEF InOrder
<1> HIDE DEF u
<1> DEFINE N == {i \in Nat : i <= n => u[i] = f[i]}
<1>8. 0 \in N
  BY <1>5, <1>7
<1>9. ASSUME NEW i \in Nat, i \in N PROVE i + 1 \in N
  <2> SUFFICES ASSUME i + 1 <= n PROVE u[i + 1] = f[i + 1]
    OBVIOUS
  <2>1. i + 1 \in 0..n /\ i + 1 # 0 /\ (i + 1) - 1 = i
    OBVIOUS
  <2>2. u[i + 1] = IF i + 1 \in S THEN Append(u[i], i + 1) ELSE u[i]
    BY <1>7, <2>1
  <2>3. f[i + 1] = IF i + 1 \in S THEN Append(f[i], i + 1) ELSE f[i]
    BY <1>5, <2>1
  <2> QED BY <1>9, <2>2, <2>3
<1> HIDE DEF N
<1>10. n \in N
  BY <1>8, <1>9, UpFromZero
<1>13. u[n] = f[n]
  BY <1>10 DEF N
<1>11. \A i \in 1..n : i \in 0..n /\ i # 0
  OBVIOUS
<1>14. 0 \in 0..n
  OBVIOUS
<1>15. f[0] = <<>>
  BY <1>5, <1>14
<1>16. Collects(f, S, n)
  BY <1>5, <1>11, <1>15 DEF Collects, W
<1> QED BY <1>7, <1>13, <1>16

\* InOrder(S, n) has each member of S in 1..n once, in increasing order.
LEMMA InOrderFacts ==
    ASSUME NEW S, NEW n \in Nat
    PROVE  LET q == InOrder(S, n)
               T == S \cap (1..n)
           IN  /\ q \in Seq(Nat) /\ q \in Seq(T)
               /\ \A i, j \in 1..Len(q) : i < j => q[i] < q[j]
               /\ \A x \in T : \E j \in 1..Len(q) : q[j] = x
               /\ IsFiniteSet(T) /\ Len(q) = Cardinality(T)
<1> DEFINE T(m) == S \cap (1..m)
           Good(q, m) == /\ q \in Seq(T(m))
                         /\ \A i, j \in 1..Len(q) : i < j => q[i] < q[j]
                         /\ \A x \in T(m) : \E j \in 1..Len(q) : q[j] = x
                         /\ IsFiniteSet(T(m)) /\ Len(q) = Cardinality(T(m))
<1>0. PICK f : InOrder(S, n) = f[n] /\ Collects(f, S, n)
  BY InOrderStep
<1>1. /\ f \in [0..n -> Seq(Nat)]
      /\ f[0] = <<>>
      /\ \A i \in 1..n : f[i] = IF i \in S THEN Append(f[i - 1], i) ELSE f[i - 1]
  BY <1>0 DEF Collects
<1> DEFINE N == {m \in Nat : m <= n => Good(f[m], m)}
<1>2. 0 \in N
  <2>1. T(0) = {}
    OBVIOUS
  <2>2. IsFiniteSet({}) /\ Cardinality({}) = 0
    BY FS_EmptySet
  <2>3. <<>> \in Seq(T(0)) /\ Len(<<>>) = 0
    BY EmptySeq
  <2> HIDE DEF T
  <2>5. \A j \in 1..Len(<<>>) : FALSE
    OBVIOUS
  <2>4. Good(<<>>, 0)
    BY <2>1, <2>2, <2>3, <2>5
  <2> HIDE DEF Good
  <2> QED BY <1>1, <2>4
<1>3. ASSUME NEW m \in Nat, m \in N PROVE m + 1 \in N
  <2> SUFFICES ASSUME m + 1 <= n PROVE Good(f[m + 1], m + 1)
    OBVIOUS
  <2>1. Good(f[m], m)
    BY <1>3
  <2>2. f[m + 1] = IF m + 1 \in S THEN Append(f[m], m + 1) ELSE f[m]
    <3>1. m + 1 \in 1..n /\ (m + 1) - 1 = m
      OBVIOUS
    <3> QED BY <1>1, <3>1
  <2>3. CASE m + 1 \notin S
    <3>1. T(m + 1) = T(m)
      <4>1. \A x \in Int : x \in 1..(m + 1) <=> x \in 1..m \/ x = m + 1
        OBVIOUS
      <4> QED BY <2>3, <4>1
    <3> HIDE DEF T
    <3>2. f[m + 1] = f[m]
      BY <2>2, <2>3
    <3> QED BY <2>1, <3>1, <3>2
  <2>4. CASE m + 1 \in S
    <3>1. T(m + 1) = T(m) \cup {m + 1} /\ m + 1 \notin T(m) /\ \A x \in T(m) : x < m + 1 /\ x \in Nat
      <4>1. \A x \in Int : x \in 1..(m + 1) <=> x \in 1..m \/ x = m + 1
        OBVIOUS
      <4>2. m + 1 \notin 1..m
        OBVIOUS
      <4> QED BY <2>4, <4>1, <4>2
    <3> DEFINE q == f[m]
               y == m + 1
               r == Append(q, y)
    <3>2. q \in Seq(T(m + 1)) /\ y \in T(m + 1) /\ q \in Seq(T(m))
      <4>1. T(m) \subseteq T(m + 1)
        BY <3>1
      <4>2. q \in Seq(T(m))
        BY <2>1
      <4> HIDE DEF T
      <4> QED BY <3>1, <4>1, <4>2, SeqMonotonic
    <3>3. r \in Seq(T(m + 1)) /\ Len(r) = Len(q) + 1 /\ r[Len(q) + 1] = y
          /\ \A i \in 1..Len(q) : r[i] = q[i]
      BY <3>2, AppendProperties
    <3> HIDE DEF T, r
    <3>4. Len(q) \in Nat /\ \A i \in 1..Len(q) : q[i] \in T(m)
      BY <3>2
    <3>5. ASSUME NEW i \in 1..Len(r), NEW j \in 1..Len(r), i < j PROVE r[i] < r[j]
      <4>1. i \in 1..Len(q)
        BY <3>3, <3>4, <3>5
      <4>2. CASE j = Len(q) + 1
        BY <3>1, <3>3, <3>4, <4>1, <4>2
      <4>3. CASE j # Len(q) + 1
        <5>1. j \in 1..Len(q)
          BY <3>3, <3>4, <4>3
        <5> QED BY <2>1, <3>3, <3>5, <4>1, <5>1
      <4> QED BY <4>2, <4>3
    <3>6. ASSUME NEW x \in T(m + 1) PROVE \E j \in 1..Len(r) : r[j] = x
      <4>1. CASE x = y
        <5>1. Len(q) + 1 \in 1..Len(r)
          BY <3>3, <3>4
        <5> QED BY <3>3, <4>1, <5>1
      <4>2. CASE x # y
        <5>1. PICK j \in 1..Len(q) : q[j] = x
          BY <2>1, <3>1, <4>2
        <5>2. j \in 1..Len(r)
          BY <3>3, <3>4
        <5> QED BY <3>3, <5>1, <5>2
      <4> QED BY <4>1, <4>2
    <3>7. IsFiniteSet(T(m + 1)) /\ Cardinality(T(m + 1)) = Cardinality(T(m)) + 1
      BY <2>1, <3>1, FS_AddElement
    <3>8. Good(r, m + 1)
      BY <2>1, <3>3, <3>5, <3>6, <3>7
    <3> HIDE DEF Good
    <3> QED BY <2>2, <2>4, <3>8 DEF r
  <2> QED BY <2>3, <2>4
<1> HIDE DEF N
<1>4. n \in N
  BY <1>2, <1>3, UpFromZero
<1> HIDE DEF Good
<1>5. Good(f[n], n)
  BY <1>4 DEF N
<1>6. f[n] \in Seq(Nat)
  BY <1>1
<1> QED BY <1>0, <1>5, <1>6 DEF Good

-----------------------------------------------------------------------------
(* Replies.                                                                *)

\* The place that ToLocation makes of an item says which item it was.
LEMMA PlaceOfItem ==
    ASSUME NEW x \in Items, NEW i, ToLocation(x, i) # None
    PROVE  ToLocation(x, i).item = i
<1> DEFINE linked == x.uri = "" /\ x.targetUri # ""
           uri == IF linked THEN x.targetUri ELSE x.uri
           at == CASE ~linked -> IF x.range THEN "range" ELSE "none"
                   [] linked /\ x.selection -> "selection"
                   [] linked /\ ~x.selection -> IF x.target THEN "target" ELSE "none"
<1>1. /\ x.uri \in {"", "file", "other"} /\ x.targetUri \in {"", "file", "other"}
      /\ x.range \in BOOLEAN /\ x.selection \in BOOLEAN /\ x.target \in BOOLEAN
  <2> DEFINE names == {"", "file", "other"}
  <2>1. Items \subseteq [uri : names, range : BOOLEAN, targetUri : names,
                        selection : BOOLEAN, target : BOOLEAN]
    <3> DEFINE All == [uri : names, range : BOOLEAN, targetUri : names,
                       selection : BOOLEAN, target : BOOLEAN]
    <3>1. ASSUME NEW u \in names, NEW r \in BOOLEAN PROVE Location(u, r) \in All
      BY DEF Location
    <3>2. ASSUME NEW u \in names, NEW s \in BOOLEAN, NEW t \in BOOLEAN
          PROVE  LocationLink(u, s, t) \in All
      BY DEF LocationLink
    <3>3. "" \in names /\ "file" \in names /\ "other" \in names
      OBVIOUS
    <3> HIDE DEF All, names
    <3>4. Items \subseteq All
      BY <3>1, <3>2, <3>3 DEF Items
    <3> QED BY <3>4 DEF All
  <2> QED BY <2>1
<1>2. uri \in {"", "file", "other"}
  BY <1>1
<1>3. ToLocation(x, i) = CASE uri = "" \/ at = "none" -> None
                           [] uri = "other" /\ at # "none" -> [item |-> i, at |-> "refused"]
                           [] uri = "file" /\ at # "none" -> [item |-> i, at |-> at]
  BY DEF ToLocation
<1> HIDE DEF uri, at
<1>4. uri # "" /\ at # "none"
  BY <1>3
<1> DEFINE refused == [item |-> i, at |-> "refused"]
           place == [item |-> i, at |-> at]
<1>5. refused.item = i /\ place.item = i
  OBVIOUS
<1> HIDE DEF refused, place
<1>6. ToLocation(x, i) = refused \/ ToLocation(x, i) = place
  BY <1>2, <1>3, <1>4 DEF refused, place
<1> QED BY <1>5, <1>6

\* The items of a reply are a list.
LEMMA ItemsOfReply ==
    ASSUME NEW r \in Replies
    PROVE  r.items \in Seq(Items)
<1>1. CASE r.items = <<>>
  BY <1>1, EmptySeq
<1>2. CASE r.items \in {<<item>> : item \in Items}
  <2>1. PICK item \in Items : r.items = <<item>>
    BY <1>2
  <2>2. <<item>> \in Seq(Items)
    OBVIOUS
  <2> QED BY <2>1, <2>2
<1>3. CASE r.items \in BoundedSeq(Items, MaxItems)
  <2>1. PICK n \in 0..MaxItems : r.items \in [1..n -> Items]
    BY <1>3 DEF BoundedSeq, SeqOf
  <2>2. n \in Nat
    OBVIOUS
  <2> QED BY <2>1, <2>2, SeqDef
<1> QED BY <1>1, <1>2, <1>3 DEF Replies

\* A reply has no more than MaxItems items.
LEMMA ItemsBounded ==
    ASSUME NEW r \in Replies
    PROVE  Len(r.items) \in 0..MaxItems
<1>0. MaxItems \in Nat \ {0}
  BY BoundsAreNatural
<1>1. CASE r.items = <<>>
  BY <1>0, <1>1
<1>2. CASE r.items \in {<<item>> : item \in Items}
  <2>1. PICK item \in Items : r.items = <<item>>
    BY <1>2
  <2>2. Len(<<item>>) = 1
    OBVIOUS
  <2> QED BY <1>0, <2>1, <2>2
<1>3. CASE r.items \in BoundedSeq(Items, MaxItems)
  <2>1. PICK n \in 0..MaxItems : r.items \in [1..n -> Items]
    BY <1>3 DEF BoundedSeq, SeqOf
  <2>2. n \in Nat
    OBVIOUS
  <2>3. Len(r.items) = n
    BY <2>1, <2>2
  <2> QED BY <2>3
<1> QED BY <1>1, <1>2, <1>3 DEF Replies

\* Decoded lists the places that the items name, each once, in the order of the
\* reply (decodeLocations).
LEMMA DecodedFacts ==
    ASSUME NEW items \in Seq(Items)
    PROVE  LET list == Decoded(items)
               named == {i \in DOMAIN items : ToLocation(items[i], i) # None}
           IN  /\ list \in Seq({ToLocation(items[i], i) : i \in named})
               /\ IsFiniteSet(named) /\ Len(list) = Cardinality(named)
               /\ list = <<>> <=> named = {}
               /\ \A j \in 1..Len(list) :
                     /\ list[j].item \in named
                     /\ Cardinality({i \in named : i < list[j].item}) = j - 1
<1> DEFINE list == Decoded(items)
           named == {i \in DOMAIN items : ToLocation(items[i], i) # None}
           q == InOrder(named, Len(items))
           V == {ToLocation(items[i], i) : i \in named}
<1>1. DOMAIN items = 1..Len(items) /\ Len(items) \in Nat
  OBVIOUS
<1>2. named \cap (1..Len(items)) = named
  BY <1>1
<1>3. named \in SUBSET Nat
  BY <1>1
<1>4. list = [j \in DOMAIN q |-> ToLocation(items[q[j]], q[j])]
  BY DEF Decoded
<1>5. \A i \in named : ToLocation(items[i], i).item = i /\ ToLocation(items[i], i) \in V
  BY PlaceOfItem
<1> HIDE DEF list, named, V
<1> DEFINE n == Len(items)
<1> HIDE DEF n
<1>14. n \in Nat /\ q = InOrder(named, n) /\ named \cap (1..n) = named
  BY <1>1, <1>2 DEF n
<1> HIDE DEF q
<1>15. LET r == InOrder(named, n)
           T == named \cap (1..n)
       IN  /\ r \in Seq(Nat) /\ r \in Seq(T)
           /\ \A i, j \in 1..Len(r) : i < j => r[i] < r[j]
           /\ \A x \in T : \E j \in 1..Len(r) : r[j] = x
           /\ IsFiniteSet(T) /\ Len(r) = Cardinality(T)
  BY <1>14, InOrderFacts
<1>6. /\ q \in Seq(named)
      /\ \A i, j \in 1..Len(q) : i < j => q[i] < q[j]
      /\ \A x \in named : \E j \in 1..Len(q) : q[j] = x
      /\ IsFiniteSet(named) /\ Len(q) = Cardinality(named)
  BY <1>14, <1>15
<1> HIDE DEF q
<1>7. DOMAIN q = 1..Len(q) /\ Len(q) \in Nat /\ \A j \in 1..Len(q) : q[j] \in named
  BY <1>6
<1>8. Len(list) = Len(q) /\ list \in Seq(V) /\ \A j \in 1..Len(q) : list[j] = ToLocation(items[q[j]], q[j])
  BY <1>4, <1>5, <1>7
<1>9. \A j \in 1..Len(q) : list[j].item = q[j]
  BY <1>5, <1>7, <1>8
<1>10. \A j \in 1..Len(q) : Cardinality({i \in named : i < q[j]}) = j - 1
  BY <1>3, <1>6, CountBelow
<1>11. list = <<>> <=> named = {}
  <2>1. CASE named = {}
    <3>1. Len(q) = 0
      BY <1>6, <2>1, FS_EmptySet
    <3> QED BY <2>1, <1>8, <3>1, EmptySeq
  <2>2. CASE named # {}
    <3>1. Len(q) # 0
      BY <1>6, <1>7, <2>2
    <3> QED BY <2>2, <1>8, <3>1, EmptySeq
  <2> QED BY <2>1, <2>2
<1>12. \A j \in 1..Len(list) : list[j].item \in named /\ Cardinality({i \in named : i < list[j].item}) = j - 1
  BY <1>7, <1>8, <1>9, <1>10
<1>13. Len(list) = Cardinality(named)
  BY <1>6, <1>8
<1> QED BY <1>6, <1>8, <1>11, <1>12, <1>13 DEF list, named, V

\* Decoded adds nothing.
LEMMA DecodedLength ==
    ASSUME NEW items \in Seq(Items)
    PROVE  Len(Decoded(items)) \in 0..Len(items)
<1> DEFINE named == {i \in DOMAIN items : ToLocation(items[i], i) # None}
<1>1. IsFiniteSet(named) /\ Len(Decoded(items)) = Cardinality(named)
  BY DecodedFacts
<1>2. Len(items) \in Nat /\ named \subseteq 1..Len(items)
  OBVIOUS
<1> HIDE DEF named
<1> DEFINE n == Len(items)
<1>3. IsFiniteSet(1..n) /\ Cardinality(1..n) = n
  <2> HIDE DEF n
  <2>1. n \in Nat
    BY <1>2 DEF n
  <2> QED BY <2>1, CountUpTo
<1>4. Cardinality(named) <= Cardinality(1..n) /\ Cardinality(named) \in Nat
  BY <1>1, <1>2, <1>3, FS_Subset, FS_CardinalityType
<1> QED BY <1>1, <1>2, <1>3, <1>4

-----------------------------------------------------------------------------
(* Trees, and the walk over one.                                           *)

\* The tree has N symbols, and a parent comes before its children.
Shape(tree, N) ==
    /\ tree.parent \in [1..N -> 0..N]
    /\ \A i \in 1..N : tree.parent[i] < i

\* q lists the children of n, in order.
AreChildren(q, tree, n, N) ==
    /\ q \in Seq(1..N)
    /\ \A i, j \in 1..Len(q) : i < j => q[i] < q[j]
    /\ \A j \in 1..Len(q) : tree.parent[q[j]] = n /\ n < q[j]
    /\ \A c \in 1..N : tree.parent[c] = n => \E j \in 1..Len(q) : q[j] = c

\* Children lists the children of a node.
LEMMA ChildrenFacts ==
    ASSUME NEW tree, NEW N \in Nat, Shape(tree, N), NEW n \in 0..N
    PROVE  AreChildren(Children(tree, n), tree, n, N)
<1> DEFINE S == {c \in DOMAIN tree.parent : tree.parent[c] = n}
           q == Children(tree, n)
<1>1. DOMAIN tree.parent = 1..N /\ Len(tree.parent) = N
  BY DEF Shape
<1>2. S \cap (1..N) = S /\ S \subseteq 1..N
  BY <1>1
<1>3. \A c \in S : tree.parent[c] = n /\ n < c
  BY <1>1 DEF Shape
<1>4. \A c \in 1..N : tree.parent[c] = n => c \in S
  BY <1>1
<1>5. q = InOrder(S, N)
  BY <1>1 DEF Children
<1> HIDE DEF S, q
<1>6. LET r == InOrder(S, N)
          T == S \cap (1..N)
      IN  /\ r \in Seq(Nat) /\ r \in Seq(T)
          /\ \A i, j \in 1..Len(r) : i < j => r[i] < r[j]
          /\ \A x \in T : \E j \in 1..Len(r) : r[j] = x
          /\ IsFiniteSet(T) /\ Len(r) = Cardinality(T)
  BY InOrderFacts
<1>7. /\ q \in Seq(S)
      /\ \A i, j \in 1..Len(q) : i < j => q[i] < q[j]
      /\ \A x \in S : \E j \in 1..Len(q) : q[j] = x
  BY <1>2, <1>5, <1>6
<1>8. q \in Seq(1..N) /\ \A j \in 1..Len(q) : q[j] \in S
  BY <1>2, <1>7, SeqMonotonic
<1> QED BY <1>3, <1>4, <1>7, <1>8 DEF q, AreChildren

\* The entries of an outline of N symbols.
Entries(N) == [symbol : 1..N, depth : Nat]

\* A child and what is below it, as the walk w has it.
Row(w, c, d) == <<[symbol |-> c, depth |-> d]>> \o w[<<c, d + 1>>]

\* The rows of all children of n.
Rows(tree, w, n, d) == [i \in DOMAIN Children(tree, n) |-> Row(w, Children(tree, n)[i], d)]

\* w is the walk of flattenSymbols: at a node, the rows of its children.
Walks(w, tree, N) ==
    /\ w \in [(0..N) \X Nat -> Seq(Entries(N))]
    /\ \A n \in 0..N, d \in Nat : w[<<n, d>>] = FlattenSeq(Rows(tree, w, n, d))

\* r begins with the entry of c, and goes on with s.
IsRow(r, c, d, s, N) ==
    /\ r \in Seq(Entries(N))
    /\ Len(r) = Len(s) + 1
    /\ r[1] = [symbol |-> c, depth |-> d]
    /\ \A i \in 1..Len(s) : r[i + 1] = s[i]

\* A row is the entry of the child before the entries below it.
LEMMA RowFacts ==
    ASSUME NEW N \in Nat, NEW w, NEW c \in 1..N, NEW d \in Nat,
           w[<<c, d + 1>>] \in Seq(Entries(N))
    PROVE  IsRow(Row(w, c, d), c, d, w[<<c, d + 1>>], N)
<1> DEFINE e == [symbol |-> c, depth |-> d]
           E == Entries(N)
           s == w[<<c, d + 1>>]
<1>1. e \in E
  BY DEF Entries
<1>2. s \in Seq(E)
  OBVIOUS
<1> HIDE DEF e, E, s
<1>3. /\ <<e>> \o s \in Seq(E) /\ Len(<<e>> \o s) = Len(s) + 1
      /\ (<<e>> \o s)[1] = e
      /\ \A i \in 1..Len(s) : (<<e>> \o s)[i + 1] = s[i]
  <2>1. <<e>> \in Seq(E) /\ Len(<<e>>) = 1 /\ <<e>>[1] = e
    BY <1>1
  <2>2. Len(s) \in Nat /\ \A i \in 1..Len(s) : i + 1 \in 1..(Len(s) + 1) /\ i + 1 > 1 /\ (i + 1) - 1 = i
    BY <1>2
  <2>3. /\ <<e>> \o s \in Seq(E) /\ Len(<<e>> \o s) = Len(<<e>>) + Len(s)
        /\ \A i \in 1..(Len(<<e>>) + Len(s)) :
              (<<e>> \o s)[i] = IF i <= Len(<<e>>) THEN <<e>>[i] ELSE s[i - Len(<<e>>)]
    BY <1>2, <2>1, ConcatProperties
  <2> QED BY <2>1, <2>2, <2>3
<1> QED BY <1>3 DEF e, E, s, Row, IsRow

\* r has a row for each child of n.
AreRows(r, tree, w, n, d, N) ==
    /\ Len(r) = Len(Children(tree, n))
    /\ r \in Seq(Seq(Entries(N)))
    /\ \A i \in 1..Len(Children(tree, n)) : r[i] = Row(w, Children(tree, n)[i], d)
    /\ FlattenSeq(r) \in Seq(Entries(N))

\* Rows has a row for each child, and they can be flattened.
LEMMA RowsFacts ==
    ASSUME NEW tree, NEW N \in Nat, Shape(tree, N), NEW n \in 0..N, NEW d \in Nat, NEW w,
           \A c \in 1..N : n < c => w[<<c, d + 1>>] \in Seq(Entries(N))
    PROVE  AreRows(Rows(tree, w, n, d), tree, w, n, d, N)
<1> DEFINE q == Children(tree, n)
           W == Seq(Entries(N))
           r == Rows(tree, w, n, d)
<1>1. q \in Seq(1..N) /\ \A j \in 1..Len(q) : n < q[j]
  BY ChildrenFacts DEF AreChildren
<1> HIDE DEF q
<1>2. ASSUME NEW i \in 1..Len(q) PROVE Row(w, q[i], d) \in W
  <2>1. q[i] \in 1..N /\ n < q[i]
    BY <1>1
  <2> QED BY <2>1, RowFacts DEF IsRow
<1>3. r = [i \in DOMAIN q |-> Row(w, q[i], d)]
  BY DEF Rows, q
<1>4. DOMAIN q = 1..Len(q) /\ Len(q) \in Nat
  BY <1>1
<1> HIDE DEF r, W
<1>5. r \in Seq(W) /\ Len(r) = Len(q) /\ \A i \in 1..Len(q) : r[i] = Row(w, q[i], d)
  BY <1>2, <1>3, <1>4
<1>6. FlattenSeq(r) \in W
  <2>1. r \in Seq(Seq(Entries(N)))
    BY <1>5 DEF W
  <2>2. <<>> \in Seq(Entries(N))
    BY EmptySeq
  <2> QED BY <2>1, <2>2, FlattenFacts DEF W
<1> QED BY <1>5, <1>6 DEF q, r, W, AreRows

\* The rows of a node depend on the walk below its children only.
LEMMA RowsAgree ==
    ASSUME NEW tree, NEW N \in Nat, Shape(tree, N), NEW n \in 0..N, NEW d \in Nat, NEW w, NEW v,
           \A c \in 1..N : n < c => w[<<c, d + 1>>] = v[<<c, d + 1>>]
    PROVE  Rows(tree, w, n, d) = Rows(tree, v, n, d)
<1> DEFINE q == Children(tree, n)
<1>1. q \in Seq(1..N) /\ \A j \in 1..Len(q) : n < q[j]
  BY ChildrenFacts DEF AreChildren
<1> HIDE DEF q
<1>2. ASSUME NEW i \in DOMAIN q PROVE Row(w, q[i], d) = Row(v, q[i], d)
  <2>1. i \in 1..Len(q)
    BY <1>1
  <2>2. q[i] \in 1..N /\ n < q[i]
    BY <1>1, <2>1
  <2> QED BY <2>2 DEF Row
<1> QED BY <1>2 DEF Rows, q

\* The recursion of FlattenSymbols has a solution, and the outline is its value
\* at the root.
LEMMA WalkExists ==
    ASSUME NEW tree, NEW N \in Nat, Shape(tree, N)
    PROVE  \E w : Walks(w, tree, N) /\ FlattenSymbols(tree) = w[<<0, 0>>]
<1> DEFINE W == Seq(Entries(N))
           D == (0..N) \X Nat
           F(w, n, d) == FlattenSeq(Rows(tree, w, n, d))
           Good(w, k) == /\ w \in [D -> W]
                         /\ \A n \in 0..N, d \in Nat : n + k > N => w[<<n, d>>] = F(w, n, d)
           K == {k \in Nat : k <= N + 1 => \E w : Good(w, k)}
<1>1. ASSUME NEW n \in 0..N, NEW d \in Nat, NEW w,
             \A c \in 1..N : n < c => w[<<c, d + 1>>] \in W
      PROVE  F(w, n, d) \in W
  BY <1>1, RowsFacts DEF AreRows
<1>2. ASSUME NEW n \in 0..N, NEW d \in Nat, NEW w, NEW v,
             \A c \in 1..N : n < c => w[<<c, d + 1>>] = v[<<c, d + 1>>]
      PROVE  F(w, n, d) = F(v, n, d)
  BY <1>2, RowsAgree
<1>3. \A n \in 0..N, d \in Nat : <<n, d>> \in D /\ <<n, d>>[1] = n /\ <<n, d>>[2] = d
  OBVIOUS
<1>4. \A x \in D : x = <<x[1], x[2]>> /\ x[1] \in 0..N /\ x[2] \in Nat
  OBVIOUS
<1>5. \A c \in 1..N, d \in Nat : <<c, d + 1>> \in D
  OBVIOUS
<1>6. <<>> \in W
  BY EmptySeq
<1> HIDE DEF W, D, F
<1>7. 0 \in K
  <2> DEFINE w == [x \in D |-> <<>>]
  <2>1. w \in [D -> W]
    BY <1>6
  <2>2. \A n \in 0..N : ~(n + 0 > N)
    OBVIOUS
  <2>3. Good(w, 0)
    BY <2>1, <2>2
  <2> HIDE DEF Good, w
  <2> QED BY <2>3
<1>8. ASSUME NEW k \in Nat, k \in K PROVE k + 1 \in K
  <2> SUFFICES ASSUME k + 1 <= N + 1 PROVE \E w : Good(w, k + 1)
    OBVIOUS
  <2>1. PICK w : Good(w, k)
    BY <1>8
  <2> DEFINE m == N - k
             v == [x \in D |-> IF x[1] = m THEN F(w, x[1], x[2]) ELSE w[x]]
  <2>2. m \in 0..N
    OBVIOUS
  <2>3. \A c \in 1..N, d \in Nat : w[<<c, d + 1>>] \in W
    BY <1>5, <2>1
  <2>4. ASSUME NEW x \in D PROVE v[x] \in W
    <3>1. F(w, x[1], x[2]) \in W
      BY <1>1, <1>4, <2>3
    <3> QED BY <2>1, <3>1
  <2>5. v \in [D -> W]
    BY <2>4
  <2>6. \A n \in 0..N, d \in Nat : v[<<n, d>>] = IF n = m THEN F(w, n, d) ELSE w[<<n, d>>]
    BY <1>3
  <2> HIDE DEF v, m
  <2>7. ASSUME NEW n \in 0..N, NEW d \in Nat, n + (k + 1) > N PROVE v[<<n, d>>] = F(v, n, d)
    <3>1. \A c \in 1..N : n < c => c \in 0..N /\ c # m
      BY <2>2, <2>7 DEF m
    <3>2. \A c \in 1..N : n < c => w[<<c, d + 1>>] = v[<<c, d + 1>>]
      <4>1. d + 1 \in Nat
        OBVIOUS
      <4> QED BY <2>6, <3>1, <4>1
    <3>3. F(w, n, d) = F(v, n, d)
      BY <1>2, <3>2
    <3>4. n # m => n + k > N
      BY <2>7 DEF m
    <3>5. n # m => w[<<n, d>>] = F(w, n, d)
      BY <2>1, <3>4
    <3> QED BY <2>6, <3>3, <3>5
  <2>8. Good(v, k + 1)
    BY <2>5, <2>7
  <2> HIDE DEF Good
  <2> QED BY <2>8
<1> HIDE DEF K
<1>9. N + 1 \in K
  BY <1>7, <1>8, UpFromZero
<1> DEFINE Eq(w) == w = [at \in ({0} \cup DOMAIN tree.parent) \X Nat |->
             LET below == Children(tree, at[1])
             IN  FlattenSeq([i \in DOMAIN below |->
                    <<[symbol |-> below[i], depth |-> at[2]]>> \o w[<<below[i], at[2] + 1>>]])]
<1>10. {0} \cup DOMAIN tree.parent = 0..N
  BY DEF Shape
<1>11. ASSUME NEW w, w = [x \in D |-> F(w, x[1], x[2])] PROVE Eq(w)
  BY <1>10, <1>11 DEF D, F, Rows, Row
<1>12. ASSUME NEW w, Eq(w) PROVE w = [x \in D |-> F(w, x[1], x[2])]
  BY <1>10, <1>12 DEF D, F, Rows, Row
<1>13. PICK w0 : Good(w0, N + 1)
  BY <1>9 DEF K
<1>14. w0 = [x \in D |-> F(w0, x[1], x[2])]
  <2>1. \A n \in 0..N : n + (N + 1) > N
    OBVIOUS
  <2>2. \A n \in 0..N, d \in Nat : w0[<<n, d>>] = F(w0, n, d)
    BY <1>13, <2>1
  <2>3. \A x \in D : w0[x] = F(w0, x[1], x[2])
    BY <1>4, <2>2
  <2> QED BY <1>13, <2>3
<1>15. Eq(w0)
  BY <1>11, <1>14
<1> DEFINE u == CHOOSE w : Eq(w)
<1>16. Eq(u)
  BY <1>15
<1>17. FlattenSymbols(tree) = u[<<0, 0>>]
  BY DEF FlattenSymbols
<1> HIDE DEF u, Eq
<1>18. u = [x \in D |-> F(u, x[1], x[2])]
  BY <1>12, <1>16
<1>19. \A n \in 0..N, d \in Nat : u[<<n, d>>] = F(u, n, d)
  BY <1>3, <1>18
<1> DEFINE T == {n \in 0..N : \A d \in Nat : u[<<n, d>>] \in W}
<1>20. ASSUME NEW n \in 0..N, \A c \in 0..N : c > n => c \in T PROVE n \in T
  <2>1. ASSUME NEW d \in Nat PROVE u[<<n, d>>] \in W
    <3>1. \A c \in 1..N : n < c => u[<<c, d + 1>>] \in W
      <4>1. d + 1 \in Nat /\ \A c \in 1..N : c \in 0..N
        OBVIOUS
      <4> QED BY <1>20, <4>1
    <3>2. F(u, n, d) \in W
      BY <1>1, <3>1
    <3> QED BY <1>19, <3>2
  <2> QED BY <2>1
<1> HIDE DEF T
<1>21. 0..N \subseteq T
  BY <1>20, FromTheLeaves
<1>22. \A x \in D : u[x] \in W
  BY <1>4, <1>21 DEF T
<1>23. Walks(u, tree, N)
  <2>1. u \in [D -> W]
    BY <1>18, <1>22
  <2> QED BY <2>1, <1>19 DEF Walks, D, W, F
<1> QED BY <1>17, <1>23

\* An entry below n is a child of n, or below one.
LEMMA WalkMembers ==
    ASSUME NEW tree, NEW N \in Nat, Shape(tree, N), NEW w, Walks(w, tree, N),
           NEW n \in 0..N, NEW d \in Nat, NEW e
    PROVE  e \in ToSet(w[<<n, d>>]) <=>
              \E j \in 1..Len(Children(tree, n)) :
                 \/ e = [symbol |-> Children(tree, n)[j], depth |-> d]
                 \/ e \in ToSet(w[<<Children(tree, n)[j], d + 1>>])
<1> DEFINE q == Children(tree, n)
           r == Rows(tree, w, n, d)
<1>1. q \in Seq(1..N)
  BY ChildrenFacts DEF AreChildren
<1>2. \A c \in 1..N : w[<<c, d + 1>>] \in Seq(Entries(N))
  BY DEF Walks
<1>3. /\ Len(r) = Len(q) /\ r \in Seq(Seq(Entries(N)))
      /\ \A i \in 1..Len(q) : r[i] = Row(w, q[i], d)
  <2>1. AreRows(Rows(tree, w, n, d), tree, w, n, d, N)
    BY <1>2, RowsFacts
  <2> QED BY <2>1 DEF AreRows
<1> DEFINE E == Entries(N)
<1>4. w[<<n, d>>] = FlattenSeq(r)
  BY DEF Walks
<1> HIDE DEF q, r
<1>5. e \in ToSet(FlattenSeq(r)) <=> \E i \in 1..Len(r) : e \in ToSet(r[i])
  BY <1>3, FlattenMembers
<1>6. ASSUME NEW j \in 1..Len(q)
      PROVE  e \in ToSet(Row(w, q[j], d)) <=>
                e = [symbol |-> q[j], depth |-> d] \/ e \in ToSet(w[<<q[j], d + 1>>])
  <2> DEFINE h == [symbol |-> q[j], depth |-> d]
             s == w[<<q[j], d + 1>>]
  <2>1. q[j] \in 1..N
    BY <1>1
  <2>2. h \in E /\ s \in Seq(E)
    BY <1>2, <2>1 DEF Entries
  <2>3. Row(w, q[j], d) = <<h>> \o s
    BY DEF Row
  <2> HIDE DEF h, s, E
  <2>4. ToSet(<<h>> \o s) = ToSet(<<h>>) \cup ToSet(s)
    <3>1. <<h>> \in Seq(E)
      BY <2>2
    <3> QED BY <2>2, <3>1, MembersConcat
  <2>5. ToSet(<<h>>) = {h}
    BY DEF ToSet
  <2> QED BY <2>3, <2>4, <2>5 DEF h, s
<1> QED BY <1>3, <1>4, <1>5, <1>6 DEF q

\* What is below n has its children there too.
LEMMA WalkComplete ==
    ASSUME NEW tree, NEW N \in Nat, Shape(tree, N), NEW w, Walks(w, tree, N)
    PROVE  \A n \in 0..N, d \in Nat, m \in 1..N :
              tree.parent[m] = n \/ (\E e \in ToSet(w[<<n, d>>]) : e.symbol = tree.parent[m])
                 => \E e \in ToSet(w[<<n, d>>]) : e.symbol = m
<1> DEFINE Has(n, d, m) == \E e \in ToSet(w[<<n, d>>]) : e.symbol = m
           P == tree.parent
           T == {n \in 0..N : \A d \in Nat, m \in 1..N : P[m] = n \/ Has(n, d, P[m]) => Has(n, d, m)}
<1>1. ASSUME NEW n \in 0..N, \A c \in 0..N : c > n => c \in T PROVE n \in T
  <2> SUFFICES ASSUME NEW d \in Nat, NEW m \in 1..N, P[m] = n \/ Has(n, d, P[m])
               PROVE  Has(n, d, m)
    OBVIOUS
  <2> DEFINE q == Children(tree, n)
  <2> HIDE DEF T, Has
  <2>0. AreChildren(q, tree, n, N)
    BY ChildrenFacts
  <2>2. ASSUME NEW e
        PROVE  e \in ToSet(w[<<n, d>>]) <=>
                  \E j \in 1..Len(q) : \/ e = [symbol |-> q[j], depth |-> d]
                                       \/ e \in ToSet(w[<<q[j], d + 1>>])
    BY WalkMembers
  <2> HIDE DEF q
  <2>1. /\ q \in Seq(1..N)
        /\ \A j \in 1..Len(q) : P[q[j]] = n /\ n < q[j]
        /\ \A c \in 1..N : P[c] = n => \E j \in 1..Len(q) : q[j] = c
    BY <2>0 DEF AreChildren
  <2> USE DEF Has
  <2>3. CASE P[m] = n
    <3>1. PICK j \in 1..Len(q) : q[j] = m
      BY <2>1, <2>3
    <3> DEFINE e == [symbol |-> q[j], depth |-> d]
    <3>2. e.symbol = m
      BY <3>1
    <3>3. e \in ToSet(w[<<n, d>>])
      BY <2>2
    <3> HIDE DEF e
    <3> QED BY <3>2, <3>3
  <2>4. CASE Has(n, d, P[m])
    <3>1. PICK e \in ToSet(w[<<n, d>>]) : e.symbol = P[m]
      BY <2>4
    <3>2. PICK j \in 1..Len(q) : \/ e = [symbol |-> q[j], depth |-> d]
                                 \/ e \in ToSet(w[<<q[j], d + 1>>])
      BY <2>2, <3>1
    <3>3. P[m] = q[j] \/ Has(q[j], d + 1, P[m])
      BY <3>1, <3>2
    <3>4. q[j] \in T /\ d + 1 \in Nat
      <4>1. q[j] \in 0..N /\ q[j] > n
        BY <2>1
      <4> QED BY <1>1, <4>1
    <3> USE DEF T
    <3>5. Has(q[j], d + 1, m)
      BY <3>3, <3>4
    <3> QED BY <2>2, <3>5
  <2> QED BY <2>3, <2>4
<1> HIDE DEF T
<1>2. 0..N \subseteq T
  BY <1>1, FromTheLeaves
<1> QED BY <1>2 DEF T

-----------------------------------------------------------------------------
(* Depths: the parent of an entry is the last one before it one level up.  *)

\* The i-th entry has its parent before it, one level up, and nothing at that
\* level or above between the two.
Placed(tree, s, i) ==
    \E j \in 1..(i - 1) :
        /\ s[j].symbol = tree.parent[s[i].symbol] /\ s[j].depth = s[i].depth - 1
        /\ \A k \in (j + 1)..(i - 1) : s[k].depth >= s[i].depth

\* Lists of entries below n, none above depth d: each is a child of n at that
\* depth, or placed behind its parent.
Forest(tree, N, n, d) ==
    {s \in Seq(Entries(N)) :
        \A i \in 1..Len(s) :
            /\ s[i].depth >= d
            /\ (s[i].depth = d /\ tree.parent[s[i].symbol] = n) \/ Placed(tree, s, i)}

\* An entry stays placed when the list stands behind another.
LEMMA PlacedShift ==
    ASSUME NEW tree, NEW s, NEW t, NEW m \in Nat, NEW n \in Nat, NEW i \in 1..n,
           \A k \in 1..n : s[m + k] = t[k], Placed(tree, t, i)
    PROVE  Placed(tree, s, m + i)
<1>1. PICK j \in 1..(i - 1) :
        /\ t[j].symbol = tree.parent[t[i].symbol] /\ t[j].depth = t[i].depth - 1
        /\ \A k \in (j + 1)..(i - 1) : t[k].depth >= t[i].depth
  BY DEF Placed
<1>2. j \in 1..n /\ m + j \in 1..((m + i) - 1) /\ s[m + i] = t[i]
  OBVIOUS
<1>3. s[m + j] = t[j]
  BY <1>2
<1>4. ASSUME NEW k \in ((m + j) + 1)..((m + i) - 1) PROVE s[k].depth >= s[m + i].depth
  <2>1. k - m \in (j + 1)..(i - 1) /\ k - m \in 1..n /\ m + (k - m) = k
    OBVIOUS
  <2>2. s[m + (k - m)] = t[k - m]
    BY <2>1
  <2>3. s[k] = t[k - m]
    BY <2>1, <2>2
  <2> QED BY <1>1, <1>2, <2>1, <2>3
<1> QED BY <1>1, <1>2, <1>3, <1>4 DEF Placed

\* Forests stand one after the other.
LEMMA ForestConcat ==
    ASSUME NEW tree, NEW N \in Nat, NEW n, NEW d \in Nat,
           NEW a \in Forest(tree, N, n, d), NEW b \in Forest(tree, N, n, d)
    PROVE  a \o b \in Forest(tree, N, n, d)
<1> DEFINE c == a \o b
           S == Entries(N)
<1>1. a \in Seq(S) /\ b \in Seq(S)
  BY DEF Forest
<1> HIDE DEF c, S
<1>2. /\ c \in Seq(S) /\ Len(c) = Len(a) + Len(b) /\ Len(a) \in Nat /\ Len(b) \in Nat
      /\ \A i \in 1..Len(a) : c[i] = a[i]
      /\ \A i \in 1..Len(b) : c[Len(a) + i] = b[i]
  BY <1>1, ConcatIndex DEF c
<1>3. ASSUME NEW i \in 1..Len(c)
      PROVE  /\ c[i].depth >= d
             /\ (c[i].depth = d /\ tree.parent[c[i].symbol] = n) \/ Placed(tree, c, i)
  <2>1. CASE i \in 1..Len(a)
    <3>1. c[i] = a[i]
      BY <1>2, <2>1
    <3>2. a[i].depth >= d /\ ((a[i].depth = d /\ tree.parent[a[i].symbol] = n) \/ Placed(tree, a, i))
      BY <2>1 DEF Forest
    <3>3. ASSUME Placed(tree, a, i) PROVE Placed(tree, c, i)
      <4>1. 0 + i = i /\ 0 \in Nat /\ \A k \in 1..Len(a) : c[0 + k] = a[k]
        BY <1>2
      <4>2. Placed(tree, c, 0 + i)
        BY <1>2, <2>1, <3>3, <4>1, PlacedShift
      <4> QED BY <4>1, <4>2
    <3> QED BY <3>1, <3>2, <3>3
  <2>2. CASE i \notin 1..Len(a)
    <3> DEFINE h == i - Len(a)
    <3>1. h \in 1..Len(b) /\ Len(a) + h = i
      BY <1>2, <2>2
    <3> HIDE DEF h
    <3>2. c[i] = b[h]
      BY <1>2, <3>1
    <3>3. b[h].depth >= d /\ ((b[h].depth = d /\ tree.parent[b[h].symbol] = n) \/ Placed(tree, b, h))
      BY <3>1 DEF Forest
    <3>4. ASSUME Placed(tree, b, h) PROVE Placed(tree, c, i)
      <4>1. Placed(tree, c, Len(a) + h)
        BY <1>2, <3>1, <3>4, PlacedShift
      <4> QED BY <3>1, <4>1
    <3> QED BY <3>2, <3>3, <3>4
  <2> QED BY <2>1, <2>2
<1> QED BY <1>2, <1>3 DEF Forest, c, S

\* A child before the forest below it is a forest.
LEMMA ForestRow ==
    ASSUME NEW tree, NEW N \in Nat, NEW n, NEW d \in Nat, NEW c \in 1..N, NEW w,
           tree.parent[c] = n, w[<<c, d + 1>>] \in Forest(tree, N, c, d + 1)
    PROVE  Row(w, c, d) \in Forest(tree, N, n, d)
<1> DEFINE r == Row(w, c, d)
           s == w[<<c, d + 1>>]
           e == [symbol |-> c, depth |-> d]
<1>1. s \in Seq(Entries(N))
  BY DEF Forest
<1>2. /\ r \in Seq(Entries(N)) /\ Len(r) = Len(s) + 1 /\ r[1] = e
      /\ \A i \in 1..Len(s) : r[i + 1] = s[i]
  <2>1. w[<<c, d + 1>>] \in Seq(Entries(N))
    BY <1>1
  <2>2. IsRow(Row(w, c, d), c, d, w[<<c, d + 1>>], N)
    BY <2>1, RowFacts
  <2>3. IsRow(r, c, d, s, N)
    BY <2>2
  <2> HIDE DEF r, s
  <2> QED BY <2>3 DEF IsRow
<1>3. e.symbol = c /\ e.depth = d
  OBVIOUS
<1>4. \A i \in 1..Len(s) :
            /\ s[i].depth >= d + 1
            /\ (s[i].depth = d + 1 /\ tree.parent[s[i].symbol] = c) \/ Placed(tree, s, i)
  BY DEF Forest
<1>5. Len(s) \in Nat /\ \A i \in 1..Len(s) : s[i] \in Entries(N) /\ s[i].depth \in Nat
  <2>1. Len(s) \in Nat /\ \A i \in 1..Len(s) : s[i] \in Entries(N)
    BY <1>1
  <2>2. \A x \in Entries(N) : x.depth \in Nat
    BY DEF Entries
  <2> HIDE DEF s
  <2> QED BY <2>1, <2>2
<1> HIDE DEF r, s, e
<1>6. ASSUME NEW i \in 1..Len(r)
      PROVE  /\ r[i].depth >= d
             /\ (r[i].depth = d /\ tree.parent[r[i].symbol] = n) \/ Placed(tree, r, i)
  <2>1. CASE i = 1
    BY <1>2, <1>3, <2>1
  <2>2. CASE i # 1
    <3> DEFINE h == i - 1
    <3>1. h \in 1..Len(s) /\ h + 1 = i /\ 1 + h = i
      BY <1>2, <1>5, <2>2
    <3> HIDE DEF h
    <3>2. r[i] = s[h] /\ s[h].depth >= d + 1 /\ s[h].depth \in Nat
      BY <1>2, <1>4, <1>5, <3>1
    <3>3. CASE s[h].depth = d + 1 /\ tree.parent[s[h].symbol] = c
      <4>1. 1 \in 1..(i - 1) /\ r[1].symbol = tree.parent[r[i].symbol] /\ r[1].depth = r[i].depth - 1
        BY <1>2, <1>3, <2>2, <3>2, <3>3
      <4>2. ASSUME NEW k \in (1 + 1)..(i - 1) PROVE r[k].depth >= r[i].depth
        <5>1. k - 1 \in 1..Len(s) /\ (k - 1) + 1 = k
          BY <1>2, <1>5
        <5>2. r[(k - 1) + 1] = s[k - 1] /\ s[k - 1].depth >= d + 1
          BY <1>2, <1>4, <5>1
        <5>3. r[k] = s[k - 1]
          BY <5>1, <5>2
        <5>4. r[i].depth = d + 1
          BY <3>2, <3>3
        <5>5. s[k - 1].depth \in Nat
          BY <1>5, <5>1
        <5> QED BY <5>2, <5>3, <5>4, <5>5
      <4> QED BY <3>2, <4>1, <4>2 DEF Placed
    <3>4. CASE Placed(tree, s, h)
      <4>1. \A k \in 1..Len(s) : r[1 + k] = s[k]
        <5>1. \A k \in 1..Len(s) : 1 + k = k + 1
          OBVIOUS
        <5> QED BY <1>2, <5>1
      <4>2. Placed(tree, r, 1 + h)
        BY <1>5, <3>1, <3>4, <4>1, PlacedShift
      <4> QED BY <3>1, <3>2, <4>2
    <3> QED BY <1>4, <3>1, <3>2, <3>3, <3>4
  <2> QED BY <2>1, <2>2
<1> QED BY <1>2, <1>6 DEF Forest, r, s

\* The walk below a node is a forest.
LEMMA WalkForest ==
    ASSUME NEW tree, NEW N \in Nat, Shape(tree, N), NEW w, Walks(w, tree, N)
    PROVE  \A n \in 0..N, d \in Nat : w[<<n, d>>] \in Forest(tree, N, n, d)
<1> DEFINE T == {n \in 0..N : \A d \in Nat : w[<<n, d>>] \in Forest(tree, N, n, d)}
<1>1. ASSUME NEW n \in 0..N, \A c \in 0..N : c > n => c \in T PROVE n \in T
  <2> SUFFICES ASSUME NEW d \in Nat PROVE w[<<n, d>>] \in Forest(tree, N, n, d)
    OBVIOUS
  <2> DEFINE q == Children(tree, n)
             r == Rows(tree, w, n, d)
             F == Forest(tree, N, n, d)
  <2>1. /\ q \in Seq(1..N)
        /\ \A j \in 1..Len(q) : tree.parent[q[j]] = n /\ n < q[j]
    BY ChildrenFacts DEF AreChildren
  <2>2. \A c \in 1..N : w[<<c, d + 1>>] \in Seq(Entries(N))
    BY DEF Walks
  <2>3. /\ Len(r) = Len(q) /\ r \in Seq(Seq(Entries(N)))
        /\ \A i \in 1..Len(q) : r[i] = Row(w, q[i], d)
    <3>1. AreRows(Rows(tree, w, n, d), tree, w, n, d, N)
      BY <2>2, RowsFacts
    <3> QED BY <3>1 DEF AreRows
  <2> HIDE DEF q, r
  <2>4. ASSUME NEW i \in 1..Len(q) PROVE r[i] \in F
    <3>1. q[i] \in 1..N /\ q[i] \in 0..N /\ tree.parent[q[i]] = n /\ q[i] > n /\ d + 1 \in Nat
      BY <2>1
    <3>2. w[<<q[i], d + 1>>] \in Forest(tree, N, q[i], d + 1)
      BY <1>1, <3>1
    <3> QED BY <2>3, <3>1, <3>2, ForestRow
  <2>5. F \subseteq Seq(Entries(N)) /\ <<>> \in F
    <3>1. <<>> \in Seq(Entries(N)) /\ \A i \in 1..Len(<<>>) : FALSE
      BY EmptySeq
    <3> QED BY <3>1 DEF Forest
  <2>6. \A a, b \in F : a \o b \in F
    BY ForestConcat
  <2> HIDE DEF F
  <2>7. r \in Seq(F)
    <3> DEFINE V == Seq(Entries(N))
    <3>1. r \in Seq(V) /\ \A i \in 1..Len(r) : r[i] \in F
      BY <2>3, <2>4
    <3> HIDE DEF V
    <3> QED BY <3>1, SeqOver
  <2>8. FlattenSeq(r) \in F
    BY <2>5, <2>6, <2>7, FlattenClosed
  <2>9. w[<<n, d>>] = FlattenSeq(r)
    BY DEF Walks, r
  <2> QED BY <2>8, <2>9 DEF F
<1> HIDE DEF T
<1>2. 0..N \subseteq T
  BY <1>1, FromTheLeaves
<1> QED BY <1>2 DEF T

\* The parent of the i-th entry can be told from depths and order: what
\* OutlineReadable says of one entry.
Readable(tree, list, i) ==
    LET up == {j \in 1..i - 1 : list[j].depth = list[i].depth - 1}
        parent == tree.parent[list[i].symbol]
    IN  IF parent = 0 THEN list[i].depth = 0
        ELSE up # {} /\ list[Max(up)].symbol = parent

\* An outline that was cut off can still be read.
LEMMA PrefixReadable ==
    ASSUME NEW tree, NEW N \in Nat, Shape(tree, N), NEW flat, flat \in Forest(tree, N, 0, 0),
           NEW list, list \in Seq(Entries(N)),
           \A k \in 1..Len(list) : k \in 1..Len(flat) /\ list[k] = flat[k],
           NEW i \in 1..Len(list)
    PROVE  Readable(tree, list, i)
<1> DEFINE up == {j \in 1..i - 1 : list[j].depth = list[i].depth - 1}
           parent == tree.parent[list[i].symbol]
<1>1. \A k \in 1..Len(list) : list[k].symbol \in 1..N /\ list[k].depth \in Nat
  <2>1. \A x \in Entries(N) : x.symbol \in 1..N /\ x.depth \in Nat
    BY DEF Entries
  <2> QED BY <2>1
<1>2. Len(list) \in Nat /\ \A k \in 1..i : k \in 1..Len(list)
  OBVIOUS
<1>3. /\ flat[i].depth >= 0
      /\ (flat[i].depth = 0 /\ tree.parent[flat[i].symbol] = 0) \/ Placed(tree, flat, i)
  BY DEF Forest
<1>4. list[i] = flat[i]
  OBVIOUS
<1>5. CASE list[i].depth = 0 /\ parent = 0
  BY <1>5 DEF Readable
<1>6. CASE Placed(tree, flat, i)
  <2>1. PICK j \in 1..(i - 1) :
           /\ flat[j].symbol = tree.parent[flat[i].symbol] /\ flat[j].depth = flat[i].depth - 1
           /\ \A k \in (j + 1)..(i - 1) : flat[k].depth >= flat[i].depth
    BY <1>6 DEF Placed
  <2>2. j \in 1..i /\ list[j] = flat[j] /\ list[j].symbol \in 1..N
    BY <1>1, <1>2
  <2>3. parent = list[j].symbol /\ parent # 0 /\ list[j].depth = list[i].depth - 1
    BY <1>4, <2>1, <2>2
  <2>4. j \in up
    BY <2>3
  <2>5. ASSUME NEW k \in up PROVE j >= k
    <3> SUFFICES ASSUME k > j PROVE FALSE
      OBVIOUS
    <3>1. k \in (j + 1)..(i - 1) /\ k \in 1..i /\ list[k].depth = list[i].depth - 1
      OBVIOUS
    <3>2. flat[k].depth >= flat[i].depth /\ list[k] = flat[k]
      BY <1>2, <2>1, <3>1
    <3>3. list[i].depth \in Nat
      BY <1>1
    <3> QED BY <1>4, <3>1, <3>2, <3>3
  <2>6. Max(up) = j
    <3>1. \A x \in up : x \in Int
      OBVIOUS
    <3> HIDE DEF up
    <3>2. \A x \in up : (\A y \in up : x >= y) => x = j
      BY <2>4, <2>5, <3>1
    <3> QED BY <2>4, <2>5, <3>2 DEF Max
  <2> HIDE DEF up, parent
  <2> QED BY <2>3, <2>4, <2>6 DEF up, parent, Readable
<1> QED BY <1>3, <1>4, <1>5, <1>6

-----------------------------------------------------------------------------
(* Order: the walk is in document order.                                   *)

\* The way down to a symbol is the way to its parent and the symbol.
LEMMA ChainFacts ==
    ASSUME NEW tree, NEW N \in Nat, Shape(tree, N)
    PROVE  /\ \A m \in 0..N : Chain(tree, m) \in Seq(1..N)
           /\ Chain(tree, 0) = <<>>
           /\ \A m \in 1..N : Chain(tree, m) = Append(Chain(tree, tree.parent[m]), m)
<1> DEFINE W == Seq(1..N)
           P == tree.parent
           Step(f, m) == IF m = 0 THEN <<>> ELSE Append(f[P[m]], m)
           Eq(f) == f = [m \in {0} \cup DOMAIN P |-> IF m = 0 THEN <<>> ELSE Append(f[P[m]], m)]
           Good(f, k) == f \in [0..N -> W] /\ \A m \in 0..N : m < k => f[m] = Step(f, m)
           K == {k \in Nat : k <= N + 1 => \E f : Good(f, k)}
<1>1. {0} \cup DOMAIN P = 0..N
  BY DEF Shape
<1>2. \A m \in 1..N : P[m] \in 0..N /\ P[m] < m
  BY DEF Shape
<1>3. <<>> \in W /\ \A s \in W, m \in 1..N : Append(s, m) \in W
  BY EmptySeq, AppendProperties
<1> HIDE DEF W, P
<1>4. 0 \in K
  <2> DEFINE f == [m \in 0..N |-> <<>>]
  <2>1. f \in [0..N -> W]
    BY <1>3
  <2>2. \A m \in 0..N : ~(m < 0)
    OBVIOUS
  <2> HIDE DEF f
  <2>3. Good(f, 0)
    BY <2>1, <2>2
  <2> HIDE DEF Good
  <2> QED BY <2>3
<1>5. ASSUME NEW k \in Nat, k \in K PROVE k + 1 \in K
  <2> SUFFICES ASSUME k + 1 <= N + 1 PROVE \E f : Good(f, k + 1)
    OBVIOUS
  <2>1. PICK f : Good(f, k)
    BY <1>5
  <2> DEFINE g == [m \in 0..N |-> IF m = k THEN Step(f, k) ELSE f[m]]
  <2>2. k \in 0..N
    OBVIOUS
  <2>3. Step(f, k) \in W
    BY <1>2, <1>3, <2>1, <2>2
  <2>4. g \in [0..N -> W]
    BY <2>1, <2>3
  <2>5. ASSUME NEW m \in 0..N, m < k + 1 PROVE g[m] = Step(g, m)
    <3>1. m # 0 => P[m] \in 0..N /\ P[m] # k
      BY <1>2, <2>5
    <3>2. m # 0 => g[P[m]] = f[P[m]]
      BY <3>1
    <3>3. Step(g, m) = Step(f, m)
      BY <3>2
    <3>4. CASE m = k
      BY <3>3, <3>4
    <3>5. CASE m # k
      <4>1. m < k
        BY <2>5, <3>5
      <4>2. f[m] = Step(f, m)
        BY <2>1, <4>1
      <4> QED BY <3>3, <3>5, <4>2
    <3> QED BY <3>4, <3>5
  <2>6. Good(g, k + 1)
    BY <2>4, <2>5
  <2> HIDE DEF Good, g
  <2> QED BY <2>6
<1> HIDE DEF K
<1>6. N + 1 \in K
  BY <1>4, <1>5, UpFromZero
<1>7. PICK f : Good(f, N + 1)
  BY <1>6 DEF K
<1>8. \A m \in 0..N : f[m] = Step(f, m)
  BY <1>7
<1>9. Eq(f)
  BY <1>1, <1>7, <1>8
<1> DEFINE u == CHOOSE g : Eq(g)
<1>10. Eq(u)
  BY <1>9
<1>11. \A m : Chain(tree, m) = u[m]
  BY DEF Chain, P
<1> HIDE DEF u
<1>12. \A m \in 0..N : u[m] = Step(u, m)
  BY <1>1, <1>10
<1> DEFINE T == {m \in 0..N : u[m] \in W}
<1>13. ASSUME NEW m \in 0..N, \A c \in 0..N : c < m => c \in T PROVE m \in T
  BY <1>2, <1>3, <1>12, <1>13
<1> HIDE DEF T
<1>14. 0..N \subseteq T
  BY <1>13, FromTheRoot
<1>15. \A m \in 0..N : Chain(tree, m) \in W
  BY <1>11, <1>14 DEF T
<1>16. Chain(tree, 0) = <<>>
  BY <1>11, <1>12
<1>17. \A m \in 1..N : Chain(tree, m) = Append(Chain(tree, P[m]), m)
  <2>1. \A m \in 1..N : m \in 0..N /\ m # 0
    OBVIOUS
  <2>2. \A m \in 1..N : u[m] = Append(u[P[m]], m)
    BY <1>12, <2>1
  <2> HIDE DEF Step
  <2> QED BY <1>11, <2>2
<1> QED BY <1>15, <1>16, <1>17 DEF W, P

\* Whatever the walk finds below n has the way to n on its own way down.
LEMMA WalkBelow ==
    ASSUME NEW tree, NEW N \in Nat, Shape(tree, N), NEW w, Walks(w, tree, N)
    PROVE  \A n \in 0..N, d \in Nat : \A e \in ToSet(w[<<n, d>>]) :
              e.symbol \in 1..N /\ Under(Chain(tree, n), Chain(tree, e.symbol))
<1> DEFINE C(m) == Chain(tree, m)
           T == {n \in 0..N : \A d \in Nat : \A e \in ToSet(w[<<n, d>>]) :
                                e.symbol \in 1..N /\ Under(C(n), C(e.symbol))}
<1>0. /\ \A m \in 0..N : C(m) \in Seq(1..N)
      /\ \A m \in 1..N : C(m) = Append(C(tree.parent[m]), m)
  BY ChainFacts
<1>1. ASSUME NEW n \in 0..N, \A c \in 0..N : c > n => c \in T PROVE n \in T
  <2> SUFFICES ASSUME NEW d \in Nat, NEW e \in ToSet(w[<<n, d>>])
               PROVE  e.symbol \in 1..N /\ Under(C(n), C(e.symbol))
    OBVIOUS
  <2> DEFINE q == Children(tree, n)
  <2>1. /\ q \in Seq(1..N)
        /\ \A j \in 1..Len(q) : tree.parent[q[j]] = n /\ n < q[j]
    BY ChildrenFacts DEF AreChildren
  <2>2. PICK j \in 1..Len(q) : \/ e = [symbol |-> q[j], depth |-> d]
                               \/ e \in ToSet(w[<<q[j], d + 1>>])
    BY WalkMembers
  <2> HIDE DEF q
  <2>3. q[j] \in 1..N /\ q[j] \in 0..N /\ q[j] > n /\ tree.parent[q[j]] = n
    BY <2>1
  <2> HIDE DEF C
  <2>4. C(q[j]) = Append(C(n), q[j]) /\ C(n) \in Seq(1..N) /\ C(q[j]) \in Seq(1..N)
    BY <1>0, <2>3
  <2>5. Under(C(n), C(q[j]))
    BY <2>3, <2>4, UnderFacts
  <2>6. CASE e = [symbol |-> q[j], depth |-> d]
    <3>1. e.symbol = q[j]
      BY <2>6
    <3> QED BY <2>3, <2>5, <3>1
  <2>7. CASE e \in ToSet(w[<<q[j], d + 1>>])
    <3>1. q[j] \in T /\ d + 1 \in Nat
      BY <1>1, <2>3
    <3>2. e.symbol \in 1..N /\ Under(C(q[j]), C(e.symbol))
      BY <2>7, <3>1
    <3>3. C(e.symbol) \in Seq(1..N)
      <4>1. e.symbol \in 0..N
        BY <3>2
      <4> QED BY <1>0, <4>1
    <3> QED BY <2>3, <2>4, <2>5, <3>2, <3>3, UnderFacts
  <2> QED BY <2>2, <2>6, <2>7
<1> HIDE DEF T
<1>2. 0..N \subseteq T
  BY <1>1, FromTheLeaves
<1> QED BY <1>2 DEF T

\* Pairs of entries in document order.
Ordered(tree, N) ==
    {x \in Entries(N) \X Entries(N) : Before(tree, x[1].symbol, x[2].symbol)}

\* Whatever is at or below a child comes before whatever is at or below a later
\* one.
LEMMA BranchesApart ==
    ASSUME NEW tree, NEW N \in Nat, Shape(tree, N), NEW n \in 0..N,
           NEW b \in 1..N, NEW c \in 1..N, b < c, tree.parent[b] = n, tree.parent[c] = n,
           NEW x \in 1..N, NEW y \in 1..N,
           x = b \/ Under(Chain(tree, b), Chain(tree, x)),
           y = c \/ Under(Chain(tree, c), Chain(tree, y))
    PROVE  Before(tree, x, y)
<1> DEFINE C(m) == Chain(tree, m)
           l == Len(C(n))
<1>1. /\ \A m \in 1..N : C(m) \in Seq(1..N)
      /\ C(n) \in Seq(1..N)
      /\ C(b) = Append(C(n), b) /\ C(c) = Append(C(n), c)
  <2>1. \A m \in 1..N : m \in 0..N
    OBVIOUS
  <2> QED BY <2>1, ChainFacts
<1> DEFINE p == C(n)
           s == C(x)
           t == C(y)
<1> HIDE DEF C
<1>2. p \in Seq(1..N) /\ s \in Seq(1..N) /\ t \in Seq(1..N) /\ l = Len(p)
  BY <1>1
<1>3. ASSUME NEW z \in 1..N, NEW a \in 1..N, C(a) = Append(p, a), z = a \/ Under(C(a), C(z))
      PROVE  l + 1 <= Len(C(z)) /\ C(z)[l + 1] = a /\ \A k \in 1..l : C(z)[k] = p[k]
  <2> DEFINE ca == C(a)
             cz == C(z)
  <2>0. Len(cz) \in Nat
    BY <1>1
  <2>1. Len(ca) = l + 1 /\ l \in Nat /\ ca[l + 1] = a /\ \A k \in 1..l : ca[k] = p[k]
    BY <1>2, <1>3, AppendProperties
  <2>2. l + 1 <= Len(cz) /\ \A k \in 1..(l + 1) : cz[k] = ca[k]
    <3>1. CASE z = a
      BY <2>1, <3>1
    <3>2. CASE Under(ca, cz)
      BY <2>0, <2>1, <3>2 DEF Under
    <3> QED BY <1>3, <3>1, <3>2
  <2>3. l + 1 \in 1..(l + 1) /\ \A k \in 1..l : k \in 1..(l + 1)
    BY <2>1
  <2> QED BY <2>1, <2>2, <2>3
<1>4. l + 1 <= Len(s) /\ s[l + 1] = b /\ \A k \in 1..l : s[k] = p[k]
  BY <1>1, <1>3 DEF C
<1>5. l + 1 <= Len(t) /\ t[l + 1] = c /\ \A k \in 1..l : t[k] = p[k]
  BY <1>1, <1>3 DEF C
<1> HIDE DEF p, s, t, l
<1>6. l \in Nat /\ Len(s) \in Nat /\ Len(t) \in Nat
  BY <1>2
<1>7. l + 1 \in DOMAIN s \cap DOMAIN t /\ (l + 1) - 1 = l
  BY <1>2, <1>4, <1>5, <1>6
<1>8. SubSeq(s, 1, l) = SubSeq(t, 1, l)
  <2>1. l <= Len(s) /\ l <= Len(t)
    BY <1>4, <1>5, <1>6
  <2> QED BY <1>2, <1>4, <1>5, <1>6, <2>1, PrefixEqual
<1>9. \E i \in DOMAIN s \cap DOMAIN t : s[i] < t[i] /\ SubSeq(s, 1, i - 1) = SubSeq(t, 1, i - 1)
  BY <1>4, <1>5, <1>7, <1>8
<1> QED BY <1>9 DEF Before, s, t, C

\* The walk is in document order.
LEMMA WalkSorted ==
    ASSUME NEW tree, NEW N \in Nat, Shape(tree, N), NEW w, Walks(w, tree, N)
    PROVE  \A n \in 0..N, d \in Nat : Sorted(Ordered(tree, N), w[<<n, d>>])
<1> DEFINE R == Ordered(tree, N)
           T == {n \in 0..N : \A d \in Nat : Sorted(R, w[<<n, d>>])}
           E == Entries(N)
<1>1. ASSUME NEW a \in E, NEW b \in E, Before(tree, a.symbol, b.symbol) PROVE <<a, b>> \in R
  <2>1. <<a, b>> \in E \X E /\ <<a, b>>[1] = a /\ <<a, b>>[2] = b
    OBVIOUS
  <2> HIDE DEF E
  <2> QED BY <1>1, <2>1 DEF Ordered, E
<1>2. \A c \in 0..N, d \in Nat : w[<<c, d>>] \in Seq(Entries(N))
  BY DEF Walks
<1>3. ASSUME NEW n \in 0..N, \A c \in 0..N : c > n => c \in T PROVE n \in T
  <2> SUFFICES ASSUME NEW d \in Nat PROVE Sorted(R, w[<<n, d>>])
    OBVIOUS
  <2> DEFINE q == Children(tree, n)
             r == Rows(tree, w, n, d)
             h(j) == [symbol |-> q[j], depth |-> d]
             s(j) == w[<<q[j], d + 1>>]
  <2>1. /\ q \in Seq(1..N)
        /\ \A i, j \in 1..Len(q) : i < j => q[i] < q[j]
        /\ \A j \in 1..Len(q) : tree.parent[q[j]] = n /\ n < q[j]
    BY ChildrenFacts DEF AreChildren
  <2>2. /\ Len(r) = Len(q) /\ r \in Seq(Seq(E))
        /\ \A i \in 1..Len(q) : r[i] = Row(w, q[i], d)
    <3>1. \A c \in 1..N : w[<<c, d + 1>>] \in Seq(Entries(N))
      BY DEF Walks
    <3>2. AreRows(Rows(tree, w, n, d), tree, w, n, d, N)
      BY <3>1, RowsFacts
    <3> QED BY <3>2 DEF AreRows
  <2>3. w[<<n, d>>] = FlattenSeq(r)
    BY DEF Walks
  <2> HIDE DEF q, r
  <2>4. ASSUME NEW j \in 1..Len(q)
        PROVE  /\ q[j] \in 1..N /\ q[j] \in 0..N /\ tree.parent[q[j]] = n
               /\ h(j) \in E /\ h(j).symbol = q[j] /\ s(j) \in Seq(E)
               /\ r[j] = <<h(j)>> \o s(j)
               /\ ToSet(r[j]) = {h(j)} \cup ToSet(s(j))
               /\ Sorted(R, s(j))
               /\ \A e \in ToSet(s(j)) : e \in E /\ e.symbol \in 1..N
                                         /\ Under(Chain(tree, q[j]), Chain(tree, e.symbol))
    <3>1. q[j] \in 1..N /\ q[j] \in 0..N /\ tree.parent[q[j]] = n /\ q[j] > n /\ d + 1 \in Nat
      BY <2>1
    <3>2. h(j) \in E /\ h(j).symbol = q[j]
      BY <3>1 DEF Entries
    <3>3. s(j) \in Seq(E)
      BY <1>2, <3>1
    <3>4. r[j] = <<h(j)>> \o s(j)
      BY <2>2 DEF Row
    <3>5. Sorted(R, s(j))
      <4>1. q[j] \in T
        BY <1>3, <3>1
      <4> QED BY <3>1, <4>1
    <3>6. \A e \in ToSet(s(j)) : e.symbol \in 1..N /\ Under(Chain(tree, q[j]), Chain(tree, e.symbol))
      BY <3>1, WalkBelow
    <3> DEFINE hh == h(j)
               ss == s(j)
    <3> HIDE DEF hh, ss, E, h, s, R
    <3>7. \A e \in ToSet(ss) : e \in E
      BY <3>3 DEF ToSet, ss
    <3>8. ToSet(<<hh>> \o ss) = {hh} \cup ToSet(ss)
      <4>1. <<hh>> \in Seq(E) /\ ss \in Seq(E)
        BY <3>2, <3>3 DEF hh, ss
      <4>2. ToSet(<<hh>>) = {hh}
        BY DEF ToSet
      <4>3. ToSet(<<hh>> \o ss) = ToSet(<<hh>>) \cup ToSet(ss)
        BY <4>1, MembersConcat
      <4> QED BY <4>2, <4>3
    <3> QED BY <3>1, <3>2, <3>3, <3>4, <3>5, <3>6, <3>7, <3>8 DEF hh, ss
  <2> HIDE DEF h, s, E, R
  <2>5. ASSUME NEW j \in 1..Len(q) PROVE Sorted(R, r[j])
    <3> DEFINE hh == h(j)
               ss == s(j)
    <3>1. hh \in E /\ ss \in Seq(E) /\ r[j] = <<hh>> \o ss /\ Sorted(R, ss) /\ hh.symbol = q[j] /\ q[j] \in 1..N
      BY <2>4
    <3>2. \A e \in ToSet(ss) : e \in E /\ e.symbol \in 1..N
                               /\ Under(Chain(tree, q[j]), Chain(tree, e.symbol))
      BY <2>4
    <3> HIDE DEF hh, ss
    <3>3. ASSUME NEW e \in ToSet(ss) PROVE <<hh, e>> \in R
      <4>1. q[j] \in 0..N /\ e.symbol \in 0..N
        BY <3>1, <3>2
      <4>2. Chain(tree, q[j]) \in Seq(1..N) /\ Chain(tree, e.symbol) \in Seq(1..N)
        BY <4>1, ChainFacts
      <4>3. IsStrictPrefix(Chain(tree, q[j]), Chain(tree, e.symbol))
        BY <3>1, <3>2, <4>2, UnderFacts
      <4>4. Before(tree, hh.symbol, e.symbol)
        BY <3>1, <4>3 DEF Before
      <4> QED BY <1>1, <3>1, <3>2, <4>4
    <3>4. <<hh>> \in Seq(E) /\ Sorted(R, <<hh>>) /\ ToSet(<<hh>>) = {hh}
      BY <3>1 DEF Sorted, ToSet
    <3>5. Sorted(R, <<hh>> \o ss)
      BY <3>1, <3>3, <3>4, SortedConcat
    <3> QED BY <3>1, <3>5
  <2>6. ASSUME NEW i \in 1..Len(q), NEW j \in 1..Len(q), i < j,
               NEW x \in ToSet(r[i]), NEW y \in ToSet(r[j])
        PROVE  <<x, y>> \in R
    <3>1. x \in E /\ x.symbol \in 1..N
          /\ (x.symbol = q[i] \/ Under(Chain(tree, q[i]), Chain(tree, x.symbol)))
      BY <2>4
    <3>2. y \in E /\ y.symbol \in 1..N
          /\ (y.symbol = q[j] \/ Under(Chain(tree, q[j]), Chain(tree, y.symbol)))
      BY <2>4
    <3>3. q[i] < q[j] /\ q[i] \in 1..N /\ q[j] \in 1..N /\ tree.parent[q[i]] = n /\ tree.parent[q[j]] = n
      BY <2>1, <2>4, <2>6
    <3>4. Before(tree, x.symbol, y.symbol)
      BY <3>1, <3>2, <3>3, BranchesApart
    <3> QED BY <1>1, <3>1, <3>2, <3>4
  <2>7. Ascending(R, r)
    BY <2>2, <2>5, <2>6 DEF Ascending
  <2> QED BY <2>2, <2>3, <2>7, FlattenSorted
<1> HIDE DEF T
<1>4. 0..N \subseteq T
  BY <1>3, FromTheLeaves
<1> QED BY <1>4 DEF T

-----------------------------------------------------------------------------
(* Outlines.                                                               *)

\* An outline of the tree: readable, with every symbol, in document order.
IsOutline(flat, tree, N) ==
    /\ flat \in Forest(tree, N, 0, 0) /\ flat \in Seq(Entries(N))
    /\ \A m \in 1..N : \E i \in 1..Len(flat) : flat[i].symbol = m
    /\ \A i, j \in 1..Len(flat) : i < j => Before(tree, flat[i].symbol, flat[j].symbol)

\* FlattenSymbols makes an outline (flattenSymbols).
LEMMA OutlineFacts ==
    ASSUME NEW tree, NEW N \in Nat, Shape(tree, N)
    PROVE  IsOutline(FlattenSymbols(tree), tree, N)
<1> DEFINE flat == FlattenSymbols(tree)
<1>1. PICK w : Walks(w, tree, N) /\ flat = w[<<0, 0>>]
  BY WalkExists
<1>2. 0 \in 0..N /\ 0 \in Nat
  OBVIOUS
<1> HIDE DEF flat
<1>3. flat \in Forest(tree, N, 0, 0)
  BY <1>1, <1>2, WalkForest
<1>4. flat \in Seq(Entries(N))
  BY <1>3 DEF Forest
<1>5. Sorted(Ordered(tree, N), flat)
  BY <1>1, <1>2, WalkSorted
<1>6. ASSUME NEW i \in 1..Len(flat), NEW j \in 1..Len(flat), i < j
      PROVE  Before(tree, flat[i].symbol, flat[j].symbol)
  <2>1. <<flat[i], flat[j]>> \in Ordered(tree, N)
    BY <1>5, <1>6 DEF Sorted
  <2>2. <<flat[i], flat[j]>>[1] = flat[i] /\ <<flat[i], flat[j]>>[2] = flat[j]
    OBVIOUS
  <2> QED BY <2>1, <2>2 DEF Ordered
<1> DEFINE Has(m) == \E e \in ToSet(flat) : e.symbol = m
           T == {m \in 0..N : m # 0 => Has(m)}
<1>7. ASSUME NEW m \in 0..N, \A c \in 0..N : c < m => c \in T PROVE m \in T
  <2> SUFFICES ASSUME m # 0 PROVE Has(m)
    OBVIOUS
  <2>1. m \in 1..N /\ tree.parent[m] \in 0..N /\ tree.parent[m] < m
    BY DEF Shape
  <2>2. tree.parent[m] \in T
    BY <1>7, <2>1
  <2>3. tree.parent[m] = 0 \/ Has(tree.parent[m])
    BY <2>2
  <2> QED BY <1>1, <1>2, <2>1, <2>3, WalkComplete
<1> HIDE DEF T
<1>8. 0..N \subseteq T
  BY <1>7, FromTheRoot
<1>9. ASSUME NEW m \in 1..N PROVE \E i \in 1..Len(flat) : flat[i].symbol = m
  <2>1. m \in 0..N /\ m # 0
    OBVIOUS
  <2>2. PICK e \in ToSet(flat) : e.symbol = m
    BY <1>8, <2>1 DEF T
  <2>3. DOMAIN flat = 1..Len(flat)
    BY <1>4
  <2> QED BY <2>2, <2>3 DEF ToSet
<1> QED BY <1>3, <1>4, <1>6, <1>9 DEF IsOutline, flat

\* No symbol comes before itself.
LEMMA BeforeIsStrict ==
    ASSUME NEW tree, NEW N \in Nat, Shape(tree, N), NEW n \in 1..N
    PROVE  ~Before(tree, n, n)
<1> DEFINE s == Chain(tree, n)
<1>1. s \in Seq(1..N)
  <2>1. n \in 0..N
    OBVIOUS
  <2> QED BY <2>1, ChainFacts
<1> HIDE DEF s
<1>2. \A i \in DOMAIN s : ~(s[i] < s[i])
  <2>1. \A i \in DOMAIN s : s[i] \in 1..N
    BY <1>1
  <2>2. \A x \in 1..N : ~(x < x)
    OBVIOUS
  <2> QED BY <2>1, <2>2
<1> QED BY <1>2 DEF Before, IsStrictPrefix, s

\* An outline has no symbol twice, so it is no longer than the tree.
LEMMA OutlineLength ==
    ASSUME NEW tree, NEW N \in Nat, Shape(tree, N)
    PROVE  Len(FlattenSymbols(tree)) \in 0..N
<1> DEFINE flat == FlattenSymbols(tree)
           f == [i \in 1..Len(flat) |-> flat[i].symbol]
<1>1. IsOutline(flat, tree, N)
  BY OutlineFacts
<1> HIDE DEF flat
<1>2. Len(flat) \in Nat /\ \A i \in 1..Len(flat) : flat[i].symbol \in 1..N
  <2>1. flat \in Seq(Entries(N))
    BY <1>1 DEF IsOutline
  <2>2. \A x \in Entries(N) : x.symbol \in 1..N
    BY DEF Entries
  <2> QED BY <2>1, <2>2
<1>3. ASSUME NEW i \in 1..Len(flat), NEW j \in 1..Len(flat), f[i] = f[j] PROVE i = j
  <2>1. ~(i < j) /\ ~(j < i)
    <3>1. ~Before(tree, flat[i].symbol, flat[i].symbol)
      BY <1>2, BeforeIsStrict
    <3>2. flat[i].symbol = flat[j].symbol
      BY <1>3
    <3> QED BY <1>1, <3>1, <3>2 DEF IsOutline
  <2> QED BY <2>1
<1>4. f \in Injection(1..Len(flat), 1..N)
  <2>1. f \in [1..Len(flat) -> 1..N]
    BY <1>2
  <2> HIDE DEF f
  <2> QED BY <1>3, <2>1, Fun_IsInj
<1>5. Cardinality(1..Len(flat)) <= Cardinality(1..N) /\ IsFiniteSet(1..Len(flat)) /\ IsFiniteSet(1..N)
  <2>1. IsFiniteSet(1..N) /\ IsFiniteSet(1..Len(flat))
    BY <1>2, CountUpTo
  <2> HIDE DEF f
  <2> QED BY <1>4, <2>1, FS_Injection
<1>6. \A k \in Nat : Cardinality(1..k) = k
  BY CountUpTo
<1> QED BY <1>2, <1>5, <1>6 DEF flat

\* A tree that tsgo may send has the shape of one.
LEMMA TreeFacts ==
    ASSUME NEW tree \in Trees
    PROVE  \E N \in 0..MaxSymbols : Shape(tree, N) /\ Len(tree.parent) = N /\ DOMAIN tree.parent = 1..N
<1>1. PICK N \in 0..MaxSymbols : tree \in TreesOf(N)
  BY DEF Trees
<1>2. PICK up \in {f \in [1..N -> 0..N] : \A i \in 1..N : f[i] < i},
           named \in [1..N -> BOOLEAN], line \in [1..N -> Lines] :
         tree = [parent |-> up, named |-> named, line |-> line]
  BY <1>1 DEF TreesOf
<1>3. tree.parent = up
  BY <1>2
<1>4. N \in Nat /\ up \in [1..N -> 0..N] /\ \A i \in 1..N : up[i] < i
  BY BoundsAreNatural
<1>5. Shape(tree, N)
  BY <1>3, <1>4 DEF Shape
<1>6. DOMAIN up = 1..N /\ Len(up) = N
  BY <1>4
<1> QED BY <1>3, <1>5, <1>6

\* The outline of a tree that tsgo may send.
LEMMA OutlineOfTree ==
    ASSUME NEW tree \in Trees
    PROVE  \E N \in 0..MaxSymbols : /\ Shape(tree, N) /\ DOMAIN tree.parent = 1..N
                                    /\ IsOutline(FlattenSymbols(tree), tree, N)
                                    /\ FlattenSymbols(tree) \in Seq(Entries(N))
                                    /\ Len(FlattenSymbols(tree)) \in 0..N
<1>1. PICK N \in 0..MaxSymbols : Shape(tree, N) /\ DOMAIN tree.parent = 1..N
  BY TreeFacts
<1>2. N \in Nat
  OBVIOUS
<1>3. IsOutline(FlattenSymbols(tree), tree, N) /\ Len(FlattenSymbols(tree)) \in 0..N
  BY <1>1, <1>2, OutlineFacts, OutlineLength
<1> QED BY <1>1, <1>3 DEF IsOutline

-----------------------------------------------------------------------------
(* The lookup of a name.                                                   *)

\* v is the first symbol of K among the first i entries, None if there is none.
FirstIn(flat, K, i, v) ==
    IF \E k \in 1..i : flat[k].symbol \in K
    THEN \E k \in 1..i : /\ v = flat[k].symbol /\ v \in K
                         /\ \A j \in 1..(k - 1) : flat[j].symbol \notin K
    ELSE v = None

\* Prefer keeps the first symbol found.
LEMMA FirstStep ==
    ASSUME NEW N \in Nat, NEW flat, NEW K \in SUBSET (1..N), NEW i \in Nat, NEW v,
           FirstIn(flat, K, i, v)
    PROVE  /\ flat[i + 1].symbol \notin K => FirstIn(flat, K, i + 1, v)
           /\ flat[i + 1].symbol \in K => FirstIn(flat, K, i + 1, Prefer(v, flat[i + 1].symbol))
<1> DEFINE s == flat[i + 1].symbol
<1>1. \A k : k \in 1..(i + 1) <=> k \in 1..i \/ k = i + 1
  OBVIOUS
<1>2. None \notin K
  <2>1. \A x \in 1..N : x \in Int
    OBVIOUS
  <2> QED BY <2>1, NoneIsNoNumber
<1>3. CASE \E k \in 1..i : flat[k].symbol \in K
  <2>1. PICK k \in 1..i : /\ v = flat[k].symbol /\ v \in K
                          /\ \A j \in 1..(k - 1) : flat[j].symbol \notin K
    BY <1>3 DEF FirstIn
  <2>2. v # None
    BY <1>2, <2>1
  <2>3. FirstIn(flat, K, i + 1, v)
    BY <1>1, <2>1 DEF FirstIn
  <2> QED BY <2>2, <2>3 DEF Prefer
<1>4. CASE ~ \E k \in 1..i : flat[k].symbol \in K
  <2>1. v = None
    BY <1>4 DEF FirstIn
  <2>2. ASSUME s \in K PROVE FirstIn(flat, K, i + 1, s)
    <3>1. \A j \in 1..((i + 1) - 1) : flat[j].symbol \notin K
      BY <1>4
    <3> QED BY <1>1, <2>2, <3>1 DEF FirstIn
  <2>3. ASSUME s \notin K PROVE FirstIn(flat, K, i + 1, v)
    BY <1>1, <1>4, <2>1, <2>3 DEF FirstIn
  <2> QED BY <2>1, <2>2, <2>3 DEF Prefer
<1> QED BY <1>3, <1>4

\* ResolveSymbolPosition yields the first entry of the name on the line, or else
\* the first of the name (resolveSymbolPosition).
LEMMA ResolvedIsFirst ==
    ASSUME NEW tree, NEW N \in Nat, Shape(tree, N), NEW line
    PROVE  LET flat == FlattenSymbols(tree)
               named == {n \in 1..N : tree.named[n]}
               there == {n \in named : tree.line[n] = line}
               best == IF there = {} THEN named ELSE there
           IN  FirstIn(flat, best, Len(flat), ResolveSymbolPosition(tree, line))
<1> DEFINE flat == FlattenSymbols(tree)
           n == Len(flat)
           named == {m \in 1..N : tree.named[m]}
           there == {m \in named : tree.line[m] = line}
           best == IF there = {} THEN named ELSE there
           V == (1..N) \cup {None}
           R == [first : V, lineMatch : V]
           base == [first |-> None, lineMatch |-> None]
           Next1(old, s) == [first |-> Prefer(old.first, s),
                             lineMatch |-> IF tree.line[s] = line THEN Prefer(old.lineMatch, s)
                                           ELSE old.lineMatch]
           After(old, s) == IF ~tree.named[s] THEN old ELSE Next1(old, s)
           step == [x \in R \X (1..n) |-> After(x[1], flat[x[2]].symbol)]
           Eq(f) == f = [i \in 0..n |-> IF i = 0 THEN base
                                        ELSE LET s == flat[i].symbol
                                                 old == f[i - 1]
                                             IN  After(old, s)]
<1>1. IsOutline(flat, tree, N) /\ flat \in Seq(Entries(N))
  BY OutlineFacts DEF IsOutline
<1> HIDE DEF flat
<1>2. n \in Nat /\ \A i \in 1..n : flat[i].symbol \in 1..N
  <2>1. \A x \in Entries(N) : x.symbol \in 1..N
    BY DEF Entries
  <2> QED BY <1>1, <2>1
<1>3. base \in R
  OBVIOUS
<1>4. ASSUME NEW old \in R, NEW s \in 1..N PROVE After(old, s) \in R
  <2>1. Prefer(old.first, s) \in V /\ Prefer(old.lineMatch, s) \in V
    BY DEF Prefer
  <2> QED BY <2>1
<1>5. step \in [R \X (1..n) -> R]
  <2> HIDE DEF After, R
  <2> QED BY <1>2, <1>4
<1>6. \A old \in R, i \in 1..n : step[<<old, i>>] = After(old, flat[i].symbol)
  <2> HIDE DEF After, R
  <2> QED OBVIOUS
<1> HIDE DEF step, R, base, After
<1>7. PICK f \in [0..n -> R] : Iterates(f, n, base, step)
  <2> HIDE DEF n
  <2> QED BY <1>2, <1>3, <1>5, NatRecursion
<1>8. ASSUME NEW i \in 0..n
      PROVE  f[i] = IF i = 0 THEN base ELSE After(f[i - 1], flat[i].symbol)
  <2>1. CASE i = 0
    BY <1>7, <2>1 DEF Iterates
  <2>2. CASE i # 0
    <3>1. i \in 1..n /\ i - 1 \in 0..n
      BY <2>2
    <3>2. f[i] = step[<<f[i - 1], i>>]
      BY <1>7, <2>2 DEF Iterates
    <3> QED BY <1>6, <1>7, <2>2, <3>1, <3>2
  <2> QED BY <2>1, <2>2
<1>9. Eq(f)
  BY <1>7, <1>8
<1> DEFINE u == CHOOSE g : Eq(g)
<1>10. Eq(u)
  BY <1>9
<1>11. ResolveSymbolPosition(tree, line) = Prefer(u[n].lineMatch, u[n].first)
  BY DEF ResolveSymbolPosition, After, flat, base
<1> HIDE DEF u
<1>12. u[0] = base /\ \A i \in 0..n : i + 1 \in 0..n => u[i + 1] = After(u[i], flat[i + 1].symbol)
  <2>1. u[0] = base
    BY <1>2, <1>10
  <2>2. ASSUME NEW i \in 0..n, i + 1 \in 0..n PROVE u[i + 1] = After(u[i], flat[i + 1].symbol)
    <3>1. i + 1 # 0 /\ (i + 1) - 1 = i
      OBVIOUS
    <3> QED BY <1>10, <2>2, <3>1
  <2> QED BY <2>1, <2>2
<1> DEFINE J(i) == FirstIn(flat, named, i, u[i].first) /\ FirstIn(flat, there, i, u[i].lineMatch)
           K == {i \in Nat : i <= n => J(i)}
<1>13. 0 \in K
  <2>1. u[0].first = None /\ u[0].lineMatch = None
    BY <1>12 DEF base
  <2>2. \A k \in 1..0 : FALSE
    OBVIOUS
  <2> HIDE DEF named, there
  <2> QED BY <2>1, <2>2 DEF FirstIn
<1>14. ASSUME NEW i \in Nat, i \in K PROVE i + 1 \in K
  <2> SUFFICES ASSUME i + 1 <= n PROVE J(i + 1)
    OBVIOUS
  <2> DEFINE s == flat[i + 1].symbol
             old == u[i]
  <2>1. s \in 1..N
    BY <1>2
  <2>2. u[i + 1] = After(old, s)
    BY <1>2, <1>12
  <2>3. J(i)
    BY <1>14, <1>2
  <2>4. named \in SUBSET (1..N) /\ there \in SUBSET (1..N)
    OBVIOUS
  <2>5. /\ s \in named <=> tree.named[s]
        /\ s \in there <=> tree.named[s] /\ tree.line[s] = line
    BY <2>1
  <2> HIDE DEF named, there
  <2>6. /\ s \notin named => FirstIn(flat, named, i + 1, old.first)
        /\ s \in named => FirstIn(flat, named, i + 1, Prefer(old.first, s))
    BY <2>3, <2>4, FirstStep
  <2>7. /\ s \notin there => FirstIn(flat, there, i + 1, old.lineMatch)
        /\ s \in there => FirstIn(flat, there, i + 1, Prefer(old.lineMatch, s))
    BY <2>3, <2>4, FirstStep
  <2> HIDE DEF s, old
  <2>8. CASE ~tree.named[s]
    <3>1. u[i + 1] = old
      BY <2>2, <2>8 DEF After
    <3> QED BY <2>5, <2>6, <2>7, <2>8, <3>1
  <2>9. CASE tree.named[s]
    <3>1. /\ u[i + 1].first = Prefer(old.first, s)
          /\ u[i + 1].lineMatch = IF tree.line[s] = line THEN Prefer(old.lineMatch, s) ELSE old.lineMatch
      BY <2>2, <2>9 DEF After
    <3> QED BY <2>5, <2>6, <2>7, <2>9, <3>1
  <2> QED BY <2>8, <2>9
<1> HIDE DEF K
<1>15. n \in K
  BY <1>2, <1>13, <1>14, UpFromZero
<1>16. J(n)
  BY <1>2, <1>15 DEF K
<1>17. \A m \in there : \E k \in 1..n : flat[k].symbol = m
  BY <1>1 DEF IsOutline
<1>18. None \notin there
  BY NoneIsNoNumber
<1>19. CASE there = {}
  <2>1. u[n].lineMatch = None
    BY <1>16, <1>19 DEF FirstIn
  <2>2. best = named
    BY <1>19
  <2> HIDE DEF best, named, there
  <2> QED BY <1>11, <1>16, <2>1, <2>2 DEF Prefer, best, named, there
<1>20. CASE there # {}
  <2>1. best = there
    BY <1>20
  <2>2. \E k \in 1..n : flat[k].symbol \in there
    BY <1>17, <1>20
  <2> HIDE DEF best, there
  <2>3. u[n].lineMatch # None
    BY <1>16, <1>18, <2>2 DEF FirstIn
  <2>4. ResolveSymbolPosition(tree, line) = u[n].lineMatch
    BY <1>11, <2>3 DEF Prefer
  <2>5. FirstIn(flat, best, n, ResolveSymbolPosition(tree, line))
    BY <1>16, <2>1, <2>4
  <2> QED BY <2>5 DEF best, there, flat
<1> QED BY <1>19, <1>20 DEF flat

\* The same in document order, as ResolvesFirst states it.
LEMMA FirstOfOutline ==
    ASSUME NEW tree \in Trees, NEW line
    PROVE  LET named == {n \in DOMAIN tree.parent : tree.named[n]}
               there == {n \in named : tree.line[n] = line}
               best == IF there = {} THEN named ELSE there
               at == ResolveSymbolPosition(tree, line)
           IN  IF best = {} THEN at = None
               ELSE at \in best /\ \A n \in best \ {at} : Before(tree, at, n)
<1>1. PICK N \in 0..MaxSymbols : Shape(tree, N) /\ DOMAIN tree.parent = 1..N
  BY TreeFacts
<1>2. N \in Nat
  OBVIOUS
<1> DEFINE named == {n \in 1..N : tree.named[n]}
           there == {n \in named : tree.line[n] = line}
           best == IF there = {} THEN named ELSE there
           at == ResolveSymbolPosition(tree, line)
           flat == FlattenSymbols(tree)
<1>3. FirstIn(flat, best, Len(flat), at)
  BY <1>1, <1>2, ResolvedIsFirst
<1>4. IsOutline(flat, tree, N)
  BY <1>1, <1>2, OutlineFacts
<1>5. best \subseteq 1..N
  OBVIOUS
<1> HIDE DEF best, at, flat
<1>6. \A m \in best : \E i \in 1..Len(flat) : flat[i].symbol = m
  BY <1>4, <1>5 DEF IsOutline
<1>7. CASE best = {}
  BY <1>1, <1>3, <1>7 DEF FirstIn, best, at
<1>8. CASE best # {}
  <2>1. PICK k \in 1..Len(flat) : /\ at = flat[k].symbol /\ at \in best
                                  /\ \A j \in 1..(k - 1) : flat[j].symbol \notin best
    BY <1>3, <1>6, <1>8 DEF FirstIn
  <2>2. ASSUME NEW n \in best, n # at PROVE Before(tree, at, n)
    <3>1. PICK i \in 1..Len(flat) : flat[i].symbol = n
      BY <1>6
    <3>2. k < i
      <4>1. i # k
        BY <2>1, <2>2, <3>1
      <4>2. i \notin 1..(k - 1)
        BY <2>1, <3>1
      <4> QED BY <4>1, <4>2
    <3> QED BY <1>4, <2>1, <3>1, <3>2 DEF IsOutline
  <2> QED BY <1>1, <1>8, <2>1, <2>2 DEF best, at
<1> QED BY <1>7, <1>8
=============================================================================
