--------------------------- MODULE PathNormProofs ---------------------------
(***************************************************************************)
(* What the conversions of PathNorm do to every path, of any length and    *)
(* over any names.                                                         *)
(*                                                                         *)
(* The argument: whatever a conversion does to an absolute path, the       *)
(* result is the root, or the plain names of a list each under a slash     *)
(* (HostPaths), and such a path is left alone by Clean, by Normalize and   *)
(* by the second of two conversions.                                       *)
(***************************************************************************)
EXTENDS PathNorm, SequenceFacts

-----------------------------------------------------------------------------
(* Segments and Clean.                                                     *)

\* Segments is what its definition says: a slash begins a new segment, and any
\* other token goes on with the last.
LEMMA SegmentsStep ==
    /\ Segments \in [Seq(Tokens) -> Seq(Seq(Tokens)) \ {<<>>}]
    /\ Segments[<<>>] = << <<>> >>
    /\ \A p \in Seq(Tokens), t \in Tokens :
          Segments[Append(p, t)] =
              IF t = Slash THEN Append(Segments[p], <<>>)
              ELSE Append(Front(Segments[p]), Append(Last(Segments[p]), t))
<1> DEFINE W == Seq(Tokens)
           R == Seq(W) \ {<<>>}
           base == << <<>> >>
           step == [x \in R \X Tokens |->
                      IF x[2] = Slash THEN Append(x[1], <<>>)
                      ELSE Append(Front(x[1]), Append(Last(x[1]), x[2]))]
           Is(f) == f = [p \in Seq(Tokens) |->
                           IF p = <<>> THEN << <<>> >>
                           ELSE IF Last(p) = Slash THEN Append(f[Front(p)], <<>>)
                                ELSE Append(Front(f[Front(p)]), Append(Last(f[Front(p)]), Last(p)))]
<1>1. <<>> \in W /\ \A s \in W, t \in Tokens : Append(s, t) \in W
  BY EmptySeq, AppendProperties
<1> HIDE DEF W
<1>2. base \in R
  BY <1>1
<1>3. ASSUME NEW x \in R, NEW t \in Tokens
      PROVE  /\ Append(x, <<>>) \in R
             /\ Append(Front(x), Append(Last(x), t)) \in R
  <2>1. Front(x) \in Seq(W) /\ Last(x) \in W
    BY FrontLast
  <2> QED BY <1>1, <2>1, AppendProperties
<1>4. step \in [R \X Tokens -> R]
  BY <1>3
<1>5. PICK f \in [Seq(Tokens) -> R] : Computes(f, Seq(Tokens), base, step)
  BY <1>2, <1>4, SeqRecursion
<1>6. Is(f)
  <2>1. ASSUME NEW p \in Seq(Tokens), p # <<>>
        PROVE  step[<<f[Front(p)], Last(p)>>] =
                 IF Last(p) = Slash THEN Append(f[Front(p)], <<>>)
                 ELSE Append(Front(f[Front(p)]), Append(Last(f[Front(p)]), Last(p)))
    <3>1. Front(p) \in Seq(Tokens) /\ Last(p) \in Tokens
      BY <2>1, FrontLast
    <3>2. f[Front(p)] \in R
      BY <3>1, <1>5
    <3> QED BY <3>1, <3>2
  <2> QED BY <1>5, <2>1 DEF Computes
<1>7. Is(Segments)
  BY <1>6 DEF Segments
<1>8. Segments[<<>>] = << <<>> >>
  BY <1>7, EmptySeq
<1>9. ASSUME NEW p \in Seq(Tokens), NEW t \in Tokens
      PROVE  Segments[Append(p, t)] =
                 IF t = Slash THEN Append(Segments[p], <<>>)
                 ELSE Append(Front(Segments[p]), Append(Last(Segments[p]), t))
  <2>1. Append(p, t) \in Seq(Tokens) /\ Append(p, t) # <<>>
        /\ Front(Append(p, t)) = p /\ Last(Append(p, t)) = t
    BY FrontOfAppend
  <2> QED BY <1>7, <2>1
<1> DEFINE T == {p \in Seq(Tokens) : Segments[p] \in R}
<1> HIDE DEF Is, R, base
<1>10. <<>> \in T
  BY <1>2, <1>8, EmptySeq DEF base
<1>11. ASSUME NEW p \in Seq(Tokens), NEW t \in Tokens, p \in T PROVE Append(p, t) \in T
  BY <1>3, <1>9, <1>11, AppendProperties
<1> HIDE DEF T
<1>12. Seq(Tokens) \subseteq T
  BY <1>10, <1>11, SeqInduction
<1>13. \A p \in Seq(Tokens) : Segments[p] \in R
  BY <1>12 DEF T
<1>14. Segments \in [Seq(Tokens) -> R]
  BY <1>7, <1>13 DEF Is
<1> QED BY <1>8, <1>9, <1>14 DEF R, W

\* A set of words over T.

\* The segments of a path have its tokens, without slashes, and there is one at
\* least.
LEMMA SegmentsOver ==
    ASSUME NEW T \in SUBSET Tokens, NEW p \in Seq(T)
    PROVE  Segments[p] \in Seq(Seq(T \ {Slash})) \ {<<>>}
<1> DEFINE W == Seq(T \ {Slash})
           R == Seq(W) \ {<<>>}
           P == {q \in Seq(T) : Segments[q] \in R}
<1>1. <<>> \in W /\ \A s \in W, t \in T \ {Slash} : Append(s, t) \in W
  BY EmptySeq, AppendProperties
<1> HIDE DEF W
<1>2. << <<>> >> \in R
  BY <1>1
<1>3. ASSUME NEW x \in R, NEW t \in T
      PROVE  /\ Append(x, <<>>) \in R
             /\ t # Slash => Append(Front(x), Append(Last(x), t)) \in R
  <2>1. Front(x) \in Seq(W) /\ Last(x) \in W
    BY FrontLast
  <2> QED BY <1>1, <2>1, AppendProperties
<1> HIDE DEF R
<1>4. <<>> \in P
  BY <1>2, SegmentsStep, EmptySeq
<1>5. ASSUME NEW q \in Seq(T), NEW t \in T, q \in P PROVE Append(q, t) \in P
  <2>1. q \in Seq(Tokens) /\ t \in Tokens /\ Append(q, t) \in Seq(T)
    BY SeqMonotonic, AppendProperties
  <2>2. Segments[Append(q, t)] = IF t = Slash THEN Append(Segments[q], <<>>)
             ELSE Append(Front(Segments[q]), Append(Last(Segments[q]), t))
    BY <2>1, SegmentsStep
  <2> QED BY <1>3, <1>5, <2>1, <2>2
<1> HIDE DEF P
<1>6. Seq(T) \subseteq P
  BY <1>4, <1>5, SeqInduction
<1> QED BY <1>6 DEF P, R, W

\* What lies before a slash and what lies behind it are split one by one.

\* A slash between two paths parts their segments.
LEMMA SegmentsJoin ==
    ASSUME NEW p \in Seq(Tokens), NEW q \in Seq(Tokens)
    PROVE  Segments[Append(p, Slash) \o q] = Segments[p] \o Segments[q]
<1> DEFINE ps == Append(p, Slash)
           W == Seq(Tokens)
           P == {r \in Seq(Tokens) : Segments[ps \o r] = Segments[p] \o Segments[r]}
<1>1. Slash \in Tokens
  BY DEF Tokens, Separators
<1>2. ps \in Seq(Tokens)
  BY <1>1, AppendProperties
<1>3. Segments[ps] = Append(Segments[p], <<>>)
  BY <1>1, SegmentsStep
<1>4. \A r \in W : Segments[r] \in Seq(W) /\ Segments[r] # <<>>
  BY SegmentsStep
<1>5. <<>> \in W /\ \A s \in W, t \in Tokens : Append(s, t) \in W
  BY EmptySeq, AppendProperties
<1> HIDE DEF ps
<1>6. <<>> \in P
  <2>1. ps \o <<>> = ps
    BY <1>2, ConcatEmptySeq
  <2>2. Append(Segments[p], <<>>) = Segments[p] \o << <<>> >>
    <3> HIDE DEF W
    <3>1. p \in W
      BY DEF W
    <3> QED BY <1>4, <1>5, <3>1, AppendIsConcat
  <2> QED BY <1>3, <2>1, <2>2, SegmentsStep, EmptySeq
<1>7. ASSUME NEW r \in Seq(Tokens), NEW t \in Tokens, r \in P PROVE Append(r, t) \in P
  <2> DEFINE a == Segments[p]
             b == Segments[r]
  <2>1. a \in Seq(W) /\ b \in Seq(W) /\ b # <<>>
    BY <1>4
  <2>2. Append(r, t) \in Seq(Tokens) /\ ps \o r \in Seq(Tokens)
    BY <1>2, AppendProperties, ConcatProperties
  <2>3. ps \o Append(r, t) = Append(ps \o r, t)
    BY <1>2, ConcatAppend
  <2>4. Segments[ps \o r] = a \o b
    BY <1>7
  <2>5. Segments[Append(ps \o r, t)] =
            IF t = Slash THEN Append(a \o b, <<>>)
            ELSE Append(Front(a \o b), Append(Last(a \o b), t))
    BY <2>2, <2>4, SegmentsStep
  <2>6. Segments[Append(r, t)] =
            IF t = Slash THEN Append(b, <<>>)
            ELSE Append(Front(b), Append(Last(b), t))
    BY SegmentsStep
  <2> HIDE DEF a, b, W
  <2>7. ASSUME NEW w \in W PROVE a \o Append(b, w) = Append(a \o b, w)
    BY <2>1, ConcatAppend
  <2>8. Last(b) \in W /\ Front(b) \in Seq(W)
    BY <2>1, FrontLast
  <2>10. Front(a \o b) = a \o Front(b) /\ Last(a \o b) = Last(b)
    BY <2>1, ConcatFront
  <2>11. ASSUME NEW w \in W
         PROVE  a \o Append(Front(b), w) = Append(a \o Front(b), w)
    BY <2>1, <2>8, ConcatAppend
  <2>12. Segments[Append(ps \o r, t)] = a \o Segments[Append(r, t)]
    BY <1>5, <2>5, <2>6, <2>7, <2>8, <2>10, <2>11
  <2> QED BY <2>2, <2>3, <2>12 DEF a
<1> HIDE DEF P
<1>8. Seq(Tokens) \subseteq P
  BY <1>6, <1>7, SeqInduction
<1> QED BY <1>8 DEF P, ps

\* A word is one segment.

\* A path without a slash is one segment.
LEMMA SegmentsOfWord ==
    ASSUME NEW s \in Seq(Tokens \ {Slash})
    PROVE  Segments[s] = <<s>>
<1> DEFINE P == {r \in Seq(Tokens \ {Slash}) : Segments[r] = <<r>>}
<1>1. <<>> \in P
  BY SegmentsStep, EmptySeq
<1>2. ASSUME NEW r \in Seq(Tokens \ {Slash}), NEW t \in Tokens \ {Slash}, r \in P
      PROVE  Append(r, t) \in P
  <2> DEFINE W == Seq(Tokens)
  <2>1. r \in Seq(Tokens) /\ Append(r, t) \in Seq(Tokens \ {Slash})
    BY SeqMonotonic, AppendProperties
  <2>2. Segments[Append(r, t)] = Append(Front(<<r>>), Append(Last(<<r>>), t))
    BY <1>2, <2>1, SegmentsStep
  <2>3. Append(r, t) \in W /\ r \in W
    BY <2>1, SeqMonotonic
  <2> HIDE DEF W
  <2>4. <<r>> = Append(<<>>, r) /\ <<>> \in Seq(W)
    BY <2>3
  <2>5. Front(<<r>>) = <<>> /\ Last(<<r>>) = r
    BY <2>3, <2>4, FrontOfAppend
  <2>6. Append(<<>>, Append(r, t)) = <<Append(r, t)>>
    BY <2>3
  <2> QED BY <2>1, <2>2, <2>5, <2>6
<1> HIDE DEF P
<1>3. Seq(Tokens \ {Slash}) \subseteq P
  BY <1>1, <1>2, SeqInduction
<1> QED BY <1>3 DEF P

\* Enter yields a list of the segments it is given.
LEMMA EnterType ==
    ASSUME NEW W, NEW kept \in Seq(W), NEW s \in W, NEW rooted \in BOOLEAN
    PROVE  Enter(rooted, kept, s) \in Seq(W)
<1>1. kept # <<>> => Front(kept) \in Seq(W)
  BY FrontLast
<1>2. Append(kept, s) \in Seq(W)
  BY AppendProperties
<1> QED BY <1>1, <1>2 DEF Enter

\* Kept takes in one segment after the other.
LEMMA KeptStep ==
    ASSUME NEW rooted \in BOOLEAN
    PROVE  /\ Kept(rooted, <<>>) = <<>>
           /\ \A segs \in Seq(Seq(Tokens)) : Kept(rooted, segs) \in Seq(Seq(Tokens))
           /\ \A segs \in Seq(Seq(Tokens)), s \in Seq(Tokens) :
                 Kept(rooted, Append(segs, s)) = Enter(rooted, Kept(rooted, segs), s)
<1> DEFINE W == Seq(Tokens)
           step == [x \in Seq(W) \X W |-> Enter(rooted, x[1], x[2])]
           Is(f) == f = [t \in Seq(W) |-> IF t = <<>> THEN <<>>
                                           ELSE Enter(rooted, f[Front(t)], Last(t))]
           kept == CHOOSE f : Is(f)
<1>1. \A segs : Kept(rooted, segs) = kept[segs]
  BY DEF Kept
<1> HIDE DEF W
<1>2. step \in [Seq(W) \X W -> Seq(W)]
  BY EnterType
<1>3. PICK f \in [Seq(W) -> Seq(W)] : Computes(f, Seq(W), <<>>, step)
  BY <1>2, SeqRecursion, EmptySeq
<1>4. Is(f)
  <2>1. ASSUME NEW t \in Seq(W), t # <<>>
        PROVE  step[<<f[Front(t)], Last(t)>>] = Enter(rooted, f[Front(t)], Last(t))
    <3>1. Front(t) \in Seq(W) /\ Last(t) \in W
      BY <2>1, FrontLast
    <3> QED BY <3>1, <1>3
  <2> QED BY <1>3, <2>1 DEF Computes
<1>5. Is(kept)
  BY <1>4
<1> HIDE DEF kept
<1>6. kept[<<>>] = <<>>
  BY <1>5, EmptySeq
<1>7. ASSUME NEW segs \in Seq(W), NEW s \in W
      PROVE  kept[Append(segs, s)] = Enter(rooted, kept[segs], s)
  <2>1. Append(segs, s) \in Seq(W) /\ Append(segs, s) # <<>>
        /\ Front(Append(segs, s)) = segs /\ Last(Append(segs, s)) = s
    BY FrontOfAppend
  <2> QED BY <1>5, <2>1
<1> DEFINE P == {segs \in Seq(W) : kept[segs] \in Seq(W)}
<1>8. Seq(W) \subseteq P
  <2>1. <<>> \in P
    BY <1>6, EmptySeq
  <2>2. ASSUME NEW segs \in Seq(W), NEW s \in W, segs \in P PROVE Append(segs, s) \in P
    BY <1>7, <2>2, EnterType, AppendProperties
  <2> HIDE DEF P
  <2> QED BY <2>1, <2>2, SeqInduction
<1> QED BY <1>1, <1>6, <1>7, <1>8 DEF W

\* The segments that Clean drops.
Dots == {<<>>, <<".">>}

\* The segments that stay: neither empty nor dots.
Plain(T) == {w \in Seq(T \ {Slash}) : w \notin Dots /\ w # <<"..">>}

\* No segment that is kept is empty or a dot, and under the root none goes up.

\* No empty segment and no dot is kept, and under a root no ".." either.
LEMMA KeptPlain ==
    ASSUME NEW T \in SUBSET Tokens, NEW rooted \in BOOLEAN,
           NEW segs \in Seq(Seq(T \ {Slash}))
    PROVE  /\ Kept(rooted, segs) \in Seq(Seq(T \ {Slash}) \ Dots)
           /\ rooted => Kept(rooted, segs) \in Seq(Plain(T))
<1> DEFINE V == Seq(T \ {Slash})
           W == IF rooted THEN Plain(T) ELSE V \ Dots
           P == {t \in Seq(V) : Kept(rooted, t) \in Seq(W)}
<1>1. V \subseteq Seq(Tokens) /\ \A t \in Seq(V) : t \in Seq(Seq(Tokens))
  <2>1. V \subseteq Seq(Tokens)
    BY SeqMonotonic
  <2> HIDE DEF V
  <2> QED BY <2>1, SeqMonotonic
<1>2. \A w \in V : w \in W <=> w \notin Dots /\ (rooted => w # <<"..">>)
  BY DEF Plain
<1>3. W \subseteq V
  BY DEF Plain
<1> HIDE DEF V, W
<1>4. <<>> \in P
  BY KeptStep, EmptySeq
<1>5. ASSUME NEW t \in Seq(V), NEW s \in V, t \in P PROVE Append(t, s) \in P
  <2> DEFINE kept == Kept(rooted, t)
  <2>1. kept \in Seq(W)
    BY <1>5
  <2>2. Kept(rooted, Append(t, s)) = Enter(rooted, kept, s)
    BY <1>1, KeptStep
  <2> HIDE DEF kept
  <2>3. kept # <<>> => Front(kept) \in Seq(W) /\ Last(kept) \in W
    BY <2>1, FrontLast
  <2>4. s \in W => Append(kept, s) \in Seq(W)
    BY <2>1, AppendProperties
  <2>5. Enter(rooted, kept, s) \in Seq(W)
    <3>1. CASE s \in Dots
      <4>2. s # <<"..">>
        <5>1. <<>> # <<"..">> /\ <<".">> # <<"..">>
          OBVIOUS
        <5> QED BY <3>1, <5>1 DEF Dots
      <4>1. Enter(rooted, kept, s) = kept
        BY <3>1, <4>2 DEF Enter, Dots
      <4> QED BY <2>1, <4>1
    <3>2. CASE s \notin Dots /\ s \in W
      BY <2>1, <2>3, <2>4, <3>2 DEF Enter, Dots
    <3>3. CASE s \notin Dots /\ s \notin W
      <4>1. rooted /\ s = <<"..">>
        BY <1>2, <3>3
      <4>2. kept # <<>> => Last(kept) # <<"..">>
        BY <1>2, <1>3, <2>3, <4>1
      <4> QED BY <2>1, <2>3, <4>1, <4>2, <3>3 DEF Enter, Dots
    <3> QED BY <3>1, <3>2, <3>3
  <2> QED BY <2>2, <2>5, AppendProperties
<1> HIDE DEF P
<1>6. Seq(V) \subseteq P
  BY <1>4, <1>5, SeqInduction
<1>7. Kept(rooted, segs) \in Seq(W)
  BY <1>6 DEF P, V
<1>8. W \subseteq V \ Dots
  BY <1>2, <1>3
<1>9. Kept(rooted, segs) \in Seq(V \ Dots)
  BY <1>7, <1>8, SeqMonotonic
<1> QED BY <1>7, <1>9 DEF W, V

\* Plain segments are all kept.

\* Plain segments are all kept.
LEMMA KeptOfPlain ==
    ASSUME NEW segs \in Seq(Plain(Tokens))
    PROVE  Kept(TRUE, segs) = segs
<1> DEFINE W == Plain(Tokens)
           P == {t \in Seq(W) : Kept(TRUE, t) = t}
<1>1. W \subseteq Seq(Tokens) /\ \A w \in W : w \notin Dots /\ w # <<"..">>
  BY SeqMonotonic DEF Plain
<1> HIDE DEF W
<1>2. Seq(W) \subseteq Seq(Seq(Tokens))
  BY <1>1, SeqMonotonic
<1>3. <<>> \in P
  BY KeptStep, EmptySeq
<1>4. ASSUME NEW t \in Seq(W), NEW s \in W, t \in P PROVE Append(t, s) \in P
  <2>1. Kept(TRUE, Append(t, s)) = Enter(TRUE, t, s)
    BY <1>1, <1>2, <1>4, KeptStep
  <2>2. Enter(TRUE, t, s) = Append(t, s)
    BY <1>1 DEF Enter, Dots
  <2> QED BY <2>1, <2>2, AppendProperties
<1> HIDE DEF P
<1>5. Seq(W) \subseteq P
  BY <1>3, <1>4, SeqInduction
<1> QED BY <1>5 DEF P, W

\* What follows is entered upon what was kept.

\* What is kept depends on earlier segments only through what was kept of them.
LEMMA KeptSplit ==
    ASSUME NEW rooted \in BOOLEAN, NEW a \in Seq(Seq(Tokens)), NEW b \in Seq(Seq(Tokens)),
           NEW c \in Seq(Seq(Tokens)), Kept(rooted, a) = Kept(rooted, b)
    PROVE  Kept(rooted, a \o c) = Kept(rooted, b \o c)
<1> DEFINE W == Seq(Tokens)
           P == {t \in Seq(W) : Kept(rooted, a \o t) = Kept(rooted, b \o t)}
<1>1. \A t \in Seq(W), s \in W : Kept(rooted, Append(t, s)) = Enter(rooted, Kept(rooted, t), s)
  BY KeptStep
<1>2. a \in Seq(W) /\ b \in Seq(W)
  OBVIOUS
<1> HIDE DEF W
<1>3. <<>> \in P
  BY <1>2, EmptySeq, ConcatEmptySeq
<1>4. ASSUME NEW t \in Seq(W), NEW s \in W, t \in P PROVE Append(t, s) \in P
  <2>1. a \o Append(t, s) = Append(a \o t, s)
    BY <1>2, ConcatAppend
  <2>4. b \o Append(t, s) = Append(b \o t, s)
    BY <1>2, ConcatAppend
  <2>2. a \o t \in Seq(W) /\ b \o t \in Seq(W)
    BY <1>2, ConcatProperties
  <2>3. Kept(rooted, a \o t) = Kept(rooted, b \o t)
    BY <1>4
  <2> QED BY <1>1, <2>1, <2>2, <2>3, <2>4, AppendProperties
<1> HIDE DEF P
<1>5. Seq(W) \subseteq P
  BY <1>3, <1>4, SeqInduction
<1> QED BY <1>5 DEF P, W

\* UnderRoot puts each segment behind a slash.
LEMMA UnderRootStep ==
    ASSUME NEW T, Slash \in T, NEW segs \in Seq(Seq(T)), NEW s \in Seq(T)
    PROVE  /\ UnderRoot(<<>>) = <<>>
           /\ UnderRoot(segs) \in Seq(T)
           /\ UnderRoot(Append(segs, s)) = UnderRoot(segs) \o (<<Slash>> \o s)
<1> DEFINE W == Seq(T)
           rows(t) == [i \in DOMAIN t |-> <<Slash>> \o t[i]]
<1>1. \A w \in W : <<Slash>> \o w \in W
  BY ConsFacts
<1>2. segs \in Seq(W) /\ s \in W
  OBVIOUS
<1> HIDE DEF W
<1>3. ASSUME NEW t \in Seq(W) PROVE rows(t) \in Seq(W) /\ Len(rows(t)) = Len(t)
  <2>1. DOMAIN t = 1..Len(t) /\ Len(t) \in Nat /\ \A i \in 1..Len(t) : t[i] \in W
    OBVIOUS
  <2>2. \A i \in 1..Len(t) : <<Slash>> \o t[i] \in W
    BY <1>1, <2>1
  <2> QED BY <2>1, <2>2
<1>4. rows(Append(segs, s)) = Append(rows(segs), <<Slash>> \o s)
  BY <1>1, <1>2, <1>3
<1>5. rows(<<>>) = <<>>
  OBVIOUS
<1>6. \A t : UnderRoot(t) = FlattenSeq(rows(t))
  BY DEF UnderRoot
<1>7. rows(segs) \in Seq(Seq(T)) /\ <<Slash>> \o s \in Seq(T)
  BY <1>1, <1>2, <1>3 DEF W
<1> HIDE DEF rows
<1>8. /\ FlattenSeq(<<>>) = <<>>
      /\ FlattenSeq(rows(segs)) \in Seq(T)
      /\ FlattenSeq(Append(rows(segs), <<Slash>> \o s)) = FlattenSeq(rows(segs)) \o (<<Slash>> \o s)
  BY <1>7, FlattenFacts
<1> QED BY <1>4, <1>5, <1>6, <1>8

\* The separators are tokens, and not the same one.
LEMMA SlashIsToken == Slash \in Tokens /\ Backslash \in Tokens /\ Slash # Backslash
BY DEF Tokens, Separators, Slash, Backslash

\* UnderRoot of two lists.
LEMMA UnderRootConcat ==
    ASSUME NEW a \in Seq(Seq(Tokens)), NEW b \in Seq(Seq(Tokens))
    PROVE  UnderRoot(a \o b) = UnderRoot(a) \o UnderRoot(b)
<1> DEFINE W == Seq(Tokens)
           P == {t \in Seq(W) : UnderRoot(a \o t) = UnderRoot(a) \o UnderRoot(t)}
<1>1. ASSUME NEW t \in Seq(W)
      PROVE  UnderRoot(t) \in W
  BY SlashIsToken, EmptySeq, UnderRootStep
<1>2. ASSUME NEW t \in Seq(W), NEW s \in W
      PROVE  UnderRoot(Append(t, s)) = UnderRoot(t) \o (<<Slash>> \o s)
  BY SlashIsToken, UnderRootStep
<1>3. UnderRoot(<<>>) = <<>>
  BY SlashIsToken, EmptySeq, UnderRootStep
<1>4. ASSUME NEW x \in W, NEW y \in W, NEW z \in W
      PROVE  (x \o y) \o z = x \o (y \o z)
  BY ConcatAssociative
<1>5. \A x \in W : x \o <<>> = x /\ <<Slash>> \o x \in W
  BY ConcatEmptySeq, SlashIsToken, ConsFacts
<1>6. a \in Seq(W) /\ b \in Seq(W)
  OBVIOUS
<1> HIDE DEF W
<1>7. <<>> \in P
  BY <1>1, <1>3, <1>5, <1>6, EmptySeq, ConcatEmptySeq
<1>8. ASSUME NEW t \in Seq(W), NEW s \in W, t \in P PROVE Append(t, s) \in P
  <2>1. a \o Append(t, s) = Append(a \o t, s)
    BY <1>6, ConcatAppend
  <2>2. a \o t \in Seq(W) /\ Append(t, s) \in Seq(W)
    BY <1>6, ConcatProperties, AppendProperties
  <2>3. UnderRoot(Append(a \o t, s)) = UnderRoot(a \o t) \o (<<Slash>> \o s)
    BY <1>2, <2>2
  <2>4. (UnderRoot(a) \o UnderRoot(t)) \o (<<Slash>> \o s) = UnderRoot(a) \o (UnderRoot(t) \o (<<Slash>> \o s))
    <3>1. UnderRoot(a) \in W /\ UnderRoot(t) \in W /\ <<Slash>> \o s \in W
      BY <1>1, <1>5, <1>6
    <3> QED BY <1>4, <3>1
  <2>5. UnderRoot(a \o t) = UnderRoot(a) \o UnderRoot(t)
    BY <1>8
  <2> QED BY <1>2, <2>1, <2>2, <2>3, <2>4, <2>5
<1> HIDE DEF P
<1>9. Seq(W) \subseteq P
  BY <1>7, <1>8, SeqInduction
<1> QED BY <1>6, <1>9 DEF P

\* UnderRoot undoes Segments, but for the leading slash.
LEMMA UnderRootOfSegments ==
    ASSUME NEW p \in Seq(Tokens)
    PROVE  UnderRoot(Segments[p]) = <<Slash>> \o p
<1> DEFINE W == Seq(Tokens)
           P == {q \in Seq(Tokens) : UnderRoot(Segments[q]) = <<Slash>> \o q}
<1>1. ASSUME NEW t \in Seq(W)
      PROVE  UnderRoot(t) \in W
  BY SlashIsToken, EmptySeq, UnderRootStep
<1>2. ASSUME NEW t \in Seq(W), NEW s \in W
      PROVE  UnderRoot(Append(t, s)) = UnderRoot(t) \o (<<Slash>> \o s)
  BY SlashIsToken, UnderRootStep
<1>3. UnderRoot(<<>>) = <<>>
  BY SlashIsToken, EmptySeq, UnderRootStep
<1>4. \A x \in W : x \o <<>> = x /\ <<>> \o x = x /\ <<Slash>> \o x \in W
  BY ConcatEmptySeq, SlashIsToken, ConsFacts
<1>5. \A q \in W : Segments[q] \in Seq(W) /\ Segments[q] # <<>>
  BY SegmentsStep
<1>6. <<>> \in W /\ \A x \in W, t \in Tokens : Append(x, t) \in W
  BY EmptySeq, AppendProperties
<1>7. \A x \in W, y \in W, t \in Tokens : x \o Append(y, t) = Append(x \o y, t)
  BY ConcatAppend
<1>8. ASSUME NEW x \in W PROVE Append(x, Slash) = x \o <<Slash>>
  BY SlashIsToken, AppendIsConcat
<1>9. <<>> \in P
  <2>1. Append(<<>>, <<>>) = << <<>> >>
    OBVIOUS
  <2>2. UnderRoot(Append(<<>>, <<>>)) = UnderRoot(<<>>) \o (<<Slash>> \o <<>>)
    <3>1. <<>> \in Seq(W) /\ <<>> \in W
      BY <1>6, EmptySeq
    <3> QED BY <1>2, <3>1
  <2> QED BY <1>3, <1>4, <1>6, <2>1, <2>2, SegmentsStep
<1>10. ASSUME NEW q \in Seq(Tokens), NEW t \in Tokens, q \in P PROVE Append(q, t) \in P
  <2> DEFINE b == Segments[q]
  <2>1. Segments[Append(q, t)] = IF t = Slash THEN Append(b, <<>>)
             ELSE Append(Front(b), Append(Last(b), t))
    BY SegmentsStep
  <2>2. UnderRoot(b) = <<Slash>> \o q /\ b \in Seq(W) /\ b # <<>> /\ q \in W
    BY <1>5, <1>10
  <2>3. <<Slash>> \o Append(q, t) = Append(<<Slash>> \o q, t)
    <3>1. <<Slash>> \in W
      BY SlashIsToken
    <3> QED BY <1>7, <2>2, <3>1
  <2> HIDE DEF b, W
  <2>4. UnderRoot(Segments[Append(q, t)]) = Append(<<Slash>> \o q, t)
    <3>1. CASE t = Slash
      <4>1. UnderRoot(Append(b, <<>>)) = UnderRoot(b) \o (<<Slash>> \o <<>>)
        BY <1>2, <1>6, <2>2
      <4>2. <<Slash>> \o <<>> = <<Slash>>
        OBVIOUS
      <4>3. Append(<<Slash>> \o q, Slash) = (<<Slash>> \o q) \o <<Slash>>
        BY <1>4, <1>8, <2>2
      <4> QED BY <2>1, <2>2, <3>1, <4>1, <4>2, <4>3
    <3>2. CASE t # Slash
      <4>1. Front(b) \in Seq(W) /\ Last(b) \in W /\ b = Append(Front(b), Last(b))
        BY <2>2, FrontLast
      <4> DEFINE F == Front(b)
                 L == Last(b)
      <4>2. F \in Seq(W) /\ L \in W /\ b = Append(F, L)
        BY <4>1
      <4> HIDE DEF F, L
      <4>3. UnderRoot(Append(F, L)) = UnderRoot(F) \o (<<Slash>> \o L)
        BY <1>2, <4>2
      <4>4. UnderRoot(Append(F, Append(L, t))) = UnderRoot(F) \o (<<Slash>> \o Append(L, t))
        BY <1>2, <1>6, <4>2
      <4>5. <<Slash>> \o Append(L, t) = Append(<<Slash>> \o L, t)
        <5>1. <<Slash>> \in W
          BY SlashIsToken DEF W
        <5> QED BY <1>7, <4>2, <5>1
      <4>6. UnderRoot(F) \o Append(<<Slash>> \o L, t) = Append(UnderRoot(F) \o (<<Slash>> \o L), t)
        BY <1>1, <1>4, <1>7, <4>2
      <4> QED BY <2>1, <2>2, <3>2, <4>2, <4>3, <4>4, <4>5, <4>6 DEF F, L
    <3> QED BY <3>1, <3>2
  <2> QED BY <1>6, <2>3, <2>4 DEF W
<1> HIDE DEF P
<1>11. Seq(Tokens) \subseteq P
  BY <1>9, <1>10, SeqInduction
<1> QED BY <1>11 DEF P

\* Segments undoes UnderRoot, but for the empty segment before the first slash.
LEMMA SegmentsOfUnderRoot ==
    ASSUME NEW segs \in Seq(Seq(Tokens \ {Slash}))
    PROVE  Segments[UnderRoot(segs)] = << <<>> >> \o segs
<1> DEFINE V == Seq(Tokens \ {Slash})
           W == Seq(Tokens)
           P == {t \in Seq(V) : Segments[UnderRoot(t)] = << <<>> >> \o t}
<1>1. V \subseteq W
  BY SeqMonotonic
<1>2. ASSUME NEW t \in Seq(W)
      PROVE  UnderRoot(t) \in W
  BY SlashIsToken, EmptySeq, UnderRootStep
<1>3. ASSUME NEW t \in Seq(W), NEW s \in W
      PROVE  UnderRoot(Append(t, s)) = UnderRoot(t) \o (<<Slash>> \o s)
  BY SlashIsToken, UnderRootStep
<1>4. UnderRoot(<<>>) = <<>>
  BY SlashIsToken, EmptySeq, UnderRootStep
<1>5. \A s \in V : Segments[s] = <<s>>
  BY SegmentsOfWord
<1>6. \A p \in W, q \in W : Segments[Append(p, Slash) \o q] = Segments[p] \o Segments[q]
  BY SegmentsJoin
<1>7. ASSUME NEW p \in W, NEW q \in W PROVE Append(p, Slash) \o q = p \o (<<Slash>> \o q)
  <2>1. <<Slash>> \in Seq(Tokens)
    BY SlashIsToken
  <2>2. Append(p, Slash) = p \o <<Slash>>
    BY SlashIsToken, AppendIsConcat
  <2> QED BY <2>1, <2>2, ConcatAssociative
<1>8. <<>> \in V
  BY EmptySeq
<1>11. Segments[<<>>] = << <<>> >>
  BY SegmentsStep
<1> HIDE DEF V, W
<1>9. <<>> \in P
  <2>1. << <<>> >> \o <<>> = << <<>> >>
    OBVIOUS
  <2> QED BY <1>4, <1>11, <2>1, EmptySeq
<1>10. ASSUME NEW t \in Seq(V), NEW s \in V, t \in P PROVE Append(t, s) \in P
  <2>1. t \in Seq(W) /\ s \in W
    BY <1>1, SeqMonotonic
  <2>2. Segments[UnderRoot(Append(t, s))] = Segments[UnderRoot(t)] \o <<s>>
    <3>1. UnderRoot(Append(t, s)) = UnderRoot(t) \o (<<Slash>> \o s)
      BY <1>3, <2>1
    <3>2. UnderRoot(t) \in W
      BY <1>2, <2>1
    <3>3. Append(UnderRoot(t), Slash) \o s = UnderRoot(t) \o (<<Slash>> \o s)
      BY <1>7, <2>1, <3>2
    <3>4. Segments[Append(UnderRoot(t), Slash) \o s] = Segments[UnderRoot(t)] \o Segments[s]
      BY <1>6, <2>1, <3>2
    <3> QED BY <1>5, <3>1, <3>3, <3>4
  <2>3. << <<>> >> \in Seq(V)
    BY <1>8
  <2>4. << <<>> >> \o Append(t, s) = Append(<< <<>> >> \o t, s)
    BY <2>3, ConcatAppend
  <2>5. Append(<< <<>> >> \o t, s) = (<< <<>> >> \o t) \o <<s>>
    <3>1. << <<>> >> \o t \in Seq(V)
      BY <2>3, ConcatProperties
    <3> QED BY <3>1, AppendIsConcat
  <2>6. Append(t, s) \in Seq(V)
    BY AppendProperties
  <2> QED BY <1>10, <2>2, <2>4, <2>5, <2>6
<1> HIDE DEF P
<1>12. Seq(V) \subseteq P
  BY <1>9, <1>10, SeqInduction
<1> QED BY <1>12 DEF P, V

-----------------------------------------------------------------------------
(* Separators, turned one way or the other.                                *)

\* The tokens of a path that has no backslash.
Clear == Tokens \ {Backslash}

\* Slashed and Backslashed, token by token.
LEMMA TurnedFacts ==
    ASSUME NEW p \in Seq(Tokens)
    PROVE  /\ Slashed(p) \in Seq(Clear) /\ Len(Slashed(p)) = Len(p)
           /\ Backslashed(p) \in Seq(Tokens) /\ Len(Backslashed(p)) = Len(p)
           /\ \A i \in 1..Len(p) : /\ Slashed(p)[i] = IF p[i] = Backslash THEN Slash ELSE p[i]
                                   /\ Backslashed(p)[i] = IF p[i] = Slash THEN Backslash ELSE p[i]
           /\ p \in Seq(Clear) => Slashed(p) = p
<1>1. Len(p) \in Nat /\ \A i \in 1..Len(p) : p[i] \in Tokens
  OBVIOUS
<1>2. Slash \in Clear /\ Slash \in Tokens /\ Backslash \in Tokens
  BY SlashIsToken DEF Clear
<1>3. \A i \in 1..Len(p) : (IF p[i] = Backslash THEN Slash ELSE p[i]) \in Clear
  BY <1>1, <1>2 DEF Clear
<1>4. \A i \in 1..Len(p) : (IF p[i] = Slash THEN Backslash ELSE p[i]) \in Tokens
  BY <1>1, <1>2
<1>5. /\ Slashed(p) = [i \in 1..Len(p) |-> IF p[i] = Backslash THEN Slash ELSE p[i]]
      /\ Backslashed(p) = [i \in 1..Len(p) |-> IF p[i] = Slash THEN Backslash ELSE p[i]]
  BY DEF Slashed, Backslashed, ReplaceAll
<1>6. Slashed(p) \in Seq(Clear) /\ Len(Slashed(p)) = Len(p)
  BY <1>1, <1>3, <1>5
<1>7. Backslashed(p) \in Seq(Tokens) /\ Len(Backslashed(p)) = Len(p)
  BY <1>1, <1>4, <1>5
<1>8. \A i \in 1..Len(p) : /\ Slashed(p)[i] = IF p[i] = Backslash THEN Slash ELSE p[i]
                           /\ Backslashed(p)[i] = IF p[i] = Slash THEN Backslash ELSE p[i]
  BY <1>5
<1>9. ASSUME p \in Seq(Clear) PROVE Slashed(p) = p
  <2>1. \A i \in 1..Len(p) : p[i] # Backslash
    BY <1>9, ElementOfSeq DEF Clear
  <2>2. \A i \in 1..Len(p) : Slashed(p)[i] = p[i]
    BY <1>8, <2>1
  <2> QED BY <1>6, <1>9, <2>2, SeqEqual
<1> QED BY <1>6, <1>7, <1>8, <1>9

\* Turning separators twice is turning them the second way.
LEMMA TurnedTwice ==
    ASSUME NEW p \in Seq(Tokens)
    PROVE  /\ Slashed(Slashed(p)) = Slashed(p)
           /\ Slashed(Backslashed(p)) = Slashed(p)
<1>1. Clear \subseteq Tokens
  BY DEF Clear
<1>2. Slashed(p) \in Seq(Clear) /\ Slashed(p) \in Seq(Tokens) /\ Backslashed(p) \in Seq(Tokens)
  BY <1>1, TurnedFacts, SeqMonotonic
<1>3. Slashed(Slashed(p)) = Slashed(p)
  BY <1>2, TurnedFacts
<1> DEFINE b == Backslashed(p)
           s == Slashed(p)
<1>4. /\ Slashed(b) \in Seq(Clear) /\ Len(Slashed(b)) = Len(b)
      /\ \A i \in 1..Len(b) : Slashed(b)[i] = IF b[i] = Backslash THEN Slash ELSE b[i]
  <2> HIDE DEF b
  <2> QED BY <1>2, TurnedFacts DEF b
<1>5. /\ Len(b) = Len(p) /\ Len(s) = Len(p) /\ s \in Seq(Clear)
      /\ \A i \in 1..Len(p) : /\ s[i] = IF p[i] = Backslash THEN Slash ELSE p[i]
                              /\ b[i] = IF p[i] = Slash THEN Backslash ELSE p[i]
  BY TurnedFacts
<1> HIDE DEF b, s
<1>6. \A i \in 1..Len(p) : Slashed(b)[i] = s[i]
  BY <1>4, <1>5, SlashIsToken
<1>7. Slashed(b) = s
  BY <1>4, <1>5, <1>6, SeqEqual
<1> QED BY <1>3, <1>7 DEF b, s

\* Slashed of a path with one more token before it.
LEMMA SlashedCons ==
    ASSUME NEW p \in Seq(Tokens), NEW t \in Tokens
    PROVE  /\ Slashed(<<t>> \o p) = <<IF t = Backslash THEN Slash ELSE t>> \o Slashed(p)
           /\ Slashed(<<>>) = <<>>
<1> DEFINE c == <<t>> \o p
           u == IF t = Backslash THEN Slash ELSE t
           d == <<u>> \o Slashed(p)
<1>1. <<t>> \in Seq(Tokens) /\ u \in Clear /\ <<u>> \in Seq(Clear) /\ Len(<<t>>) = 1 /\ Len(<<u>>) = 1
  BY SlashIsToken DEF Clear
<1>2. Slashed(p) \in Seq(Clear) /\ Len(Slashed(p)) = Len(p) /\ Len(p) \in Nat
  BY TurnedFacts
<1>3. c \in Seq(Tokens) /\ Len(c) = 1 + Len(p)
      /\ \A i \in 1..1 + Len(p) : c[i] = IF i <= 1 THEN <<t>>[i] ELSE p[i - 1]
  BY <1>1, ConcatProperties
<1>4. d \in Seq(Clear) /\ Len(d) = 1 + Len(p)
      /\ \A i \in 1..1 + Len(p) : d[i] = IF i <= 1 THEN <<u>>[i] ELSE Slashed(p)[i - 1]
  <2> HIDE DEF u
  <2> QED BY <1>1, <1>2, ConcatProperties
<1>5. /\ Slashed(c) \in Seq(Clear) /\ Len(Slashed(c)) = Len(c)
      /\ \A i \in 1..Len(c) : Slashed(c)[i] = IF c[i] = Backslash THEN Slash ELSE c[i]
  <2> HIDE DEF c
  <2> QED BY <1>3, TurnedFacts
<1>6. \A i \in 1..Len(p) : Slashed(p)[i] = IF p[i] = Backslash THEN Slash ELSE p[i]
  BY TurnedFacts
<1> HIDE DEF c, d
<1>7. \A i \in 1..1 + Len(p) : Slashed(c)[i] = d[i]
  <2>1. Slashed(c)[1] = d[1]
    <3>1. c[1] = t /\ d[1] = u /\ 1 \in 1..Len(c)
      BY <1>2, <1>3, <1>4
    <3> QED BY <1>5, <3>1
  <2>2. ASSUME NEW i \in 1..1 + Len(p), i # 1 PROVE Slashed(c)[i] = d[i]
    <3>1. i - 1 \in 1..Len(p)
      BY <1>2, <2>2
    <3>2. c[i] = p[i - 1] /\ d[i] = Slashed(p)[i - 1]
      BY <1>3, <1>4, <2>2
    <3> QED BY <1>3, <1>5, <1>6, <3>1, <3>2
  <2> QED BY <2>1, <2>2
<1>8. Slashed(c) = d
  BY <1>2, <1>3, <1>4, <1>5, <1>7, SeqEqual
<1>9. Slashed(<<>>) = <<>>
  BY DEF Slashed, ReplaceAll
<1> QED BY <1>8, <1>9 DEF c, d

\* Backslashed of a path with a name before it.
LEMMA BackslashedCons ==
    ASSUME NEW p \in Seq(Tokens), NEW t \in Tokens, t # Slash
    PROVE  Backslashed(<<t>> \o p) = <<t>> \o Backslashed(p)
<1> DEFINE c == <<t>> \o p
           d == <<t>> \o Backslashed(p)
<1>1. <<t>> \in Seq(Tokens) /\ Len(<<t>>) = 1 /\ <<t>>[1] = t
  OBVIOUS
<1>2. Backslashed(p) \in Seq(Tokens) /\ Len(Backslashed(p)) = Len(p) /\ Len(p) \in Nat
  BY TurnedFacts
<1>3. c \in Seq(Tokens) /\ Len(c) = 1 + Len(p)
      /\ \A i \in 1..1 + Len(p) : c[i] = IF i <= 1 THEN <<t>>[i] ELSE p[i - 1]
  BY <1>1, ConcatProperties
<1>4. d \in Seq(Tokens) /\ Len(d) = 1 + Len(p)
      /\ \A i \in 1..1 + Len(p) : d[i] = IF i <= 1 THEN <<t>>[i] ELSE Backslashed(p)[i - 1]
  BY <1>1, <1>2, ConcatProperties
<1>5. /\ Backslashed(c) \in Seq(Tokens) /\ Len(Backslashed(c)) = Len(c)
      /\ \A i \in 1..Len(c) : Backslashed(c)[i] = IF c[i] = Slash THEN Backslash ELSE c[i]
  <2> HIDE DEF c
  <2> QED BY <1>3, TurnedFacts
<1>6. \A i \in 1..Len(p) : Backslashed(p)[i] = IF p[i] = Slash THEN Backslash ELSE p[i]
  BY TurnedFacts
<1> HIDE DEF c, d
<1>7. \A i \in 1..1 + Len(p) : Backslashed(c)[i] = d[i]
  <2>1. Backslashed(c)[1] = d[1]
    <3>1. 1 \in 1..1 + Len(p)
      BY <1>2
    <3>2. c[1] = <<t>>[1] /\ d[1] = <<t>>[1]
      BY <1>3, <1>4, <3>1
    <3> QED BY <1>1, <1>3, <1>5, <3>1, <3>2
  <2>2. ASSUME NEW i \in 1..1 + Len(p), i # 1 PROVE Backslashed(c)[i] = d[i]
    <3>1. i - 1 \in 1..Len(p)
      BY <1>2, <2>2
    <3>2. c[i] = p[i - 1] /\ d[i] = Backslashed(p)[i - 1]
      BY <1>3, <1>4, <2>2
    <3> QED BY <1>3, <1>5, <1>6, <3>1, <3>2
  <2> QED BY <2>1, <2>2
<1>8. Backslashed(c) = d
  BY <1>2, <1>3, <1>4, <1>5, <1>7, SeqEqual
<1> QED BY <1>8 DEF c, d

\* A path without backslashes is a path.
LEMMA ClearTokens == /\ Clear \subseteq Tokens
                     /\ \A s \in Seq(Clear) : s \in Seq(Tokens)
                     /\ Slash \in Clear
<1>1. Clear \subseteq Tokens /\ Slash \in Clear
  BY SlashIsToken DEF Clear
<1> QED BY <1>1, SeqMonotonic

-----------------------------------------------------------------------------
(* Host paths: what Clean makes of an absolute path.                       *)

\* The host path of a list of names.
Host(kept) == IF kept = <<>> THEN <<Slash>> ELSE UnderRoot(kept)

\* An empty segment changes nothing, whatever follows.
LEMMA KeptSkips ==
    ASSUME NEW a \in Seq(Seq(Tokens)), NEW c \in Seq(Seq(Tokens))
    PROVE  /\ Kept(TRUE, Append(a, <<>>) \o c) = Kept(TRUE, a \o c)
           /\ Kept(TRUE, << <<>> >> \o c) = Kept(TRUE, c)
<1> DEFINE W == Seq(Tokens)
<1>1. <<>> \in W
  BY EmptySeq
<1>2. \A k : Enter(TRUE, k, <<>>) = k
  <2>1. <<>> # <<"..">>
    OBVIOUS
  <2> QED BY <2>1 DEF Enter
<1>3. \A t \in Seq(W) : Kept(TRUE, Append(t, <<>>)) = Kept(TRUE, t)
  BY <1>1, <1>2, KeptStep
<1>4. \A s \in Seq(W), t \in Seq(W), r \in Seq(W) :
          Kept(TRUE, s) = Kept(TRUE, t) => Kept(TRUE, s \o r) = Kept(TRUE, t \o r)
  BY KeptSplit
<1>5. a \in Seq(W) /\ c \in Seq(W)
  OBVIOUS
<1> HIDE DEF W
<1>6. Append(a, <<>>) \in Seq(W) /\ <<>> \in Seq(W) /\ << <<>> >> \in Seq(W)
  BY <1>1, <1>5, AppendProperties
<1>7. Append(<<>>, <<>>) = << <<>> >> /\ <<>> \o c = c
  BY <1>5, ConcatEmptySeq
<1>8. Kept(TRUE, Append(a, <<>>) \o c) = Kept(TRUE, a \o c)
  BY <1>3, <1>4, <1>5, <1>6
<1>9. Kept(TRUE, << <<>> >>) = Kept(TRUE, <<>>)
  BY <1>3, <1>6, <1>7
<1>10. Kept(TRUE, << <<>> >> \o c) = Kept(TRUE, <<>> \o c)
  BY <1>4, <1>5, <1>6, <1>9
<1> QED BY <1>7, <1>8, <1>10

\* Clean of an absolute path is the host path of plain names.
LEMMA CleanAbsolute ==
    ASSUME NEW p \in Seq(Clear), IsAbs(p)
    PROVE  /\ Clean(p) = Host(Kept(TRUE, Segments[p]))
           /\ Kept(TRUE, Segments[p]) \in Seq(Plain(Clear))
<1>1. Clean(p) = Host(Kept(TRUE, Segments[p]))
  BY DEF Clean, Host
<1>2. Clear \subseteq Tokens
  BY DEF Clear
<1>3. Segments[p] \in Seq(Seq(Clear \ {Slash}))
  BY <1>2, SegmentsOver
<1> QED BY <1>1, <1>2, <1>3, KeptPlain

\* Plain names without a backslash are sequences of tokens.
LEMMA PlainFacts == /\ Plain(Clear) \subseteq Seq(Clear \ {Slash})
                    /\ Plain(Clear) \subseteq Plain(Tokens)
                    /\ Plain(Clear) \subseteq Seq(Clear)
                    /\ Plain(Clear) \subseteq Seq(Tokens \ {Slash})
<1>1. ASSUME NEW w \in Plain(Clear)
      PROVE  w \in Seq(Clear \ {Slash}) /\ w \in Seq(Clear) /\ w \in Seq(Tokens \ {Slash})
  <2>1. w \in Seq(Clear \ {Slash})
    BY DEF Plain
  <2>2. Clear \ {Slash} \subseteq Clear /\ Clear \ {Slash} \subseteq Tokens \ {Slash}
    BY DEF Clear
  <2> QED BY <2>1, <2>2, SeqMonotonic
<1> QED BY <1>1 DEF Plain

\* A host path of plain names is absolute, is no Windows path, and neither Clean
\* nor Normalize changes it.
LEMMA HostFacts ==
    ASSUME NEW kept \in Seq(Plain(Clear))
    PROVE  /\ Host(kept) \in Seq(Clear) /\ IsAbs(Host(kept)) /\ ~IsWindowsPath(Host(kept))
           /\ Clean(Host(kept)) = Host(kept)
           /\ Normalize(Host(kept)) = Host(kept)
           /\ kept # <<>> => Segments[Host(kept)] = << <<>> >> \o kept
           /\ kept = <<>> => Segments[Host(kept)] = << <<>>, <<>> >>
<1> DEFINE h == Host(kept)
           V == Seq(Clear)
           W == Seq(Tokens)
<1>1. V \subseteq W /\ <<>> \in V
  BY SeqMonotonic, EmptySeq DEF Clear
<1>2. /\ kept \in Seq(V) /\ kept \in Seq(W) /\ kept \in Seq(Seq(Tokens \ {Slash}))
      /\ kept \in Seq(Plain(Tokens))
  <2>1. kept \in Seq(V)
    BY PlainFacts, SeqMonotonic
  <2>2. kept \in Seq(Seq(Tokens \ {Slash})) /\ kept \in Seq(Plain(Tokens))
    BY PlainFacts, SeqMonotonic
  <2> HIDE DEF V, W
  <2>3. kept \in Seq(W)
    BY <1>1, <2>1, SeqMonotonic
  <2> QED BY <2>1, <2>2, <2>3
<1>3. Kept(TRUE, kept) = kept
  BY <1>2, KeptOfPlain
<1>4. Slash \in Clear
  BY SlashIsToken DEF Clear
<1>5. kept # <<>> => h \in V /\ h[1] = Slash /\ h # <<>> /\ Segments[h] = << <<>> >> \o kept
  <2> SUFFICES ASSUME kept # <<>> PROVE h \in V /\ h[1] = Slash /\ h # <<>> /\ Segments[h] = << <<>> >> \o kept
    OBVIOUS
  <2>1. h = UnderRoot(kept)
    BY DEF Host
  <2>2. h \in V
    BY <1>2, <1>4, <1>1, <2>1, UnderRootStep
  <2>3. Segments[h] = << <<>> >> \o kept
    BY <1>2, <2>1, SegmentsOfUnderRoot
  <2>4. h # <<>> /\ h[1] = Slash
    <3>1. kept[1] \in W /\ Tail(kept) \in Seq(W) /\ kept = <<kept[1]>> \o Tail(kept)
      <4> HIDE DEF W
      <4> QED BY <1>2, ConsOf
    <3> DEFINE w == kept[1]
               r == Tail(kept)
    <3>2. w \in Seq(Tokens) /\ r \in Seq(Seq(Tokens)) /\ kept = <<w>> \o r
      BY <3>1
    <3> HIDE DEF w, r
    <3>3. <<w>> \in Seq(Seq(Tokens)) /\ Append(<<>>, w) = <<w>> /\ <<>> \in Seq(Seq(Tokens))
      BY <3>2
    <3>4. UnderRoot(kept) = UnderRoot(<<w>>) \o UnderRoot(r)
      BY <3>2, <3>3, UnderRootConcat
    <3>5. UnderRoot(<<>>) = <<>> /\ UnderRoot(Append(<<>>, w)) = UnderRoot(<<>>) \o (<<Slash>> \o w)
      BY <3>2, <3>3, SlashIsToken, UnderRootStep
    <3>6. <<Slash>> \o w \in Seq(Tokens)
      BY <3>2, SlashIsToken, ConsFacts
    <3>7. UnderRoot(<<w>>) = <<Slash>> \o w
      BY <3>3, <3>5, <3>6, ConcatEmptySeq
    <3>8. UnderRoot(r) \in Seq(Tokens)
      BY <3>2, SlashIsToken, UnderRootStep, EmptySeq
    <3>9. (<<Slash>> \o w) \o UnderRoot(r) = <<Slash>> \o (w \o UnderRoot(r))
      <4>1. <<Slash>> \in Seq(Tokens)
        BY SlashIsToken
      <4> QED BY <3>2, <3>8, <4>1, ConcatAssociative
    <3>10. w \o UnderRoot(r) \in Seq(Tokens)
      BY <3>2, <3>8, ConcatProperties
    <3>11. (<<Slash>> \o (w \o UnderRoot(r)))[1] = Slash /\ <<Slash>> \o (w \o UnderRoot(r)) # <<>>
      BY <3>10, SlashIsToken, ConsFacts
    <3> QED BY <2>1, <3>4, <3>7, <3>9, <3>11
  <2> QED BY <2>2, <2>3, <2>4
<1>6. kept = <<>> => h \in V /\ h[1] = Slash /\ h # <<>> /\ Segments[h] = << <<>>, <<>> >>
  <2> SUFFICES ASSUME kept = <<>> PROVE h \in V /\ h[1] = Slash /\ h # <<>> /\ Segments[h] = << <<>>, <<>> >>
    OBVIOUS
  <2>1. h = <<Slash>>
    BY DEF Host
  <2>2. h = Append(<<>>, Slash) /\ h \in V
    <3>1. Append(<<>>, Slash) = <<Slash>> /\ <<Slash>> \in Seq(Clear)
      BY <1>4, TwoOf
    <3> QED BY <2>1, <3>1
  <2>3. Segments[Append(<<>>, Slash)] = Append(Segments[<<>>], <<>>)
    BY SegmentsStep, SlashIsToken, EmptySeq
  <2>4. Append(<< <<>> >>, <<>>) = << <<>>, <<>> >>
    BY <1>1, TwoOf
  <2>5. h[1] = Slash /\ h # <<>>
    BY <2>1
  <2> HIDE DEF h
  <2> QED BY <2>2, <2>3, <2>4, <2>5, SegmentsStep
<1>7. h \in Seq(Clear) /\ IsAbs(h)
  BY <1>5, <1>6 DEF IsAbs
<1>8. ~IsWindowsPath(h)
  BY <1>7 DEF IsWindowsPath, IsAbs, IsUNCPath, IsDriveLetterPath, Drives, Slash, Backslash
<1>9. Kept(TRUE, Segments[h]) = kept
  <2>1. CASE kept # <<>>
    <3>1. Kept(TRUE, << <<>> >> \o kept) = Kept(TRUE, kept)
      BY <1>2, KeptSkips
    <3> QED BY <1>3, <1>5, <2>1, <3>1
  <2>2. CASE kept = <<>>
    <3>1. << <<>> >> \in Seq(Seq(Tokens)) /\ <<>> \in Seq(Seq(Tokens))
      <4>1. <<>> \in W
        BY <1>1
      <4> HIDE DEF W
      <4>2. << <<>> >> \in Seq(W) /\ <<>> \in Seq(W)
        BY <4>1
      <4> QED BY <4>2 DEF W
    <3>2. Kept(TRUE, << <<>> >> \o << <<>> >>) = Kept(TRUE, << <<>> >>)
      BY <3>1, KeptSkips
    <3>3. Kept(TRUE, << <<>> >> \o <<>>) = Kept(TRUE, <<>>)
      BY <3>1, KeptSkips
    <3>4. << <<>> >> \o <<>> = << <<>> >> /\ << <<>> >> \o << <<>> >> = << <<>>, <<>> >>
      BY <1>1, TwoOf
    <3> QED BY <1>3, <1>6, <2>2, <3>2, <3>3, <3>4
  <2> QED BY <2>1, <2>2
<1>10. Clean(h) = h
  BY <1>7, <1>9, CleanAbsolute
<1>11. Normalize(h) = h
  <2>1. Slashed(h) = h
    BY <1>7, <1>1, TurnedFacts
  <2>2. h # <<>>
    BY <1>7 DEF IsAbs
  <2> QED BY <1>8, <1>10, <2>1, <2>2 DEF Normalize
<1> QED BY <1>5, <1>6, <1>7, <1>8, <1>10, <1>11

\* Clean makes no relative path absolute.
LEMMA RelativeStaysRelative ==
    ASSUME NEW p \in Seq(Tokens), ~IsAbs(p)
    PROVE  ~IsAbs(Clean(p))
<1> DEFINE k == Kept(FALSE, Segments[p])
           D == Seq(Tokens \ {Slash}) \ Dots
<1>1. Clean(p) = IF k = <<>> THEN <<".">> ELSE Tail(UnderRoot(k))
  <2>1. IsAbs(p) = FALSE
    BY DEF IsAbs
  <2>2. Kept(IsAbs(p), Segments[p]) = k
    BY <2>1
  <2> QED BY <2>2 DEF Clean
<1>2. k \in Seq(D)
  <2>1. Segments[p] \in Seq(Seq(Tokens \ {Slash}))
    BY SegmentsOver
  <2> QED BY <2>1, KeptPlain
<1> HIDE DEF k
<1>3. CASE k = <<>>
  BY <1>1, <1>3 DEF IsAbs, Slash
<1>4. CASE k # <<>>
  <2> DEFINE w == k[1]
             r == Tail(k)
  <2>1. w \in D /\ r \in Seq(D) /\ k = <<w>> \o r
    <3> HIDE DEF D
    <3> QED BY <1>2, <1>4, ConsOf
  <2> HIDE DEF w, r
  <2>2. w \in Seq(Tokens \ {Slash}) /\ w # <<>> /\ w \in Seq(Tokens)
    BY <2>1, SeqMonotonic DEF Dots
  <2>3. D \subseteq Seq(Tokens)
    BY SeqMonotonic
  <2>4. r \in Seq(Seq(Tokens)) /\ <<w>> \in Seq(Seq(Tokens)) /\ <<>> \in Seq(Seq(Tokens))
        /\ Append(<<>>, w) = <<w>>
    <3>1. r \in Seq(Seq(Tokens))
      <4> HIDE DEF D
      <4> QED BY <2>1, <2>3, SeqMonotonic
    <3> QED BY <2>2, <3>1, TwoOf, EmptySeq
  <2>5. UnderRoot(k) = UnderRoot(<<w>>) \o UnderRoot(r)
    BY <2>1, <2>4, UnderRootConcat
  <2>6. UnderRoot(<<>>) = <<>> /\ UnderRoot(Append(<<>>, w)) = UnderRoot(<<>>) \o (<<Slash>> \o w)
        /\ UnderRoot(r) \in Seq(Tokens)
    BY <2>2, <2>4, SlashIsToken, UnderRootStep
  <2>7. <<Slash>> \o w \in Seq(Tokens) /\ <<Slash>> \in Seq(Tokens)
    BY <2>2, SlashIsToken, ConsFacts
  <2>8. UnderRoot(<<w>>) = <<Slash>> \o w
    BY <2>4, <2>6, <2>7, ConcatEmptySeq
  <2>9. (<<Slash>> \o w) \o UnderRoot(r) = <<Slash>> \o (w \o UnderRoot(r))
    BY <2>2, <2>6, <2>7, ConcatAssociative
  <2> DEFINE u == w \o UnderRoot(r)
  <2>10. u \in Seq(Tokens) /\ u[1] = w[1] /\ w[1] # Slash
    <3>1. w[1] \in Tokens \ {Slash} /\ Len(w) \in Nat \ {0} /\ Len(UnderRoot(r)) \in Nat
      BY <2>2, <2>6, EmptySeq, ConsOf
    <3>2. u \in Seq(Tokens)
          /\ \A i \in 1..Len(w) + Len(UnderRoot(r)) :
                (w \o UnderRoot(r))[i] = IF i <= Len(w) THEN w[i] ELSE UnderRoot(r)[i - Len(w)]
      BY <2>2, <2>6, ConcatProperties
    <3> QED BY <3>1, <3>2
  <2> HIDE DEF u
  <2>11. Tail(<<Slash>> \o u) = u
    BY <2>10, SlashIsToken, ConsFacts
  <2>12. Clean(p) = u
    BY <1>1, <1>4, <2>5, <2>8, <2>9, <2>11 DEF u
  <2> QED BY <2>10, <2>12 DEF IsAbs
<1> QED BY <1>3, <1>4

\* The normal forms: the root, and plain names each under a slash.
HostPaths == {Host(kept) : kept \in Seq(Plain(Clear))}

\* Clean of an absolute path without backslashes is a normal form.
LEMMA CleanIsHost ==
    ASSUME NEW p \in Seq(Clear), IsAbs(p)
    PROVE  Clean(p) \in HostPaths
BY CleanAbsolute DEF HostPaths

\* A normal form is absolute, clean, and stays as it is (pathnorm.Normalize).
LEMMA HostPathFacts ==
    ASSUME NEW h \in HostPaths
    PROVE  /\ h \in Seq(Clear) /\ h \in Seq(Tokens)
           /\ IsAbs(h) /\ ~IsWindowsPath(h) /\ h # Refused
           /\ Clean(h) = h /\ Normalize(h) = h
<1>1. PICK kept \in Seq(Plain(Clear)) : h = Host(kept)
  BY DEF HostPaths
<1>2. /\ h \in Seq(Clear) /\ IsAbs(h) /\ ~IsWindowsPath(h)
      /\ Clean(h) = h /\ Normalize(h) = h
  BY <1>1, HostFacts
<1>3. h \in Seq(Tokens)
  BY <1>2, SeqMonotonic DEF Clear
<1>4. h # Refused
  BY <1>2 DEF IsAbs, Refused, Slash
<1> QED BY <1>2, <1>3, <1>4

\* A leading slash is an empty segment in front.
LEMMA SegmentsCons ==
    ASSUME NEW q \in Seq(Tokens)
    PROVE  Segments[<<Slash>> \o q] = << <<>> >> \o Segments[q]
<1>1. <<>> \in Seq(Tokens) /\ Append(<<>>, Slash) = <<Slash>>
  BY EmptySeq, SlashIsToken, TwoOf
<1>2. Segments[Append(<<>>, Slash) \o q] = Segments[<<>>] \o Segments[q]
  BY <1>1, SegmentsJoin
<1> QED BY <1>1, <1>2, SegmentsStep

\* A leading separator that is dropped is not missed: Clean would have dropped
\* its empty segment.
LEMMA WithoutFacts ==
    ASSUME NEW t \in Separators, NEW q \in Seq(Tokens), NEW a \in Seq(Seq(Tokens))
    PROVE  /\ Without(t, q) \in Seq(Tokens)
           /\ Kept(TRUE, a \o Segments[Slashed(Without(t, q))]) = Kept(TRUE, a \o Segments[Slashed(q)])
<1>1. CASE q # <<>> /\ q[1] = t
  <2> DEFINE r == Tail(q)
  <2>1. q[1] \in Tokens /\ r \in Seq(Tokens) /\ q = <<t>> \o r
    BY <1>1, ConsOf
  <2>2. Without(t, q) = r
    BY <1>1 DEF Without
  <2> HIDE DEF r
  <2>3. t \in Tokens
    BY DEF Tokens
  <2>4. (IF t = Backslash THEN Slash ELSE t) = Slash
    BY DEF Separators
  <2>5. Slashed(q) = <<Slash>> \o Slashed(r)
    BY <2>1, <2>3, <2>4, SlashedCons
  <2>6. Slashed(r) \in Seq(Tokens)
    <3>1. Slashed(r) \in Seq(Clear)
      BY <2>1, TurnedFacts
    <3> QED BY <3>1, SeqMonotonic DEF Clear
  <2>7. Segments[Slashed(q)] = << <<>> >> \o Segments[Slashed(r)]
    BY <2>5, <2>6, SegmentsCons
  <2> DEFINE c == Segments[Slashed(r)]
             W == Seq(Tokens)
  <2>8. c \in Seq(W) /\ <<>> \in W /\ a \in Seq(W)
    BY <2>6, SegmentsStep, EmptySeq
  <2>9. Kept(TRUE, Append(a, <<>>) \o c) = Kept(TRUE, a \o c)
    BY <2>8, KeptSkips
  <2> HIDE DEF c, W
  <2>10. Append(a, <<>>) \o c = a \o (<< <<>> >> \o c)
    <3>1. << <<>> >> \in Seq(W) /\ Append(a, <<>>) = a \o << <<>> >>
      BY <2>8, AppendIsConcat
    <3> QED BY <2>8, <3>1, ConcatAssociative
  <2> QED BY <2>1, <2>2, <2>7, <2>9, <2>10 DEF c
<1>2. CASE ~(q # <<>> /\ q[1] = t)
  BY <1>2 DEF Without
<1> QED BY <1>1, <1>2

-----------------------------------------------------------------------------
(* Paths of Windows.                                                       *)

\* The segments of /mnt/l.
Mount(l) == << <<>>, <<"mnt">>, <<l>> >>

\* The names of a mounted drive are plain.
LEMMA MountTokens ==
    ASSUME NEW l \in Letters
    PROVE  /\ l \in Clear \ {Slash} /\ "mnt" \in Clear \ {Slash} /\ Slash \in Clear
           /\ <<l>> \in Plain(Clear) /\ <<"mnt">> \in Plain(Clear)
<1>1. l \in Clear \ {Slash} /\ "mnt" \in Clear \ {Slash} /\ Slash \in Clear
  BY DEF Letters, Clear, Tokens, Names, Separators, Slash, Backslash
<1>2. ASSUME NEW n \in {l, "mnt"} PROVE <<n>> \in Plain(Clear)
  <2>1. <<n>> \in Seq(Clear \ {Slash})
    BY <1>1
  <2>2. n # "." /\ n # ".."
    BY DEF Letters
  <2>3. <<n>> # <<>> /\ <<n>>[1] = n /\ <<".">>[1] = "." /\ <<"..">>[1] = ".."
    OBVIOUS
  <2> QED BY <2>1, <2>2, <2>3 DEF Plain, Dots
<1> QED BY <1>1, <1>2

\* The segments of a path under /mnt/l.
LEMMA SegmentsMount ==
    ASSUME NEW l \in Letters, NEW q \in Seq(Tokens)
    PROVE  /\ Segments[<<Slash, "mnt", Slash, l>>] = Mount(l)
           /\ Segments[<<Slash, "mnt", Slash, l, Slash>> \o q] = Mount(l) \o Segments[q]
           /\ Mount(l) \in Seq(Seq(Tokens))
<1> DEFINE p == <<Slash, "mnt", Slash, l>>
<1>1. /\ Slash \in Tokens /\ "mnt" \in Tokens \ {Slash} /\ l \in Tokens \ {Slash}
      /\ <<"mnt">> \in Seq(Tokens \ {Slash}) /\ <<l>> \in Seq(Tokens \ {Slash})
      /\ <<"mnt">> \in Seq(Tokens) /\ <<l>> \in Seq(Tokens) /\ <<Slash, "mnt">> \in Seq(Tokens)
  <2>1. Slash \in Tokens /\ "mnt" \in Tokens \ {Slash} /\ l \in Tokens \ {Slash}
    BY MountTokens DEF Clear
  <2>2. <<"mnt">> \in Seq(Tokens \ {Slash}) /\ <<l>> \in Seq(Tokens \ {Slash})
    BY <2>1
  <2> QED BY <2>1, <2>2, TwoOf
<1>2. Segments[<<Slash, "mnt">>] = << <<>> >> \o << <<"mnt">> >>
  <2>1. <<Slash, "mnt">> = <<Slash>> \o <<"mnt">>
    BY <1>1, TwoOf
  <2>2. Segments[<<Slash>> \o <<"mnt">>] = << <<>> >> \o Segments[<<"mnt">>]
    BY <1>1, SegmentsCons
  <2> QED BY <1>1, <2>1, <2>2, SegmentsOfWord
<1>3. p = Append(<<Slash, "mnt">>, Slash) \o <<l>> /\ p \in Seq(Tokens)
  BY <1>1, EmptySeq, FourOf
<1>4. Segments[Append(<<Slash, "mnt">>, Slash) \o <<l>>] = Segments[<<Slash, "mnt">>] \o Segments[<<l>>]
  BY <1>1, SegmentsJoin
<1>5. Segments[p] = (<< <<>> >> \o << <<"mnt">> >>) \o << <<l>> >>
  BY <1>1, <1>2, <1>3, <1>4, SegmentsOfWord
<1>6. ASSUME NEW S, NEW x \in S, NEW y \in S, NEW z \in S
      PROVE  (<<x>> \o <<y>>) \o <<z>> = <<x, y, z>>
  <2>1. <<x>> \o <<y>> = <<x, y>>
    BY TwoOf
  <2>2. <<x, y>> \o <<z>> = <<x, y, z>>
    <3>1. <<x, y>> \in Seq(S) /\ Append(<<x, y>>, z) = <<x, y, z>>
      BY ThreeOf
    <3> QED BY <3>1, AppendIsConcat
  <2> QED BY <2>1, <2>2
<1>7. Segments[p] = Mount(l)
  <2>1. (<< <<>> >> \o << <<"mnt">> >>) \o << <<l>> >> = << <<>>, <<"mnt">>, <<l>> >>
    <3> DEFINE W == Seq(Tokens)
    <3>1. <<>> \in W /\ <<"mnt">> \in W /\ <<l>> \in W
      BY <1>1, EmptySeq
    <3> HIDE DEF W
    <3> QED BY <1>6, <3>1
  <2> QED BY <1>5, <2>1 DEF Mount
<1>8. <<Slash, "mnt", Slash, l, Slash>> = Append(p, Slash)
  BY <1>1, EmptySeq, FourOf
<1> HIDE DEF p
<1>9. Segments[Append(p, Slash) \o q] = Segments[p] \o Segments[q]
  BY <1>3, SegmentsJoin
<1>10. Segments[p] \in Seq(Seq(Tokens))
  BY <1>3, SegmentsStep
<1> QED BY <1>7, <1>8, <1>9, <1>10 DEF p

\* A drive path becomes the normal form of its rest under /mnt/c, however its
\* separators stand (pathnorm.WindowsToWSL).
LEMMA DriveClean ==
    ASSUME NEW p \in Seq(Tokens), p # <<>>
    PROVE  /\ DriveToWSL(p) = Host(Kept(TRUE, Mount("c") \o Segments[Slashed(Tail(p))]))
           /\ DriveToWSL(p) \in HostPaths
<1> DEFINE q == Without(Slash, Without(Backslash, Tail(p)))
           r == Slashed(q)
           m == <<Slash, "mnt", Slash, "c", Slash>>
           M == Mount("c")
<1>1. Tail(p) \in Seq(Tokens)
  BY ConsOf
<1>2. "c" \in Letters
  BY DEF Letters
<1>3. M \in Seq(Seq(Tokens))
  BY <1>2, EmptySeq, SegmentsMount
<1>4. Slash \in Separators /\ Backslash \in Separators
  BY DEF Separators
<1>5. /\ q \in Seq(Tokens)
      /\ Kept(TRUE, M \o Segments[Slashed(q)]) = Kept(TRUE, M \o Segments[Slashed(Tail(p))])
  <2> DEFINE b == Without(Backslash, Tail(p))
  <2>1. /\ b \in Seq(Tokens)
        /\ Kept(TRUE, M \o Segments[Slashed(b)]) = Kept(TRUE, M \o Segments[Slashed(Tail(p))])
    BY <1>1, <1>3, <1>4, WithoutFacts
  <2> HIDE DEF b, M
  <2>2. /\ Without(Slash, b) \in Seq(Tokens)
        /\ Kept(TRUE, M \o Segments[Slashed(Without(Slash, b))]) = Kept(TRUE, M \o Segments[Slashed(b)])
    BY <1>3, <1>4, <2>1, WithoutFacts
  <2> QED BY <2>1, <2>2 DEF b
<1>6. DriveToWSL(p) = Clean(m \o r)
  BY DEF DriveToWSL
<1> HIDE DEF q
<1>7. r \in Seq(Clear) /\ r \in Seq(Tokens)
  BY <1>5, TurnedFacts, ClearTokens
<1>8. m \in Seq(Clear) /\ Len(m) = 5 /\ m[1] = Slash
  <2>1. "c" \in Clear /\ "mnt" \in Clear /\ Slash \in Clear /\ <<>> \in Seq(Clear)
    BY <1>2, MountTokens, EmptySeq
  <2>2. m = Append(<<Slash, "mnt", Slash, "c">>, Slash) /\ <<Slash, "mnt", Slash, "c">> \in Seq(Clear)
    BY <2>1, FourOf
  <2>3. m \in Seq(Clear)
    <3> HIDE DEF m
    <3> QED BY <2>1, <2>2, AppendProperties
  <2> QED BY <2>3
<1> HIDE DEF r
<1>9. Segments[m \o r] = M \o Segments[r]
  BY <1>2, <1>7, SegmentsMount
<1>10. m \o r \in Seq(Clear) /\ IsAbs(m \o r)
  <2> HIDE DEF m
  <2>1. /\ m \o r \in Seq(Clear) /\ Len(m \o r) = 5 + Len(r) /\ Len(r) \in Nat
        /\ \A i \in 1..5 + Len(r) : (m \o r)[i] = IF i <= 5 THEN m[i] ELSE r[i - 5]
    <3>1. m \in Seq(Clear) /\ r \in Seq(Clear) /\ Len(r) \in Nat /\ Len(m) = 5
      BY <1>7, <1>8
    <3>2. /\ m \o r \in Seq(Clear) /\ Len(m \o r) = Len(m) + Len(r)
          /\ \A i \in 1..Len(m) + Len(r) : (m \o r)[i] = IF i <= Len(m) THEN m[i] ELSE r[i - Len(m)]
      BY <3>1, ConcatProperties
    <3> QED BY <3>1, <3>2
  <2>2. (m \o r)[1] = Slash
    BY <1>8, <2>1
  <2> QED BY <2>1, <2>2 DEF IsAbs
<1>11. Clean(m \o r) = Host(Kept(TRUE, Segments[m \o r])) /\ Clean(m \o r) \in HostPaths
  BY <1>10, CleanAbsolute, CleanIsHost
<1> QED BY <1>5, <1>6, <1>9, <1>11 DEF r

\* A UNC path that is not refused becomes a normal form
\* (pathnorm.convertUNCToWSL).
LEMMA UncIsHost ==
    ASSUME NEW p \in Seq(Tokens), IsUNCPath(p), ConvertUNCToWSL(p) # Refused
    PROVE  ConvertUNCToWSL(p) \in HostPaths
<1> DEFINE q == SubSeq(p, 3, Len(p))
           w == Without(Slash, Slashed(q))
           segs == Segments[w]
           rest == SubSeq(segs, 3, Len(segs))
           V == Seq(Clear)
<1>1. q \in Seq(Tokens)
  BY SubSeqProperties
<1> HIDE DEF q
<1>2. Slashed(q) \in V
  BY <1>1, TurnedFacts
<1>3. w \in V
  <2>1. Slashed(q) # <<>> => Tail(Slashed(q)) \in V
    BY <1>2, ConsOf
  <2> QED BY <1>2, <2>1 DEF Without
<1>4. ConvertUNCToWSL(p) = Clean(<<Slash>> \o UnderRoot(rest))
  BY DEF ConvertUNCToWSL, q
<1> HIDE DEF w
<1>5. segs \in Seq(V)
  <2>1. segs \in Seq(Seq(Clear \ {Slash}))
    BY <1>3, ClearTokens, SegmentsOver
  <2>2. Seq(Clear \ {Slash}) \subseteq V
    BY SeqMonotonic
  <2> HIDE DEF segs, V
  <2> QED BY <2>1, <2>2, SeqMonotonic
<1>6. rest \in Seq(V)
  <2> HIDE DEF segs, V
  <2>1. Len(segs) \in Nat /\ \A i \in 3..Len(segs) : segs[i] \in V
    BY <1>5, ElementOfSeq
  <2> QED BY <2>1, SubSeqProperties
<1> HIDE DEF rest
<1>7. UnderRoot(rest) \in V
  BY <1>6, ClearTokens, EmptySeq, UnderRootStep
<1>8. <<Slash>> \o UnderRoot(rest) \in V /\ IsAbs(<<Slash>> \o UnderRoot(rest))
  BY <1>7, ClearTokens, ConsFacts DEF IsAbs
<1> QED BY <1>4, <1>8, CleanIsHost

\* A path that begins with a slash of either kind is cleaned to a normal form.
LEMMA Absolute ==
    ASSUME NEW p \in Seq(Tokens), IsAbs(Slashed(p))
    PROVE  Clean(Slashed(p)) \in HostPaths
BY TurnedFacts, CleanIsHost

\* Normalize converts every drive path that has more than its drive.
LEMMA NormalizeDrive ==
    ASSUME NEW p \in Seq(Tokens), IsDriveLetterPath(p), Len(p) > 1
    PROVE  Normalize(p) = DriveToWSL(p) /\ Normalize(p) \in HostPaths
<1>1. p # <<>> /\ p[1] \in Drives
  BY DEF IsDriveLetterPath
<1>2. ~IsUNCPath(p) /\ ~IsAbs(p)
  BY <1>1 DEF IsUNCPath, IsAbs, Drives, Slash, Backslash
<1>3. WindowsToWSL(p) = DriveToWSL(p)
  BY <1>2 DEF WindowsToWSL
<1>4. DriveToWSL(p) \in HostPaths /\ DriveToWSL(p) # Refused
  BY <1>1, DriveClean, HostPathFacts
<1> QED BY <1>1, <1>3, <1>4 DEF Normalize, IsWindowsPath

\* Normalize makes a normal form of every rooted path, and whatever it makes
\* absolute is one.
LEMMA NormalForm ==
    ASSUME NEW p \in Seq(Tokens)
    PROVE  /\ IsAbs(Normalize(p)) => Normalize(p) \in HostPaths
           /\ IsAbs(p) \/ IsUNCPath(p) \/ (IsDriveLetterPath(p) /\ Len(p) > 1)
                 => Normalize(p) \in HostPaths
<1>0. p # <<>> => Len(p) \in Nat \ {0}
  BY EmptySeq
<1>1. p # <<>> => (IsAbs(p) \/ IsUNCPath(p) => IsAbs(Slashed(p)))
  <2>1. Len(Slashed(p)) = Len(p) /\ Slashed(p) \in Seq(Clear)
        /\ \A i \in 1..Len(p) : Slashed(p)[i] = IF p[i] = Backslash THEN Slash ELSE p[i]
    BY TurnedFacts
  <2>2. p # <<>> => Slashed(p) # <<>> /\ 1 \in 1..Len(p)
    BY <1>0, <2>1, EmptySeq
  <2> QED BY <2>1, <2>2 DEF IsAbs, IsUNCPath
<1>2. CASE p = <<>>
  <2>1. Normalize(p) = <<>>
    <3>1. ~IsWindowsPath(p)
      BY <1>2, EmptySeq DEF IsWindowsPath, IsUNCPath, IsDriveLetterPath
    <3> QED BY <1>2, <3>1 DEF Normalize
  <2> QED BY <1>2, <2>1 DEF IsAbs, IsUNCPath, IsDriveLetterPath
<1>3. CASE p # <<>> /\ IsUNCPath(p)
  <2>1. WindowsToWSL(p) = ConvertUNCToWSL(p) /\ IsWindowsPath(p)
    <3>1. ~IsAbs(p) /\ ~IsDriveLetterPath(p)
      BY <1>3 DEF IsUNCPath, IsDriveLetterPath, IsAbs, Drives, Slash, Backslash
    <3> QED BY <1>3, <3>1 DEF WindowsToWSL, IsWindowsPath
  <2>2. CASE ConvertUNCToWSL(p) # Refused
    BY <1>3, <2>1, <2>2, UncIsHost DEF Normalize
  <2>3. CASE ConvertUNCToWSL(p) = Refused
    <3>1. Normalize(p) = Clean(Slashed(p))
      BY <1>3, <2>1, <2>3 DEF Normalize
    <3> QED BY <1>1, <1>3, <3>1, Absolute
  <2> QED BY <2>2, <2>3
<1>4. CASE p # <<>> /\ ~IsUNCPath(p) /\ IsDriveLetterPath(p) /\ Len(p) > 1
  BY <1>4, NormalizeDrive
<1>5. CASE p # <<>> /\ ~IsUNCPath(p) /\ ~(IsDriveLetterPath(p) /\ Len(p) > 1)
  <2>1. IsWindowsPath(p) => ~IsAbs(p)
    BY <1>5 DEF IsWindowsPath, IsDriveLetterPath, IsAbs, Drives, Slash
  <2>2. IsWindowsPath(p) => WindowsToWSL(p) = Refused
    BY <1>5, <2>1 DEF WindowsToWSL, IsWindowsPath
  <2>3. Normalize(p) = Clean(Slashed(p))
    BY <1>5, <2>2 DEF Normalize
  <2>4. Slashed(p) \in Seq(Tokens)
    BY TurnedFacts, ClearTokens
  <2>5. IsAbs(Clean(Slashed(p))) => IsAbs(Slashed(p))
    BY <2>4, RelativeStaysRelative
  <2> QED BY <1>1, <1>5, <2>3, <2>5, Absolute
<1> QED BY <1>2, <1>3, <1>4, <1>5

\* However a drive path is spelled, in slashes, in backslashes, with its drive
\* in either case, Normalize makes one path of it (pathnorm.Normalize):
\* ensureOpen remembers the file once.
THEOREM SpellingsOfDrives ==
    ASSUME NEW p \in Seq(Tokens), IsDriveLetterPath(p), Len(p) > 1
    PROVE  /\ Normalize(Slashed(p)) = Normalize(p)
           /\ Normalize(Backslashed(p)) = Normalize(p)
           /\ \A drive \in Drives : Normalize(<<drive>> \o Tail(p)) = Normalize(p)
<1>1. ASSUME NEW q \in Seq(Tokens), Len(q) = Len(p), q[1] \in Drives,
             Slashed(Tail(q)) = Slashed(Tail(p))
      PROVE  Normalize(q) = Normalize(p)
  <2>1. q # <<>> /\ p # <<>> /\ IsDriveLetterPath(q) /\ Len(q) > 1
    BY <1>1, EmptySeq DEF IsDriveLetterPath
  <2>2. Normalize(q) = DriveToWSL(q) /\ Normalize(p) = DriveToWSL(p)
    BY <2>1, NormalizeDrive
  <2> QED BY <1>1, <2>1, <2>2, DriveClean
<1> DEFINE d == p[1]
           t == Tail(p)
<1>2. d \in Tokens /\ d \in Drives /\ t \in Seq(Tokens) /\ p = <<d>> \o t /\ Len(p) = Len(t) + 1
  <2>1. p # <<>> /\ d \in Drives
    BY DEF IsDriveLetterPath
  <2>2. d \in Tokens /\ t \in Seq(Tokens) /\ p = <<d>> \o t
    BY <2>1, ConsOf
  <2> QED BY <2>1, <2>2, HeadTailProperties
<1>3. d # Backslash /\ d # Slash
  BY <1>2 DEF Drives, Slash, Backslash
<1> HIDE DEF d, t
<1>4. Drives \subseteq Tokens
  BY DEF Tokens, Names
<1>5. /\ Slashed(t) \in Seq(Tokens) /\ Backslashed(t) \in Seq(Tokens)
      /\ Len(Slashed(t)) = Len(t) /\ Len(Backslashed(t)) = Len(t)
      /\ Slashed(Slashed(t)) = Slashed(t) /\ Slashed(Backslashed(t)) = Slashed(t)
  BY <1>2, TurnedFacts, TurnedTwice, ClearTokens
<1>6. ASSUME NEW e \in Drives, NEW u \in Seq(Tokens), Len(u) = Len(t), Slashed(u) = Slashed(t)
      PROVE  Normalize(<<e>> \o u) = Normalize(p)
  <2>1. /\ <<e>> \o u \in Seq(Tokens) /\ (<<e>> \o u)[1] = e /\ Tail(<<e>> \o u) = u
        /\ Len(<<e>> \o u) = Len(u) + 1
    BY <1>4, ConsFacts
  <2> QED BY <1>1, <1>2, <1>6, <2>1 DEF t
<1>7. Slashed(p) = <<d>> \o Slashed(t)
  BY <1>2, <1>3, SlashedCons
<1>8. Backslashed(p) = <<d>> \o Backslashed(t)
  BY <1>2, <1>3, BackslashedCons
<1>9. Normalize(<<d>> \o Slashed(t)) = Normalize(p) /\ Normalize(<<d>> \o Backslashed(t)) = Normalize(p)
  BY <1>2, <1>5, <1>6
<1>10. \A drive \in Drives : Normalize(<<drive>> \o t) = Normalize(p)
  BY <1>2, <1>6
<1> QED BY <1>7, <1>8, <1>9, <1>10 DEF t

-----------------------------------------------------------------------------
(* URIs.                                                                   *)

\* URIToPath undoes PathToURI on normal forms that have no drive at the root.
LEMMA UriOfPath ==
    ASSUME NEW p \in Seq(Tokens), Normalize(p) \in HostPaths, ~DriveInURI(Normalize(p))
    PROVE  URIToPath(PathToURI(p)) = Normalize(p)
<1> DEFINE h == Normalize(p)
<1>1. h \in Seq(Clear) /\ h # <<>> /\ Normalize(h) = h
  BY HostPathFacts DEF IsAbs
<1>2. Segments[h][1] = <<>>
  <2>1. PICK kept \in Seq(Plain(Clear)) : h = Host(kept)
    BY DEF HostPaths
  <2>2. CASE kept = <<>>
    <3>1. Segments[h] = << <<>>, <<>> >>
      BY <2>1, <2>2, HostFacts
    <3>2. ASSUME NEW x, NEW y PROVE <<x, y>>[1] = x
      OBVIOUS
    <3> HIDE DEF h
    <3> QED BY <3>1, <3>2
  <2>3. CASE kept # <<>>
    <3> DEFINE W == Seq(Tokens)
    <3>1. kept \in Seq(W) /\ <<>> \in W
      <4>1. Plain(Clear) \subseteq W
        <5>1. \A w \in Seq(Clear) : w \in W
          BY ClearTokens
        <5> QED BY <5>1, PlainFacts
      <4> HIDE DEF W
      <4>2. kept \in Seq(W)
        BY <4>1, SeqMonotonic
      <4> QED BY <4>2, EmptySeq DEF W
    <3>2. Segments[h] = << <<>> >> \o kept
      BY <2>1, <2>3, HostFacts
    <3> HIDE DEF W, h
    <3> QED BY <3>1, <3>2, ConsFacts
  <2> QED BY <2>2, <2>3
<1>3. PathToURI(p) = [authority |-> <<>>, path |-> SubSeq(h, Len(<<>>) + 1, Len(h))]
  BY <1>2 DEF PathToURI
<1>4. SubSeq(h, Len(<<>>) + 1, Len(h)) = h
  <2> HIDE DEF h
  <2>1. Len(<<>>) + 1 = 1
    OBVIOUS
  <2> QED BY <1>1, <2>1, SubSeqFull
<1>5. PathToURI(p) = [authority |-> <<>>, path |-> h]
  BY <1>3, <1>4
<1>6. PathToURI(p).authority = <<>> /\ PathToURI(p).path = h
  BY <1>5
<1>7. ~DriveInURI(h)
  OBVIOUS
<1> HIDE DEF h
<1>8. URIToPath(PathToURI(p)) = Normalize(h)
  BY <1>1, <1>6, <1>7 DEF URIToPath
<1> QED BY <1>1, <1>8 DEF h

\* The URI a Windows tool makes of a drive path leads where Normalize does.
LEMMA UriOfDrive ==
    ASSUME NEW p \in Seq(Tokens), IsDriveLetterPath(p)
    PROVE  URIToPath([authority |-> <<>>, path |-> <<Slash>> \o Slashed(p)]) = Normalize(p)
<1> DEFINE s == Slashed(p)
           c == <<Slash>> \o s
<1>1. p # <<>> /\ p[1] \in Drives /\ Len(p) \in Nat \ {0}
  BY EmptySeq DEF IsDriveLetterPath
<1>2. s \in Seq(Tokens) /\ Len(s) = Len(p) /\ s[1] = p[1]
  <2>1. p[1] # Backslash /\ 1 \in 1..Len(p)
    BY <1>1 DEF Drives, Backslash
  <2> QED BY <2>1, TurnedFacts, ClearTokens
<1> HIDE DEF s
<1>3. c \in Seq(Tokens) /\ c # <<>> /\ c[1] = Slash /\ Tail(c) = s /\ Len(c) = Len(s) + 1
  BY <1>2, SlashIsToken, ConsFacts
<1>4. c[2] = s[1]
  <2>1. 1 \in 1..Len(Tail(c))
    BY <1>1, <1>2, <1>3
  <2>2. \A i \in 1..Len(Tail(c)) : Tail(c)[i] = c[i + 1]
    <3> HIDE DEF c
    <3> QED BY <1>3, HeadTailProperties
  <2> QED BY <1>3, <2>1, <2>2
<1> HIDE DEF c
<1>5. DriveInURI(c)
  BY <1>1, <1>2, <1>3, <1>4 DEF DriveInURI
<1>6. URIToPath([authority |-> <<>>, path |-> c]) = Normalize(s)
  BY <1>3, <1>5 DEF URIToPath
<1>7. Normalize(s) = Normalize(p)
  <2>1. CASE Len(p) > 1
    BY <2>1, SpellingsOfDrives DEF s
  <2>2. CASE Len(p) = 1
    <3>1. \A i \in 1..Len(p) : s[i] = p[i]
      BY <1>2, <2>2
    <3>2. s = p
      BY <1>2, <3>1, SeqEqual
    <3> QED BY <3>2
  <2>3. Len(p) > 1 \/ Len(p) = 1
    <3>1. ASSUME NEW n \in Nat \ {0} PROVE n > 1 \/ n = 1
      OBVIOUS
    <3> QED BY <1>1, <3>1
  <2> QED BY <2>1, <2>2, <2>3
<1> QED BY <1>6, <1>7 DEF c, s

-----------------------------------------------------------------------------
(* To Windows and back.                                                    *)

\* UnderRoot of a single name.
LEMMA UnderRootOne ==
    ASSUME NEW w \in Seq(Tokens)
    PROVE  UnderRoot(<<w>>) = <<Slash>> \o w
<1> DEFINE W == Seq(Tokens)
<1>1. w \in W
  OBVIOUS
<1> HIDE DEF W
<1>2. Append(<<>>, w) = <<w>> /\ <<>> \in Seq(W)
  BY <1>1, TwoOf, EmptySeq
<1>3. UnderRoot(<<>>) = <<>> /\ UnderRoot(Append(<<>>, w)) = UnderRoot(<<>>) \o (<<Slash>> \o w)
  BY <1>1, <1>2, SlashIsToken, UnderRootStep DEF W
<1>4. <<Slash>> \o w \in Seq(Tokens)
  BY SlashIsToken, ConsFacts
<1> QED BY <1>2, <1>3, <1>4, ConcatEmptySeq

\* Smaller the drive of a mount

\* The segments of what follows /mnt/l.
Inside(q) == IF q = <<>> THEN <<>> ELSE Segments[Tail(q)]

\* The names of a mounted drive.
Volume(l) == << <<"mnt">>, <<l>> >>

\* A path under /mnt/l has the drive's names before those of its rest.
LEMMA MountedSegments ==
    ASSUME NEW l \in Letters, NEW q \in Seq(Tokens), q # <<>> => q[1] = Slash
    PROVE  /\ Inside(q) \in Seq(Seq(Tokens))
           /\ UnderRoot(Inside(q)) = q
           /\ Segments[<<Slash, "mnt", Slash, l>> \o q] = << <<>> >> \o (Volume(l) \o Inside(q))
           /\ Kept(TRUE, Mount(l) \o Segments[q]) = Kept(TRUE, Volume(l) \o Inside(q))
<1> DEFINE R == Inside(q)
           W == Seq(Tokens)
           m == <<Slash, "mnt", Slash, l>>
<1>1. /\ <<>> \in W /\ <<"mnt">> \in W /\ <<l>> \in W /\ l \in Tokens /\ "mnt" \in Tokens
      /\ Slash \in Tokens
  <2>1. l \in Tokens /\ "mnt" \in Tokens /\ Slash \in Tokens
    BY MountTokens, ClearTokens
  <2> QED BY <2>1, EmptySeq
<1>2. Mount(l) \in Seq(W) /\ Volume(l) \in Seq(W) /\ Mount(l) = << <<>> >> \o Volume(l)
  <2> HIDE DEF W
  <2>1. ASSUME NEW x \in W, NEW y \in W, NEW z \in W
        PROVE  <<x>> \o <<y, z>> = <<x, y, z>> /\ <<x, y, z>> \in Seq(W) /\ <<y, z>> \in Seq(W)
    <3>1. <<y>> \o <<z>> = <<y, z>> /\ <<x>> \o <<y>> = <<x, y>> /\ <<x>> \in Seq(W)
          /\ <<y>> \in Seq(W) /\ <<z>> \in Seq(W) /\ <<x, y>> \in Seq(W) /\ <<y, z>> \in Seq(W)
      BY TwoOf
    <3>2. Append(<<x, y>>, z) = <<x, y>> \o <<z>>
      BY <3>1, AppendIsConcat
    <3>3. Append(<<x, y>>, z) = <<x, y, z>>
      BY ThreeOf
    <3>4. (<<x>> \o <<y>>) \o <<z>> = <<x>> \o (<<y>> \o <<z>>)
      BY <3>1, ConcatAssociative
    <3>5. Append(<<x, y>>, z) \in Seq(W)
      BY <3>1, AppendProperties
    <3> QED BY <3>1, <3>2, <3>3, <3>4, <3>5
  <2> QED BY <1>1, <2>1 DEF Mount, Volume
<1>3. q # <<>> => Tail(q) \in W /\ q = <<Slash>> \o Tail(q)
  BY ConsOf
<1>4. \A p \in W : Segments[p] \in Seq(W) /\ UnderRoot(Segments[p]) = <<Slash>> \o p
  BY SegmentsStep, UnderRootOfSegments
<1>5. R \in Seq(W) /\ UnderRoot(R) = q
  <2>1. CASE q = <<>>
    <3>1. UnderRoot(<<>>) = <<>>
      BY SlashIsToken, EmptySeq, UnderRootStep
    <3> QED BY <2>1, <3>1, EmptySeq DEF Inside
  <2>2. CASE q # <<>>
    BY <1>3, <1>4, <2>2 DEF Inside
  <2> QED BY <2>1, <2>2
<1>6. m \in Seq(Tokens)
  BY <1>1, EmptySeq, FourOf
<1>7. Segments[m \o q] = Mount(l) \o R
  <2>1. CASE q = <<>>
    <3>1. m \o <<>> = m
      BY <1>6, ConcatEmptySeq
    <3>2. Mount(l) \o <<>> = Mount(l)
      <4> HIDE DEF W
      <4> QED BY <1>2, ConcatEmptySeq
    <3> QED BY <2>1, <3>1, <3>2, <1>1, SegmentsMount DEF Inside
  <2>2. CASE q # <<>>
    <3>1. m \o (<<Slash>> \o Tail(q)) = <<Slash, "mnt", Slash, l, Slash>> \o Tail(q)
      BY <1>1, <1>3, <2>2, FourOf
    <3>2. Segments[<<Slash, "mnt", Slash, l, Slash>> \o Tail(q)] = Mount(l) \o Segments[Tail(q)]
      BY <1>3, <2>2, SegmentsMount
    <3> QED BY <1>3, <2>2, <3>1, <3>2 DEF Inside
  <2> QED BY <2>1, <2>2
<1>8. ASSUME NEW a \in Seq(W), NEW c \in Seq(W)
      PROVE  /\ Kept(TRUE, Append(a, <<>>) \o c) = Kept(TRUE, a \o c)
             /\ Kept(TRUE, << <<>> >> \o c) = Kept(TRUE, c)
  BY KeptSkips
<1>9. q = <<>> => Segments[q] = << <<>> >>
  BY SegmentsStep
<1>10. q # <<>> => Segments[q] = << <<>> >> \o R
  BY <1>3, SegmentsCons DEF Inside
<1>11. q = <<>> => R = <<>>
  BY DEF Inside
<1> DEFINE M == Mount(l)
           D == Volume(l)
<1> HIDE DEF R, W, m, M, D
<1>12. M \in Seq(W) /\ D \in Seq(W) /\ M = << <<>> >> \o D /\ << <<>> >> \in Seq(W)
  BY <1>1, <1>2 DEF M, D
<1>13. M \o R = << <<>> >> \o (D \o R) /\ D \o R \in Seq(W)
  BY <1>5, <1>12, ConcatAssociative, ConcatProperties
<1>14. Segments[q] = << <<>> >> \o R
  BY <1>9, <1>10, <1>11, <1>12, ConcatEmptySeq
<1>15. M \o (<< <<>> >> \o R) = Append(M, <<>>) \o R
  BY <1>1, <1>5, <1>12, AppendIsConcat, ConcatAssociative
<1>16. Kept(TRUE, M \o Segments[q]) = Kept(TRUE, D \o R)
  <2>1. Kept(TRUE, Append(M, <<>>) \o R) = Kept(TRUE, M \o R)
    BY <1>5, <1>8, <1>12
  <2>2. Kept(TRUE, << <<>> >> \o (D \o R)) = Kept(TRUE, D \o R)
    BY <1>8, <1>13
  <2> QED BY <1>13, <1>14, <1>15, <2>1, <2>2
<1> QED BY <1>5, <1>7, <1>13, <1>16 DEF R, W, m, M, D

\* Lists of plain names are lists of segments.
LEMMA PlainSeqs ==
    ASSUME NEW k \in Seq(Plain(Clear))
    PROVE  k \in Seq(Seq(Tokens))
<1> DEFINE W == Seq(Tokens)
<1>1. Plain(Clear) \subseteq W
  BY PlainFacts, ClearTokens
<1> HIDE DEF W
<1>2. k \in Seq(W)
  BY <1>1, SeqMonotonic
<1> QED BY <1>2 DEF W

\* What a mounted drive's path leads to is the path with its drive in lower case.

\* The drive's rest, put under /mnt/c, is the host path it came from, up to the
\* case of the letter.
LEMMA MountedHost ==
    ASSUME NEW l \in Letters, NEW q \in Seq(Tokens), q # <<>> => q[1] = Slash,
           <<Slash, "mnt", Slash, l>> \o q \in HostPaths
    PROVE  Host(Kept(TRUE, Mount("c") \o Segments[q])) = <<Slash, "mnt", Slash, "c">> \o q
<1> DEFINE h == <<Slash, "mnt", Slash, l>> \o q
           R == Inside(q)
           D == Volume(l)
           C == Volume("c")
           W == Seq(Tokens)
           F == Plain(Clear)
<1>1. "c" \in Letters
  BY DEF Letters
<1>2. /\ R \in Seq(W) /\ UnderRoot(R) = q /\ Segments[h] = << <<>> >> \o (D \o R)
      /\ Kept(TRUE, Mount("c") \o Segments[q]) = Kept(TRUE, C \o R)
  BY <1>1, MountedSegments
<1>3. PICK kept \in Seq(F) : h = Host(kept)
  BY DEF HostPaths
<1>4. /\ kept # <<>> => Segments[h] = << <<>> >> \o kept
      /\ kept = <<>> => Segments[h] = << <<>>, <<>> >>
  BY <1>3, HostFacts
<1>5. kept \in Seq(W)
  BY PlainSeqs
<1>6. <<"mnt">> \in F /\ <<l>> \in F /\ <<"c">> \in F
  BY <1>1, MountTokens
<1>7. <<>> \in W /\ F \subseteq W
  BY EmptySeq, PlainFacts, ClearTokens
<1> HIDE DEF R, h, W, F
<1>8. /\ D \in Seq(F) /\ C \in Seq(F) /\ D \in Seq(W) /\ C \in Seq(W) /\ Len(D) = 2 /\ Len(C) = 2
      /\ C = << <<"mnt">> >> \o << <<"c">> >>
      /\ << <<"mnt">> >> \in Seq(W) /\ << <<"c">> >> \in Seq(W)
  <2>1. D \in Seq(F) /\ C \in Seq(F) /\ C = << <<"mnt">> >> \o << <<"c">> >>
    BY <1>6, TwoOf DEF Volume
  <2>2. << <<"mnt">> >> \in Seq(W) /\ << <<"c">> >> \in Seq(W)
    BY <1>6, <1>7
  <2>3. Len(D) = 2 /\ Len(C) = 2
    BY DEF Volume
  <2> HIDE DEF D, C
  <2> QED BY <2>1, <2>2, <2>3, <1>7, SeqMonotonic
<1> HIDE DEF D, C
<1>9. D \o R \in Seq(W) /\ Len(D \o R) = 2 + Len(R) /\ Len(R) \in Nat
      /\ \A i \in 1..2 + Len(R) : (D \o R)[i] = IF i <= 2 THEN D[i] ELSE R[i - 2]
  <2>1. /\ D \o R \in Seq(W) /\ Len(D \o R) = Len(D) + Len(R)
        /\ \A i \in 1..Len(D) + Len(R) : (D \o R)[i] = IF i <= Len(D) THEN D[i] ELSE R[i - Len(D)]
    BY <1>2, <1>8, ConcatProperties
  <2> QED BY <1>2, <1>8, <2>1
<1>10. Len(<< <<>> >> \o (D \o R)) = 3 + Len(R) /\ Tail(<< <<>> >> \o (D \o R)) = D \o R
  <2>1. Len(<< <<>> >> \o (D \o R)) = Len(D \o R) + 1 /\ Tail(<< <<>> >> \o (D \o R)) = D \o R
    BY <1>7, <1>9, ConsFacts
  <2> QED BY <1>9, <2>1
<1>11. kept = D \o R
  <2>1. kept # <<>>
    <3> SUFFICES ASSUME kept = <<>> PROVE FALSE
      OBVIOUS
    <3>1. << <<>>, <<>> >> = << <<>> >> \o (D \o R)
      BY <1>2, <1>4
    <3>2. ASSUME NEW x, NEW y PROVE Len(<<x, y>>) = 2
      OBVIOUS
    <3>3. 3 + Len(R) = 2
      BY <1>10, <3>1, <3>2
    <3> QED BY <1>9, <3>3
  <2>2. << <<>> >> \o kept = << <<>> >> \o (D \o R)
    BY <1>2, <1>4, <2>1
  <2>3. Tail(<< <<>> >> \o kept) = kept
    BY <1>5, <1>7, ConsFacts
  <2> QED BY <1>10, <2>2, <2>3
<1>12. R \in Seq(F)
  <2>1. \A i \in 1..2 + Len(R) : (D \o R)[i] \in F
    <3>1. kept \in Seq(F) /\ Len(kept) = 2 + Len(R)
      BY <1>3, <1>9, <1>11
    <3>2. \A i \in 1..Len(kept) : kept[i] \in F
      BY <3>1, ElementOfSeq
    <3> QED BY <1>11, <3>1, <3>2
  <2>2. ASSUME NEW i \in 1..Len(R) PROVE R[i] \in F
    <3>1. i + 2 \in 1..2 + Len(R) /\ ~(i + 2 <= 2) /\ (i + 2) - 2 = i
      BY <1>9
    <3>2. (D \o R)[i + 2] = R[i]
      BY <1>9, <3>1
    <3> QED BY <2>1, <3>1, <3>2
  <2> QED BY <1>2, <2>2, SeqOver
<1>13. C \o R \in Seq(F)
  BY <1>8, <1>12, ConcatProperties
<1>14. Kept(TRUE, C \o R) = C \o R
  <2>1. C \o R \in Seq(Plain(Tokens))
    BY <1>13, PlainFacts, SeqMonotonic DEF F
  <2> QED BY <2>1, KeptOfPlain
<1>15. C \o R # <<>>
  <2>1. Len(C \o R) = 2 + Len(R)
    BY <1>2, <1>8, ConcatProperties
  <2> QED BY <1>9, <2>1
<1>16. Host(Kept(TRUE, Mount("c") \o Segments[q])) = UnderRoot(C \o R)
  BY <1>2, <1>14, <1>15 DEF Host
<1>17. UnderRoot(C \o R) = UnderRoot(C) \o q
  BY <1>2, <1>8, UnderRootConcat DEF W
<1>18. UnderRoot(C) = (<<Slash>> \o <<"mnt">>) \o (<<Slash>> \o <<"c">>)
  <2>1. UnderRoot(C) = UnderRoot(<< <<"mnt">> >>) \o UnderRoot(<< <<"c">> >>)
    BY <1>8, UnderRootConcat DEF W
  <2>2. <<"mnt">> \in Seq(Tokens) /\ <<"c">> \in Seq(Tokens)
    BY <1>6, <1>7 DEF W
  <2> QED BY <2>1, <2>2, UnderRootOne
<1>19. (<<Slash>> \o <<"mnt">>) \o (<<Slash>> \o <<"c">>) = <<Slash, "mnt", Slash, "c">>
  <2>1. Slash \in Tokens /\ "mnt" \in Tokens /\ "c" \in Tokens
    BY <1>1, MountTokens, ClearTokens
  <2>2. /\ <<Slash>> \o <<"mnt">> = <<Slash, "mnt">> /\ <<Slash, "mnt">> \in Seq(Tokens)
        /\ <<Slash>> \in Seq(Tokens) /\ <<"c">> \in Seq(Tokens)
    BY <2>1, TwoOf
  <2>3. <<Slash, "mnt", Slash, "c">> = Append(<<Slash, "mnt">>, Slash) \o <<"c">>
    BY <2>1, EmptySeq, FourOf
  <2>4. Append(<<Slash, "mnt">>, Slash) = <<Slash, "mnt">> \o <<Slash>>
    BY <2>1, <2>2, AppendIsConcat
  <2>5. (<<Slash, "mnt">> \o <<Slash>>) \o <<"c">> = <<Slash, "mnt">> \o (<<Slash>> \o <<"c">>)
    BY <2>2, ConcatAssociative
  <2> QED BY <2>2, <2>3, <2>4, <2>5
<1> QED BY <1>16, <1>17, <1>18, <1>19

\* A path that splitMountDrive accepts is /mnt, a letter, and a rest that is
\* empty or begins with a slash.
LEMMA MountSplit ==
    ASSUME NEW h \in Seq(Clear), SplitMountDrive(h)
    PROVE  /\ h[4] \in Letters
           /\ SubSeq(h, 5, Len(h)) \in Seq(Clear)
           /\ SubSeq(h, 5, Len(h)) # <<>> => SubSeq(h, 5, Len(h))[1] = Slash
           /\ h = <<Slash, "mnt", Slash, h[4]>> \o SubSeq(h, 5, Len(h))
           /\ [h EXCEPT ![4] = "c"] = <<Slash, "mnt", Slash, "c">> \o SubSeq(h, 5, Len(h))
<1> DEFINE q == SubSeq(h, 5, Len(h))
           n == Len(h)
           m(l) == <<Slash, "mnt", Slash, l>>
<1>1. n \in Nat /\ n >= 4 /\ h[4] \in Letters /\ (n > 4 => h[5] = Slash)
      /\ SubSeq(h, 1, 3) = <<Slash, "mnt", Slash>>
  BY DEF SplitMountDrive
<1>2. h[1] = Slash /\ h[2] = "mnt" /\ h[3] = Slash
  <2>1. \A i \in 1..3 : SubSeq(h, 1, 3)[i] = h[i]
    <3>1. \A i \in 1..3 : h[i] \in Clear
      BY <1>1, ElementOfSeq
    <3>2. \A i \in 1..3 - 1 + 1 : SubSeq(h, 1, 3)[i] = h[1 + i - 1]
      BY <3>1, SubSeqProperties
    <3> QED BY <3>2
  <2>2. <<Slash, "mnt", Slash>>[1] = Slash /\ <<Slash, "mnt", Slash>>[2] = "mnt"
        /\ <<Slash, "mnt", Slash>>[3] = Slash
    OBVIOUS
  <2>3. 1 \in 1..3 /\ 2 \in 1..3 /\ 3 \in 1..3
    OBVIOUS
  <2> DEFINE u == SubSeq(h, 1, 3)
  <2>4. u = <<Slash, "mnt", Slash>>
    BY <1>1
  <2>5. u[1] = h[1] /\ u[2] = h[2] /\ u[3] = h[3]
    BY <2>1, <2>3
  <2> HIDE DEF u
  <2> QED BY <2>2, <2>4, <2>5
<1>3. /\ q \in Seq(Clear) /\ Len(q) = n - 4
      /\ \A i \in 1..n - 4 : q[i] = h[i + 4]
  <2>1. \A i \in 5..n : h[i] \in Clear
    BY <1>1, ElementOfSeq
  <2>2. /\ q \in Seq(Clear) /\ Len(q) = IF 5 <= n THEN n - 5 + 1 ELSE 0
        /\ \A i \in 1..n - 5 + 1 : q[i] = h[5 + i - 1]
    <3> HIDE DEF n
    <3>1. 5 \in Int /\ n \in Int
      BY <1>1
    <3> QED BY <2>1, <3>1, SubSeqProperties DEF n
  <2> HIDE DEF q, n
  <2>3. Len(q) = n - 4
    BY <1>1, <2>2
  <2>4. ASSUME NEW i \in 1..n - 4 PROVE q[i] = h[i + 4]
    <3>1. i \in 1..n - 5 + 1 /\ 5 + i - 1 = i + 4
      BY <1>1
    <3> QED BY <2>2, <3>1
  <2> QED BY <2>2, <2>3, <2>4
<1>4. q # <<>> => q[1] = Slash
  <2> SUFFICES ASSUME q # <<>> PROVE q[1] = Slash
    OBVIOUS
  <2>1. Len(q) \in Nat \ {0}
    BY <1>3, EmptySeq
  <2>2. n > 4 /\ 1 \in 1..n - 4
    BY <1>1, <1>3, <2>1
  <2> QED BY <1>1, <1>3, <2>2
<1>5. ASSUME NEW l \in Letters
      PROVE  [h EXCEPT ![4] = l] = m(l) \o q
  <2> DEFINE e == [h EXCEPT ![4] = l]
             c == m(l) \o q
  <2>1. l \in Clear
    BY MountTokens
  <2>2. e \in Seq(Clear) /\ Len(e) = n
        /\ \A i \in 1..n : e[i] = IF i = 4 THEN l ELSE h[i]
    BY <1>1, <2>1, ExceptSeq
  <2>3. /\ m(l) \in Seq(Clear) /\ Len(m(l)) = 4
        /\ m(l)[1] = Slash /\ m(l)[2] = "mnt" /\ m(l)[3] = Slash /\ m(l)[4] = l
    <3>1. m(l) \in Seq(Clear)
      BY MountTokens, EmptySeq, FourOf
    <3>2. ASSUME NEW x, NEW y, NEW z, NEW w
          PROVE  /\ Len(<<x, y, z, w>>) = 4 /\ <<x, y, z, w>>[1] = x /\ <<x, y, z, w>>[2] = y
                 /\ <<x, y, z, w>>[3] = z /\ <<x, y, z, w>>[4] = w
      OBVIOUS
    <3> QED BY <3>1, <3>2
  <2> HIDE DEF m, q
  <2>4. c \in Seq(Clear) /\ Len(c) = n
        /\ \A i \in 1..n : c[i] = IF i <= 4 THEN m(l)[i] ELSE q[i - 4]
    <3>1. /\ c \in Seq(Clear) /\ Len(c) = Len(m(l)) + Len(q)
          /\ \A i \in 1..Len(m(l)) + Len(q) : c[i] = IF i <= Len(m(l)) THEN m(l)[i] ELSE q[i - Len(m(l))]
      <4> DEFINE v == m(l)
      <4>1. v \in Seq(Clear) /\ q \in Seq(Clear)
        BY <1>3, <2>3
      <4> HIDE DEF v
      <4>2. /\ v \o q \in Seq(Clear) /\ Len(v \o q) = Len(v) + Len(q)
            /\ \A i \in 1..Len(v) + Len(q) : (v \o q)[i] = IF i <= Len(v) THEN v[i] ELSE q[i - Len(v)]
        BY <4>1, ConcatProperties
      <4> QED BY <4>2 DEF v
    <3> QED BY <1>1, <1>3, <2>3, <3>1
  <2> HIDE DEF e, c
  <2>5. ASSUME NEW i \in 1..n PROVE e[i] = c[i]
    <3>1. CASE i <= 4
      <4>1. i \in {1, 2, 3, 4}
        BY <3>1, <1>1
      <4> QED BY <1>2, <2>2, <2>3, <2>4, <3>1, <4>1
    <3>2. CASE i > 4
      <4>1. i - 4 \in 1..n - 4 /\ (i - 4) + 4 = i /\ ~(i <= 4) /\ i # 4
        BY <1>1, <3>2
      <4> QED BY <1>3, <2>2, <2>4, <4>1
    <3> QED BY <1>1, <3>1, <3>2
  <2>6. e = c
    BY <2>2, <2>4, <2>5, SeqEqual
  <2> QED BY <2>6 DEF e, c
<1>6. [h EXCEPT ![4] = h[4]] = h
  BY <1>1
<1>7. "c" \in Letters
  BY DEF Letters
<1> QED BY <1>1, <1>3, <1>4, <1>5, <1>6, <1>7

\* A drive path in the form WSLToWindows writes is converted to the host path of
\* its names.
LEMMA WindowsDrive ==
    ASSUME NEW x \in Seq(Tokens)
    PROVE  LET win == <<"C:", Backslash>> \o x
           IN  /\ win \in Seq(Tokens)
               /\ WindowsToWSL(win) = Host(Kept(TRUE, Mount("c") \o Segments[Slashed(x)]))
<1> DEFINE win == <<"C:", Backslash>> \o x
           tail == <<Backslash>> \o x
           M == Mount("c")
<1>1. "C:" \in Tokens /\ Backslash \in Tokens /\ "C:" \in Drives /\ "C:" # Slash /\ "C:" # Backslash
  BY SlashIsToken DEF Tokens, Names, Drives, Slash, Backslash
<1>2. tail \in Seq(Tokens) /\ tail[1] = Backslash /\ tail # <<>> /\ Tail(tail) = x /\ Len(tail) = Len(x) + 1
  BY <1>1, ConsFacts
<1>3. win = <<"C:">> \o tail
  <2>1. <<"C:", Backslash>> = <<"C:">> \o <<Backslash>> /\ <<"C:">> \in Seq(Tokens)
        /\ <<Backslash>> \in Seq(Tokens)
    BY <1>1, TwoOf
  <2>2. (<<"C:">> \o <<Backslash>>) \o x = <<"C:">> \o (<<Backslash>> \o x)
    BY <2>1, ConcatAssociative
  <2> QED BY <2>1, <2>2
<1> HIDE DEF tail, win
<1>4. /\ win \in Seq(Tokens) /\ win # <<>> /\ win[1] = "C:" /\ Tail(win) = tail
      /\ Len(win) = Len(tail) + 1
  BY <1>1, <1>2, <1>3, ConsFacts
<1>5. Len(win) > 1
  <2>1. Len(x) \in Nat
    OBVIOUS
  <2> QED BY <1>2, <1>4, <2>1
<1>6. ~IsUNCPath(win) /\ ~IsAbs(win) /\ IsDriveLetterPath(win)
  BY <1>1, <1>4 DEF IsUNCPath, IsAbs, IsDriveLetterPath
<1>7. WindowsToWSL(win) = DriveToWSL(win)
  BY <1>5, <1>6 DEF WindowsToWSL
<1>8. DriveToWSL(win) = Host(Kept(TRUE, M \o Segments[Slashed(tail)]))
  BY <1>4, DriveClean
<1>9. M \in Seq(Seq(Tokens)) /\ Backslash \in Separators
  <2>1. "c" \in Letters
    BY DEF Letters
  <2> QED BY <2>1, EmptySeq, SegmentsMount DEF Separators
<1>10. Without(Backslash, tail) = x
  BY <1>2 DEF Without
<1> HIDE DEF M
<1>11. Kept(TRUE, M \o Segments[Slashed(Without(Backslash, tail))]) = Kept(TRUE, M \o Segments[Slashed(tail)])
  BY <1>2, <1>9, WithoutFacts
<1> QED BY <1>4, <1>7, <1>8, <1>10, <1>11 DEF win, M

\* A host path under /mnt leads to Windows and back to itself, with its drive in
\* lower case (WSLToWindows, WindowsToWSL).
LEMMA MountRoundTrip ==
    ASSUME NEW h \in HostPaths, SplitMountDrive(h), NEW distro
    PROVE  WindowsToWSL(WSLToWindows(h, distro)) = [h EXCEPT ![4] = "c"]
<1> DEFINE q == SubSeq(h, 5, Len(h))
           w == Without(Slash, q)
           x == Backslashed(w)
           M == Mount("c")
<1>1. h \in Seq(Clear) /\ IsAbs(h) /\ ~IsWindowsPath(h) /\ Clean(h) = h
  BY HostPathFacts
<1>2. /\ h[4] \in Letters /\ q \in Seq(Clear) /\ (q # <<>> => q[1] = Slash)
      /\ h = <<Slash, "mnt", Slash, h[4]>> \o q
      /\ [h EXCEPT ![4] = "c"] = <<Slash, "mnt", Slash, "c">> \o q
  BY <1>1, MountSplit
<1>3. WSLToWindows(h, distro) = <<"C:", Backslash>> \o x
  BY <1>1 DEF WSLToWindows
<1> DEFINE l == h[4]
<1>4. l \in Letters /\ h = <<Slash, "mnt", Slash, l>> \o q
  BY <1>2
<1> HIDE DEF q, l
<1>5. M \in Seq(Seq(Tokens)) /\ Slash \in Separators
  <2>1. "c" \in Letters
    BY DEF Letters
  <2> QED BY <2>1, EmptySeq, SegmentsMount DEF Separators
<1>6. q \in Seq(Tokens) /\ Slashed(q) = q
  BY <1>2, ClearTokens, TurnedFacts
<1>7. w \in Seq(Tokens) /\ Kept(TRUE, M \o Segments[Slashed(w)]) = Kept(TRUE, M \o Segments[Slashed(q)])
  <2> HIDE DEF M
  <2> QED BY <1>5, <1>6, WithoutFacts
<1> HIDE DEF w
<1>8. x \in Seq(Tokens) /\ Slashed(x) = Slashed(w)
  BY <1>7, TurnedFacts, TurnedTwice
<1> HIDE DEF x
<1>9. WindowsToWSL(<<"C:", Backslash>> \o x) = Host(Kept(TRUE, M \o Segments[Slashed(x)]))
  BY <1>8, WindowsDrive
<1>10. Host(Kept(TRUE, M \o Segments[q])) = <<Slash, "mnt", Slash, "c">> \o q
  BY <1>2, <1>4, <1>6, MountedHost
<1> QED BY <1>2, <1>3, <1>6, <1>7, <1>8, <1>9, <1>10

\* Any other host path leads back to itself through the share of the
\* distribution.
LEMMA DistroRoundTrip ==
    ASSUME NEW h \in HostPaths, ~SplitMountDrive(h), NEW name \in OtherNames
    PROVE  WindowsToWSL(WSLToWindows(h, <<name>>)) = h
<1> DEFINE b == Backslashed(h)
           wsl == <<Backslash, Backslash, "wsl", Backslash>>
           win == (wsl \o <<name>>) \o b
           W == Seq(Tokens)
<1>1. h \in Seq(Clear) /\ h \in Seq(Tokens) /\ IsAbs(h) /\ ~IsWindowsPath(h) /\ Clean(h) = h
  BY HostPathFacts
<1>2. WSLToWindows(h, <<name>>) = win
  <2>1. <<name>> # <<>>
    OBVIOUS
  <2> QED BY <1>1, <2>1 DEF WSLToWindows
<1>3. /\ name \in Tokens /\ name # Slash /\ name # Backslash /\ "wsl" \in Tokens /\ Slash \in Tokens
      /\ Backslash \in Tokens /\ "wsl" # Slash /\ "wsl" # Backslash
  BY SlashIsToken, NamesAreNoSeparators DEF Tokens, Names, Separators, Slash, Backslash
<1>4. b \in W /\ Slashed(b) = h /\ Len(b) \in Nat
  BY <1>1, TurnedFacts, TurnedTwice
<1> DEFINE r == Tail(h)
           tail == <<"wsl">> \o (<<Backslash>> \o (<<name>> \o b))
<1>5. r \in Seq(Tokens) /\ h = <<Slash>> \o r
  BY <1>1, ConsOf DEF IsAbs
<1> HIDE DEF b, r
<1>6. <<name>> \o b \in W /\ <<Backslash>> \o (<<name>> \o b) \in W /\ tail \in W
  <2>1. <<name>> \o b \in W
    BY <1>3, <1>4, ConsFacts
  <2>2. <<Backslash>> \o (<<name>> \o b) \in W
    BY <1>3, <2>1, ConsFacts
  <2> QED BY <1>3, <2>1, <2>2, ConsFacts
<1>7. win = <<Backslash>> \o (<<Backslash>> \o tail)
  <2>1. wsl \in Seq(Tokens) /\ <<name>> \in Seq(Tokens) /\ b \in Seq(Tokens)
    <3>1. <<>> \in Seq(Tokens) /\ <<name>> \in Seq(Tokens)
      BY <1>3, EmptySeq, TwoOf
    <3> QED BY <1>3, <1>4, <3>1, FourOf
  <2>2. win = wsl \o (<<name>> \o b)
    <3> HIDE DEF wsl
    <3> QED BY <2>1, ConcatAssociative
  <2> DEFINE u == <<name>> \o b
             v == <<Backslash>> \o u
             z == <<"wsl">> \o v
             B1 == <<Backslash>>
             B2 == <<Backslash, Backslash>>
             B3 == <<Backslash, Backslash, "wsl">>
  <2>3. u \in Seq(Tokens) /\ v \in Seq(Tokens)
    BY <1>6
  <2>4. B1 \in Seq(Tokens) /\ B2 \in Seq(Tokens) /\ B3 \in Seq(Tokens)
        /\ B2 = Append(B1, Backslash) /\ B3 = Append(B2, "wsl")
    BY <1>3, TwoOf, ThreeOf
  <2>5. wsl = Append(B3, Backslash)
    OBVIOUS
  <2>6. z \in Seq(Tokens)
    BY <1>6
  <2> HIDE DEF u, wsl, B1, B2, B3
  <2>7. wsl \o u = B3 \o v
    BY <1>3, <2>3, <2>4, <2>5, AppendConcat
  <2> HIDE DEF v
  <2>8. B3 \o v = B2 \o z
    BY <1>3, <2>3, <2>4, AppendConcat
  <2> HIDE DEF z
  <2>9. B2 \o z = B1 \o (<<Backslash>> \o z)
    BY <1>3, <2>4, <2>6, AppendConcat
  <2> QED BY <2>2, <2>7, <2>8, <2>9 DEF u, v, z, B1
<1> HIDE DEF tail, win, W
<1>8. /\ win \in W /\ Len(win) = Len(tail) + 2 /\ win[1] = Backslash /\ win[2] = Backslash
      /\ SubSeq(win, 3, Len(win)) = tail /\ Len(tail) \in Nat
  BY <1>3, <1>6, <1>7, TwoBefore DEF W
<1>9. IsUNCPath(win)
  BY <1>8 DEF IsUNCPath
<1>10. ~IsAbs(win) /\ ~IsDriveLetterPath(win)
  BY <1>8 DEF IsAbs, IsDriveLetterPath, Drives, Slash, Backslash
<1>11. WindowsToWSL(win) = ConvertUNCToWSL(win)
  BY <1>9, <1>10 DEF WindowsToWSL
<1>12. Slashed(tail) = <<"wsl">> \o (<<Slash>> \o (<<name>> \o h))
  <2>1. Slashed(<<name>> \o b) = <<name>> \o h
    BY <1>3, <1>4, SlashedCons DEF W
  <2>2. Slashed(<<Backslash>> \o (<<name>> \o b)) = <<Slash>> \o (<<name>> \o h)
    BY <1>3, <1>6, <2>1, SlashedCons DEF W
  <2>3. Slashed(<<"wsl">> \o (<<Backslash>> \o (<<name>> \o b))) = <<"wsl">> \o (<<Slash>> \o (<<name>> \o h))
    BY <1>3, <1>6, <2>2, SlashedCons DEF W
  <2> QED BY <2>3 DEF tail
<1> DEFINE nh == <<name>> \o h
           s == <<"wsl">> \o (<<Slash>> \o nh)
<1>13. nh \in Seq(Tokens) /\ <<Slash>> \o nh \in Seq(Tokens)
  BY <1>1, <1>3, ConsFacts
<1>14. s[1] = "wsl"
  <2> HIDE DEF nh
  <2> QED BY <1>3, <1>13, ConsFacts
<1>15. Without(Slash, s) = s
  BY <1>3, <1>14 DEF Without
<1>16. Segments[s] = << <<"wsl">> >> \o (<< <<name>> >> \o Segments[r])
  <2>1. Segments[nh] = << <<name>> >> \o Segments[r]
    <3>1. <<name>> \in Seq(Tokens) /\ <<name>> \in Seq(Tokens \ {Slash}) /\ <<Slash>> \in Seq(Tokens)
      BY <1>3
    <3>2. Append(<<name>>, Slash) = <<name>> \o <<Slash>>
      BY <1>3, <3>1, AppendIsConcat
    <3>3. (<<name>> \o <<Slash>>) \o r = <<name>> \o (<<Slash>> \o r)
      BY <1>5, <3>1, ConcatAssociative
    <3>4. nh = Append(<<name>>, Slash) \o r
      BY <1>5, <3>2, <3>3
    <3> HIDE DEF nh
    <3>5. Segments[Append(<<name>>, Slash) \o r] = Segments[<<name>>] \o Segments[r]
      BY <1>5, <3>1, SegmentsJoin
    <3> QED BY <3>1, <3>4, <3>5, SegmentsOfWord
  <2> HIDE DEF nh
  <2>2. <<"wsl">> \in Seq(Tokens) /\ <<"wsl">> \in Seq(Tokens \ {Slash}) /\ <<Slash>> \in Seq(Tokens)
    BY <1>3
  <2>3. Append(<<"wsl">>, Slash) = <<"wsl">> \o <<Slash>>
    BY <1>3, <2>2, AppendIsConcat
  <2>4. (<<"wsl">> \o <<Slash>>) \o nh = <<"wsl">> \o (<<Slash>> \o nh)
    BY <1>13, <2>2, ConcatAssociative
  <2>5. Segments[Append(<<"wsl">>, Slash) \o nh] = Segments[<<"wsl">>] \o Segments[nh]
    BY <1>13, <2>2, SegmentsJoin
  <2> QED BY <2>1, <2>2, <2>3, <2>4, <2>5, SegmentsOfWord
<1> DEFINE segs == Segments[s]
           R == Segments[r]
<1>17. R \in Seq(W) /\ <<"wsl">> \in W /\ <<name>> \in W /\ Len(R) \in Nat
  <2>1. R \in Seq(Seq(Tokens))
    BY <1>5, SegmentsStep
  <2>2. <<"wsl">> \in W /\ <<name>> \in W
    BY <1>3 DEF W
  <2>3. Len(R) \in Nat
    BY <2>1, LenProperties
  <2> QED BY <2>1, <2>2, <2>3 DEF W
<1> HIDE DEF R, s
<1>18. /\ segs \in Seq(W) /\ Len(segs) = Len(R) + 2 /\ segs[1] = <<"wsl">> /\ segs[2] = <<name>>
       /\ SubSeq(segs, 3, Len(segs)) = R
  <2>1. segs = << <<"wsl">> >> \o (<< <<name>> >> \o R)
    BY <1>16 DEF R
  <2> HIDE DEF segs
  <2> QED BY <1>17, <2>1, TwoBefore
<1>19. segs[2] # <<>>
  <2> HIDE DEF segs
  <2> QED BY <1>18
<1>20. ConvertUNCToWSL(win) = Clean(<<Slash>> \o UnderRoot(R))
  <2>1. Segments[Without(Slash, Slashed(SubSeq(win, 3, Len(win))))] = segs
    BY <1>8, <1>12, <1>15 DEF s
  <2>2. Len(segs) >= 2
    BY <1>17, <1>18
  <2> HIDE DEF segs
  <2> QED BY <1>18, <1>19, <2>1, <2>2 DEF ConvertUNCToWSL
<1>21. UnderRoot(R) = h
  BY <1>5, UnderRootOfSegments DEF R
<1>22. Clean(<<Slash>> \o h) = Clean(h)
  <2>1. <<Slash>> \o h \in Seq(Clear) /\ IsAbs(<<Slash>> \o h)
    BY <1>1, ClearTokens, ConsFacts DEF IsAbs
  <2>2. Segments[<<Slash>> \o h] = << <<>> >> \o Segments[h]
    BY <1>1, SegmentsCons
  <2>3. Segments[h] \in Seq(Seq(Tokens)) /\ <<>> \in Seq(Seq(Tokens))
    BY <1>1, SegmentsStep, EmptySeq
  <2>4. Kept(TRUE, << <<>> >> \o Segments[h]) = Kept(TRUE, Segments[h])
    BY <2>3, KeptSkips
  <2> QED BY <1>1, <2>1, <2>2, <2>4, CleanAbsolute
<1> QED BY <1>1, <1>2, <1>11, <1>20, <1>21, <1>22

-----------------------------------------------------------------------------
(* Every conversion yields a path of tokens.                               *)

\* Clean yields a path.
LEMMA CleanType ==
    ASSUME NEW p \in Seq(Tokens)
    PROVE  Clean(p) \in Seq(Tokens)
<1> DEFINE kept == Kept(IsAbs(p), Segments[p])
<1>0. IsAbs(p) \in BOOLEAN
  BY DEF IsAbs
<1>1. kept \in Seq(Seq(Tokens))
  BY <1>0, SegmentsStep, KeptStep
<1>2. Clean(p) = CASE IsAbs(p) -> IF kept = <<>> THEN <<Slash>> ELSE UnderRoot(kept)
                   [] ~IsAbs(p) -> IF kept = <<>> THEN <<".">> ELSE Tail(UnderRoot(kept))
  BY DEF Clean
<1>3. <<Slash>> \in Seq(Tokens) /\ <<".">> \in Seq(Tokens)
  <2>1. Slash \in Tokens /\ "." \in Tokens
    BY DEF Tokens, Names, Separators, Slash
  <2> QED BY <2>1
<1> HIDE DEF kept
<1>4. UnderRoot(kept) \in Seq(Tokens)
  <2>1. <<>> \in Seq(Tokens)
    BY EmptySeq
  <2> QED BY <1>1, <2>1, SlashIsToken, UnderRootStep
<1>5. kept # <<>> => Tail(UnderRoot(kept)) \in Seq(Tokens)
  <2> SUFFICES ASSUME kept # <<>> PROVE Tail(UnderRoot(kept)) \in Seq(Tokens)
    OBVIOUS
  <2> DEFINE W == Seq(Tokens)
             f == Front(kept)
             l == Last(kept)
  <2>1. f \in Seq(W) /\ l \in W /\ kept = Append(f, l)
    <3> HIDE DEF W
    <3>1. kept \in Seq(W)
      BY <1>1 DEF W
    <3> QED BY <3>1, FrontLast
  <2> HIDE DEF f, l
  <2>2. f \in Seq(Seq(Tokens)) /\ l \in Seq(Tokens)
    BY <2>1
  <2>3. UnderRoot(f) \in Seq(Tokens) /\ UnderRoot(Append(f, l)) = UnderRoot(f) \o (<<Slash>> \o l)
    BY <2>2, SlashIsToken, UnderRootStep
  <2>4. <<Slash>> \o l \in Seq(Tokens) /\ Len(<<Slash>> \o l) = Len(l) + 1
    BY <2>2, SlashIsToken, ConsFacts
  <2> DEFINE u == UnderRoot(f)
             v == <<Slash>> \o l
  <2> HIDE DEF u, v
  <2>5. u \in Seq(Tokens) /\ v \in Seq(Tokens) /\ Len(v) # 0
    BY <2>2, <2>3, <2>4 DEF u, v
  <2>6. u \o v # <<>>
    BY <2>5, ConcatIndex
  <2> QED BY <1>4, <2>1, <2>3, <2>6, HeadTailProperties DEF u, v
<1> QED BY <1>2, <1>3, <1>4, <1>5

\* Normalize yields a path.
LEMMA NormalizeType ==
    ASSUME NEW p \in Seq(Tokens)
    PROVE  Normalize(p) \in Seq(Tokens)
<1>1. Slashed(p) \in Seq(Tokens)
  BY TurnedFacts, ClearTokens
<1>2. Clean(Slashed(p)) \in Seq(Tokens)
  BY <1>1, CleanType
<1>3. ASSUME IsWindowsPath(p), WindowsToWSL(p) # Refused, p # <<>> PROVE WindowsToWSL(p) \in Seq(Tokens)
  <2>1. CASE IsUNCPath(p)
    <3>1. ~IsAbs(p) /\ ~IsDriveLetterPath(p)
      BY <2>1 DEF IsUNCPath, IsAbs, IsDriveLetterPath, Drives, Slash, Backslash
    <3>2. WindowsToWSL(p) = ConvertUNCToWSL(p)
      BY <2>1, <3>1 DEF WindowsToWSL
    <3> QED BY <1>3, <2>1, <3>2, UncIsHost, HostPathFacts
  <2>2. CASE ~IsUNCPath(p)
    <3>1. IsDriveLetterPath(p) /\ ~IsAbs(p)
      BY <1>3, <2>2 DEF IsWindowsPath, IsDriveLetterPath, IsAbs, Drives, Slash
    <3>2. WindowsToWSL(p) = DriveToWSL(p)
      BY <1>3, <2>2, <3>1 DEF WindowsToWSL
    <3> QED BY <1>3, <3>2, DriveClean, HostPathFacts
  <2> QED BY <2>1, <2>2
<1>4. CASE p = <<>>
  <2>1. ~IsWindowsPath(p)
    BY <1>4 DEF IsWindowsPath, IsDriveLetterPath, IsUNCPath
  <2>2. Normalize(p) = p
    BY <1>4, <2>1 DEF Normalize
  <2> QED BY <2>2
<1>5. CASE p # <<>> /\ IsWindowsPath(p) /\ WindowsToWSL(p) # Refused
  <2>1. Normalize(p) = WindowsToWSL(p)
    BY <1>5 DEF Normalize
  <2> QED BY <1>3, <1>5, <2>1
<1>6. CASE p # <<>> /\ ~(IsWindowsPath(p) /\ WindowsToWSL(p) # Refused)
  <2>1. Normalize(p) = Clean(Slashed(p))
    BY <1>6 DEF Normalize
  <2> QED BY <1>2, <2>1
<1> QED BY <1>4, <1>5, <1>6
=============================================================================
