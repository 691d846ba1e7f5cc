-------------------------- MODULE ToolResultsProofs -------------------------
(***************************************************************************)
(* What TLAPS proves of ToolResults, for any names and lines, any caps,    *)
(* paths of any length, and trees and replies of any size.                 *)
(*                                                                         *)
(* The facts about data are in PathNormProofs and OutlineProofs. What is   *)
(* left to show is that the tree and the reply a call works on are still   *)
(* what tsgo sent (TreeHeld, ReplyHeld), and that each way a call can end  *)
(* makes a result and an event of them.                                    *)
(***************************************************************************)
EXTENDS PathNormProofs, OutlineProofs

-----------------------------------------------------------------------------
(* What a call holds.                                                      *)

\* The path being spelled is one of tokens.
PathOfTokens == path \in Seq(Tokens)

\* Callers spell paths of tokens.
LEMMA PathInvariant == Spec => []PathOfTokens
<1>1. Init => PathOfTokens
  BY PathsAreTokens DEF Init, PathOfTokens
<1>2. PathOfTokens /\ [Next]_vars => PathOfTokens'
  <2> SUFFICES ASSUME PathOfTokens, [Next]_vars PROVE PathOfTokens'
    OBVIOUS
  <2>1. ASSUME NEW t \in Tokens, Spell(t) PROVE PathOfTokens'
    BY <2>1, AppendProperties DEF PathOfTokens, Spell
  <2>2. CASE Begin
    BY <2>2, EmptySeq DEF PathOfTokens, Begin
  <2>3. CASE UNCHANGED path
    BY <2>3 DEF PathOfTokens
  <2>4. [Next]_vars => (\E t \in Tokens : Spell(t)) \/ Begin \/ UNCHANGED path
    BY DEF Next, vars, input, ProviderFails, SymbolsCome, GetOutline, Resolve, LocationsCome,
           Locate, Returned
  <2> QED BY <2>1, <2>2, <2>3, <2>4
<1> QED BY <1>1, <1>2, PTL DEF Spec

\* The tree, once there is one, is one that tsgo sent.
TreeHeld ==
    /\ maxResults \in Caps
    /\ pc \in {"new", "open", "ask", "locations"} => symbols = None
    /\ pc = "symbols" => symbols \in Trees
    /\ symbols # None => symbols \in Trees

\* A call works on the tree it was sent.
LEMMA TreeInvariant == Spec => []TreeHeld
<1>1. Init => TreeHeld
  BY DEF Init, TreeHeld
<1>2. TreeHeld /\ [Next]_vars => TreeHeld'
  <2> SUFFICES ASSUME TreeHeld, [Next]_vars PROVE TreeHeld'
    OBVIOUS
  <2> USE DEF TreeHeld, input, answer
  <2>1. ASSUME NEW t \in Tokens, Spell(t) PROVE TreeHeld'
    BY <2>1 DEF Spell
  <2>2. CASE Begin
    BY <2>2 DEF Begin
  <2>3. CASE ProviderFails
    BY <2>3 DEF ProviderFails, Returns
  <2>4. ASSUME NEW tree \in Trees, SymbolsCome(tree) PROVE TreeHeld'
    BY <2>4 DEF SymbolsCome
  <2>5. CASE GetOutline
    BY <2>5 DEF GetOutline, ReturnsNothing, ReturnsCapped, Returns
  <2>6. ASSUME NEW line \in Lines \cup {None}, Resolve(line) PROVE TreeHeld'
    BY <2>6 DEF Resolve, ReturnsNothing, Returns
  <2>7. ASSUME NEW r \in Replies, LocationsCome(r) PROVE TreeHeld'
    BY <2>7 DEF LocationsCome
  <2>8. CASE Locate
    BY <2>8 DEF Locate, ReturnsNothing, ReturnsCapped, Returns
  <2>9. CASE UNCHANGED vars
    BY <2>9 DEF vars
  <2> QED BY <2>1, <2>2, <2>3, <2>4, <2>5, <2>6, <2>7, <2>8, <2>9 DEF Next, Returned
<1> QED BY <1>1, <1>2, PTL DEF Spec

\* The reply, once there is one, is one that tsgo sent.
ReplyHeld ==
    /\ maxResults \in Caps
    /\ pc \in {"new", "open", "symbols", "ask"} => reply = None
    /\ pc = "locations" => reply \in Replies
    /\ reply # None => reply \in Replies

\* A call works on the reply it was sent.
LEMMA ReplyInvariant == Spec => []ReplyHeld
<1>1. Init => ReplyHeld
  BY DEF Init, ReplyHeld
<1>2. ReplyHeld /\ [Next]_vars => ReplyHeld'
  <2> SUFFICES ASSUME ReplyHeld, [Next]_vars PROVE ReplyHeld'
    OBVIOUS
  <2> USE DEF ReplyHeld, input, answer
  <2>1. ASSUME NEW t \in Tokens, Spell(t) PROVE ReplyHeld'
    BY <2>1 DEF Spell
  <2>2. CASE Begin
    BY <2>2 DEF Begin
  <2>3. CASE ProviderFails
    BY <2>3 DEF ProviderFails, Returns
  <2>4. ASSUME NEW tree \in Trees, SymbolsCome(tree) PROVE ReplyHeld'
    BY <2>4 DEF SymbolsCome
  <2>5. CASE GetOutline
    BY <2>5 DEF GetOutline, ReturnsNothing, ReturnsCapped, Returns
  <2>6. ASSUME NEW line \in Lines \cup {None}, Resolve(line) PROVE ReplyHeld'
    BY <2>6 DEF Resolve, ReturnsNothing, Returns
  <2>7. ASSUME NEW r \in Replies, LocationsCome(r) PROVE ReplyHeld'
    BY <2>7 DEF LocationsCome
  <2>8. CASE Locate
    BY <2>8 DEF Locate, ReturnsNothing, ReturnsCapped, Returns
  <2>9. CASE UNCHANGED vars
    BY <2>9 DEF vars
  <2> QED BY <2>1, <2>2, <2>3, <2>4, <2>5, <2>6, <2>7, <2>8, <2>9 DEF Next, Returned
<1> QED BY <1>1, <1>2, PTL DEF Spec

\* Cap is the configured maximum if it is positive, and the default otherwise
\* (Config.Cap).
LEMMA CapFacts ==
    ASSUME ReplyHeld
    PROVE  /\ Cap(maxResults) \in Nat
           /\ Cap(maxResults) = IF maxResults > 0 THEN maxResults ELSE DefaultMaxResults
<1>1. maxResults \in Int /\ DefaultMaxResults \in Nat
  BY CapsAreIntegers, BoundsAreNatural DEF ReplyHeld
<1> QED BY <1>1 DEF Cap

\* Cap is a natural number whatever is configured.
LEMMA CapIsNatural ==
    ASSUME maxResults \in Caps
    PROVE  Cap(maxResults) \in Nat
<1>1. maxResults \in Int /\ DefaultMaxResults \in Nat
  BY CapsAreIntegers, BoundsAreNatural
<1> QED BY <1>1 DEF Cap

-----------------------------------------------------------------------------
(* The conversions of paths.                                               *)

\* What Normalize made of a rooted path, it never changes again: handlers pass
\* on the one spelling under which ensureOpen remembers the file.
THEOREM NormalizeAlwaysStable == Spec => []NormalizeStable
<1>1. PathOfTokens => NormalizeStable
  BY NormalForm, HostPathFacts DEF PathOfTokens, NormalizeStable, Rooted
<1> QED BY <1>1, PathInvariant, PTL

\* Every spelling of a drive path is normalised to the same host path
\* (pathnorm.Normalize).
THEOREM SpellingsAlwaysAgree == Spec => []SpellingsAgree
<1>1. PathOfTokens => SpellingsAgree
  <2> SUFFICES ASSUME PathOfTokens, IsDriveLetterPath(path), Rooted(path)
               PROVE  /\ Normalize(Slashed(path)) = Normalize(path)
                      /\ Normalize(Backslashed(path)) = Normalize(path)
                      /\ \A drive \in Drives : Normalize(<<drive>> \o Tail(path)) = Normalize(path)
    BY DEF SpellingsAgree
  <2>1. Len(path) > 1
    BY DEF Rooted, IsDriveLetterPath, IsAbs, IsUNCPath, Drives, Slash, Backslash
  <2> QED BY <2>1, SpellingsOfDrives DEF PathOfTokens
<1> QED BY <1>1, PathInvariant, PTL

\* A host path that WSLToWindows converts is the one WindowsToWSL leads back to,
\* but for the case of a mounted drive.
THEOREM AlwaysRoundTrips == Spec => []RoundTrips
<1>1. PathOfTokens => RoundTrips
  <2> DEFINE h == Normalize(path)
  <2> SUFFICES ASSUME PathOfTokens, IsAbs(h),
                      NEW distro \in {<<>>} \cup {<<name>> : name \in OtherNames},
                      WSLToWindows(h, distro) # Refused
               PROVE  WindowsToWSL(WSLToWindows(h, distro)) = LowerDrive(h)
    BY DEF RoundTrips
  <2>1. h \in HostPaths
    BY NormalForm DEF PathOfTokens
  <2> HIDE DEF h
  <2>2. CASE SplitMountDrive(h)
    BY <2>1, <2>2, MountRoundTrip DEF LowerDrive
  <2>3. CASE ~SplitMountDrive(h)
    <3>1. distro # <<>>
      BY <2>1, <2>3, HostPathFacts DEF WSLToWindows
    <3>2. PICK name \in OtherNames : distro = <<name>>
      BY <3>1
    <3> QED BY <2>1, <2>3, <3>2, DistroRoundTrip DEF LowerDrive
  <2> QED BY <2>2, <2>3
<1> QED BY <1>1, PathInvariant, PTL

\* A URI leads back to the path it was made from, and one made by a Windows tool
\* to where its path does (PathToURI, URIToPath).
THEOREM UrisAlwaysAgree == Spec => []UrisAgree
<1>1. PathOfTokens => UrisAgree
  BY NormalForm, UriOfPath, UriOfDrive DEF PathOfTokens, UrisAgree
<1> QED BY <1>1, PathInvariant, PTL

-----------------------------------------------------------------------------
(* The result and the event.                                               *)

\* A lookup asks about the first symbol of the name in document order,
\* preferring the line it is given (resolveSymbolPosition).
THEOREM AlwaysResolvesFirst == Spec => ResolvesFirst
<1>1. TreeHeld /\ [Next]_vars =>
      [\A line \in Lines \cup {None} : Resolve(line) =>
          LET named == {n \in DOMAIN symbols.parent : symbols.named[n]}
              there == {n \in named : symbols.line[n] = line}
              best == IF there = {} THEN named ELSE there
          IN  IF best = {} THEN pos' = None
              ELSE pos' \in best /\ \A n \in best \ {pos'} : Before(symbols, pos', n)]_vars
  <2> SUFFICES ASSUME TreeHeld, NEW line \in Lines \cup {None}, Resolve(line)
               PROVE  LET named == {n \in DOMAIN symbols.parent : symbols.named[n]}
                          there == {n \in named : symbols.line[n] = line}
                          best == IF there = {} THEN named ELSE there
                      IN  IF best = {} THEN pos' = None
                          ELSE pos' \in best /\ \A n \in best \ {pos'} : Before(symbols, pos', n)
    OBVIOUS
  <2>1. symbols \in Trees /\ pos' = ResolveSymbolPosition(symbols, line)
    BY DEF TreeHeld, Resolve
  <2> QED BY <2>1, FirstOfOutline
<1> QED BY <1>1, TreeInvariant, PTL DEF Spec, ResolvesFirst

\* The tree can be rebuilt from every outline that is returned, cut off or not
\* (flattenSymbols and the cap in GetOutline).
THEOREM OutlineAlwaysReadable == Spec => []OutlineReadable
<1>1. Init => OutlineReadable
  BY DEF Init, OutlineReadable
<1>2. TreeHeld /\ OutlineReadable /\ [Next]_vars => OutlineReadable'
  <2> SUFFICES ASSUME TreeHeld, OutlineReadable, [Next]_vars,
                      pc' = "done", symbols' # None, NEW i \in DOMAIN out'.list
               PROVE  LET up == {j \in 1..i - 1 : out'.list[j].depth = out'.list[i].depth - 1}
                          parent == symbols'.parent[out'.list[i].symbol]
                      IN  IF parent = 0 THEN out'.list[i].depth = 0
                          ELSE up # {} /\ out'.list[Max(up)].symbol = parent
    BY DEF OutlineReadable
  <2>1. DOMAIN <<>> = {}
    OBVIOUS
  <2>2. CASE GetOutline
    <3> DEFINE flat == FlattenSymbols(symbols)
               cap == Cap(maxResults)
               capped == IF Len(flat) > cap THEN SubSeq(flat, 1, cap) ELSE flat
    <3>1. symbols \in Trees /\ symbols' = symbols
      BY <2>2 DEF TreeHeld, GetOutline, answer
    <3>2. PICK N \in 0..MaxSymbols : /\ Shape(symbols, N) /\ IsOutline(flat, symbols, N)
                                     /\ flat \in Seq(Entries(N))
      BY <3>1, OutlineOfTree
    <3>3. N \in Nat
      OBVIOUS
    <3>4. cap \in Nat
      BY CapIsNatural DEF TreeHeld
    <3>5. flat # <<>> /\ ReturnsCapped(flat)
      <4> HIDE DEF flat
      <4>1. IF flat = <<>> THEN ReturnsNothing ELSE ReturnsCapped(flat)
        BY <2>2 DEF GetOutline, flat
      <4>2. ReturnsNothing => out'.list = <<>>
        BY DEF ReturnsNothing, Returns
      <4>3. out'.list # <<>>
        BY <2>1
      <4> QED BY <4>1, <4>2, <4>3
    <3>6. out'.list = capped
      BY <3>5 DEF ReturnsCapped, Returns
    <3> HIDE DEF flat, cap
    <3>7. capped \in Seq(Entries(N)) /\ \A j \in 1..Len(capped) : j \in 1..Len(flat) /\ capped[j] = flat[j]
      BY <3>2, <3>4, CappedFacts
    <3> HIDE DEF capped
    <3>8. i \in 1..Len(capped)
      BY <3>6, <3>7
    <3>9. flat \in Forest(symbols, N, 0, 0)
      BY <3>2 DEF IsOutline
    <3>10. Readable(symbols, capped, i)
      BY <3>2, <3>3, <3>7, <3>8, <3>9, PrefixReadable
    <3> QED BY <3>1, <3>6, <3>10 DEF Readable
  <2>3. CASE ProviderFails
    BY <2>1, <2>3 DEF ProviderFails, Returns
  <2>4. CASE \E line \in Lines \cup {None} : Resolve(line)
    BY <2>4 DEF Resolve
  <2>5. CASE Locate
    BY <2>5 DEF Locate, TreeHeld, answer
  <2>6. CASE UNCHANGED vars
    BY <2>6 DEF vars, answer, OutlineReadable
  <2>7. CASE \/ \E t \in Tokens : Spell(t)
             \/ Begin
             \/ \E tree \in Trees : SymbolsCome(tree)
             \/ \E r \in Replies : LocationsCome(r)
    BY <2>7 DEF Spell, Begin, SymbolsCome, LocationsCome
  <2> QED BY <2>2, <2>3, <2>4, <2>5, <2>6, <2>7 DEF Next, Returned
<1> QED BY <1>1, <1>2, TreeInvariant, PTL DEF Spec

\* A lookup returns every place tsgo named, in order, up to the cap, and says
\* whether it cut any (decodeLocations, FindDefinition, FindReferences).
THEOREM NothingEverWithheld == Spec => []NothingWithheld
<1>1. Init => NothingWithheld
  BY DEF Init, NothingWithheld
<1>2. ReplyHeld /\ NothingWithheld /\ [Next]_vars => NothingWithheld'
  <2> SUFFICES ASSUME ReplyHeld, NothingWithheld, [Next]_vars,
                      pc' = "done", reply' # None, ~out'.err
               PROVE  LET named == {i \in DOMAIN reply'.items : ToLocation(reply'.items[i], i) # None}
                          most == IF maxResults' > 0 THEN maxResults' ELSE DefaultMaxResults
                      IN  /\ Len(out'.list) = Min({Cardinality(named), most})
                          /\ out'.found <=> named # {}
                          /\ out'.truncated <=> Cardinality(named) > most
                          /\ \A j \in DOMAIN out'.list :
                                out'.list[j].item \in named
                                /\ Cardinality({i \in named : i < out'.list[j].item}) = j - 1
    BY DEF NothingWithheld
  <2>1. CASE Locate
    <3> DEFINE items == reply.items
               named == {i \in DOMAIN items : ToLocation(items[i], i) # None}
               list == Decoded(items)
               n == Cardinality(named)
               most == IF maxResults > 0 THEN maxResults ELSE DefaultMaxResults
    <3>1. reply' = reply /\ maxResults' = maxResults
      BY <2>1 DEF Locate, input, answer
    <3>2. items \in Seq(Items)
      BY <3>1, ItemsOfReply DEF ReplyHeld
    <3>3. most = Cap(maxResults) /\ most \in Nat
      BY CapFacts
    <3> DEFINE V == {ToLocation(items[i], i) : i \in named}
    <3> HIDE DEF items
    <3>4. /\ list \in Seq(V) /\ Len(list) = n
          /\ list = <<>> <=> named = {}
          /\ \A j \in 1..Len(list) :
                     /\ list[j].item \in named
                     /\ Cardinality({i \in named : i < list[j].item}) = j - 1
      BY <3>2, DecodedFacts
    <3> HIDE DEF list, named, V, most
    <3>5. Len(list) \in Nat /\ (list = <<>> <=> Len(list) = 0)
      BY <3>4, EmptySeq
    <3>6. ~DecodeFails(reply)
      <4> SUFFICES ASSUME DecodeFails(reply) PROVE FALSE
        OBVIOUS
      <4>1. Returns(FALSE, <<>>, FALSE, TRUE)
        BY <2>1 DEF Locate
      <4> QED BY <4>1 DEF Returns
    <3>7. CASE list = <<>>
      <4>1. ReturnsNothing
        BY <2>1, <3>6, <3>7 DEF Locate, DecodeLocations, list, items
      <4>2. out'.list = <<>> /\ out'.found = FALSE /\ out'.truncated = FALSE
        BY <4>1 DEF ReturnsNothing, Returns
      <4>3. n = 0 /\ ~(n > most) /\ Min({n, most}) = 0
        BY <3>3, <3>4, <3>5, <3>7, LeastOfTwo
      <4>4. Len(<<>>) = 0 /\ DOMAIN <<>> = {}
        OBVIOUS
      <4> QED BY <3>1, <3>4, <3>7, <4>2, <4>3, <4>4 DEF named, most, items
    <3>8. CASE list # <<>>
      <4> DEFINE capped == IF Len(list) > most THEN SubSeq(list, 1, most) ELSE list
      <4>1. ReturnsCapped(list)
        BY <2>1, <3>6, <3>8 DEF Locate, DecodeLocations, list, items
      <4>2. out'.list = capped /\ out'.found = TRUE /\ out'.truncated = (Len(list) > most)
        BY <4>1, <3>3 DEF ReturnsCapped, Returns
      <4>3. /\ capped \in Seq(V)
            /\ Len(capped) = IF Len(list) > most THEN most ELSE Len(list)
            /\ \A j \in 1..Len(capped) : j \in 1..Len(list) /\ capped[j] = list[j]
        BY <3>3, <3>4, CappedFacts
      <4> HIDE DEF capped
      <4>4. DOMAIN capped = 1..Len(capped)
        BY <4>3
      <4>5. Len(capped) = Min({n, most})
        <5>1. Min({n, most}) = IF n <= most THEN n ELSE most
          BY <3>3, <3>4, <3>5, LeastOfTwo
        <5> QED BY <3>3, <3>4, <3>5, <4>3, <5>1
      <4>6. \A j \in DOMAIN capped : capped[j].item \in named
                                     /\ Cardinality({i \in named : i < capped[j].item}) = j - 1
        BY <3>4, <4>3, <4>4
      <4>7. out'.found <=> named # {}
        BY <3>4, <3>8, <4>2
      <4>8. out'.truncated <=> n > most
        BY <3>4, <4>2
      <4> QED BY <3>1, <4>2, <4>5, <4>6, <4>7, <4>8 DEF named, most, items
    <3> QED BY <3>7, <3>8
  <2>2. CASE ProviderFails
    BY <2>2 DEF ProviderFails, Returns
  <2>3. CASE GetOutline \/ \E line \in Lines \cup {None} : Resolve(line)
    BY <2>3 DEF GetOutline, Resolve, ReplyHeld, answer
  <2>4. CASE UNCHANGED vars
    BY <2>4 DEF vars, input, answer, NothingWithheld
  <2>5. CASE \/ \E t \in Tokens : Spell(t)
             \/ Begin
             \/ \E tree \in Trees : SymbolsCome(tree)
             \/ \E r \in Replies : LocationsCome(r)
    BY <2>5 DEF Spell, Begin, SymbolsCome, LocationsCome
  <2> QED BY <2>1, <2>2, <2>3, <2>4, <2>5 DEF Next, Returned
<1> QED BY <1>1, <1>2, ReplyInvariant, PTL DEF Spec

\* On every path a call can end it logs one event, which tells of the result its
\* caller got (emit).
THEOREM EventAlwaysTells == Spec => []EventTellsResult
<1>1. Init => EventTellsResult
  BY DEF Init, EventTellsResult
<1>2. TreeHeld /\ ReplyHeld /\ EventTellsResult /\ [Next]_vars => EventTellsResult'
  <2> SUFFICES ASSUME TreeHeld, ReplyHeld, EventTellsResult, [Next]_vars PROVE EventTellsResult'
    OBVIOUS
  <2>0. ASSUME NEW e PROVE Append(<<>>, e) = <<e>>
    OBVIOUS
  <2>1. ASSUME pc # "done", NEW found, NEW list, NEW truncated, NEW err, NEW size,
               Returns(found, list, truncated, err), Emit(size, truncated, err), size = Len(list)
        PROVE  EventTellsResult'
    <3> DEFINE e == [size |-> size, truncated |-> truncated, err |-> err]
    <3>1. events = <<>>
      BY <2>1 DEF EventTellsResult
    <3>2. events' = <<e>>
      BY <2>0, <2>1, <3>1 DEF Emit
    <3>3. pc' = "done" /\ out'.list = list /\ out'.truncated = truncated /\ out'.err = err
      BY <2>1 DEF Returns
    <3> QED BY <2>1, <3>2, <3>3 DEF EventTellsResult
  <2>2. Len(<<>>) = 0
    OBVIOUS
  <2>3. ReturnsNothing /\ pc # "done" => EventTellsResult'
    BY <2>1, <2>2 DEF ReturnsNothing
  <2>4. ASSUME NEW V, NEW list \in Seq(V), ReturnsCapped(list), pc # "done" PROVE EventTellsResult'
    <3> DEFINE cap == Cap(maxResults)
               capped == IF Len(list) > cap THEN SubSeq(list, 1, cap) ELSE list
    <3>1. cap \in Nat
      BY CapIsNatural DEF TreeHeld
    <3>2. (Len(list) > Len(capped)) = (Len(list) > cap)
      <4> HIDE DEF cap
      <4>1. Len(list) > Len(capped) <=> Len(list) > cap
        BY <2>4, <3>1, CappedFacts
      <4> HIDE DEF capped
      <4>2. (Len(list) > Len(capped)) \in BOOLEAN /\ (Len(list) > cap) \in BOOLEAN
        OBVIOUS
      <4> QED BY <4>1, <4>2
    <3>3. /\ Returns(TRUE, capped, Len(list) > cap, FALSE)
          /\ Emit(Len(capped), Len(list) > Len(capped), FALSE)
      BY <2>4 DEF ReturnsCapped, EmitCapped
    <3> HIDE DEF capped, cap
    <3> QED BY <2>1, <2>4, <3>2, <3>3
  <2>5. CASE GetOutline
    <3>1. symbols \in Trees /\ pc # "done"
      BY <2>5 DEF TreeHeld, GetOutline
    <3>2. PICK N \in 0..MaxSymbols : FlattenSymbols(symbols) \in Seq(Entries(N))
      BY <3>1, OutlineOfTree
    <3> QED BY <2>3, <2>4, <2>5, <3>1, <3>2 DEF GetOutline
  <2>6. CASE ProviderFails
    BY <2>1, <2>2, <2>6 DEF ProviderFails
  <2>7. CASE \E line \in Lines \cup {None} : Resolve(line)
    BY <2>3, <2>7 DEF Resolve, EventTellsResult
  <2>8. CASE Locate
    <3>1. pc # "done"
      BY <2>8 DEF Locate
    <3>2. DecodeFails(reply) => EventTellsResult'
      BY <2>1, <2>2, <2>8, <3>1 DEF Locate
    <3>3. ~DecodeFails(reply) /\ DecodeLocations(reply) = <<>> => EventTellsResult'
      BY <2>3, <2>8, <3>1 DEF Locate
    <3>4. ~DecodeFails(reply) /\ DecodeLocations(reply) # <<>> => ReturnsCapped(DecodeLocations(reply))
      BY <2>8 DEF Locate
    <3>5. reply.items \in Seq(Items)
      BY <2>8, ItemsOfReply DEF Locate, ReplyHeld
    <3>6. \E V : DecodeLocations(reply) \in Seq(V)
      BY <3>5, DecodedFacts DEF DecodeLocations
    <3> QED BY <2>4, <3>1, <3>2, <3>3, <3>4, <3>6
  <2>9. CASE \/ \E t \in Tokens : Spell(t)
             \/ Begin
             \/ \E tree \in Trees : SymbolsCome(tree)
             \/ \E r \in Replies : LocationsCome(r)
    BY <2>9 DEF Spell, Begin, SymbolsCome, LocationsCome, EventTellsResult
  <2>10. CASE UNCHANGED vars
    BY <2>10 DEF vars, EventTellsResult
  <2> QED BY <2>5, <2>6, <2>7, <2>8, <2>9, <2>10 DEF Next, Returned
<1> QED BY <1>1, <1>2, TreeInvariant, ReplyInvariant, PTL DEF Spec

-----------------------------------------------------------------------------
(* Types.                                                                  *)

\* Abs yields a path.
LEMMA AbsType ==
    ASSUME NEW p \in Seq(Tokens)
    PROVE  Abs(p) \in Seq(Tokens)
<1>1. Cwd \in Seq(Tokens) /\ <<Slash>> \in Seq(Tokens)
  BY PathsAreTokens, SlashIsToken
<1>2. Cwd \o <<Slash>> \in Seq(Tokens)
  BY <1>1, ConcatProperties
<1>3. Cwd \o <<Slash>> \o p \in Seq(Tokens)
  BY <1>2, ConcatProperties
<1> QED BY <1>3, CleanType DEF Abs

\* The sizes an event can tell of.
Sizes == 0..(MaxSymbols + MaxItems)

\* An outline is no longer than the largest tree.
LEMMA SizeOfOutline ==
    ASSUME NEW tree \in Trees
    PROVE  Len(FlattenSymbols(tree)) \in Sizes
<1>1. PICK N \in 0..MaxSymbols : Len(FlattenSymbols(tree)) \in 0..N
  BY OutlineOfTree
<1>2. MaxSymbols \in Nat /\ MaxItems \in Nat
  BY BoundsAreNatural
<1> QED BY <1>1, <1>2 DEF Sizes

\* A list of places is no longer than the longest reply.
LEMMA SizeOfDecoded ==
    ASSUME NEW r \in Replies
    PROVE  Len(Decoded(r.items)) \in Sizes
<1>1. r.items \in Seq(Items) /\ Len(r.items) \in 0..MaxItems
  BY ItemsOfReply, ItemsBounded
<1>2. Len(Decoded(r.items)) \in 0..Len(r.items)
  BY <1>1, DecodedLength
<1>3. MaxSymbols \in Nat /\ MaxItems \in Nat
  BY BoundsAreNatural
<1> QED BY <1>1, <1>2, <1>3 DEF Sizes

\* A lookup asks about a symbol of the tree.
LEMMA PosOfLookup ==
    ASSUME NEW tree \in Trees, NEW line
    PROVE  ResolveSymbolPosition(tree, line) \in (1..MaxSymbols) \cup {None}
<1>1. PICK N \in 0..MaxSymbols : DOMAIN tree.parent = 1..N
  BY TreeFacts
<1>2. MaxSymbols \in Nat
  BY BoundsAreNatural
<1>3. 1..N \subseteq 1..MaxSymbols
  BY <1>2
<1>4. DOMAIN tree.parent \subseteq 1..MaxSymbols
  BY <1>1, <1>3
<1> QED BY <1>4, FirstOfOutline

\* Every variable of the call keeps its type: the path is one of tokens, and no
\* event tells of more than tsgo sent.
THEOREM TypeCorrect == Spec => []TypeOK
<1> DEFINE Event == [size : Sizes, truncated : BOOLEAN, err : BOOLEAN]
           IInv == TypeOK /\ TreeHeld /\ ReplyHeld
<1>0. None \notin Int
  BY NoneIsNoNumber
<1>1. Init => TypeOK
  <2> SUFFICES ASSUME Init PROVE TypeOK
    OBVIOUS
  <2>1. 0 \in 0..MaxTyped
    BY BoundsAreNatural
  <2>2. path \in Seq(Tokens) /\ file \in Seq(Tokens)
    BY PathsAreTokens, EmptySeq DEF Init
  <2>3. events \in Seq(Event)
    BY EmptySeq DEF Init
  <2> HIDE DEF Event
  <2> QED BY <2>1, <2>2, <2>3 DEF Init, TypeOK, Event, Sizes
<1>2. IInv /\ [Next]_vars => TypeOK'
  <2> SUFFICES ASSUME IInv, [Next]_vars PROVE TypeOK'
    OBVIOUS
  <2>0. /\ pc \in {"new", "open", "symbols", "ask", "locations", "done"}
        /\ maxResults \in Caps
        /\ typed \in 0..MaxTyped
        /\ path \in Seq(Tokens) /\ file \in Seq(Tokens)
        /\ symbols # None => Len(symbols.parent) <= MaxSymbols
        /\ pos \in 1..MaxSymbols \cup {None}
        /\ reply # None => Len(reply.items) <= MaxItems
        /\ out # None => out.found \in BOOLEAN /\ out.truncated \in BOOLEAN /\ out.err \in BOOLEAN
        /\ events \in Seq(Event)
    BY DEF TypeOK, Sizes
  <2>a. MaxSymbols \in Nat /\ MaxItems \in Nat /\ MaxTyped \in Nat /\ 0 \in Sizes
    BY BoundsAreNatural DEF Sizes
  <2> HIDE DEF Event
  <2> USE DEF input, answer
  <2>b. ASSUME NEW found \in BOOLEAN, NEW list, NEW truncated \in BOOLEAN, NEW err \in BOOLEAN,
               NEW size \in Sizes, NEW cut \in BOOLEAN,
               Returns(found, list, truncated, err), Emit(size, cut, err)
        PROVE  /\ pc' = "done" /\ events' \in Seq(Event)
               /\ out'.found \in BOOLEAN /\ out'.truncated \in BOOLEAN /\ out'.err \in BOOLEAN
    <3> DEFINE e == [size |-> size, truncated |-> cut, err |-> err]
    <3>1. e \in Event
      BY DEF Event
    <3> HIDE DEF e
    <3>2. Append(events, e) \in Seq(Event)
      BY <2>0, <3>1, AppendProperties
    <3>3. events' = Append(events, e)
      BY <2>b DEF Emit, e
    <3> QED BY <2>b, <3>2, <3>3 DEF Returns
  <2>c. ReturnsNothing => /\ pc' = "done" /\ events' \in Seq(Event)
                          /\ out'.found \in BOOLEAN /\ out'.truncated \in BOOLEAN /\ out'.err \in BOOLEAN
    BY <2>a, <2>b DEF ReturnsNothing
  <2>d. ASSUME NEW V, NEW list \in Seq(V), Len(list) \in Sizes, ReturnsCapped(list)
        PROVE  /\ pc' = "done" /\ events' \in Seq(Event)
               /\ out'.found \in BOOLEAN /\ out'.truncated \in BOOLEAN /\ out'.err \in BOOLEAN
    <3> DEFINE cap == Cap(maxResults)
               capped == IF Len(list) > cap THEN SubSeq(list, 1, cap) ELSE list
    <3>1. cap \in Nat
      BY CapIsNatural DEF TreeHeld
    <3>2. /\ Returns(TRUE, capped, Len(list) > cap, FALSE)
          /\ Emit(Len(capped), Len(list) > Len(capped), FALSE)
      BY <2>d DEF ReturnsCapped, EmitCapped
    <3> HIDE DEF cap
    <3>3. Len(capped) = IF Len(list) > cap THEN cap ELSE Len(list)
      BY <2>d, <3>1, CappedFacts
    <3> HIDE DEF capped
    <3>4. Len(capped) \in Sizes
      BY <2>a, <2>d, <3>1, <3>3 DEF Sizes
    <3>5. (Len(list) > cap) \in BOOLEAN /\ (Len(list) > Len(capped)) \in BOOLEAN
      OBVIOUS
    <3> DEFINE long == Len(list) > cap
               cut == Len(list) > Len(capped)
               size == Len(capped)
    <3> HIDE DEF long, cut, size
    <3> QED BY <2>b, <3>2, <3>4, <3>5 DEF long, cut, size
  <2>e. ASSUME pc' = "done", events' \in Seq(Event),
               out'.found \in BOOLEAN, out'.truncated \in BOOLEAN, out'.err \in BOOLEAN,
               UNCHANGED <<input, answer>>
        PROVE  TypeOK'
    BY <2>0, <2>e DEF TypeOK, Event, Sizes
  <2>1. ASSUME NEW t \in Tokens, Spell(t) PROVE TypeOK'
    <3>1. Append(path, t) \in Seq(Tokens)
      BY <2>0, AppendProperties
    <3>2. typed + 1 \in 0..MaxTyped
      BY <2>0, <2>1, <2>a DEF Spell
    <3> QED BY <2>0, <2>1, <3>1, <3>2 DEF Spell, TypeOK, Event, Sizes
  <2>2. CASE Begin
    <3>1. Abs(Normalize(path)) \in Seq(Tokens) /\ <<>> \in Seq(Tokens)
      BY <2>0, NormalizeType, AbsType, EmptySeq
    <3> QED BY <2>0, <2>2, <2>a, <3>1 DEF Begin, TypeOK, Event, Sizes
  <2>3. CASE ProviderFails
    <3>1. Returns(FALSE, <<>>, FALSE, TRUE) /\ Emit(0, FALSE, TRUE) /\ UNCHANGED <<input, answer>>
      BY <2>3 DEF ProviderFails
    <3> QED BY <2>a, <2>b, <2>e, <3>1
  <2>4. ASSUME NEW tree \in Trees, SymbolsCome(tree) PROVE TypeOK'
    <3>1. Len(tree.parent) <= MaxSymbols
      BY TreeFacts, <2>a
    <3> QED BY <2>0, <2>4, <3>1 DEF SymbolsCome, TypeOK, Event, Sizes
  <2>5. CASE GetOutline
    <3>1. symbols \in Trees /\ UNCHANGED <<input, answer>>
      BY <2>5 DEF TreeHeld, GetOutline
    <3>2. PICK N \in 0..MaxSymbols : FlattenSymbols(symbols) \in Seq(Entries(N))
      BY <3>1, OutlineOfTree
    <3>3. Len(FlattenSymbols(symbols)) \in Sizes
      BY <3>1, SizeOfOutline
    <3>4. ReturnsNothing \/ ReturnsCapped(FlattenSymbols(symbols))
      BY <2>5 DEF GetOutline
    <3> QED BY <2>c, <2>d, <2>e, <3>1, <3>2, <3>3, <3>4
  <2>6. ASSUME NEW line \in Lines \cup {None}, Resolve(line) PROVE TypeOK'
    <3>1. symbols \in Trees
      BY <2>6 DEF Resolve, TreeHeld
    <3>2. pos' \in 1..MaxSymbols \cup {None}
      BY <2>6, <3>1, PosOfLookup DEF Resolve
    <3>3. UNCHANGED <<input, reply>> /\ symbols' = None
      BY <2>6 DEF Resolve
    <3>4. CASE ReturnsNothing
      BY <2>0, <2>c, <3>2, <3>3, <3>4 DEF TypeOK, Event, Sizes
    <3>5. CASE pc' = "ask" /\ UNCHANGED <<out, events>>
      BY <2>0, <3>2, <3>3, <3>5 DEF TypeOK, Event, Sizes
    <3> QED BY <2>6, <3>4, <3>5 DEF Resolve
  <2>7. ASSUME NEW r \in Replies, LocationsCome(r) PROVE TypeOK'
    <3>1. Len(r.items) <= MaxItems
      BY ItemsBounded, <2>a
    <3> QED BY <2>0, <2>7, <3>1 DEF LocationsCome, TypeOK, Event, Sizes
  <2>8. CASE Locate
    <3>1. reply \in Replies /\ UNCHANGED <<input, answer>>
      BY <2>8 DEF Locate, ReplyHeld
    <3>2. reply.items \in Seq(Items)
      BY <3>1, ItemsOfReply
    <3>3. \E V : Decoded(reply.items) \in Seq(V)
      BY <3>2, DecodedFacts
    <3>4. Len(Decoded(reply.items)) \in Sizes
      BY <3>1, SizeOfDecoded
    <3>5. \/ Returns(FALSE, <<>>, FALSE, TRUE) /\ Emit(0, FALSE, TRUE)
          \/ ReturnsNothing
          \/ ReturnsCapped(Decoded(reply.items))
      BY <2>8 DEF Locate, DecodeLocations
    <3>6. CASE Returns(FALSE, <<>>, FALSE, TRUE) /\ Emit(0, FALSE, TRUE)
      BY <2>a, <2>b, <2>e, <3>1, <3>6
    <3>7. CASE ReturnsNothing
      BY <2>c, <2>e, <3>1, <3>7
    <3>8. CASE ReturnsCapped(Decoded(reply.items))
      BY <2>d, <2>e, <3>1, <3>3, <3>4, <3>8
    <3> QED BY <3>5, <3>6, <3>7, <3>8
  <2>9. CASE UNCHANGED vars
    BY <2>0, <2>9 DEF vars, TypeOK, Event, Sizes
  <2> QED BY <2>1, <2>2, <2>3, <2>4, <2>5, <2>6, <2>7, <2>8, <2>9 DEF Next, Returned
<1> QED BY <1>1, <1>2, TreeInvariant, ReplyInvariant, PTL DEF Spec
=============================================================================
