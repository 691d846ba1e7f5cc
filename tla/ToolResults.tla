---------------------------- MODULE ToolResults ----------------------------
(***************************************************************************)
(* What one tool call makes of its data: the path its caller names, the    *)
(* tree of symbols and the locations tsgo replies with, and the result and *)
(* the event it ends with.  Locks and connections are in ToolCalls.        *)
(*                                                                         *)
(* The outline, or the name and the line of a lookup, are part of the call *)
(* but chosen here when they are first used.                               *)
(***************************************************************************)
EXTENDS PathNorm, Integers, FiniteSetsExt

CONSTANTS
    None,
    Beginnings,      \* how a caller's path may begin
    Cwd, Target,     \* the daemon's directory; the file of the project
    Lines,           \* lines of the file
    Caps,            \* values of MaxResults
    DefaultMaxResults,
    MaxTyped,        \* bound: tokens of a path after its prefix
    MaxSymbols,      \* bound: symbols of the file
    MaxItems         \* bound: items of a reply

ASSUME BoundsAreNatural ==
    {DefaultMaxResults, MaxTyped, MaxSymbols} \subseteq Nat /\ MaxItems \in Nat \ {0}
ASSUME CapsAreIntegers == Caps \subseteq Int
ASSUME PathsAreTokens == Beginnings \cup {Cwd, Target} \subseteq Seq(Tokens)
ASSUME RootsAreClean == \A p \in {Cwd, Target} : IsAbs(p) /\ Clean(p) = p
ASSUME NoneIsNoNumber == None \notin Int

VARIABLES
    pc,
    maxResults,  \* Config.MaxResults, negative or zero if it sets no cap
    typed, path, \* the path the caller names, until it is converted, and the number
                 \* of tokens after its beginning
    file,        \* the path the provider is asked about
    symbols,     \* the tree that was decoded
    pos,         \* the symbol a lookup asks about
    reply,       \* the locations tsgo replied with
    out,         \* the result
    events       \* the events logged

input  == <<maxResults, typed, path, file>>
answer == <<symbols, pos, reply>>
vars == <<pc, input, answer, out, events>>

\* A tree of symbols: the parent of each, 0 at the top, siblings in order, whether
\* it bears the name that is looked up, and the line its name is on.
TreesOf(n) ==
    {[parent |-> up, named |-> named, line |-> line] :
        up \in {f \in [1..n -> 0..n] : \A i \in 1..n : f[i] < i},
        named \in [1..n -> BOOLEAN], line \in [1..n -> Lines]}
Trees == UNION {TreesOf(n) : n \in 0..MaxSymbols}

\* The items of a reply: Locations and LocationLinks, complete or not.  A URI is
\* empty, a file's, or of a scheme pathFromURI refuses.
Location(uri, range) ==
    [uri |-> uri, range |-> range, targetUri |-> "", selection |-> FALSE, target |-> FALSE]
LocationLink(uri, selection, target) ==
    [uri |-> "", range |-> FALSE, targetUri |-> uri, selection |-> selection, target |-> target]
Items == {Location("file", TRUE), Location("file", FALSE), Location("other", TRUE),
          LocationLink("file", TRUE, TRUE), LocationLink("file", FALSE, TRUE),
          LocationLink("other", TRUE, TRUE), LocationLink("", FALSE, FALSE)}

\* null, undecodable, one item, or a list of them.
Replies == [shape : {"null", "bad"}, items : {<<>>}]
           \cup [shape : {"single"}, items : {<<item>> : item \in Items}]
           \cup [shape : {"list"}, items : BoundedSeq(Items, MaxItems)]

TypeOK ==
    /\ pc \in {"new", "open", "symbols", "ask", "locations", "done"}
    /\ maxResults \in Caps
    /\ typed \in 0..MaxTyped
    /\ path \in Seq(Tokens) /\ file \in Seq(Tokens)
    /\ symbols # None => Len(symbols.parent) <= MaxSymbols
    /\ pos \in 1..MaxSymbols \cup {None}
    /\ reply # None => Len(reply.items) <= MaxItems
    /\ out # None => out.found \in BOOLEAN /\ out.truncated \in BOOLEAN /\ out.err \in BOOLEAN
    /\ events \in Seq([size : 0..MaxSymbols + MaxItems, truncated : BOOLEAN, err : BOOLEAN])

Init ==
    /\ pc = "new"
    /\ maxResults \in Caps
    /\ typed = 0 /\ path \in Beginnings /\ file = <<>>
    /\ symbols = None /\ pos = None /\ reply = None /\ out = None /\ events = <<>>

-----------------------------------------------------------------------------
(* The conversions.                                                        *)

\* filepath.Abs.
Abs(p) == Clean(IF IsAbs(p) THEN p ELSE Cwd \o <<Slash>> \o p)

\* The members of S up to n, in order.
InOrder(S, n) ==
    LET upto[i \in 0..n] ==
            IF i = 0 THEN <<>> ELSE IF i \in S THEN Append(upto[i - 1], i) ELSE upto[i - 1]
    IN  upto[n]

Children(tree, n) ==
    InOrder({c \in DOMAIN tree.parent : tree.parent[c] = n}, Len(tree.parent))

\* A mistake: all children come after all siblings.
FlattenByLevel(tree) ==
    LET depth[n \in {0} \cup DOMAIN tree.parent] ==
            IF n = 0 THEN 0 ELSE depth[tree.parent[n]] + 1
        sorted == SetToSortSeq(DOMAIN tree.parent,
                               LAMBDA a, b : depth[a] < depth[b] \/ (depth[a] = depth[b] /\ a < b))
    IN  [i \in DOMAIN sorted |-> [symbol |-> sorted[i], depth |-> depth[sorted[i]] - 1]]

\* Depth first, each symbol before its children.
FlattenSymbols(tree) ==
    LET nodes == {0} \cup DOMAIN tree.parent
        walk[at \in nodes \X Nat] ==
            LET below == Children(tree, at[1])
            IN  FlattenSeq([i \in DOMAIN below |->
                    <<[symbol |-> below[i], depth |-> at[2]]>> \o walk[<<below[i], at[2] + 1>>]])
    IN  walk[<<0, 0>>]

\* A mistake: the last match wins.
PreferLast(old, new) == new

\* What has been found first stays.
Prefer(old, new) == IF old = None THEN new ELSE old

\* The same walk.  line is None if the caller gives none.
ResolveSymbolPosition(tree, line) ==
    LET flat == FlattenSymbols(tree)
        seen[i \in 0..Len(flat)] ==
            IF i = 0 THEN [first |-> None, lineMatch |-> None]
            ELSE LET s == flat[i].symbol
                     old == seen[i - 1]
                 IN  IF ~tree.named[s] THEN old
                     ELSE [first |-> Prefer(old.first, s),
                           lineMatch |-> IF tree.line[s] = line THEN Prefer(old.lineMatch, s)
                                         ELSE old.lineMatch]
        all == seen[Len(flat)]
    IN  Prefer(all.lineMatch, all.first)

\* The place an item names, and which of its ranges it is taken from; None if it
\* names none.
ToLocation(item, i) ==
    LET linked == item.uri = "" /\ item.targetUri # ""
        uri == IF linked THEN item.targetUri ELSE item.uri
        at == CASE ~linked -> IF item.range THEN "range" ELSE "none"
                [] linked /\ item.selection -> "selection"
                [] linked /\ ~item.selection -> IF item.target THEN "target" ELSE "none"
    IN  CASE uri = "" \/ at = "none" -> None
          [] uri = "other" /\ at # "none" -> [item |-> i, at |-> "refused"]
          [] uri = "file" /\ at # "none" -> [item |-> i, at |-> at]

\* A mistake: an item that names no place ends the list.
DecodedUntil(items) ==
    LET ends == {i \in DOMAIN items : ToLocation(items[i], i) = None}
    IN  [i \in 1..(IF ends = {} THEN Len(items) ELSE Min(ends) - 1) |-> ToLocation(items[i], i)]

\* Every item that names a place, in order.
Decoded(items) ==
    LET named == InOrder({i \in DOMAIN items : ToLocation(items[i], i) # None}, Len(items))
    IN  [j \in DOMAIN named |-> ToLocation(items[named[j]], named[j])]

\* One item whose URI is refused fails them all.
DecodeFails(r) ==
    r.shape = "bad" \/ \E i \in DOMAIN r.items : [item |-> i, at |-> "refused"] = ToLocation(r.items[i], i)

DecodeLocations(r) == Decoded(r.items)

Cap(n) == IF n <= 0 THEN DefaultMaxResults ELSE n

-----------------------------------------------------------------------------
(* The call.                                                               *)

\* The caller (external) spells the path of a file.  Two names are never side by
\* side: they would be one name.
Spell(t) ==
    /\ pc = "new" /\ typed < MaxTyped
    /\ path # <<>> /\ t \in Names => Last(path) \in Separators
    /\ path' = Append(path, t)
    /\ typed' = typed + 1
    /\ UNCHANGED <<pc, maxResults, file, answer, out, events>>

\* normFile, and prepareOpen.
Begin ==
    /\ pc = "new"
    /\ pc' = "open"
    /\ file' = Abs(Normalize(path))
    /\ typed' = 0 /\ path' = <<>>
    /\ UNCHANGED <<maxResults, answer, out, events>>

Returns(found, list, truncated, err) ==
    /\ pc' = "done"
    /\ out' = [found |-> found, list |-> list, truncated |-> truncated, err |-> err]

Emit(size, truncated, err) ==
    events' = Append(events, [size |-> size, truncated |-> truncated, err |-> err])

\* Either provider call fails: the file is not there, or whatever ToolCalls has.
ProviderFails ==
    /\ pc \in {"open", "ask"}
    /\ Returns(FALSE, <<>>, FALSE, TRUE)
    /\ Emit(0, FALSE, TRUE)
    /\ UNCHANGED <<input, answer>>

\* An undecodable reply is an error too; null is a file without symbols.
SymbolsCome(tree) ==
    /\ pc = "open" /\ file = Target
    /\ pc' = "symbols"
    /\ symbols' = tree
    /\ UNCHANGED <<input, pos, reply, out, events>>

ReturnsNothing ==
    /\ Returns(FALSE, <<>>, FALSE, FALSE)
    /\ Emit(0, FALSE, FALSE)

\* A mistake: the event counts what the cap has cut off.
EmitUncapped(list, capped) == Emit(Len(list), capped # list, FALSE)

EmitCapped(list, capped) == Emit(Len(capped), Len(list) > Len(capped), FALSE)

ReturnsCapped(list) ==
    LET cap == Cap(maxResults)
        capped == IF Len(list) > cap THEN SubSeq(list, 1, cap) ELSE list
    IN  /\ Returns(TRUE, capped, Len(list) > cap, FALSE)
        /\ EmitCapped(list, capped)

GetOutline ==
    /\ pc = "symbols"
    /\ LET flat == FlattenSymbols(symbols)
       IN  IF flat = <<>> THEN ReturnsNothing ELSE ReturnsCapped(flat)
    /\ UNCHANGED <<input, answer>>

\* A mistake: a lookup that has not found the name asks about the zero position.
ResolveUnchecked(line) ==
    /\ pc = "symbols"
    /\ pos' = LET at == ResolveSymbolPosition(symbols, line) IN IF at = None THEN 0 ELSE at
    /\ symbols' = None
    /\ pc' = "ask"
    /\ UNCHANGED <<input, reply, out, events>>

\* FindDefinition and FindReferences, up to the second provider call.
Resolve(line) ==
    /\ pc = "symbols"
    /\ pos' = ResolveSymbolPosition(symbols, line)
    /\ symbols' = None
    /\ IF pos' = None THEN ReturnsNothing
                      ELSE pc' = "ask" /\ UNCHANGED <<out, events>>
    /\ UNCHANGED <<input, reply>>

LocationsCome(r) ==
    /\ pc = "ask"
    /\ pc' = "locations"
    /\ reply' = r
    /\ pos' = None
    /\ UNCHANGED <<input, symbols, out, events>>

Locate ==
    /\ pc = "locations"
    /\ CASE DecodeFails(reply) -> Returns(FALSE, <<>>, FALSE, TRUE) /\ Emit(0, FALSE, TRUE)
         [] ~DecodeFails(reply) /\ DecodeLocations(reply) = <<>> -> ReturnsNothing
         [] OTHER -> ReturnsCapped(DecodeLocations(reply))
    /\ UNCHANGED <<input, answer>>

Returned == pc = "done" /\ UNCHANGED vars

Next ==
    \/ \E t \in Tokens : Spell(t)
    \/ Begin \/ ProviderFails
    \/ \E tree \in Trees : SymbolsCome(tree)
    \/ GetOutline
    \/ \E line \in Lines \cup {None} : Resolve(line)
    \/ \E r \in Replies : LocationsCome(r)
    \/ Locate
    \/ Returned

Spec == Init /\ [][Next]_vars

-----------------------------------------------------------------------------
(* Properties of the conversions.                                          *)

\* A path that says where it starts: "C:" and "src" do not.
Rooted(p) == IsAbs(p) \/ IsUNCPath(p) \/ (IsDriveLetterPath(p) /\ Len(p) > 1)

\* A second Normalize changes nothing (pathnorm.Normalize): what handlers pass on
\* is the one spelling under which ensureOpen remembers the file.
NormalizeStable == Rooted(path) => Normalize(Normalize(path)) = Normalize(path)

\* Whatever the case of its drive and whichever separators follow it, a Windows
\* path names one file of the host.
SpellingsAgree ==
    IsDriveLetterPath(path) /\ Rooted(path) =>
        /\ Normalize(Slashed(path)) = Normalize(path)
        /\ Normalize(Backslashed(path)) = Normalize(path)
        /\ \A drive \in Drives : Normalize(<<drive>> \o Tail(path)) = Normalize(path)

\* The host path under /mnt, with its drive in lower case.
LowerDrive(p) == IF SplitMountDrive(p) THEN [p EXCEPT ![4] = "c"] ELSE p

\* What Windows is told of a host path leads back to it, inside the distribution
\* and under /mnt, drive case aside (WSLToWindows, WindowsToWSL).
RoundTrips ==
    IsAbs(Normalize(path)) => \A distro \in {<<>>} \cup {<<name>> : name \in OtherNames} :
        LET windows == WSLToWindows(Normalize(path), distro)
        IN  windows # Refused => WindowsToWSL(windows) = LowerDrive(Normalize(path))

\* A URI leads back to the path it was made from, unless the host has a directory
\* named like a drive at its root; and a URI made by a Windows tool leads to where
\* its path does (PathToURI, URIToPath).
UrisAgree ==
    /\ IsAbs(Normalize(path)) /\ ~DriveInURI(Normalize(path)) =>
          URIToPath(PathToURI(path)) = Normalize(path)
    /\ IsDriveLetterPath(path) =>
          URIToPath([authority |-> <<>>, path |-> <<Slash>> \o Slashed(path)])
              = Normalize(path)

-----------------------------------------------------------------------------
(* Properties of the call.                                                 *)

\* The way down to a symbol.
Chain(tree, n) ==
    LET chain[m \in {0} \cup DOMAIN tree.parent] ==
            IF m = 0 THEN <<>> ELSE Append(chain[tree.parent[m]], m)
    IN  chain[n]

\* Document order: parents before children, and each subtree in one piece.
Before(tree, a, b) ==
    LET s == Chain(tree, a)
        t == Chain(tree, b)
    IN  \/ IsStrictPrefix(s, t)
        \/ \E i \in DOMAIN s \cap DOMAIN t :
              s[i] < t[i] /\ SubSeq(s, 1, i - 1) = SubSeq(t, 1, i - 1)

\* A lookup asks about the first symbol of the name on the line it is given, and
\* without a line, or when none is there, about the first of the name in document
\* order (resolveSymbolPosition).
ResolvesFirst ==
    [][\A line \in Lines \cup {None} : Resolve(line) =>
          LET named == {n \in DOMAIN symbols.parent : symbols.named[n]}
              there == {n \in named : symbols.line[n] = line}
              best == IF there = {} THEN named ELSE there
          IN  IF best = {} THEN pos' = None
              ELSE pos' \in best /\ \A n \in best \ {pos'} : Before(symbols, pos', n)]_vars

\* The tree can be rebuilt from an outline, cut off or not: the parent of an entry
\* is the last one before it that is one level up (flattenSymbols).
OutlineReadable ==
    pc = "done" /\ symbols # None => \A i \in DOMAIN out.list :
        LET up == {j \in 1..i - 1 : out.list[j].depth = out.list[i].depth - 1}
            parent == symbols.parent[out.list[i].symbol]
        IN  IF parent = 0 THEN out.list[i].depth = 0
            ELSE up # {} /\ out.list[Max(up)].symbol = parent

\* A lookup that ends without an error has every place tsgo named in its reply, in
\* the order of the reply, or as many of the first as the cap leaves, and says
\* which; it found nothing only if tsgo named nothing.
NothingWithheld ==
    pc = "done" /\ reply # None /\ ~out.err =>
        LET named == {i \in DOMAIN reply.items : ToLocation(reply.items[i], i) # None}
            most == IF maxResults > 0 THEN maxResults ELSE DefaultMaxResults
        IN  /\ Len(out.list) = Min({Cardinality(named), most})
            /\ out.found <=> named # {}
            /\ out.truncated <=> Cardinality(named) > most
            /\ \A j \in DOMAIN out.list :
                  out.list[j].item \in named
                  /\ Cardinality({i \in named : i < out.list[j].item}) = j - 1

\* A call logs one event, on whichever path it ends, and the event tells of the
\* result the caller got (emit).
EventTellsResult ==
    IF pc = "done"
    THEN events = <<[size |-> Len(out.list), truncated |-> out.truncated, err |-> out.err]>>
    ELSE events = <<>>
=============================================================================
