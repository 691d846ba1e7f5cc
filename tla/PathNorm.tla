------------------------------ MODULE PathNorm ------------------------------
(***************************************************************************)
(* internal/pathnorm: Windows paths, paths of the WSL host, and file URIs. *)
(*                                                                         *)
(* A path is a sequence of tokens: separators and names, no two names side *)
(* by side.  A drive and its colon are one token; "wsl" is the server      *)
(* wsl$ or wsl.localhost, in any case; "c" and "C" are the names of one    *)
(* letter.  The code looks at no other names but "mnt", "." and "..".      *)
(***************************************************************************)
EXTENDS Naturals, Sequences, SequencesExt

CONSTANT OtherNames  \* names of files and directories

Slash == "/"
Backslash == "\\"
Separators == {Slash, Backslash}
Drives == {"C:", "c:"}
Letters == {"C", "c"}
Names == Drives \cup Letters \cup {"wsl", "mnt", ".", ".."} \cup OtherNames
Tokens == Separators \cup Names

ASSUME NamesAreNoSeparators == OtherNames \cap Separators = {}

\* What a conversion that fails returns.
Refused == <<"refused">>

IsDriveLetterPath(p) == p # <<>> /\ p[1] \in Drives

IsUNCPath(p) == Len(p) >= 2 /\ p[1] = Backslash /\ p[2] = Backslash

IsWindowsPath(p) == IsDriveLetterPath(p) \/ IsUNCPath(p)

IsAbs(p) == p # <<>> /\ p[1] = Slash

Without(t, p) == IF p # <<>> /\ p[1] = t THEN Tail(p) ELSE p

Slashed(p) == ReplaceAll(p, Backslash, Slash)

Backslashed(p) == ReplaceAll(p, Slash, Backslash)

\* strings.Split(p, "/"): what lies between the slashes, empty or not.
Segments[p \in Seq(Tokens)] ==
    IF p = <<>> THEN << <<>> >>
    ELSE LET segs == Segments[Front(p)] IN
         IF Last(p) = Slash THEN Append(segs, <<>>)
         ELSE Append(Front(segs), Append(Last(segs), Last(p)))

\* A slash before each of them.
UnderRoot(segs) == FlattenSeq([i \in DOMAIN segs |-> <<Slash>> \o segs[i]])

\* path.Clean, of the Go library: a name and the ".." after it cancel out, and
\* there is nothing above the root.
Enter(rooted, kept, s) ==
    CASE s \in {<<>>, <<".">>} -> kept
      [] s = <<"..">> /\ kept # <<>> /\ Last(kept) # <<"..">> -> Front(kept)
      [] s = <<"..">> /\ kept = <<>> /\ rooted -> kept
      [] OTHER -> Append(kept, s)

Kept(rooted, segs) ==
    LET kept[t \in Seq(Seq(Tokens))] ==
            IF t = <<>> THEN <<>> ELSE Enter(rooted, kept[Front(t)], Last(t))
    IN  kept[segs]

Clean(p) ==
    LET kept == Kept(IsAbs(p), Segments[p])
    IN  CASE IsAbs(p) -> IF kept = <<>> THEN <<Slash>> ELSE UnderRoot(kept)
          [] ~IsAbs(p) -> IF kept = <<>> THEN <<".">> ELSE Tail(UnderRoot(kept))

-----------------------------------------------------------------------------
(* Between Windows and the host.                                           *)

\* A mistake: the name of the distribution stays in the path.
UNCToWSLWithDistro(p) ==
    LET segs == Segments[Without(Slash, Slashed(SubSeq(p, 3, Len(p))))]
    IN  IF Len(segs) >= 2 /\ segs[1] = <<"wsl">> /\ segs[2] # <<>>
        THEN Clean(<<Slash>> \o UnderRoot(Tail(segs)))
        ELSE Refused

\* The server and the distribution are dropped; any other server is refused.
ConvertUNCToWSL(p) ==
    LET segs == Segments[Without(Slash, Slashed(SubSeq(p, 3, Len(p))))]
    IN  IF Len(segs) >= 2 /\ segs[1] = <<"wsl">> /\ segs[2] # <<>>
        THEN Clean(<<Slash>> \o UnderRoot(SubSeq(segs, 3, Len(segs))))
        ELSE Refused

\* A mistake: only the separator after the drive is turned.
DriveToWSLUnturned(p) ==
    Clean(<<Slash, "mnt", Slash, "c", Slash>> \o Without(Slash, Without(Backslash, Tail(p))))

\* A mistake: the drive keeps its case.
DriveToWSLCased(p) ==
    Clean(<<Slash, "mnt", Slash, IF p[1] = "C:" THEN "C" ELSE "c", Slash>>
            \o Slashed(Without(Slash, Without(Backslash, Tail(p)))))

\* The drive's letter in lower case, under /mnt.
DriveToWSL(p) ==
    Clean(<<Slash, "mnt", Slash, "c", Slash>>
            \o Slashed(Without(Slash, Without(Backslash, Tail(p)))))

WindowsToWSL(p) ==
    CASE IsUNCPath(p) -> ConvertUNCToWSL(p)
      [] IsAbs(p) -> Clean(p)
      [] IsDriveLetterPath(p) /\ Len(p) > 1 -> DriveToWSL(p)
      [] OTHER -> Refused

SplitMountDrive(p) ==
    /\ Len(p) >= 4 /\ SubSeq(p, 1, 3) = <<Slash, "mnt", Slash>> /\ p[4] \in Letters
    /\ Len(p) > 4 => p[5] = Slash

\* distro is WSL_DISTRO_NAME as a path of one name, empty if it is unset.
WSLToWindows(p, distro) ==
    LET host == IF IsWindowsPath(p) THEN WindowsToWSL(p) ELSE p
        clean == Clean(host)
    IN  CASE ~IsAbs(host) -> Refused
          [] IsAbs(host) /\ SplitMountDrive(clean) ->
               <<"C:", Backslash>> \o Backslashed(Without(Slash, SubSeq(clean, 5, Len(clean))))
          [] IsAbs(host) /\ ~SplitMountDrive(clean) ->
               IF distro = <<>> THEN Refused
               ELSE <<Backslash, Backslash, "wsl", Backslash>> \o distro \o Backslashed(clean)

\* Never fails: what WindowsToWSL refuses is turned and cleaned.
Normalize(p) ==
    CASE p = <<>> -> p
      [] IsWindowsPath(p) /\ WindowsToWSL(p) # Refused -> WindowsToWSL(p)
      [] OTHER -> Clean(Slashed(p))

-----------------------------------------------------------------------------
(* Between the host and file URIs.  Percent-encoding is undone by the      *)
(* decoding in the Go library, and left out.                               *)

\* The first name of a relative path takes the place of the authority.
PathToURI(p) ==
    LET host == Normalize(p)
        first == Segments[host][1]
    IN  [authority |-> first, path |-> SubSeq(host, Len(first) + 1, Len(host))]

\* A mistake: a drive behind the leading slash is not recognised.
DriveInURIIgnored(path) == FALSE

DriveInURI(path) == Len(path) >= 2 /\ path[1] = Slash /\ path[2] \in Drives

URIToPath(uri) ==
    CASE uri.authority \notin {<<>>, <<"localhost">>} ->
             <<Slash, Slash>> \o uri.authority \o uri.path
      [] uri.authority \in {<<>>, <<"localhost">>} /\ uri.path = <<>> -> Refused
      [] uri.authority \in {<<>>, <<"localhost">>} /\ uri.path # <<>> ->
             Normalize(IF DriveInURI(uri.path) THEN Tail(uri.path) ELSE uri.path)
=============================================================================
