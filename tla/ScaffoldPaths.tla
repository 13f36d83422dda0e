----------------------------- MODULE ScaffoldPaths -----------------------------
(***************************************************************************)
(* The functions RunProto applies to its arguments before it touches the   *)
(* tree (src/internal/scaffold/proto.go), and the texts it looks for: what *)
(* Scaffold takes its proto paths, singulars and `Mentions' from.          *)
(*                                                                         *)
(* A path is the sequence of its names: "/a" begins with an empty name,    *)
(* "a/" ends with one, and a blank argument is one empty name.  A word is  *)
(* the sequence of its letters, a Go expression that of its tokens.        *)
(* Each assumption states what a function computes by a definition of      *)
(* another kind, over all the inputs of the bounds.                        *)
(***************************************************************************)
EXTENDS Integers, FiniteSets, Sequences

LOCAL INSTANCE SequencesExt

CONSTANTS
  BaseOf,     \* the base of each name that ends in ".proto"
  RawPaths,   \* bound: the arguments checked
  Words,      \* bound: the words checked
  Modules     \* bound: the modules whose registrations are compared

-----------------------------------------------------------------------------
(* Paths.                                                                   *)

CleanStep(kept, name) ==
  CASE name \in {"", "."} -> kept
    [] name = ".." /\ kept # <<>> /\ Last(kept) # ".." -> Front(kept)
    [] OTHER -> Append(kept, name)

\* filepath.Clean of a path that is not absolute, with "." as the empty sequence.
CleanPath(path) == FoldLeft(CleanStep, <<>>, path)

IsAbs(path) == Len(path) > 1 /\ Head(path) = ""

\* It is "..", begins with "../" or contains "/../".
Escapes(path) == path = <<"..">> \/ \E i \in 1 .. Len(path) - 1 : path[i] = ".."

TrimAPI(path) == IF Len(path) > 1 /\ Head(path) = "api" THEN Tail(path) ELSE path

Relative(path) == TrimAPI(CleanPath(path))

\* NormalizeProtoPath returns no error.
Accepts(path) ==
  LET v == Relative(path) IN
    /\ path # <<"">>
    /\ ~IsAbs(path)
    /\ ~Escapes(v)
    /\ v # <<>> /\ Last(v) \in DOMAIN BaseOf
    /\ BaseOf[Last(v)] # ""
    /\ Len(v) >= 3

NormalizeProtoPath(path) ==
  LET v == Relative(path) IN [dir |-> Front(v), base |-> BaseOf[Last(v)]]

\* cleanRelativeDir returns no error.
AcceptsDir(path) == ~IsAbs(path) /\ ~Escapes(CleanPath(path))

\* The names of path between i and j, less the steps up.
Plain(name) == name \notin {"", ".", ".."}
Net(path, i, j) ==
  Cardinality({k \in i .. j : Plain(path[k])}) - Cardinality({k \in i .. j : path[k] = ".."})

\* A name stays unless a later step up undoes it, a step up unless it undoes a name.
Stays(path, i) ==
  \/ Plain(path[i]) /\ \A j \in i + 1 .. Len(path) : Net(path, i + 1, j) >= 0
  \/ path[i] = ".." /\ \A j \in 1 .. i - 1 : Net(path, j, i - 1) <= 0

\* Where the path leads, as a reader of it would say.
Meaning(path) ==
  LET kept == SelectSeq([i \in DOMAIN path |-> i], LAMBDA i : Stays(path, i))
  IN [k \in DOMAIN kept |-> path[kept[k]]]

\* The order in which Clean undoes names does not matter.
ASSUME CleanKeepsTheMeaning == \A path \in RawPaths : CleanPath(path) = Meaning(path)

\* A path is accepted just when it leads, from the root or from api/, to a named
\* proto that lies in a package and a version below api/: no other path escapes from
\* there, and none of these is refused.
ASSUME AcceptedStaysUnderApi ==
  \A path \in RawPaths :
    Accepts(path) <=>
      /\ ~IsAbs(path)
      /\ \E v \in {Meaning(path), TrimAPI(Meaning(path))} :
           /\ Len(v) >= 3 /\ (v[1] = "api" => v # Meaning(path))
           /\ \A i \in DOMAIN v : Plain(v[i])
           /\ \E name \in DOMAIN BaseOf : v[Len(v)] = name /\ BaseOf[name] # ""

\* The normalised path is a fixed point, but for api/api/...: of these one api is
\* taken off each time.
ASSUME NormalizedIsStable ==
  \A path \in RawPaths :
    Accepts(path) /\ Relative(path)[1] # "api" =>
      /\ Accepts(Relative(path))
      /\ NormalizeProtoPath(Relative(path)) = NormalizeProtoPath(path)

\* A target directory is accepted just when it lies in the tree.
ASSUME TargetDirStaysInTree ==
  \A path \in RawPaths :
    AcceptsDir(path) <=> ~IsAbs(path) /\ \A i \in DOMAIN Meaning(path) : Plain(Meaning(path)[i])

-----------------------------------------------------------------------------
(* Names and texts.                                                         *)

Ends(word, end) == IsSuffix(end, word)

WithoutLast(word, n) == SubSeq(word, 1, Len(word) - n)

Singularize(word) ==
  CASE Ends(word, <<"i", "e", "s">>) /\ Len(word) > 3 -> Append(WithoutLast(word, 3), "y")
    [] Ends(word, <<"s", "e", "s">>) \/ Ends(word, <<"x", "e", "s">>)
         \/ Ends(word, <<"z", "e", "s">>) -> WithoutLast(word, 2)
    [] Ends(word, <<"s">>) /\ ~Ends(word, <<"s", "s">>) -> WithoutLast(word, 1)
    [] OTHER -> word

\* How English forms a plural, ch and sh left aside.
Plural(word) ==
  CASE Ends(word, <<"y">>) /\ word[Len(word) - 1] \notin {"a", "e", "i", "o", "u"} ->
         WithoutLast(word, 1) \o <<"i", "e", "s">>
    [] word[Len(word)] \in {"s", "x", "z"} -> word \o <<"e", "s">>
    [] OTHER -> Append(word, "s")

\* singularize gives the noun back from its plural, but for nouns like house, prize,
\* axe and movie.
ASSUME SingularUndoesPlural ==
  \A word \in Words :
    Len(word) > 1 /\ ~(word[Len(word)] = "e" /\ word[Len(word) - 1] \in {"s", "x", "z", "i"})
      => Singularize(Plural(word)) = word

\* protoPackage: the directory, dotted.
ProtoPackage(dir) ==
  [i \in 1 .. 2 * Len(dir) - 1 |-> IF i % 2 = 1 THEN dir[(i + 1) \div 2] ELSE "."]

\* <dir>.Register<Base>Server(srv, ...).
RegisterCall(p) == ProtoPackage(p.dir) \o <<".Register", p.base, "Server">>

TextContains(text, part) ==
  \E i \in 0 .. Len(text) - Len(part) : SubSeq(text, i + 1, i + Len(part)) = part

\* What Scaffold's Mentions says of directories is what strings.Contains says of the
\* calls: one contains the other when its directory ends in the other's.
ASSUME CallsContainSuffixes ==
  \A p, q \in Modules :
    TextContains(RegisterCall(q), RegisterCall(p)) <=> p.base = q.base /\ Ends(q.dir, p.dir)

=============================================================================
