--------------------------------- MODULE Walk ---------------------------------
(***************************************************************************)
(* How gofmtMain turns its arguments into tasks (gofmt.go:563-594): each   *)
(* argument is walked as a tree in lexical order, directories that are to  *)
(* be ignored are left out (shouldIgnore, matchIgnore), and the first      *)
(* error ends the walk of its argument.  A file named as an argument is    *)
(* explicit: it is formatted whatever its name, by all the rules even if   *)
(* it is generated (processFile).                                          *)
(*                                                                         *)
(* A path is the sequence of its names, from the root.  What the ignore    *)
(* directives of a go.mod say, and what that is matched with, are strings, *)
(* sequences of characters.                                                *)
(* loadModule is taken for what Modules shows of it: Enclosing.  The order *)
(* of Add is what Sequencer makes the order of the output.                 *)
(***************************************************************************)
EXTENDS FileTree, Integers, Sequences, FiniteSets, SequencesExt

CONSTANTS
  Files,      \* the files, by their absolute paths
  Children,   \* the entries of each directory, as os.ReadDir sorts them
  GoFiles,    \* the files whose names isGoFilename accepts
  Generated,  \* the files isGenerated accepts
  SkipNames,  \* "vendor" and "testdata", to shouldIgnore
  Letters,    \* the characters of each name
  GoMods,     \* the go.mod files to try: subset of [Dirs -> GoModStates]
  Ignores,    \* the ignore directives to try, those of every go.mod
  Failing,    \* the directories and files to try that cannot be read
  Arguments   \* the arguments to try: sequences of paths

\* What is not the root is in a directory, and that lists it.
ASSUME TreeAssumption ==
  /\ Root = <<>> /\ Dirs \intersect Files = {}
  /\ Dirs \union Files \subseteq Seq(DOMAIN Letters)
  /\ \A p \in (Dirs \union Files) \ {Root} : Front(p) \in Dirs
  /\ \A d \in Dirs \ {Root} : Parent[d] = Front(d)
  /\ \A d \in Dirs :
       /\ Children[d] \in Seq(Dirs \union Files)
       /\ Range(Children[d]) = {p \in (Dirs \union Files) \ {Root} : Front(p) = d}

\* No name has a slash in it, and none in a clean path is a dot.
ASSUME NamesAssumption ==
  /\ \A n \in DOMAIN Letters :
       /\ Letters[n] \in Seq(STRING) \ {<<>>, <<".">>}
       /\ "/" \notin Range(Letters[n])
  /\ \A m, n \in DOMAIN Letters : Letters[m] = Letters[n] => m = n

\* The names of a directive begin at the directory of the go.mod (rooted, written
\* with "./" in front) or anywhere below it.
ASSUME IgnoresAssumption ==
  UNION Ignores \subseteq [rooted : BOOLEAN, names : Seq(DOMAIN Letters) \ {<<>>}]

ASSUME ArgumentsAssumption == Arguments \subseteq Seq(Seq(DOMAIN Letters))

VARIABLES
  gomod,      \* what reading the go.mod of each directory gives
  ignore,     \* the ignore directives of a go.mod
  failing,    \* what cannot be read: os.ReadDir or DirEntry.Info fail
  args,       \* flag.Args(), after filepath.Clean
  arg,        \* which of them is being walked; 0 before the first
  todo,       \* the paths WalkDir visits next, in order
  tasks       \* the calls of Add and AddReport, in order

inputs == <<gomod, ignore, failing, args>>
vars   == <<inputs, arg, todo, tasks>>

------------------------------------------------------------------------------

Base(path) == path[Len(path)]

\* The first names, by how many there are, a slash before each.
Slashing(names) ==
  LET slashed[k \in 0..Len(names)] ==
        IF k = 0 THEN <<>> ELSE slashed[k - 1] \o <<"/">> \o Letters[names[k]]
  IN slashed

Slashed(names) == Slashing(names)[Len(names)]

Spell(names) == Tail(Slashed(names))

Written(p) == IF p.rooted THEN <<".", "/">> \o Spell(p.names) ELSE Spell(p.names)

\* filepath.Rel
Rel(base, path) ==
  IF base = path THEN <<".">> ELSE Spell(SubSeq(path, Len(base) + 1, Len(path)))

HasPrefix(s, p) == Len(p) <= Len(s) /\ SubSeq(s, 1, Len(p)) = p
HasSuffix(s, p) == Len(p) <= Len(s) /\ SubSeq(s, Len(s) - Len(p) + 1, Len(s)) = p

\* Mutant of normalizePath: only the end gets a slash.
normalizeEnd(path) == IF HasSuffix(path, <<"/">>) THEN path ELSE path \o <<"/">>

normalizePath(path) ==
  LET front == IF HasPrefix(path, <<"/">>) THEN path ELSE <<"/">> \o path
  IN  IF HasSuffix(front, <<"/">>) THEN front ELSE front \o <<"/">>

\* relPath is normalized already.
matchIgnore(pattern, relPath) ==
  LET rooted == HasPrefix(pattern, <<".", "/">>)
      rest   == normalizePath(IF rooted THEN SubSeq(pattern, 3, Len(pattern))
                              ELSE pattern)
  IN  IF rooted THEN relPath = rest ELSE HasSuffix(relPath, rest)

shouldIgnore(path) ==
  \/ Base(path) \in SkipNames
  \/ LET mod == Enclosing(gomod)[path] IN
       /\ mod # Nil
       /\ \E p \in ignore : matchIgnore(Written(p), normalizePath(Rel(mod, path)))

------------------------------------------------------------------------------

Init ==
  /\ gomod \in GoMods
  /\ ignore \in Ignores
  /\ failing \in Failing
  /\ args \in Arguments
  /\ arg = 0
  /\ todo = <<>>
  /\ tasks = <<>>

Path == Head(todo)

Explicit == Path = args[arg]

Add(kind, path) ==
  tasks' = Append(tasks, [kind |-> kind, arg |-> arg, path |-> path,
                          rules |-> Explicit \/ path \notin Generated])

\* filepath.WalkDir begins with the argument itself.
StartArg ==
  /\ todo = <<>>
  /\ arg < Len(args)
  /\ arg' = arg + 1
  /\ todo' = <<args[arg + 1]>>
  /\ UNCHANGED <<inputs, tasks>>

Visiting == todo # <<>> /\ UNCHANGED <<inputs, arg>>

\* An argument that does not exist, an unreadable directory or the lost file of
\* an entry: the callback returns the error and the walk of arg ends.
Abort ==
  /\ Add("report", Path)
  /\ todo' = <<>>

MissingArg ==
  /\ Visiting
  /\ Path \notin Dirs \union Files
  /\ Abort

SkipDir ==
  /\ Visiting
  /\ Path \in Dirs
  /\ ~Explicit /\ shouldIgnore(Path)
  /\ todo' = Tail(todo)
  /\ UNCHANGED tasks

\* Mutant of EnterDir: the directory is read before it is known to be ignored.
EnterDirFirst ==
  /\ Visiting
  /\ Path \in Dirs
  /\ IF Path \in failing
     THEN Abort
     ELSE /\ Explicit \/ ~shouldIgnore(Path)
          /\ todo' = Children[Path] \o Tail(todo)
          /\ UNCHANGED tasks

EnterDir ==
  /\ Visiting
  /\ Path \in Dirs
  /\ Explicit \/ ~shouldIgnore(Path)
  /\ IF Path \in failing
     THEN Abort
     ELSE todo' = Children[Path] \o Tail(todo) /\ UNCHANGED tasks

SkipFile ==
  /\ Visiting
  /\ Path \in Files \ GoFiles
  /\ ~Explicit
  /\ todo' = Tail(todo)
  /\ UNCHANGED tasks

\* WalkDir has the FileInfo of an argument already.
AddFile ==
  /\ Visiting
  /\ Path \in Files
  /\ Explicit \/ Path \in GoFiles
  /\ IF Path \in failing /\ ~Explicit
     THEN Abort
     ELSE Add("file", Path) /\ todo' = Tail(todo)

Finished ==
  /\ todo = <<>>
  /\ arg = Len(args)
  /\ UNCHANGED vars

Next ==
  \/ StartArg
  \/ MissingArg
  \/ SkipDir
  \/ EnterDir
  \/ SkipFile
  \/ AddFile
  \/ Finished

Spec == Init /\ [][Next]_vars

------------------------------------------------------------------------------

\* README.md:22 and 26: a directory is left out when its name says so or when
\* the names of a directive are the last ones of its path in its module, all of
\* them for one that is rooted.
Ignored(dir) ==
  \/ Base(dir) \in SkipNames
  \/ LET mod   == Enclosing(gomod)[dir]
         names == SubSeq(dir, Len(mod) + 1, Len(dir))
     IN  /\ mod # Nil
         /\ \E p \in ignore :
              IF p.rooted THEN names = p.names ELSE HasSuffix(names, p.names)

Beneath(dir, path) == Len(dir) < Len(path) /\ HasPrefix(path, dir)

\* The paths a walk of a gets to.
Reached(a) ==
  {p \in Dirs \union Files :
     /\ p = a \/ Beneath(a, p)
     /\ \A d \in Dirs : Beneath(a, d) /\ (d = p \/ Beneath(d, p)) => ~Ignored(d)}

Wanted(a)   == {f \in Reached(a) \intersect Files : f = a \/ f \in GoFiles}
Added(k)    == {tasks[i].path : i \in {j \in 1..Len(tasks) :
                  tasks[j].arg = k /\ tasks[j].kind = "file"}}
Reports(k)  == {i \in 1..Len(tasks) : tasks[i].arg = k /\ tasks[i].kind = "report"}
Walked(k)   == k < arg \/ (k = arg /\ todo = <<>>)

\* README.md:22-27, gofmt.go:555-562: a walk that ends adds exactly the files
\* that are wanted, unless an error ended it, and then no others.
AddsWanted ==
  \A k \in 1..arg : Walked(k) =>
    /\ Added(k) \subseteq Wanted(args[k])
    /\ Reports(k) = {} => Added(k) = Wanted(args[k])

\* CHANGELOG.md:35 (#351): what cannot be read makes a walk fail only when the
\* walk gets to it, so an ignored directory never does.
FailsOnlyIfReached ==
  \A k \in 1..arg : Walked(k) =>
    (Reports(k) # {} <=>
       \/ args[k] \notin Dirs \union Files
       \/ failing \intersect ((Wanted(args[k]) \ {args[k]}) \union (Reached(args[k]) \intersect Dirs)) # {})

=============================================================================
