# A verification development of gofumpt

gofumpt is a stricter gofmt.  It walks its arguments, formats every Go file it
finds in a goroutine of its own, applies the rules of `format/format.go` on top
of the printer, and prints, lists, diffs or rewrites the result.  This directory
holds TLA+ modules translated from that code, the configurations TLC checks them
with, and proofs TLAPS checks.  Line numbers are those of this commit:
`gofmt.go:223` is `src/gofmt.go`, line 223, and `format.go` is
`src/format/format.go`.

`PROJECT.json` has the index: components, runs, the lines each definition
stands for, mutants (a plausible bug per property that the property catches),
findings, hazards and theorems.

## 1. Inventory

| component | where | state it keeps | operations |
| --- | --- | --- | --- |
| sequencer and reporters | `gofmt.go:112-319` | weighted semaphore, chain of one-buffered channels, one `reporterState` (out, err, exit code) | `Add`, `AddReport`, `GetExitCode`, `Write`, `Report`, `ExitCode` |
| fdSem | `gofmt.go:102-110` and every use | a channel with 200 places | send before opening, receive after closing |
| rewriting of files | `gofmt.go:387-420, 422-484, 727-837` | the file, its backup | `readFile`, `backupFile`, `writeFile` |
| module cache | `gofmt.go:651-707` | `cachedModuleByDir`, a `sync.Map` | `loadModule` |
| walk of the arguments | `gofmt.go:540-649` | what is left to walk, the tasks added | `gofmtMain`'s loop, `shouldIgnore`, `matchIgnore`, `normalizePath` |
| command line, `processFile` | `gofmt.go:30-101, 321-420, 486-538` | the flags | `main`, `initParserMode`, `processFile` |
| fragments | `internal.go` | none (pure) | `parse`, `format` of partial source |
| top-level declarations | `format.go:484-590, 292-353` | the syntax tree and the line table of the file | three loops of `applyPre`, `removeParens`, `addNewline`, `removeLines` |
| imports | `format.go:1185-1294` | the same | `joinStdImports` |
| traversal, signatures and extra rules | `format.go:150-230, 843-852, 882-914, 1296-1350` | `parentFuncTypes`, `topFuncType`, `blockLevel`, `minSplitFactor`, the syntax tree | `File`'s `pre` and `post`, `mergeAdjacentFields`, clothing of returns |
| rules on line breaks | `format.go:241-353, 592-842, 917-1019` | the line table of the file | `addNewline`, `removeLines`, `removeLinesBetween`, `stmts`, the cases of `applyPre` and `applyPost` that use them |
| other rules | `format.go:355-484, 636-674, 853-881, 1020-1183` | none | octal literals, `var` in functions, parentheses, the space in comments, `splitLongLine` |
| simplify and rewrite | `format/simplify.go`, `format/rewrite.go` | the syntax tree | `simplify`, the matching it uses |
| version | `internal/version/version.go` | none | one line from the build information |
| vendored printer | `internal/govendor/go/printer` | the printer: white space held back, comments to come, the position in the source | `print`, `flush`, `intersperseComments`, a method per kind of node, the trimmer |
| vendored doc comments | `internal/govendor/go/doc/comment`, `printer/comment.go` | the loop of `parseSpans`: position, `forceIndent`, `watchdog` | `formatDocComment`, the parser, the comment printer |
| vendored diff and format | `internal/govendor/diff`, `go/format` | none | copies of the Go tree |
| `gen_govendor.go` | | none | makes those copies |

How they interact.  `main` makes one sequencer and calls `gofmtMain`, which
walks.  For a directory the walk calls `shouldIgnore`, which calls `loadModule`;
for a file it calls `Add`, which blocks until the semaphore has room and starts
a goroutine.  That goroutine runs `processFile`: `readFile` (an fdSem slot),
`loadModule` again (the same cache, a slot per go.mod file), `format.File`, then
the reporter (blocks until every earlier task ended) or `backupFile` and
`writeFile` (a slot each).  `format.File` walks the syntax tree and changes the
line table of the file; the printer then reads both, reformats doc comments on
its way and puts every other comment between the tokens it belongs between.  When
`processFile` returns, its goroutine takes its turn on the reporter, reports the
error and passes the `reporterState` on.  `main` at last asks
`GetExitCode`, itself a task.  The shared state is therefore: the semaphore, the
channel chain, fdSem, the module cache, and the file system.

What is hard, and what must hold:

* *Sequencer.* Goroutines end in any order, yet output must be in the order of
  `Add`, and the exit status must account for every task.  A task that never
  printed has to wait for its turn all the same.  (Ordering, liveness, resource.)
* *fdSem.* Slots are given back by deferred calls; error paths return before
  some of them.  Slots, semaphore and turns must not wait for each other in a
  circle.  (Deadlock, leak.)
* *Rewriting.* Writes fail half way, restoring fails too, the process is killed,
  two tasks have the same file, the size is that of a link.  There must be a
  whole text somewhere at all times.
* *Module cache.* Two goroutines climb the same directories and store what they
  find with nothing held in between.
* *Walk.* Ignore directives are matched by suffix; explicit arguments escape
  them; an error ends a walk in the middle.
* *Rules.* They all look at which line a thing is on, change the line table, and
  run in one traversal: each relies on what the others did before it.  One run
  must be enough (idempotence), and nothing but layout may change.
* *Printer.* White space is held back until it is known whether a comment comes
  before it; a comment is placed by what surrounds it in the source, which the
  printer knows only by the position it believes it is at.  A line break in the
  wrong place is a semicolon, another program.
* *Doc comments.* Heuristics move the ends of spans while spans are found, with a
  watchdog against a loop that goes on; what is printed must be read the same.

## 2. Modules

```
 SerialReport  <==refines==  Sequencer  <--EXTENDS--  SequencerProofs
                               ^ MCSequencer
 FileDescriptors <- FileDescriptorsProofs
 Rewrite <- MCRewrite
         <- RewriteProofs
 FileTree <- Modules <- MCModules
                     <- ModulesProofs
          <- Walk    <- MCWalk
                     <- WalkProofs
 Signatures <- MCSignatures
            <- SignaturesProofs
 Decls <- MCDecls
       <- DeclsProofs
 Newlines <- MCNewlines
 CommentText <- PrintBuffer <- SourceText <- PrintNodes <- Printer <- MCPrinter
 DocComment <- MCDocComment
            <- DocCommentProofs
```

### SerialReport: what the sequencer promises

Tasks take turns.  The one whose turn it is prints, fails or not, and gives up
its turn; the status is read when everyone before has had theirs.  One log, one
exit code, one turn.

### Sequencer: `gofmt.go:112-319, 486-500`

| TLA+ | code |
| --- | --- |
| `main`, `added`, `answer` | where `main` is; Add calls so far; the channel of `GetExitCode` |
| `cur`, `weight`, `Clamp` | what is acquired of the semaphore; what each `Add` asked for; its clamping of negative and oversized weights |
| `chan[i-1]`, `chan[i]` | the `prev` and the `next` of task `i` |
| `state[i]` | `reporter.state` of task `i` is set (`getState` received it) |
| `err`, `pc`, `writes` | the goroutine of `Add` (239-245) and what `f` does with its reporter |
| `log`, `exitCode` | `reporterState` |

`AddFile`, `AddReport`, `GetExitCode` (each an `Add`), `Acquire` and `Exit` are
main's.  `Add` commits main to a weight and a function; `Acquire` is the rest of it
(227-246), and main can do nothing else until there is room for just that weight.
`GetState`, `Write`, `ExitCode`, `Return`, `Report`, `Pass` and `Release` are a task's.  `Warnf`
is not called by anything and would be `Write`.  `context.TODO()` is never
cancelled, so `Add`'s error branch cannot happen.

### FileDescriptors: `fdSem`

One action per send and per receive, on every path of `readFile`, `loadModule`,
`backupFile`, `writeFile` and `gofmtMain`, failing ones included.  `slots` is
the channel's length and `open` how many descriptors it guards; they differ
exactly when the code loses a slot.  A turn on the reporter is taken to come
round in order, which `Sequencer` shows.  Semaphore weights only delay `Add`.

### Rewrite: `-w` on one file

A text is a sequence of cells, `o` of the original, `f` of the formatted text,
`0` a hole.  A write reaches the file piece by piece, every call to the system
may fail a bounded number of times (`faults`), and since a kill leaves what is
on disk, invariants over `file` and `bak` hold for a kill at that moment.  Two
tasks share the file when the arguments name it twice (`given`), and `src` and `res`
are what each read of it and made of that.  A task may read what another is in the
middle of writing, the new text with a tail of the old for one.  Such a torn text may be
no Go source, or formatted already, or be formatted in its turn (to the formatted text
itself, or to another, of cells `g` and any length), backed up and written
back, so `Read` has all of these outcomes.  The file may be given by a symbolic link, whose size
(`links`) is then what `size` is.

The properties make two exceptions and name them.  `Undisturbed` fails once a task
rewrites a torn text as something other than the formatted one, or one that is not alone writes the old text
back.  `TailStays` holds if a link's size says that nothing has to be cut off, and the
old text is longer.  `WarningIsTrue` makes no exception.

### FileTree, Modules, Walk

`FileTree` has the directories and `Enclosing`, the module a directory is in.
`Modules` is `loadModule`, frame by frame: the recursion's stack, the lookup,
the read of go.mod and the store are steps of their own, for several callers.
`Walk` is the loop of `gofmtMain` over its arguments with `filepath.WalkDir` as
a list of entries still to visit (lexical, depth first).  A path is a sequence
of names and a directive is one too, rooted (`./` in front) or not; both are
spelled in letters and slashes (`Spell`, `Written`) before `normalizePath` and
`matchIgnore` compare the text, as the code does.  The properties compare names.
That a path's directory lists it and that no name has a slash in it are
assumptions on the constants.  `Walk` uses `Enclosing` for `loadModule`, which
`Modules` shows to be what it returns.  Directives that spell no name (`.`, the
empty one) are left out.

### Decls: top-level declarations, formatted twice

`format.go:486-590`.  A *text* is what is on disk; `Read` gives the syntax tree
with a line for each thing (the parser and `ast.SortImports` of
`gofmt.go:336-343`), the loops change both, and `Printed` is what the vendored
printer makes of them (`nodes.go`: `declList`, `genDecl`, `funcBody`).  Then
gofumpt runs again on its own output.

| TLA+ | code |
| --- | --- |
| `Unwrap` | first loop (490-495); and `removeParens` on each `*ast.GenDecl` visited later (666-673) |
| `Start`, `Continue`, `Joined` | the two nested loops (499-551): a declaration is appended to `newDecls`, continued by those below it, and the merged imports sorted |
| `Separate` | third loop (554-590) |
| `last` | the line of `lastPos` |
| `Hoisted(d)` | `removeParens` moved `TokPos` below the comment of the only spec, and `Doc` stays nil |
| `Top(d)` | the line of the comment above, which `commentsBetween` finds whatever `Doc` says |

Left out: comments on the line of a declaration, below it, or apart from it;
comments before the package clause, which make the first declaration count as
multiline; `joinStdImports`; the widths of lines, except that a function on one
line may be over 100 bytes (`wide`) or one that the printer breaks (`tall`).

### Signatures: the traversal, and the extra rules

`path` is where `astutil.Apply` is: the nodes around, each with the child that
comes next.  `Enter...` is a node's `pre` with everything `applyPre` does for
that kind, `Leave...` its `post`.  The fumpter's variables keep their names.
`EnterFieldList` merges the list with `mergeAdjacentFields` before its fields
are visited, `EnterReturn` clothes the return.  Types are compared by what they
print as (`Printed`), which is computed on the tree as it is at that moment.
The result is read again (`Reread`) and formatted a second time.  A tree is a
function from nodes to what is known of them, and a node is known by its place:
the number of each child on the way from the file.  `IsTree` and `IsSyntax` are
what `go/ast` and the parser promise of a tree.  Left out: the rules that only
move lines (`Newlines`), and replacement of nodes of other kinds.

### Newlines: the rules on line breaks, formatted twice

A file is a sequence of items (tokens, or what no rule looks into) with a number
of line breaks before each and at most one comment between two.  `lines` is the
table of line starts of `token.File`, which the rules change and ask.

| TLA+ | code |
| --- | --- |
| `Pos`, `End`, `Line` | positions; `fumpter.Line` (355-361) |
| `addNewline`, `removeLines`, `removeLinesBetween` | 292-322: lines are split and merged in the table, nothing else changes |
| `WalkBlock`, ..., `WalkAssign` | a node's case in `applyPre` (592-842), `stmts` included |
| `WalkLiteral`, `WalkCall` | the cases of `applyPost` (917-1019) |
| `moved` | `Rparen` and `Rbrace` that were moved by a byte after a line was added before them (768) |
| `Layout` | what the printer makes of the table: at most one empty line, comments where they are |

The nodes of a file come in the order in which their rules apply, which is
`astutil.Apply`'s: `pre` before the children, `post` after.

### CommentText, PrintBuffer, SourceText, PrintNodes, Printer: the printer

| module | code |
| --- | --- |
| `CommentText` | `stripCommonPrefix` and what it uses (`printer.go`): how the lines of a block comment move |
| `PrintBuffer` | the `printer` as a value `p`, an operator per method: `writeString`, `writeCommentPrefix`, `writeComment`, `writeCommentSuffix`, `intersperseComments`, `writeWhitespace`, `flush`, ... |
| `SourceText` | scanner and parser (external): where the tokens are, which comments are a group, where a line break is a semicolon |
| `PrintNodes` | `nodes.go`: files, declarations, signatures, statements, expressions, as what they do to `p`; and `printer.print` |
| `Printer` | `fprint`: `PrintPackage`, `PrintDecl` for each declaration, `Flush`, `Trim` (the tabwriter is external; `trimmer.Write`), and `Again`, which prints what was printed |

The printer is one sequential program, so its steps are whole declarations; what
is interesting is the data: `wsbuf`, `indent`, `lastTok`, `impliedSemi`, the
comment that comes next and the position in the source.  Columns are those of
one-byte tokens, and no expression is too long for its line, so that neither
`nodeSize` nor the exceptions of `exprList` for long pairs matter.

### DocComment: reformatting of doc comments, twice

A line is its leading white space and words; a word is what the parser asks for
(a list marker, `#`, a brace, a definition or a use of a link, a directive).

| TLA+ | code |
| --- | --- |
| `Extract` | `formatDocComment` up to the parser (`comment.go:21-60`), and `unindent` |
| `IndentedSpan`, `UnindentedSpan` | a turn of the loop of `parseSpans` (`parse.go:363-494`), with both heuristics |
| `Finish` | the last turn, `Parse`'s second loop (`Blocks`), the comment printer (`BlockLines`), and what `formatDocComment` puts around it (`Compose`) |
| `watchdog`, `forceIndent`, `i`, `spans` | the variables of that name |
| `guessed` | that a heuristic changed a span (no variable of the code) |
| `Again` | the second run, on the comment of the first |

## 3. Runs, and what they show

Two runs (`newlines_stale`, `printer_range`) each show one disagreement, listed in
section 5.  All the others finish with no error.

| run | bounds | question |
| --- | --- | --- |
| `sequencer` | 3 files or reports and GetExitCode's task, capacity 2, weights -1, 0, 1 and 3, a write each | order, ownership, exit status, weights given back as taken, refinement of SerialReport, termination |
| `descriptors` | 3 files, 3 slots, a go.mod per lookup, one failing open, profile or not | descriptors bounded, exit |
| `rewrite` | texts of 1 to 3 cells; one task and 3 failures, or two tasks and 2; by name, or by a link of size 1 or 4 | no text is lost, success and failure mean what they say |
| `modules` | root, a directory and two below it, every go.mod state; 2 callers, 2 calls each | each call returns the enclosing module |
| `walk` | a tree of 9 directories with lookalike names, 6 module layouts, 5 ignore lists, 5 sets of what cannot be read, 4 argument lists | the wanted files, and no failure that was not reached |
| `decls` | every file of 3 declarations of 16 shapes (and of 2 with the empty group), touching or not | one run is enough; nothing but layout changes; the README's rules |
| `signatures` | a function, a literal in a block of it and a literal of its own; lists of up to 3 of 6 parameters, 5 kinds of results, 3 of methods; a method and a generic function with literals in their parameters; every set of extra rules | returns take the right names, grouping loses nothing, one run is enough |
| `newlines` | 17 templates with a node or two of each kind; every choice of line breaks, or one comment in one place with 0 to 2 line breaks before it | the README's rules on the output, comments stay, one run is enough |
| `newlines_stale` | the literals `newlines` leaves out (section 5) | the same |
| `printer` | 24 small files with every kind of statement, expression and declaration; in one gap at a time, every comment of eight kinds with every white space around it | same tokens and semicolons, comments stay where they are, one run is enough |
| `printer_range` | the comments `printer` leaves out (section 5) | the same |
| `doc_comment` | every comment of up to 3 lines of 15 shapes, after nothing, a line, or a line and a blank; with a directive anywhere; in both styles | the parser ends and misses no line, nothing is lost, one run is enough |

Why the bounds are enough.  The sequencer's order involves a task, its
predecessor and one further back: three tasks and the reader of the status, and
with capacity 2 there are tasks that fit together, that wait and that take
everything, as an exclusive weight does (-1) and an oversized one (3).  Three slots and three tasks is the least in which tasks fill fdSem
while others want a second slot; the proportions (fewer slots than wanted) are
what matters, not 200.  Texts of up to 3 cells make the new text shorter, equal
and longer with a middle to tear; links of size 1 and 4 are shorter than most and longer than
all of them.  A chain of joined declarations has a first, a
middle and a last member: three; so has a list of fields that are merged.  One
literal in a block, with returns before, inside and after it, is the least in
which a stack that is popped wrongly shows.  The cache has two goroutines that meet on a
shared ancestor from different starts.  A rule on line breaks looks at two or three
items and what is around them, and line tables of 0, 1 and 2 breaks are all it
tells apart.  What the printer does with a comment depends on the tokens before and
after it, on the white space between and on what is pending in `wsbuf` when it
comes: one gap edited at a time, in a file of each kind of node, reaches each of
these.  Two comments in one gap are the kinds `group` and `groups`.  Spans of a
doc comment depend on the lines at the two ends of a run of lines and on the one
across the blank line after it: five lines are a paragraph, a blank, and three
that may be two spans with a heuristic's line between them.

**Properties worth pointing out.**  `OutputInOrder` relates the log to the order
of `Add`; `ExitStatusFaithful` the answer to every earlier task, reported or
not yet over.  `SerialSpec` is the refinement.  `DescriptorsBounded` counts what
failed opens took away.  `NothingLost`: the file is whole, or some backup is;
`WarningIsTrue`: the backup a warning names is there and is all that its task
read.  `WeightAccounted` counts what is acquired against what the tasks in flight
weigh.  `EventuallyExits` fails as well if weight is not given back: main then waits for
ever in the `Add` it has begun.
`ReturnsEnclosing` says that the race on the cache is harmless.
`FailsOnlyIfReached` says an ignored subtree cannot make a run fail.  `Stable` is
idempotence in `Decls`, `Signatures`, `Newlines` and `Printer`, and `Settled` in
`DocComment`; `DirectivesKept`, `ConstantsKept` and `SpecsKept` say joining is
only layout; `Grouped`, `Separated`, `EdgesTight` and `Consistent` are the README's
rules read on the output rather than on the steps.  `Located` ties the fumpter's
variables to the place in the tree; `ReturnsOwn` compares every return with the
function that lexically holds it in the source; `FieldsKept` compares what is
declared before and after grouping.  `SameCode` scans what was printed, with its
automatic semicolons, and compares it with the source; `CommentsStay` compares
each comment and the tokens it is between.  `MakesProgress` is `parseSpans`'s own
panic; `SpansCover` that no line is in no span; `HeuristicsRest` what the comments
of `parse.go` claim of a formatted comment.

**Fairness.**  `Sequencer`: weak fairness of main and of each goroutine, which
the Go scheduler gives a goroutine that stays runnable; a goroutine waiting on
its channel stays enabled once the value is there, since nobody else receives
from it, and only main sends to the semaphore's queue.  `FileDescriptors`: strong fairness,
because a send to fdSem is enabled and disabled as others fill it.  Waiting
senders of a Go channel queue in order, so one that waits is served when places
keep coming free.  The other modules state no liveness and assume no fairness.

**Deadlock** is checked in every run but those of `Newlines`, `Printer` and
`DocComment`, which model one sequential function that returns; the other modules
have an explicit step for a program that has ended.

## 4. What is proved

`SequencerProofs` proves, for any number of tasks, any capacity, any weights and
any number of writes (only the ASSUMEs of `Sequencer`: `N` and `MaxWeight` are
positive, weights are integers), and with no fairness:

| theorem | |
| --- | --- |
| `TypeCorrect` | `Spec => []TypeOK` |
| `ReporterOwned` | `Spec => []OneOwner`: the `reporterState` is in one place |
| `OutputOrdered` | `Spec => []OutputInOrder` |
| `StatusFaithful` | `Spec => []ExitStatusFaithful` |
| `ImplementsSerialReport` | `Spec => SerialSpec`: the concurrent sequencer refines tasks taking turns |

None of these is inductive by itself: that output is in order depends on who can
hold the `reporterState`, and that on how it got there.  `IInv` adds

* `Chain`: who has `state` knows all earlier tasks passed it on, and channel `c`
  is full exactly if its task passed and the next has not received;
* `Life`: what a task's place says about its error and its kind, and that the
  task that reads the status is the last one;
* `Printed`: an entry of the log is by a task that had the `reporterState`;
* `Counted`: the exit code is nonzero exactly if some task reported.

The steps are one lemma per conjunct (`TypeStep`, `ChainStep`, `LifeStep`,
`OrderStep`, `FaithfulStep`, ...), by cases on the actions.  `Monotone` says what no step
undoes, and carries the past into the order and status proofs.  The refinement
maps a task's turn to the first task that has not passed; `StateIsTurn` shows
that who has `state` is who has the turn.

`WeightIsAccounted`, `Spec => []WeightAccounted`, is from the same assumptions.  `Units`
is the set of the units of weight that tasks in flight should have, and `cur` must be its
cardinality.  `Acquire` and `Release` add or take away one task's share of it
(`Share`, `ShareCount`), so the count changes by just its clamped weight
(`FiniteSetTheorems`), and no other step changes a task's place in or out of flight.

The other components:

| module | theorem | for |
| --- | --- | --- |
| `FileDescriptorsProofs` | `DescriptorsAreBounded`: `Spec => []DescriptorsBounded` | any number of tasks, places, go.mod files and failing opens |
| `ModulesProofs` | `ReturnsTheEnclosing`: `Spec => []ReturnsEnclosing` | any tree, go.mod files, number of callers and calls |
| `RewriteProofs` | `WarningsAreTrue`: `Spec => []WarningIsTrue` | texts of any length, any number of tasks, torn texts rewritten, failures and links |
| | `LosesNothing`, `SuccessUpdates`, `FailureKeeps`: `Spec => [](Undisturbed /\ NothingLost)`, `[](Updated /\ (IsLink \/ AlwaysUpdated))`, `[]FailureKeepsOriginal` | the same, given `Solo`: one task has the file |
| `DocCommentProofs` | `WatchdogQuiet`, `SpansCovering`: `Spec => []MakesProgress`, `[]SpansCover` | comments of any length, of any lines, and what they are reformatted to |
| | `DirectivesStayApart`, `TextStays`: `Spec => []DirectivesApart`, `[]TextKept` | the same |
| | `HeuristicsStayQuiet`: `Spec => []HeuristicsRest` | the same, given `Unbare`: no item is a marker and the definition of a link only |
| `SignaturesProofs` | `LocatedHolds`: `Spec => []Located` | any syntax trees, functions nested to any depth, any extra rules |
| | `ReturnsOwnHolds`: `Spec => []ReturnsOwn` | the same |
| | `FieldsStay`: `Spec => []FieldsKept` | the same, given `AreDistinct`: no interface has methods of one type next to each other on a line |
| `DeclsProofs` | `SpecsStay`: `Spec => []SpecsKept` | files of any declarations, specs and heights |
| | `ConstantsStay`: `Spec => []ConstantsKept` | the same, given `AllSafe`: iota is used in parentheses only |
| | `DirectivesStay`: `Spec => []DirectivesKept` | the same, given `NoneInParens`: no group of one variable has a directive in it |
| | `MultilineSeparated`: `Spec => []Separated` | the same, given `TallIsWide`: a function the printer breaks for its body is over 100 bytes |
| | `ContiguousGrouped`: `Spec => []Grouped` | the same, given `Filled`: no group of variables is empty |
| `WalkProofs` | `AddsWantedHolds`: `Spec => []AddsWanted` | any tree, names, go.mod files, directives, failures and arguments |
| | `FailsOnlyIfReachedHolds`: `Spec => []FailsOnlyIfReached` | the same |

* `FileDescriptorsProofs`.  `Balanced`: `slots` is the number of tasks with a
  descriptor, plus those about to open one, plus main's profile, plus what failed
  opens kept.  The steps count sets of tasks with `FiniteSetTheorems`; the only
  assumptions are the ASSUMEs of `FileDescriptors`.
* `ModulesProofs`.  `CacheRight`: an entry of the cache is the enclosing module of its
  directory; `StackRight`: all directories on the stack of a caller are in one module, which is
  what it found if it found any.  That two callers store the same
  value makes the race harmless, and needs only that.  It rests on the ASSUMEs of
  `FileTree`: `Parent` climbs to `Root` (`ClimbAssumption`), and no directory is taken
  for an absent or nil module.
* `RewriteProofs`.  `BackedUp` says at which places of `writeFile` the backup is
  all that the task read, and suffices for the warning, whatever other tasks do.  `Whole` says what the file is at each
  place: the old text, the new one, or `Torn(l, w, r)`, after `w` cells of the new text
  were written over one of length `l` and `r` cells of the old written back.
  `TornFurther`, `TornBack` and `TornCut` are what a write, a write back and a truncation
  do to it.  `Hidden` is the exception for a link, and the only one: a task alone
  is never disturbed.  `Solo` is what the argument rests on; for several tasks these three are
  checked by `rewrite` only, under `Undisturbed`.
* `DocCommentProofs`.  `Progress`: a turn of `parseSpans` takes a line into a span, or has
  more lines count as indented (`forceIndent`), which happens to a line once; the turns
  the watchdog has left are no fewer than both may still take.  `Covering`: the spans
  found are in order and leave out only blank lines, although the heuristics move
  the end of one and the start of the next.  Both need the lines to be a sequence
  (`Typed`), which in the second run they are because of all that the first one does:
  whatever is parsed is blocks of lines (`BlocksTyped`) and whatever is printed of blocks is
  lines (`CommentTyped`, `ComposeTyped`).  For that, the spans must start at lines, and those
  of headings and lists at headings and items (`Headings`).  What folds and `FlattenSeq` compute
  is shown to exist first, as the least length that would have no such function has a
  smaller one (`FoldFound`, `FlattenTyped`, with `LeastNatural`).  `Kept`: the directives are
  those of the source, kept aside while the text is parsed, and last when it is printed
  (`ComposeSplit`).  It rests on `CommentsAssumption` alone, which says what a line is.

  `RestInv`: what a comment without bare items is printed as is quiet (`Quiet`, `PrintedQuiet`): of
  two lines that follow each other and say something, the second is indented if the first is, and
  only an item is indented if the first is not.  Wherever the heuristics
  look, they then find nothing to take (`IndentedRests`, `UnindentedRests`).  For the text to
  be quiet the paragraphs must be at the margin (`Margins`) and what is spelled as a comment be
  read back as the same lines (`ConsUndone`, `SlashesUndone`).  `Unbare` is needed: of `x`, `  - [a]: url`,
  a blank line and `}` the definition is taken out, the marker is printed with nothing after
  it, and `}` comes to stand below an indented line, which sets off the heuristic for braces
  when that is formatted again (found with TLC; section 5).

  `TextInv`: the comment says what its source says, and while it is parsed the lines are
  its text without the indentation.  A `Reader` reads the words of a line after its marks, and what
  is one after the other is read one after the other (`ReadConcat`), so that each thing that is done
  with lines is one lemma: the indentation is removed (`UnindentReads`), the lines are
  in spans but for blank ones (`SpansRead`, from `Covering`), a span becomes a block
  (`BlockReads`; a list item by item, `TakeAllReads`), blocks are printed (`BlockPrinted`, with
  the marker that waits for the text after it, `WriteReads`), and the text is spelled as a comment
  (`PrintedReads`).  Definitions of links leave their place for the end, so a reader must
  let them stand anywhere (`Moves`): one reads nothing of them, which gives `Said`, and
  one a number for each, which gives `LinksIn`.  No comment is left out.  `Said` drops
  all the marks a line starts with, as a marker that nothing is printed after is
  joined to the next line, and what follows there may start with a mark of its own.
* `SignaturesProofs`.  `Located`, `ReturnsOwn` and `FieldsKept` have an inductive invariant each,
  from the assumption that files are syntax trees (`IsTree`, `IsSyntax`).  For
  `Located` (`Inv`) the path goes from the file to the node the traversal is at, and what the
  fumpter's variables say is put in terms of places: `parentFuncTypes` has the types of
  the functions around (`FuncStack`), `blockLevel` counts the blocks (`BlockDepth`),
  `topFuncType` is the type of the declared function around or of one that was left
  (`Top`), and `minSplitFactor` tells which of its lists was visited last (`Split`): that
  nothing in a function resets what was set by the function is why each is right when a
  nested one is left.  For `ReturnsOwn` (`ReturnsInv`): grouping leaves the names of results
  as they were and in order (`ResultsHeld`), so it does not matter that it comes before
  returns are clothed; a naked return that the traversal has yet to come to is `Ahead`, and
  every other has its function's names (`Clothed`); outputs stay as they are (`Outputs`).
  What a fold over a list computes is shown for the least number of fields that would
  break it (`LeastNatural`, `NamingExists`).

  For `FieldsKept` (`FieldsInv`): every node declares what it does in the source (`DeclaredHeld`),
  and an interface still has its methods (`MethodsHeld`).  What a node is printed as
  and what it declares are shown to be known from the deepest nodes up (`MeaningExists`), and
  nodes that are printed the same to declare the same (`PrintedSays`), which has to hold in the tree
  as it is halfway through a list: types that print the same are why merging two fields keeps what
  is declared (`MergeSays`), and declares the same with the types not yet grouped themselves.
  `DeclaredSame` then takes that up to the file.  `AreDistinct` is about the source alone, and asks
  for types that declare different things, not only print differently: those of the next
  run are grouped.  Without it `SignaturesInterface.cfg` ends in a counterexample; the files of
  the `signatures` run meet it.
* `WalkProofs`.  First that text and names agree: `SlashedSuffix` says that one path as
  it is spelled ends in another exactly if its names end in the other's, because no name has
  a slash in it; `NormalIs` that `normalizePath` puts a slash at both ends; `MatchNames` and
  `Agree` that `shouldIgnore` is therefore `Ignored`, which is the README's rule.  Then
  `Inv`: whatever the walk of an argument should reach is pending (beneath a path of `todo`, or
  on it) or visited (added if wanted, readable if a directory), every path of `todo` is to be
  reached, and the walks that ended are right.  A directory that is skipped takes away
  only what is beneath it, which is unwanted for that reason; one that is entered is
  replaced by its children, one of which is on the way to each thing beneath it
  (`Towards`).  It rests on the ASSUMEs of `Walk` and `FileTree`.
* `DeclsProofs`.  `Holds`: `node.Decls` is a syntax tree (`IsTree`), in which declarations and
  specs are one below another and no two specs are one, with the specs of the source and, but for
  imports, in its order.  `Joins`: so does `newDecls`, with the declarations joined
  so far (`JoinedSo`), and `Prints`: so does what was printed (`Kept`).  That the tree keeps its
  shape is needed: what `ast.SortImports` takes for a run is told by lines, so lines
  must stay in order when some are removed or added (`RenumberKeeps`, `RemoveParensKeeps`), and
  the lines the parser gives and the ones the printer leaves have to agree
  (`ParsedIs`, `PrintedIs`).  Sorting imports is a permutation because each of a run has a rank of
  its own among them (`Ranks`, `SortedIs`).  It rests on `SourcesAssumption`, which says
  what a file is.

  On top of that invariant (`IInv`) each of the other four has one of its own.
  `ConstInv`: the places of the specs that use iota are those of the source, which needs
  that they are in parentheses and so never continue anything.  `DirectiveInv`: what is below a
  directive is what was, in `decls` and in what was printed, and a directive is above a spec
  only where nothing takes it for a comment (`Clear`).  `SpacedInv`: whatever the loop of `Separate` has
  passed has an empty line between two tall declarations, which printing, parsing and
  unwrapping keep (`Sized` says that no declaration grows tall on the way).  `GroupInv`: no two
  neighbours of `newDecls`, nor the last of it and what ended the loop, could
  have been joined (`Parted`); adding lines moves them apart (`LoosenedKept`).  Each
  hypothesis is about the source alone, and is needed: without the first two
  `DeclsIota.cfg` and `DeclsDirective.cfg` end in counterexamples, without the third a function is
  separated in the second run only, and without the fourth an empty group that a variable is
  joined to is unwrapped after the joining and left touching what is above it (section 5).
  The files of the `decls` run meet the first three; those of two declarations may have an
  empty group, where there is no room for the third that it takes.

Model-checked only:

* `EventuallyExits` and `ExitsEventually`: liveness under fairness is out of the
  provers' reach.
* `Signatures.Stable`: that the second run merges nothing takes the first one to have merged all it
  could, and that depends on the types of a list being grouped after it.  (It is false of functions
  in the types of parameters, section 5.)
* `DocComment.Settled`: that the second run changes nothing needs what is printed to be
  parsed into the same blocks, line for line; `TextStays` only needs the same words.
* `Decls.Stable`: that the second run changes nothing needs all of what the first leaves, for
  each of the loops, and that each of them then does nothing.  (The empty groups of section 5 break it.)
* The properties of `Newlines` and `Printer`: they compare what folds over a whole file
  compute with the file.

## 5. Where code and documentation disagree

Two have a run whose counterexample shows it.

1. `newlines_stale`: `applyPost` reads the line of a literal's closing brace before
   it removes the empty lines above the first element (`format.go:928`, `949`) and
   compares it afterwards (`969`).  A literal with a line break after `{` is left
   with none before `}`, which README.md:153-154 asks for; a second run adds it.
2. `printer_range`: `for x,` and, on the next line, `/*a*/ y := range x {` is printed
   with the comment, and a line break, before the comma: the comma has the position
   of the second variable (`nodes.go:1528-1531`).  `commentBefore` promises not to
   introduce semicolons (`printer.go:143-145`); this introduces one.

Six more can be seen with configurations that are kept here and belong to no run.
Each ends in a counterexample:

* `tlc -config FileDescriptorsLost.cfg FileDescriptors`: `readFile` keeps its slot
  when `os.Open` fails (`gofmt.go:428-433`).  After 200 of those, everyone waits for
  ever.
* `tlc -config RewriteLink.cfg MCRewrite`: a Go file given by a symbolic link is
  truncated against the length of the link's text (`gofmt.go:752`) and keeps the
  tail of the old one.
* `tlc -config RewriteTwice.cfg MCRewrite`: a file named twice.  The second task reads it
  after the first has written the new text and before it cuts off the rest
  (`gofmt.go:751-753`), when the size is still the old one.  If what it reads is Go
  source it is formatted and written back: both report success, and the
  file is not the formatted text.  By then neither text need be whole anywhere.
* `tlc -config DeclsDirective.cfg MCDecls`: a directive above the only variable of a
  group is taken for a plain comment once the group is unwrapped, and ends up above
  the variables joined to it.
* `tlc -config DeclsIota.cfg MCDecls`: lone constants that use iota are joined, and
  change value.
* `tlc -config SignaturesInterface.cfg MCSignatures`: with `-extra=group_params`,
  `interface{ A(); B() }` loses `B`: the methods are merged as if they were
  parameters.

Seen while modelling, and left out of what the runs are given or what their
properties ask where they say so:

* An exclusive task runs alone, says `gofmt.go:203-212`.  A file of no bytes has
  weight 0, acquires nothing and runs beside it; `WeightAccounted` is what
  holds.
* A one-line function under 100 bytes that the printer breaks all the same (an if
  in its body, more than five statements) is not separated from the next one in
  the first run, only in the second (`format.go:576-583`).
* `func(a func(x int, y int), b func(x, y int))` needs two runs with
  `group_params`: the types are compared before they are grouped themselves.
* `-extra=group_params -extra=clothe_returns` enables the second alone, since
  `Extra.Set` starts afresh (`format.go:105`).
* `Report` returns exit code 1 for `errFormattingDiffers` even after an error
  made it 2 (`gofmt.go:309-314`).  The documentation promises no order.
* `restoreFail` writes to `os.Stderr` and not through the reporter
  (`gofmt.go:747-749`), so it is out of the order of `Add`.
* `backupFile` that fails after creating the file leaves a partial backup.
* Two tasks on one file, one of which fails to write, may restore over the
  other's text: `Undisturbed` leaves out that two tasks have the file and one has
  written the old text back.
* A nested module with a go.mod of its own is looked up in that module and not
  where the directive that ignores it is written (`gofmt.go:610-614`).
* `os.Create` failing for the cpu profile keeps a slot; the program then ends
  with nothing walked, so it costs nothing.
* `var (` `)` next to a lone `var` and a group needs two runs to settle
  (`decls` takes the empty group in files of two declarations only).
* A comment on a line of its own after the operator of an assignment ends up at the
  end of the operator's line; `testdata/script/assignment-newlines.txtar` wants it
  so, and `Newlines.CommentsStay` excepts it.
* A function with a signature of several lines and an empty body gets no line break
  before `) {`; `Newlines.Consistent` asks for one only if the body has something.
* A doc comment item that is nothing but the definition of a link is printed with
  its marker joined to what follows (`print.go:227-247`, `parse.go:696-731`);
  no comment of `MCDocComment` has such an item.
* "The heuristic will never trigger on a gofmt'ed comment" (`parse.go`) is false if
  all of the comment is indented, as `unindent` takes the indentation away first:
  `HeuristicsRest` asks for one unindented line.
* A reformatted doc comment changes once more if a list and code adjoin or if
  definitions of links move past other blocks; `Settled` leaves these out.
* The printer takes an empty `//` at column 1 that touches the next token for a doc
  comment, and drops it; `Printer.Said` leaves these out.
* A comment alone on its line, with a declaration other than the first on the same
  line after it, moves when the output is printed again; `MCPrinter` leaves it out.

## 6. Not modelled

| what | why |
| --- | --- |
| flags, standard input, early exits of `gofmtMain` | a sequence of tests on the values of flags; what `processFile` does under each is in `Sequencer`, `FileDescriptors` and `Rewrite` |
| fragments (`internal.go`) | text put around the input and taken off the output, a function of one input |
| `joinStdImports` | moves specs with their comments by positions; `Decls` has what it leaves to the joining of declarations |
| octal literals, `var` to `:=`, parentheses, the space in comments | each replaces one node or text by another and keeps nothing between them |
| `splitLongLine` | off unless an environment variable is set |
| `simplify.go`, `rewrite.go` | replacement of a node by another, as in gofmt |
| the printer's alignment (`text/tabwriter`), struct tags, type parameters, `SourcePos` and line directives, sizes of expressions | layout inside a line; the tabwriter is external |
| the text inside a line of a doc comment but for links | `SpansCover`, `TextKept` and the others are about lines |
| diff, `go/format`, `version.go`, `gen_govendor.go` | pure functions, or a development tool |

## 7. Plan

*Done*: sequencer, fdSem, rewriting, module cache and walk; top-level
declarations, the traversal with the extra rules, the rules on line breaks; the
printer and doc comments; the proofs of section 4.

What could follow, in order:

1. `Imports`: `joinStdImports` and `ast.SortImports` on lines and comments; which
   comment stays with which import when positions move (`setPos`).
2. `ProcessFile`: flags and standard input, composing `Sequencer` and `Rewrite`:
   what is listed, diffed, written, and the exit status of each.
3. `Fragment`: `parse` tried as file, declarations and statements, and `format`
   undoing what was added.
4. Proofs: that the second run of `Decls` finds nothing to do (`Stable`), and that the
   table of lines stays a table under the rules of `Newlines`.
