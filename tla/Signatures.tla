------------------------------ MODULE Signatures ------------------------------
(***************************************************************************)
(* The traversal of a file (format/format.go, File) as far as functions    *)
(* go: astutil.Apply visits each node before and after its children, and   *)
(* the rules keep the functions they are in, the depth of blocks and when  *)
(* to split a line in variables of their own.  On the way the extra rules  *)
(* group the parameters of one type (group_params) and give naked returns  *)
(* the results of their function (clothe_returns).                         *)
(*                                                                         *)
(* gofumpt is run twice, the second time on what the printer made of the   *)
(* first result.  Comments and layout are left out, but for the line of a  *)
(* field, and so are statements that are neither blocks nor returns.       *)
(***************************************************************************)
EXTENDS Integers, Sequences, FiniteSets, FiniteSetsExt, SequencesExt

CONSTANTS
  Files,  \* syntax trees: functions from nodes to what is known of them
  Rules   \* the sets of extra rules that may be on

ASSUME RulesAssumption == Rules \subseteq SUBSET {"group_params", "clothe_returns"}

VARIABLES
  source,           \* the tree given
  extra,            \* Options.Extra
  tree,             \* the tree as it is now
  path,             \* the nodes the traversal is in, each with its next child
  parentFuncTypes,
  topFuncType,
  minSplitFactor,   \* in tenths
  blockLevel,
  outputs           \* the tree after each run

state  == <<parentFuncTypes, topFuncType, minSplitFactor, blockLevel>>
given  == <<source, extra>>
vars   == <<given, tree, path, state, outputs>>

\* No node.
Nil == <<>>

------------------------------------------------------------------------------
(* The tree.  A node has a kind, its children (kids) in the order they are   *)
(* visited and, by kind: names, of a Field, an Ident or the results of a     *)
(* ReturnStmt; line, of a Field; role, of a FieldList in its parent.  It is  *)
(* known by its place: the place of the node it is in, and its number there. *)

File  == <<0>>
Funcs == {"FuncDecl", "FuncLit"}
Others == {"GenDecl", "FuncType", "InterfaceType", "StructType", "ArrayType", "Field",
           "Ident"}
Kinds == Funcs \union Others \union {"File", "FieldList", "BlockStmt", "ReturnStmt"}
Roles == {"", "recv", "typeParams", "params", "results", "methods", "fields"}

\* The node that n is in, or n itself, at a depth.
Up(n, depth) == SubSeq(n, 1, depth)

\* Whether n can be reached in t.
Kept(t, n) ==
  \A k \in 2..Len(n) : Up(n, k - 1) \in DOMAIN t /\ Up(n, k) \in Range(t[Up(n, k - 1)].kids)

NodesOver(places) ==
  [kind : Kinds, kids : Seq(places), names : Seq(STRING), line : Nat, role : Roles]

IsTree(t) ==
  /\ t = [n \in DOMAIN t |-> t[n]] /\ File \in DOMAIN t
  /\ \E n \in DOMAIN t : \A m \in DOMAIN t : Len(m) <= Len(n)
  /\ \A n \in DOMAIN t :
       /\ n \in Seq(Nat) /\ n # <<>> /\ Up(n, 1) = File /\ Kept(t, n)
       /\ t[n] \in NodesOver(DOMAIN t)
       /\ \A k \in 1..Len(t[n].kids) : t[n].kids[k] = Append(n, k)

\* go/ast: functions are declared in the file, have a type, and returns are in
\* functions; a type has lists, its type parameters first, and a list has fields.
IsSyntax(t) ==
  \A n \in DOMAIN t :
    LET kids == Range(t[n].kids)
        Is(k, kind) == t[k].kind = kind
        Listed(k)   == t[k].role \in {"params", "results"}
    IN /\ Is(n, "File") <=> n = File
       /\ Is(n, "FuncDecl") => Len(n) = 2
       /\ t[n].kind \in Funcs =>
            \E type \in kids : \A k \in kids : Is(k, "FuncType") <=> k = type
       /\ Is(n, "FuncType") =>
            /\ \A k \in kids : Is(k, "FieldList")
            /\ \A j, k \in 1..Len(t[n].kids) :
                 j < k /\ Listed(t[n].kids[j]) => Listed(t[n].kids[k])
       /\ Is(n, "FieldList") => \A k \in kids : Is(k, "Field")
       /\ Is(n, "ReturnStmt") =>
            \E k \in 1..(Len(n) - 1) : t[Up(n, k)].kind \in Funcs

ASSUME FilesAssumption == \A t \in Files : IsTree(t) /\ IsSyntax(t)

Kind(n) == tree[n].kind
Node    == path[Len(path)].node
Nodes(t, kinds) == {n \in DOMAIN t : t[n].kind \in kinds}

TypeOf(t, func) ==
  CHOOSE n \in Range(t[func].kids) : t[n].kind = "FuncType"

\* The printer: an interface shows the first name of each of its fields.
ShownNames(t, list, field) ==
  IF t[list].role = "methods" /\ t[field].names # <<>>
  THEN <<t[field].names[1]>>
  ELSE t[field].names

\* A node as it is printed, given what its children are, whatever the lines.
PrintedAs(t, n, kids) ==
  CASE t[n].kind = "FieldList" ->
         <<t[n].role, [k \in 1..Len(t[n].kids) |->
             <<ShownNames(t, n, t[n].kids[k]), kids[k][2]>>]>>
    [] t[n].kind = "Ident" -> <<t[n].names[1], <<>>>>
    [] OTHER -> <<t[n].kind, kids>>

\* Each child's text or meaning.
KidsIn(text, t, n) == [k \in 1..Len(t[n].kids) |-> text[t[n].kids[k]]]

Printed(t) ==
  LET text[n \in DOMAIN t] == PrintedAs(t, n, KidsIn(text, t, n))
  IN text

\* What is read of that.
Reread(t) ==
  [n \in DOMAIN t |->
     IF \E list \in Nodes(t, {"FieldList"}) :
          t[list].role = "methods" /\ n \in Range(t[list].kids)
     THEN [t[n] EXCEPT !.names = IF @ = <<>> THEN @ ELSE <<@[1]>>]
     ELSE t[n]]

------------------------------------------------------------------------------

\* Both have names and are on one line, and their types print the same.
shouldMergeAdjacentFields(t, f1, f2) ==
  /\ t[f1].names # <<>> /\ t[f2].names # <<>>
  /\ t[f1].line = t[f2].line
  /\ Printed(t)[f1][2] = Printed(t)[f2][2]

\* Mutant of mergeAdjacentFields: a field merged into one is not merged with
\* what follows.
mergePairs(t, fields) ==
  LET merge(acc, f) ==
        LET l == Last(acc.fields) IN
        IF /\ acc.fields # <<>> /\ shouldMergeAdjacentFields(acc.tree, l, f)
           /\ acc.tree[l].names = t[l].names
        THEN [acc EXCEPT !.tree[l].names = @ \o t[f].names]
        ELSE [acc EXCEPT !.fields = Append(@, f)]
  IN FoldLeft(merge, [fields |-> <<>>, tree |-> t], fields)

\* Mutant of mergeAdjacentFields: whatever their types are.
mergeUntyped(t, fields) ==
  LET merge(acc, f) ==
        LET l == Last(acc.fields) IN
        IF /\ acc.fields # <<>> /\ acc.tree[l].names # <<>> /\ t[f].names # <<>>
           /\ t[l].line = t[f].line
        THEN [acc EXCEPT !.tree[l].names = @ \o t[f].names]
        ELSE [acc EXCEPT !.fields = Append(@, f)]
  IN FoldLeft(merge, [fields |-> <<>>, tree |-> t], fields)

\* The fields that are left, and the tree with their names, after some of the
\* fields.
Merging(t, fields) ==
  LET merged[k \in 0..Len(fields)] ==
        IF k = 0 THEN [fields |-> <<>>, tree |-> t]
        ELSE LET acc == merged[k - 1]
                 l   == Last(acc.fields)
                 f   == fields[k]
             IN IF acc.fields # <<>> /\ shouldMergeAdjacentFields(acc.tree, l, f)
                THEN [acc EXCEPT !.tree[l].names = @ \o t[f].names]
                ELSE [acc EXCEPT !.fields = Append(@, f)]
  IN merged

mergeAdjacentFields(t, fields) == Merging(t, fields)[Len(fields)]

\* The names the first fields declare, by how many there are.
Naming(t, fields) ==
  LET named[k \in 0..Len(fields)] ==
        IF k = 0 THEN <<>> ELSE named[k - 1] \o t[fields[k]].names
  IN named

NamesOf(t, list) == Naming(t, t[list].kids)[Len(t[list].kids)]

\* The names of the results, unless there are none or one is blank.
Clothes(t, type) ==
  LET results == {n \in Range(t[type].kids) : t[n].role = "results"}
      names   == IF results = {} THEN <<>> ELSE NamesOf(t, CHOOSE n \in results : TRUE)
  IN IF "_" \in Range(names) THEN <<>> ELSE names

------------------------------------------------------------------------------

Frame(n) == [node |-> n, next |-> 1]

Init ==
  /\ source \in Files
  /\ extra \in Rules
  /\ tree = source
  /\ path = <<Frame(File)>>
  /\ parentFuncTypes = <<>>
  /\ topFuncType = Nil
  /\ minSplitFactor = 4
  /\ blockLevel = 0
  /\ outputs = <<>>

\* The next child of Node is visited before its own children.
nextKid == path[Len(path)].next
CanEnter(kinds) ==
  /\ path # <<>>
  /\ nextKid <= Len(tree[Node].kids)
  /\ Kind(tree[Node].kids[nextKid]) \in kinds
Child  == tree[Node].kids[nextKid]
Descend ==
  path' = Append([path EXCEPT ![Len(path)].next = @ + 1], Frame(Child))

\* Node is visited again after its children.
CanLeave(kinds) ==
  /\ path # <<>>
  /\ nextKid > Len(tree[Node].kids)
  /\ Kind(Node) \in kinds
Ascend == path' = SubSeq(path, 1, Len(path) - 1)

EnterFunc ==
  /\ CanEnter(Funcs)
  /\ Descend
  /\ LET type == TypeOf(tree, Child) IN
       /\ parentFuncTypes' = Append(parentFuncTypes, type)
       /\ topFuncType' = IF Kind(Child) = "FuncDecl" THEN type ELSE topFuncType
  /\ UNCHANGED <<given, tree, minSplitFactor, blockLevel, outputs>>

\* The fields of anything but a struct are merged, an interface's too.
Groups(list) == "group_params" \in extra /\ tree[list].role # "fields"

\* The parameters and the results of a declared function change when to split.
EnterFieldList ==
  /\ CanEnter({"FieldList"})
  /\ Descend
  /\ LET merged == mergeAdjacentFields(tree, tree[Child].kids) IN
     tree' = IF Groups(Child)
             THEN [merged.tree EXCEPT ![Child].kids = merged.fields]
             ELSE tree
  /\ minSplitFactor' =
       CASE Node = topFuncType /\ tree[Child].role = "params"  -> 6
         [] Node = topFuncType /\ tree[Child].role = "results" -> 10000
         [] OTHER -> minSplitFactor
  /\ UNCHANGED <<given, parentFuncTypes, topFuncType, blockLevel, outputs>>

EnterBlock ==
  /\ CanEnter({"BlockStmt"})
  /\ Descend
  /\ blockLevel' = blockLevel + 1
  /\ UNCHANGED <<given, tree, parentFuncTypes, topFuncType, minSplitFactor, outputs>>

EnterReturn ==
  /\ CanEnter({"ReturnStmt"})
  /\ Descend
  /\ tree' = IF tree[Child].names = <<>> /\ "clothe_returns" \in extra
             THEN [tree EXCEPT ![Child].names = Clothes(tree, Last(parentFuncTypes))]
             ELSE tree
  /\ UNCHANGED <<given, state, outputs>>

EnterOther ==
  /\ CanEnter(Others)
  /\ Descend
  /\ UNCHANGED <<given, tree, state, outputs>>

\* Mutant of LeaveFunc: a function literal stays on the stack.
LeaveFuncDecl ==
  /\ CanLeave(Funcs)
  /\ Ascend
  /\ parentFuncTypes' = IF Kind(Node) = "FuncDecl" THEN Front(parentFuncTypes)
                        ELSE parentFuncTypes
  /\ UNCHANGED <<given, tree, topFuncType, minSplitFactor, blockLevel, outputs>>

LeaveFunc ==
  /\ CanLeave(Funcs)
  /\ Ascend
  /\ parentFuncTypes' = Front(parentFuncTypes)
  /\ UNCHANGED <<given, tree, topFuncType, minSplitFactor, blockLevel, outputs>>

\* Mutant of LeaveFuncType: the type of any function ends the signature.
LeaveAnyFuncType ==
  /\ CanLeave({"FuncType"})
  /\ Ascend
  /\ minSplitFactor' = 4
  /\ UNCHANGED <<given, tree, parentFuncTypes, topFuncType, blockLevel, outputs>>

LeaveFuncType ==
  /\ CanLeave({"FuncType"})
  /\ Ascend
  /\ minSplitFactor' = IF Node = topFuncType THEN 4 ELSE minSplitFactor
  /\ UNCHANGED <<given, tree, parentFuncTypes, topFuncType, blockLevel, outputs>>

LeaveBlock ==
  /\ CanLeave({"BlockStmt"})
  /\ Ascend
  /\ blockLevel' = blockLevel - 1
  /\ UNCHANGED <<given, tree, parentFuncTypes, topFuncType, minSplitFactor, outputs>>

LeaveOther ==
  /\ CanLeave((Others \ {"FuncType"}) \union {"File", "FieldList", "ReturnStmt"})
  /\ Ascend
  /\ UNCHANGED <<given, tree, state, outputs>>

\* The end of a run.  The second one has a fumpter of its own.
Finish ==
  /\ path = <<>>
  /\ Len(outputs) < 2
  /\ outputs' = Append(outputs, tree)
  /\ IF outputs = <<>>
     THEN /\ tree' = Reread(tree)
          /\ path' = <<Frame(File)>>
          /\ parentFuncTypes' = <<>>
          /\ topFuncType' = Nil
          /\ minSplitFactor' = 4
          /\ blockLevel' = 0
     ELSE UNCHANGED <<tree, path, state>>
  /\ UNCHANGED given

Done == Len(outputs) = 2 /\ UNCHANGED vars

Next ==
  \/ EnterFunc \/ EnterFieldList \/ EnterBlock \/ EnterReturn \/ EnterOther
  \/ LeaveFunc \/ LeaveFuncType \/ LeaveBlock \/ LeaveOther
  \/ Finish
  \/ Done

Spec == Init /\ [][Next]_vars

------------------------------------------------------------------------------

\* The variables of the fumpter say where the traversal is: the functions around
\* the node, innermost last, the blocks around it, and whether it is in the
\* parameters or the results of a declared function, however many other
\* functions, literals and types are in them.
Around(kinds) == {k \in 1..Len(path) : Kind(path[k].node) \in kinds}
Signature ==
  {k \in 2..Len(path) : /\ Kind(path[k - 1].node) = "FuncDecl"
                        /\ Kind(path[k].node) = "FuncType"}
Located ==
  /\ Len(parentFuncTypes) = Cardinality(Around(Funcs))
  /\ \A k \in Around(Funcs) :
       parentFuncTypes[Cardinality(Around(Funcs) \intersect (1..k))] = TypeOf(tree, path[k].node)
  /\ blockLevel = Cardinality(Around({"BlockStmt"}))
  /\ \A k \in Signature : k < Len(path) =>
       minSplitFactor = CASE tree[path[k + 1].node].role = "params"  -> 6
                          [] tree[path[k + 1].node].role = "results" -> 10000
                          [] OTHER -> 4
  /\ Signature = {} => minSplitFactor = 4

\* The function a node is in, and what its return is to return.
Owner(n) ==
  Up(n, Max({k \in 1..(Len(n) - 1) : source[Up(n, k)].kind \in Funcs}))
Returned(r) ==
  IF source[r].names = <<>> /\ "clothe_returns" \in extra
  THEN Clothes(source, TypeOf(source, Owner(r)))
  ELSE source[r].names

\* format.go:84, "ClotheReturns clothes naked returns in functions with named
\* results": each gets the names its own function gives its results, as they were
\* before they were grouped, and a return that has results keeps them.
ReturnsOwn ==
  Len(outputs) = 2 =>
    \A r \in Nodes(source, {"ReturnStmt"}), k \in 1..2 :
      Kept(outputs[k], r) => outputs[k][r].names = Returned(r)

\* What is declared, however it is grouped: a list is its names with their types.
One(t, list, field, type) ==
  LET names == ShownNames(t, list, field) IN
  IF names = <<>> THEN << <<"", type>> >>
  ELSE [j \in 1..Len(names) |-> <<names[j], type>>]
DeclaredAs(t, n, kids) ==
  CASE t[n].kind = "FieldList" ->
         <<t[n].role, FlattenSeq([k \in 1..Len(t[n].kids) |->
                        One(t, n, t[n].kids[k], kids[k][2])])>>
    [] t[n].kind = "Ident" -> <<t[n].names[1], <<>>>>
    [] OTHER -> <<t[n].kind, kids>>
Declared(t) ==
  LET meaning[n \in DOMAIN t] == DeclaredAs(t, n, KidsIn(meaning, t, n))
  IN meaning

\* format.go:147-149: formatting declares what was declared, in every list: no
\* parameter, result, method or type is lost, renamed or given another type.
FieldsKept ==
  Len(outputs) = 2 => \A k \in 1..2 : Declared(outputs[k])[File] = Declared(source)[File]

\* One run is enough.
Stable == Len(outputs) = 2 => outputs[2] = Reread(outputs[1])

===============================================================================
