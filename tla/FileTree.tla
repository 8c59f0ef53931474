------------------------------- MODULE FileTree -------------------------------
(***************************************************************************)
(* The directories gofumpt meets, and the module each of them is in: the   *)
(* definition loadModule is compared with (Modules), and what the walk may *)
(* rely on (Walk).  A module is known by the directory of its go.mod file. *)
(***************************************************************************)
CONSTANTS
  Dirs,    \* the directories, by their absolute paths
  Root,    \* the root of the file system
  Parent   \* filepath.Dir

ASSUME RootAssumption   == Root \in Dirs
ASSUME ParentAssumption == Parent \in [Dirs -> Dirs] /\ Parent[Root] = Root

\* Who climbs gets to the root: there is no set of directories to stay in for
\* ever that is without it.
ASSUME ClimbAssumption ==
  \A S \in SUBSET Dirs : S # {} /\ (\A d \in S : Parent[d] \in S) => Root \in S

Nil    == <<"nil">>       \* a nil *cachedModule
Absent == <<"absent">>    \* no entry in the cache
ASSUME NilAssumption == {Nil, Absent} \intersect Dirs = {}

\* What reading a go.mod comes to: os.ReadFile fails, modfile.Parse fails, or
\* neither does.
GoModStates == {"missing", "invalid", "valid"}

\* The directories filepath.Dir leads to from each, itself among them.
Above == [d \in Dirs |->
            {a \in Dirs : \A S \in SUBSET Dirs : d \in S /\ (\A x \in S : Parent[x] \in S) => a \in S}]

\* The closest to d of the directories above with a go.mod file that can be read.
Closest(gomod, d) ==
  {a \in Above[d] : /\ gomod[a] # "missing"
                    /\ \A b \in Above[d] : gomod[b] # "missing" => b \in Above[a]}

\* The module each directory is in: that of the closest, if its go.mod is valid.
Enclosing(gomod) ==
  [d \in Dirs |-> IF \E a \in Closest(gomod, d) : gomod[a] = "valid"
                  THEN CHOOSE a \in Closest(gomod, d) : gomod[a] = "valid"
                  ELSE Nil]

=============================================================================
