SPECIFICATION Spec
CONSTANTS
  Root <- MCRoot
  Dirs <- MCDirs
  Parent <- MCParent
  Files <- MCFiles
  Children <- MCChildren
  GoFiles <- MCGoFiles
  Generated <- MCGenerated
  SkipNames <- MCSkipNames
  Letters <- MCLetters
  GoMods <- MCGoMods
  Ignores <- MCIgnores
  Failing <- MCFailing
  Arguments <- MCArguments
INVARIANTS
  AddsWanted
  FailsOnlyIfReached
