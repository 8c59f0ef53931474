------------------------------ MODULE MCRewrite ------------------------------
(* TLC instances of Rewrite: one task and up to three calls that fail, or two *)
(* tasks on the same file and up to two; which are given the file by its own  *)
(* name, or by a link whose text is shorter or longer than the file.          *)
EXTENDS Rewrite

CONSTANTS t1, t2

MCTasks     == {t1, t2}
MCLinks     == {1, 4}
MCScenarios ==
  {[given |-> {t1},     faults |-> 3, links |-> {}],
   [given |-> {t1, t2}, faults |-> 2, links |-> {}],
   [given |-> {t1},     faults |-> 3, links |-> MCLinks],
   [given |-> {t1, t2}, faults |-> 2, links |-> MCLinks]}

\* One task, given a link; and two, given the file, with no call that fails.
MCLinked == {[given |-> {t1}, faults |-> 0, links |-> MCLinks]}
MCTwice  == {[given |-> {t1, t2}, faults |-> 0, links |-> {}]}

=============================================================================
