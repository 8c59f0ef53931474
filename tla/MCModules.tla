------------------------------ MODULE MCModules ------------------------------
\* TLC instance of Modules: a root with one directory that has two of its own,
\* so that two callers share the way up from different starts.
EXTENDS Modules

MCRoot   == <<>>
MCDirs   == {MCRoot, <<"m">>, <<"m", "a">>, <<"m", "b">>}
MCParent == [d \in MCDirs |-> IF d = MCRoot THEN d ELSE SubSeq(d, 1, Len(d) - 1)]

=============================================================================
