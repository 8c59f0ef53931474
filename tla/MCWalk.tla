-------------------------------- MODULE MCWalk --------------------------------
(* TLC instance of Walk: the module m, in which i/d, pi/d and v look alike to  *)
(* careless matching (v stands for vendor), with one file in each directory.   *)
EXTENDS Walk, TLC

MCRoot     == <<>>
MCChildren ==
  (MCRoot           :> << <<"m">> >>) @@
  (<<"m">>           :> << <<"m", "a.go">>, <<"m", "i">>, <<"m", "pi">>,
                           <<"m", "v">>, <<"m", "z">> >>) @@
  (<<"m", "i">>      :> << <<"m", "i", "d">> >>) @@
  (<<"m", "i", "d">> :> << <<"m", "i", "d", "x.go">> >>) @@
  (<<"m", "pi">>     :> << <<"m", "pi", "d">>, <<"m", "pi", "i">>, <<"m", "pi", "x.go">> >>) @@
  (<<"m", "pi", "d">> :> << <<"m", "pi", "d", "a.go">> >>) @@
  (<<"m", "pi", "i">> :> << <<"m", "pi", "i", "d">> >>) @@
  (<<"m", "pi", "i", "d">> :> << <<"m", "pi", "i", "d", "a.go">> >>) @@
  (<<"m", "v">>      :> << <<"m", "v", "x.go">> >>)

MCDirs      == DOMAIN MCChildren
MCParent    == [d \in MCDirs |-> IF d = MCRoot THEN d ELSE SubSeq(d, 1, Len(d) - 1)]
MCFiles     == {f \in UNION {{MCChildren[d][i] : i \in 1..Len(MCChildren[d])} :
                             d \in MCDirs} : f \notin MCDirs}
MCGoFiles   == MCFiles \ {<<"m", "z">>}
MCGenerated == {<<"m", "v", "x.go">>, <<"m", "i", "d", "x.go">>}
MCSkipNames == {"v"}
MCLetters   == [m |-> <<"m">>, i |-> <<"i">>, d |-> <<"d">>, pi |-> <<"p", "i">>,
                v |-> <<"v">>, q |-> <<"q">>] @@ ("a.go" :> <<"a">>) @@ ("x.go" :> <<"x">>)
                @@ ("z" :> <<"z">>)

\* m is in a module of its own or in none; so is m/i.
MCGoMods    == {[d \in MCDirs |-> CASE d = <<"m">> -> s [] d = <<"m", "i">> -> t
                                    [] OTHER -> "missing"] :
                  s \in {"missing", "valid"}, t \in GoModStates}
MCIgnores   ==
  LET Rooted(names)   == [rooted |-> TRUE, names |-> names]
      Anywhere(names) == [rooted |-> FALSE, names |-> names]
  IN {{}, {Anywhere(<<"i", "d">>)}, {Rooted(<<"i", "d">>)}, {Anywhere(<<"d">>)},
      {Rooted(<<"d">>), Anywhere(<<"pi">>)}}
MCFailing   == {{}, {<<"m", "i", "d">>}, {<<"m", "v">>}, {<<"m", "pi", "d", "a.go">>},
                {<<"m", "v", "x.go">>}}
MCArguments == {<< <<"m">> >>, << <<"m", "i", "d">>, <<"m", "v", "x.go">> >>,
                << <<"m", "z">>, <<"m", "pi">> >>, << <<"m", "q">>, <<"m", "i">> >>}

=============================================================================
