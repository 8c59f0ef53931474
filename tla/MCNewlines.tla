------------------------------ MODULE MCNewlines ------------------------------
(* TLC instances of Newlines: one or two functions or types of each kind, with *)
(* every choice of line breaks between the items that may have some, or a      *)
(* comment between two of them.                                                *)
EXTENDS Newlines, TLC

Item(i) == [at |-> i, to |-> i, lit |-> FALSE]
Span(i, j) == [at |-> i, to |-> j, lit |-> FALSE]
Lit(i, j) == [at |-> i, to |-> j, lit |-> TRUE]

\* Nodes.
Fields(open, list, close) == [kind |-> "fields", open |-> open, list |-> list, close |-> close]
None == Fields(0, <<>>, 0)
Block(open, list, close) ==
  [kind |-> "block", open |-> open, list |-> list, close |-> close, checks |-> {}, sign |-> <<>>, cond |-> <<>>]
Body(params, results, to, block) ==
  [block EXCEPT !.sign = <<[at |-> 1, to |-> to, params |-> params, results |-> results]>>]
Literal(open, list, close) == [kind |-> "literal", open |-> open, list |-> list, close |-> close]
Call(open, list, close) == [kind |-> "call", open |-> open, list |-> list, close |-> close]
Assign(tok, value, binary) == [kind |-> "assign", tok |-> tok, value |-> value, binary |-> binary]
Case(at, list, colon, long) ==
  [kind |-> "case", at |-> at, list |-> list, colon |-> colon, long |-> long, checks |-> {}]
Comm(list, checks) == [kind |-> "comm", list |-> list, checks |-> checks]

\* A template: the line breaks there may be before each item, which are the
\* least ones, and the nodes in the order of their rules.
Glued == {0}
Free  == {0, 1}
Wide   == {0, 1, 2}
Line1 == {1}
Lines == {1, 2}
New(gaps, nodes, tall, closes) == [gaps |-> gaps, nodes |-> nodes, tall |-> tall, closes |-> closes]

\* func ( ) {
Header == <<Glued, Glued, Free, Glued>>
Void(block) == <<Fields(2, <<>>, 3), Body(Fields(2, <<>>, 3), None, 3, block)>>
InFunc(gaps, list, close, checks, nodes, tall, closes) ==
  New(<<Glued, Glued, Glued, Glued>> \o gaps \o <<Line1>>,
      Void([Block(4, list, close) EXCEPT !.checks = checks]) \o nodes, tall, closes)

Templates == {
  \* func ( ) { x y }
  New(Header \o <<Lines, Lines, Lines>>, Void(Block(4, <<Item(5), Item(6)>>, 7)), {}, {}),
  \* func ( ) { }
  New(Header \o <<Wide>>, Void(Block(4, <<>>, 5)), {}, {}),
  \* func ( x y ) ( z ) { x }
  New(<<Glued, Glued, Wide, Wide, Free, Glued, Free, Free, Glued, Lines, Lines>>,
      <<Fields(2, <<Item(3), Item(4)>>, 5), Fields(6, <<Item(7)>>, 8),
        Body(Fields(2, <<Item(3), Item(4)>>, 5), Fields(6, <<Item(7)>>, 8), 8, Block(9, <<Item(10)>>, 11))>>, {}, {}),
  \* func ( x y ) z { }
  New(<<Glued, Glued, Wide, Wide, Free, Glued, Glued, Wide>>,
      <<Fields(2, <<Item(3), Item(4)>>, 5), Fields(0, <<Item(6)>>, 0),
        Body(Fields(2, <<Item(3), Item(4)>>, 5), Fields(0, <<Item(6)>>, 0), 6, Block(7, <<>>, 8))>>, {}, {}),
  \* if x && y { z }
  InFunc(<<Lines, Glued, Free, Glued, Lines, Lines>>, <<Span(5, 10)>>, 11, {},
         <<[Block(8, <<Item(9)>>, 10) EXCEPT !.cond = <<Span(6, 7)>>]>>, {}, {}),
  \* for { x y } for { }
  InFunc(<<Line1, Glued, Lines, Lines, Lines, Lines, Glued, Lines>>, <<Span(5, 9), Span(10, 12)>>, 13, {},
         <<Block(6, <<Item(7), Item(8)>>, 9), Block(11, <<>>, 12)>>, {}, {}),
  \* err = x if err != nil { y } z
  InFunc(<<Line1, Glued, Wide, Lines, Glued, Glued, Lines, Lines, Lines>>, <<Span(5, 7), Span(8, 12), Item(13)>>, 14, {1},
         <<Assign(6, 7, FALSE), Block(10, <<Item(11)>>, 12)>>, {}, {}),
  \* select { case x: err = y if err != nil { z } }
  InFunc(<<Line1, Glued, Lines, Glued, Lines, Glued, Glued, Lines, Glued, Lines, Lines, Line1>>, <<Span(5, 16)>>, 17, {},
         <<Block(6, <<Span(7, 15)>>, 16), Comm(<<Span(9, 11), Span(12, 15)>>, {1}), Assign(10, 11, FALSE),
           Block(13, <<Item(14)>>, 15)>>, {}, {}),
  \* switch { case x, y: z }, long or not
  InFunc(<<Line1, Glued, Lines, Free, Wide, Free, Lines, Lines>>, <<Span(5, 12)>>, 13, {},
         <<Block(6, <<Span(7, 11)>>, 12), Case(7, <<Item(11)>>, 10, FALSE)>>, {}, {}),
  InFunc(<<Line1, Glued, Lines, Free, Wide, Free, Lines, Lines>>, <<Span(5, 12)>>, 13, {},
         <<Block(6, <<Span(7, 11)>>, 12), Case(7, <<Item(11)>>, 10, TRUE)>>, {}, {}),
  \* x = y + z
  InFunc(<<Lines, Glued, Wide, Glued, Wide, Lines>>, <<Span(5, 9), Item(10)>>, 11, {}, <<Assign(6, 7, TRUE)>>, {}, {}),
  \* x = T { y T { z } T { x } }
  InFunc(<<Line1, Glued, Free, Glued, Wide, Wide, Glued, Free, Free, Wide, Glued, Free, Free, Wide>>,
         <<Span(5, 18)>>, 19, {},
         <<Assign(6, 7, FALSE), Literal(11, <<Item(12)>>, 13), Literal(15, <<Item(16)>>, 17),
           Literal(8, <<Item(9), Lit(10, 13), Lit(14, 17)>>, 18)>>, {}, {13, 17, 18}),
  \* T { `raw` x } T { }
  InFunc(<<Line1, Glued, Wide, Wide, Wide, Line1, Glued, Wide>>, <<Span(5, 9), Span(10, 12)>>, 13, {},
         <<Literal(6, <<Item(7), Item(8)>>, 9), Literal(11, <<>>, 12)>>, {7}, {9, 12}),
  \* f ( x func ( ) { y } )
  InFunc(<<Line1, Glued, Wide, Wide, Glued, Glued, Glued, Lines, Lines, Free>>, <<Span(5, 14)>>, 15, {},
         <<Fields(9, <<>>, 10), Body(Fields(9, <<>>, 10), None, 10, Block(11, <<Item(12)>>, 13)),
           Call(6, <<Item(7), Span(8, 13)>>, 14)>>, {}, {14}),
  \* f ( T { x } )
  InFunc(<<Line1, Glued, Wide, Glued, Wide, Free, Free>>, <<Span(5, 11)>>, 12, {},
         <<Literal(8, <<Item(9)>>, 10), Call(6, <<Lit(7, 10)>>, 11)>>, {}, {10, 11}),
  \* type interface { x y }
  New(<<Glued, Glued, Glued, Lines, Lines, Lines>>,
      <<[kind |-> "interface", at |-> 2, list |-> <<Item(4), Item(5)>>], Fields(3, <<Item(4), Item(5)>>, 6)>>, {}, {}),
  \* type struct { }
  New(<<Glued, Glued, Glued, Wide>>, <<Fields(3, <<>>, 4)>>, {}, {})}

------------------------------------------------------------------------------
Least(t) == [k \in DOMAIN t.gaps |-> Min(t.gaps[k])]
Layouts(t) ==
  FoldLeft(LAMBDA s, choice : {Append(x, n) : x \in s, n \in choice}, {<<>>}, t.gaps)

\* Where the printer keeps a comment as it is.
Places(t) == {k \in DOMAIN t.gaps : t.gaps[k] \notin {Glued, Line1}}

\* A comment, with line breaks on both sides, and the others least or most.
Commented(t) ==
  UNION {{[gaps |-> [gaps EXCEPT ![k] = n],
           comments |-> k :> [kind |-> kind, gap |-> m, own |-> m > 0]]
            : gaps \in {Least(t), [j \in DOMAIN t.gaps |-> Max(t.gaps[j])]},
              kind \in {"//", "/*"}, m \in 0..2, n \in t.gaps[k] \union {1}}
           : k \in Places(t)}

SourceOf(t, x) ==
  [gaps |-> x.gaps, comments |-> x.comments, nodes |-> t.nodes, tall |-> t.tall, closes |-> t.closes]

\* An empty line after { of a literal whose last element is on the line of }:
\* when it is removed the line of } is not looked up again.
Stale(s) ==
  \E n \in DOMAIN s.nodes :
    LET node == s.nodes[n]
        first == node.open + 1
    IN /\ node.kind = "literal" /\ node.list # <<>>
       /\ s.gaps[node.close] = 0
       /\ 2 = IF first \in DOMAIN s.comments THEN s.comments[first].gap ELSE s.gaps[first]

Valid(x) == \A k \in DOMAIN x.comments : x.comments[k].kind = "//" => x.gaps[k] > 0

All ==
  UNION {{SourceOf(t, x) : x \in {y \in {[gaps |-> gaps, comments |-> <<>>] : gaps \in Layouts(t)} \union Commented(t) :
                                    Valid(y)}} : t \in Templates}
MCSources == {s \in All : ~Stale(s)}
MCStaleSources == {s \in All : Stale(s) /\ s.comments = <<>>}

================================================================================
