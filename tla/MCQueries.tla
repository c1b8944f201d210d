----------------------------- MODULE MCQueries ------------------------------
EXTENDS Queries, TLC

CONSTANTS c1, c2, driver, x, y, z, b1, b2, rule

MCOwner == 1 :> c1 @@ 2 :> c2 @@ 3 :> c1
MCLinkEnds == 1 :> {1, 2} @@ 2 :> {2, 3} @@ 3 :> {1, 3}
MCInterval == c1 :> 1 @@ c2 :> 2

\* Two resources of one connection and one of another; a rule proposes nothing,
\* one or two relations, or what is refused.
MCKeptBy == x :> c1 @@ y :> c2 @@ z :> c2
MCPairs == {<<z, y>>, <<x, y>>}
Guess(ends, inputs, confidence) == [ends |-> ends, inputs |-> inputs, confidence |-> confidence]
MCProposals ==
    {{}, {Guess(<<x, y>>, {x}, 1)},
     {Guess(<<x, y>>, {x}, 1), Guess(<<z, y>>, {x, z}, 1)},
     {Guess(<<x, y>>, {x}, 1), Guess(<<x, y>>, {x}, 2)},
     {Guess(<<x, y>>, {}, 1)}}

=============================================================================
