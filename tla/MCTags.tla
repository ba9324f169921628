-------------------------------- MODULE MCTags --------------------------------
(* Instances of Tags for TLC. *)
EXTENDS Tags, TLC

CONSTANTS h1, h2, a, b

\* One host with tags of its own; and two that share one.
OwnTags    == << <<h1, a>> >>
SharedTags == << <<h1, a>>, <<h1, b>>, <<h2, a>> >>

SomeWants == {{}, {a}, {a, b}}

Symmetry == Permutations(Requests)
=============================================================================
