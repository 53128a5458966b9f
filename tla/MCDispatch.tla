----------------------------- MODULE MCDispatch -----------------------------
(* Instances of Dispatch for TLC, with the translators of Arguments. *)
EXTENDS Dispatch, Arguments, TLC

Leaves == <<Leaf("none"), Leaf("number"), Leaf("object"), Leaf("function"),
            Node("asProxy", <<Leaf("function")>>)>>

\* A value of every kind that is not ambiguous, in lists and dicts and deeper;
\* and one of those that are.
Mixed ==
  {Node("list", <<Node("dict", <<Leaf("bytes"), Node("list", Leaves)>>),
                  Node("list", <<Node("dict", Leaves)>>)>> \o Leaves),
   Node("dict", <<Node("marked", <<Leaf("number")>>), Leaf("prefixed")>>)}

\* bytes as an argument, as an element of a list and as a value of a dict
Bytes ==
  {Leaf("bytes"), Node("list", <<Leaf("bytes")>>),
   Node("dict", <<Leaf("bytes")>>)}

Symmetry == Permutations(Requests)
=============================================================================
