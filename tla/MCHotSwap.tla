----------------------------- MODULE MCHotSwap -----------------------------
(* Instance of HotSwap for TLC.                                            *)
EXTENDS HotSwap

\* Program "b" shares a symbol with "a" at another offset; its other version
\* declares that symbol with another type, so it cannot be armed over "a".
MCPackages == {
  [id |-> "a", hash |-> 1, bumpless |-> TRUE,
   retain |-> <<<<"x", "INT">>, <<"y", "INT">>>>, refused |-> "none"],
  [id |-> "b", hash |-> 1, bumpless |-> TRUE,
   retain |-> <<<<"y", "INT">>>>, refused |-> "none"],
  [id |-> "b", hash |-> 2, bumpless |-> TRUE,
   retain |-> <<<<"y", "REAL">>>>, refused |-> "none"]}

\* The first of each id is there from the start.
MCShipped == {k \in MCPackages : k.hash = 1}

\* One program of each id, for the runs about pointers and the store.
MCTwoPackages == {
  [id |-> "a", hash |-> 1, bumpless |-> FALSE, retain |-> <<>>, refused |-> "none"],
  [id |-> "b", hash |-> 2, bumpless |-> FALSE, retain |-> <<>>, refused |-> "none"]}

=============================================================================
