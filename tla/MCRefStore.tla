------------------------------ MODULE MCRefStore ------------------------------
(* Small instances of RefStore. *)
EXTENDS RefStore, TLC

CONSTANTS Other, t1, t2

MCRefs == {Latest, Main, Other}

FF(r, o, n)    == [name |-> r, old |-> o, new |-> n, force |-> FALSE]
Force(r, n)    == [name |-> r, old |-> NoTarget, new |-> n, force |-> TRUE]
Single(u)      == [kind |-> "single", updates |-> <<u>>]
Batch(us)      == [kind |-> "batch", updates |-> us]

(* Three pushes that contend for two rows, one of them in both orders, and  *)
(* an empty one, which is refused.                                         *)
ContendedRequests ==
    { Batch(<<>>),
      Single(FF(Main, t1, t2)),
      Batch(<<FF(Latest, NoTarget, t1)>>),
      Batch(<<Force(Main, t2), Force(Latest, t2)>>) }

Symmetry == Permutations(Pushes)

(* Two clients move the same ref. *)
RacingRequests ==
    { Single(FF(Other, NoTarget, t1)), Single(FF(Other, NoTarget, t2)),
      Single(FF(Other, t1, t2)) }
=============================================================================
