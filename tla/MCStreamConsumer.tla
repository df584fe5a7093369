-------------------------- MODULE MCStreamConsumer --------------------------
(* Instances of StreamConsumer for TLC.                                    *)
EXTENDS StreamConsumer, TLC

CONSTANTS d1, d2, x1, x2

\* Two documents in two indexes, written one by one; one index is deleted;
\* bad messages.
TwoIndexes == (d1 :> x1) @@ (d2 :> x2)
TwoIndexMessages ==
    { [kind |-> "docs", docs |-> {d1}],
      [kind |-> "docs", docs |-> {d2}],
      [kind |-> "delete_index", docs |-> {d2}],
      [kind |-> "bad", docs |-> {}] }

\* One document, the same message each time: what matters is which arrive.
OneIndex == d1 :> x1
OneIndexMessages == { [kind |-> "docs", docs |-> {d1}] }
=============================================================================
