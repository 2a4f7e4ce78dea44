------------------------ MODULE MCSequentialExecutor ------------------------
(* TLC instances of SequentialExecutor. *)
EXTENDS SequentialExecutor, TLC

CONSTANTS a, b

\* a -> b, each a lineage of its own.
Chain == {<<a, b>>}
OwnRoot == [t \in Tasks |-> t]
=============================================================================
