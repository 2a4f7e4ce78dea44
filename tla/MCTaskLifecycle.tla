-------------------------- MODULE MCTaskLifecycle --------------------------
(* TLC instances of TaskLifecycle. *)
EXTENDS TaskLifecycle

CONSTANTS a, b, d

\* a -> b -> d: the cascade has to go through b to reach d.
Chain == {<<a, b>>, <<b, d>>}
=============================================================================
