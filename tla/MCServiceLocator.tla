-------------------------- MODULE MCServiceLocator --------------------------
(* Instances of ServiceLocator for TLC. *)
EXTENDS ServiceLocator

CONSTANTS logger, store, t1, t2

\* store needs logger: in a scope that has one, logger is found or made again.
Services == {logger, store}
Chain == [s \in Services |-> IF s = store THEN {logger} ELSE {}]
AnyLifetime == [s \in Services |-> Lifetime]

=============================================================================
