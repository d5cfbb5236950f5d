------------------------------ MODULE MCEtagCache ------------------------------
(* EtagCache over two titles, with a filter that matches one and one that     *)
(* matches both.                                                              *)
EXTENDS EtagCache, TLC

CONSTANTS t1, t2, x

MCTitle == {t1, t2}
MCQuery == {{t1}, {t1, t2}}

EmptyTable == [t \in MCTitle |-> None]
OneRow == [EmptyTable EXCEPT ![t1] = [content |-> x, stamp |-> 0]]

Symmetry == Permutations(Client) \cup Permutations(Writer) \cup Permutations(Content)
=============================================================================
