------------------------------ MODULE MCObservers ------------------------------
(* Observers are interchangeable.                                          *)
EXTENDS Observers

Interchangeable == Permutations(Observer)
================================================================================
