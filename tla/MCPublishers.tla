----------------------------- MODULE MCPublishers -----------------------------
(* Publishers on small instances.                                          *)
EXTENDS Publishers

(* The blocks of the heap are numbered, and malloc() gives the first of     *)
(* those that are free.  A free block is like any other, because nobody     *)
(* reads what it still holds: the rest of the behaviours are these with     *)
(* the blocks renamed.                                                      *)
FirstFit == \A n \in used' \ used : \A m \in Nodes \ used : n <= m
=============================================================================
