----------------------------- MODULE MCExtraction -----------------------------
(***************************************************************************)
(* Small instances of Extraction for TLC.                                  *)
(***************************************************************************)
EXTENDS Extraction, TLC

\* Overlapping processes of one kind are interchangeable.
Symmetry == Permutations(Extractor) \cup Permutations(Reextractor)
=============================================================================
