------------------------------ MODULE MCDstack ------------------------------
(* Instances of the data stack for TLC: two items, blocks of up to five     *)
(* words, one size that is no multiple of a word.                           *)
EXTENDS Dstack

Sizes == {0, 16, 20}
Steps == {8, 12}
=============================================================================
