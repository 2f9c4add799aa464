------------------------------- MODULE MCBands -------------------------------
(* The instances of Bands for TLC.  Shapes are <<size, alignment>>: a byte,  *)
(* a word of four, and an instance of a block with no variables.             *)
EXTENDS Bands

Byte  == <<1, 1>>
Word  == <<4, 4>>
Empty == <<0, 1>>

SizedShapes == {Byte, Word}
AnyShapes   == {Byte, Word, Empty}
=============================================================================
