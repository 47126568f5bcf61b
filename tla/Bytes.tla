------------------------------- MODULE Bytes --------------------------------
(***************************************************************************)
(* What texts, blocks and targets are made of.                             *)
(***************************************************************************)
EXTENDS Integers, Sequences

Byte == 0 .. 255

Bytes == Seq(Byte)
=============================================================================
