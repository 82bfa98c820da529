---------------------------- MODULE MCMultiplexer ----------------------------
(* A small instance of Multiplexer: one key besides the two commands, a    *)
(* pump budget of two passes, two inputs a batch, and a write limit of one.   *)
EXTENDS Multiplexer

MCKeys == {"a"}
=============================================================================
