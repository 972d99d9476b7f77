---------------------------- MODULE MCEmbedBatch ----------------------------
(* Small instances of EmbedBatch for TLC. *)
EXTENDS EmbedBatch, TLC

CONSTANTS t1, t2

MCBodies == {<<>>, <<t1>>, <<t2, t1>>}
MCVector == {<<"vector", t>> : t \in Text}
MCEncode == [t \in Text |-> <<"vector", t>>]
=============================================================================
