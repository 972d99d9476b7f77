--------------------------- MODULE MCEmbedClient ---------------------------
(* A small instance of EmbedClient for TLC: each call has a text of its own. *)
EXTENDS EmbedClient, TLC

MCBody   == [c \in Call |-> <<c>>]
MCVector == {<<"vector", t>> : t \in Text}
MCEncode == [t \in Text |-> <<"vector", t>>]
=============================================================================
