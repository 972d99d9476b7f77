---------------------------- MODULE EmbedSlices ----------------------------
(***************************************************************************)
(* The merge and the split of a shared encode pass, the arithmetic of      *)
(* _collect_group_then_encode: every request's texts are concatenated into *)
(* one list, the model returns one vector per text, and consecutive slices *)
(* go back to consecutive requests.                                        *)
(*                                                                         *)
(* `bs` is the group: the sequence of the requests' text lists, in arrival *)
(* order.  A slot <<j, k>> is the k-th text of the j-th request.  Positions *)
(* are counted with cardinalities instead of recursion, so that the module *)
(* can be reasoned about for every group.                                  *)
(***************************************************************************)
EXTENDS Integers, Sequences, FiniteSets

\* The slots of the j-th request, and of the first n requests, of the group.
Row(bs, j) == {j} \X (1 .. Len(bs[j]))
Slots(bs, n) == UNION { Row(bs, j) : j \in 1 .. n }

\* The loop variable `start` when the split reaches the i-th request.
Start(bs, i) == Cardinality(Slots(bs, i - 1))

\* len(flat)
Total(bs) == Cardinality(Slots(bs, Len(bs)))

\* The slot whose text the comprehension puts at position p of `flat`.
SlotAt(bs, p) ==
    CHOOSE s \in Slots(bs, Len(bs)) : Start(bs, s[1]) + s[2] = p

\* flat = [text for texts, _ in pending for text in texts]
Flat(bs) == [p \in 1 .. Total(bs) |-> bs[SlotAt(bs, p)[1]][SlotAt(bs, p)[2]]]

\* Slip: `start = end` is missing, so every slice is cut from the front.
ShareFromFront(bs, vectors, i) == SubSeq(vectors, 1, Len(bs[i]))

\* Slip: an exclusive end used as an inclusive one.
ShareOneShort(bs, vectors, i) ==
    SubSeq(vectors, Start(bs, i) + 1, Start(bs, i) + Len(bs[i]) - 1)

\* vectors[start:end], the share of the i-th request.
Share(bs, vectors, i) ==
    SubSeq(vectors, Start(bs, i) + 1, Start(bs, i) + Len(bs[i]))

\* Slip: the texts themselves are handed back.
EchoTexts(Encode, ts) == ts

\* The model maps each text to its vector and keeps their order.
EncodeAll(Encode, ts) == [k \in 1 .. Len(ts) |-> Encode[ts[k]]]
=============================================================================
