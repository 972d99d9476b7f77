---------------------------- MODULE EmbedService ----------------------------
(***************************************************************************)
(* What the embedding deployment promises each caller of __call__, with no *)
(* batching in sight: a request that is answered gets one vector per text, *)
(* in the order of its own texts, and an encode failure is raised to it    *)
(* instead.                                                                *)
(***************************************************************************)
EXTENDS EmbedSlices

CONSTANTS Request,      \* the requests the replica may receive
          Text,         \* the texts a request may carry
          Bodies,       \* the "text" lists of the bodies, each in Seq(Text)
          Encode,       \* the model: the vector of each text
          Cancellable   \* the requests whose caller may go away

VARIABLES texts,        \* texts[r]: the "text" list of r's body
          call,         \* call[r]: where r's __call__ is
          reply         \* reply[r]: the "embeddings" r was answered with

vars == <<texts, call, reply>>

Init ==
    /\ texts = [r \in Request |-> <<>>]
    /\ call  = [r \in Request |-> "new"]
    /\ reply = [r \in Request |-> <<>>]

Submit(r, ts) ==
    /\ call[r] = "new"
    /\ texts' = [texts EXCEPT ![r] = ts]
    /\ call'  = [call EXCEPT ![r] = "parked"]
    /\ UNCHANGED reply

Return(r) ==
    /\ call[r] = "parked"
    /\ call'  = [call EXCEPT ![r] = "returned"]
    /\ reply' = [reply EXCEPT ![r] = EncodeAll(Encode, texts[r])]
    /\ UNCHANGED texts

Raise(r) ==
    /\ call[r] = "parked"
    /\ call' = [call EXCEPT ![r] = "raised"]
    /\ UNCHANGED <<texts, reply>>

Abandon(r) ==
    /\ call[r] = "parked"
    /\ r \in Cancellable
    /\ call' = [call EXCEPT ![r] = "cancelled"]
    /\ UNCHANGED <<texts, reply>>

Next ==
    \E r \in Request :
        \/ \E ts \in Bodies : Submit(r, ts)
        \/ Return(r)
        \/ Raise(r)
        \/ Abandon(r)

Spec == Init /\ [][Next]_vars
=============================================================================
