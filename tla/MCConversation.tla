--------------------------- MODULE MCConversation ---------------------------
(* Small instances of Conversation for TLC. *)
EXTENDS Conversation, TLC

CONSTANTS q1, q2, q3, s1

\* q1 and q3 are each a paraphrase of q2, and not of one another.
MCSimilar == {<<q, q>> : q \in Question}
                 \cup {<<q1, q2>>, <<q2, q1>>, <<q2, q3>>, <<q3, q2>>}

Body(k, q, s) == [kind |-> k, question |-> q, session |-> s]

\* Turns of one conversation through each of the routes, and a one-off
\* question whose answer travels to them through the caches.
MixedBodies == {Body("ask", q1, NoSession), Body("ask", q2, s1),
                Body("agent", q2, s1), Body("chat", q3, s1),
                Body("chat", q2, NoSession)}

\* Chat turns of one conversation.
ChatBodies == {Body("chat", q, s1) : q \in {q1, q3}}

Symmetry == Permutations(Request)
=============================================================================
