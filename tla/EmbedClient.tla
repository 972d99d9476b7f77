---------------------------- MODULE EmbedClient ----------------------------
(***************************************************************************)
(* The embedding path end to end: the retried calls of RayCall             *)
(* (clients/ray_embed.py) against one replica of EmbedBatch                *)
(* (models/embedding_engine.py).  Every attempt of a call is a request of  *)
(* its own at the replica, reached through the proxy of Ray Serve.  When   *)
(* a caller's departure is noticed, at once, later, with the next attempt  *)
(* under way, or never, its handler is cancelled, which may leave the      *)
(* group it shared with others unanswered; the timeouts and the retries of *)
(* the others are what recovers them.                                      *)
(*                                                                         *)
(* A hasty call may be cancelled, may time out at any moment and may be    *)
(* refused on its way; a patient one times out only where no answer will   *)
(* ever come, in the group of a collector that died.                       *)
(***************************************************************************)
EXTENDS RayCall, Sequences

CONSTANTS Hasty,   \* the calls that may leave, time out or be refused
          Text, Vector, Encode,  \* as in EmbedBatch
          Body,    \* Body[c]: the texts of call c
          NoTask   \* as in EmbedBatch

ASSUME HastyAssumption == Hasty \subseteq Call
ASSUME BodyAssumption == Body \in [Call -> Seq(Text)]
ASSUME EncodeAssumption == Encode \in [Text -> Vector]
ASSUME NoTaskAssumption == NoTask \notin Call \X (0 .. MaxRetries)

VARIABLES texts, handler, future, payload, pending, collector, task, group

replicaVars ==
    <<texts, handler, future, payload, pending, collector, task, group>>
allVars == <<vars, replicaVars>>

Attempt == Call \X (0 .. MaxRetries)
Current(c) == <<c, attempt[c]>>

Replica == INSTANCE EmbedBatch WITH
    Request <- Attempt, call <- handler,
    Bodies <- { Body[c] : c \in Call } \cup {<<>>}, Cancellable <- Attempt, Malformed <- {}

ClientInit == Init /\ Replica!Init

\* The attempt w waits in the group of a collector that died.
Stranded(w) ==
    /\ handler[w] = "parked" /\ future[w] = "waiting"
    /\ \E d \in Attempt : task[d] = "died" /\ w \in Replica!InGroup(d)

\* The steps of a call that the replica has no part in.
Alone(c) ==
    /\ Begin(c) \/ Send(c) \/ Retry(c) \/ (c \in Hasty /\ NoConnection(c))
    /\ UNCHANGED replicaVars

\* The proxy hands an attempt to the replica.
Reach(w) ==
    /\ w \in at_work
    /\ Replica!EmbedInGroup(w, Body[w[1]])
    /\ UNCHANGED vars

\* The replica's own steps.
ReplicaWorks(d) ==
    /\ Replica!Collect(d) \/ Replica!Finish(d) \/ Replica!Resume(d)
    /\ UNCHANGED vars

\* What the call gets is what the handler came to: its vectors, or the 500 of
\* an exception; a hasty call may get an error of the proxy in its place.
Answered(c) ==
    /\ Answer(c)
    /\ \/ handler[Current(c)] = "returned" /\ phase'[c] = "returned"
       \/ handler[Current(c)] = "raised" /\ error'[c] = "failing"
          /\ phase'[c] # "returned"
       \/ handler[Current(c)] = "new" /\ c \in Hasty /\ phase'[c] # "returned"
    /\ UNCHANGED replicaVars

\* A departure that is noticed at once cancels the handler.
Departs(c) ==
    IF Current(c) \notin at_work' /\ handler[Current(c)] = "parked"
    THEN Replica!Cancel(Current(c))
    ELSE UNCHANGED replicaVars

TimesOut(c) ==
    /\ c \in Hasty \/ Stranded(Current(c))
    /\ NoAnswer(c)
    /\ Departs(c)

Leaves(c) == c \in Hasty /\ Cancel(c) /\ Departs(c)

\* The end of an attempt that nobody waits for.
AnsweredToNobody(w) ==
    /\ handler[w] # "parked"
    /\ AnswerNobody(w)
    /\ UNCHANGED replicaVars

\* The proxy notices that nobody waits for an attempt any more.
NoticedLate(w) ==
    /\ AnswerNobody(w)
    /\ Replica!Cancel(w)

CallProceeds(c) == Alone(c) \/ Answered(c) \/ TimesOut(c)

ClientNext ==
    \/ \E c \in Call : CallProceeds(c) \/ Leaves(c)
    \/ \E w \in Attempt : Reach(w) \/ ReplicaWorks(w)
    \/ \E w \in at_work : AnsweredToNobody(w) \/ NoticedLate(w)

\* The timeouts of the client, the proxy's delivery both ways and the replica's
\* loop.  A proxy need not notice a departure.
ClientSpec ==
    /\ ClientInit /\ [][ClientNext]_allVars
    /\ \A c \in Call : WF_allVars(CallProceeds(c))
    /\ \A w \in Attempt : /\ WF_allVars(Reach(w)) /\ WF_allVars(ReplicaWorks(w))
                           /\ WF_allVars(AnsweredToNobody(w))
-----------------------------------------------------------------------------
\* The attempts of call p that its replica left without an answer.
Unanswered(p) == { n \in 0 .. MaxRetries :
                     Stranded(<<p, n>>) \/ future[<<p, n>>] = "cancelled" }

\* The attempts of hasty calls whose handler was cancelled in a group.
Departures == { w \in Hasty \X (0 .. MaxRetries) : future[w] = "cancelled" }

\* embedding_engine.py:117, "nobody waits forever", holds by the retries and
\* only so: each departure costs a patient call at most one attempt, whatever
\* the groups its attempts fall into, and an answered attempt brings the call
\* its own vectors.  So a call outlives as many departures as it has retries.
DepartureCostsOneAttempt ==
    \A p \in Call \ Hasty :
        /\ Cardinality(Unanswered(p)) <= Cardinality(Departures)
        /\ phase[p] = "returned" =>
               payload[Current(p)] = Replica!EncodeAll(Encode, Body[p])
        /\ phase[p] = "raised" => \A n \in 0 .. MaxRetries :
               n \in Unanswered(p) \/ future[<<p, n>>] = "exception"

\* A retry finds its predecessors still at work (ray_embed.py, a call that timed
\* out is sent again), but the doubled work passes: every attempt the service has
\* is done with in the end, answered, refused or noticed to be given up.  Only an
\* attempt behind a departure lingers, for as long as nobody notices.
OnlyStrandedWorkLingers ==
    \A w \in Attempt : w \in at_work ~> w \notin at_work \/ Stranded(w)
=============================================================================
