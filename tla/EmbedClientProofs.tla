-------------------------- MODULE EmbedClientProofs --------------------------
(***************************************************************************)
(* Theorems about RayCall, for every set of calls, every number of retries *)
(* and every size of the pool: its types, and when an error surfaces.      *)
(*                                                                         *)
(* Then the embedding path, which is made of its parts: every behaviour of *)
(* EmbedClient is one of RayCall and one of EmbedBatch, so what is proved  *)
(* of each of them alone holds of the two together.  Last, what neither    *)
(* says alone: a departure costs another call no more than one attempt.    *)
(***************************************************************************)
EXTENDS EmbedClient, FiniteSetTheorems, TLAPS

\* No attempt is ahead of its call's counter, and the call is waiting for it, or
\* has given it up.
Order == \A w \in at_work : w[2] <= attempt[w[1]]
Behind == \A w \in at_work :
    w[2] < attempt[w[1]] \/ phase[w[1]] \in {"sent", "waiting", "raised", "cancelled"}
IInv == TypeOK /\ RaisesWhenSpent /\ Order /\ Behind

\* What holds of a raised error, after the step that raised it.
LEMMA ExceptKeeps ==
    ASSUME IInv, NEW c \in Call, NEW e \in Errors, Except(c, e)
    PROVE  /\ phase' \in [Call -> Phases]
           /\ attempt' = attempt
           /\ error' \in [Call -> Errors \cup {"none"}]
           /\ RaisesWhenSpent'
           /\ phase'[c] \in {"waiting", "raised"}
           /\ \A d \in Call \ {c} : phase'[d] = phase[d]
<1>1. phase \in [Call -> Phases] /\ attempt \in [Call -> 0 .. MaxRetries]
      /\ error \in [Call -> Errors \cup {"none"}] /\ RaisesWhenSpent
  BY DEF IInv, TypeOK
<1>2. phase' = [phase EXCEPT ![c] =
                  IF e \in RetryOn /\ ~GivesUp(c) THEN "waiting" ELSE "raised"]
      /\ error' = [error EXCEPT ![c] = e] /\ attempt' = attempt
  BY DEF Except
<1>3. phase' \in [Call -> Phases] /\ phase'[c] \in {"waiting", "raised"}
      /\ \A d \in Call \ {c} : phase'[d] = phase[d]
  BY <1>1, <1>2 DEF Phases
<1>4. error' \in [Call -> Errors \cup {"none"}]
  BY <1>1, <1>2
<1>5. ASSUME NEW d \in Call
      PROVE  /\ phase'[d] = "raised" /\ error'[d] \in RetryOn => attempt'[d] = MaxRetries
             /\ phase'[d] = "waiting" => error'[d] \in RetryOn /\ attempt'[d] < MaxRetries
  <2>1. CASE d = c
    <3>1. error'[d] = e /\ attempt'[d] = attempt[c] /\ attempt[c] \in 0 .. MaxRetries
      BY <2>1, <1>1, <1>2
    <3>2. CASE e \in RetryOn /\ attempt[c] # MaxRetries
      <4>1. phase'[d] = "waiting"
        BY <3>2, <2>1, <1>1, <1>2 DEF GivesUp
      <4> QED
        BY <3>1, <3>2, <4>1, MaxRetriesAssumption
    <3>3. CASE ~(e \in RetryOn /\ attempt[c] # MaxRetries)
      <4>1. phase'[d] = "raised"
        BY <3>3, <2>1, <1>1, <1>2 DEF GivesUp
      <4> QED
        BY <3>1, <3>3, <4>1
    <3> QED
      BY <3>2, <3>3
  <2>2. CASE d # c
    <3>1. error'[d] = error[d] /\ attempt'[d] = attempt[d] /\ phase'[d] = phase[d]
      BY <2>2, <1>1, <1>2
    <3> QED
      BY <3>1, <1>1 DEF RaisesWhenSpent
  <2> QED
    BY <2>1, <2>2
<1> QED
  BY <1>2, <1>3, <1>4, <1>5 DEF RaisesWhenSpent

\* The strengthened invariant is inductive.
LEMMA IInvCorrect == Spec => []IInv
<1>1. Init => IInv
  <2> SUFFICES ASSUME Init PROVE IInv
    OBVIOUS
  <2>1. TypeOK /\ RaisesWhenSpent /\ Order /\ Behind
    BY MaxRetriesAssumption DEF Init, TypeOK, Phases, RaisesWhenSpent, Order, Behind
  <2> QED
    BY <2>1 DEF IInv
<1>2. IInv /\ [Next]_vars => IInv'
  <2> SUFFICES ASSUME IInv, [Next]_vars PROVE IInv'
    OBVIOUS
  <2> USE MaxRetriesAssumption
  <2>1. TypeOK /\ RaisesWhenSpent /\ Order /\ Behind
    BY DEF IInv
  <2>2. ASSUME NEW c \in Call, Begin(c) PROVE IInv'
    <3>1. TypeOK' /\ RaisesWhenSpent'
      BY <2>1, <2>2 DEF Begin, TypeOK, Phases, RaisesWhenSpent
    <3>2. Order' /\ Behind'
      BY <2>1, <2>2 DEF Begin, TypeOK, Order, Behind
    <3> QED
      BY <3>1, <3>2 DEF IInv
  <2>3. ASSUME NEW c \in Call, Send(c) PROVE IInv'
    <3>1. TypeOK' /\ RaisesWhenSpent'
      BY <2>1, <2>3 DEF Send, TypeOK, Phases, RaisesWhenSpent
    <3>2. Order' /\ Behind'
      BY <2>1, <2>3 DEF Send, TypeOK, Order, Behind
    <3> QED
      BY <3>1, <3>2 DEF IInv
  <2>4. ASSUME NEW c \in Call, NEW e \in Errors, Except(c, e), at_work' \subseteq at_work,
               phase[c] # "queued" \/ at_work' = at_work
        PROVE  IInv'
    <3>1. /\ phase' \in [Call -> Phases]
          /\ attempt' = attempt
          /\ error' \in [Call -> Errors \cup {"none"}]
          /\ RaisesWhenSpent'
          /\ phase'[c] \in {"waiting", "raised"}
          /\ \A d \in Call \ {c} : phase'[d] = phase[d]
      BY <2>4, ExceptKeeps
    <3>2. TypeOK'
      BY <2>1, <2>4, <3>1 DEF TypeOK
    <3>3. Order'
      BY <2>1, <2>4, <3>1 DEF TypeOK, Order
    <3>4. Behind'
      BY <2>1, <2>4, <3>1 DEF TypeOK, Behind
    <3> QED
      BY <3>1, <3>2, <3>3, <3>4 DEF IInv
  <2>5. ASSUME NEW c \in Call, NoConnection(c) PROVE IInv'
    BY <2>4, <2>5 DEF NoConnection, Errors, RetryOn
  <2>6. ASSUME NEW c \in Call, NoAnswer(c) PROVE IInv'
    <3>1. at_work' \subseteq at_work /\ phase[c] # "queued"
      BY <2>6 DEF NoAnswer
    <3> QED
      BY <2>4, <2>6, <3>1 DEF NoAnswer, Errors, RetryOn
  <2>7. ASSUME NEW c \in Call, Answer(c) PROVE IInv'
    <3>1. at_work' \subseteq at_work /\ phase[c] = "sent"
      BY <2>7 DEF Answer
    <3>2. CASE phase' = [phase EXCEPT ![c] = "returned"] /\ UNCHANGED <<attempt, error>>
      <4>1. TypeOK' /\ RaisesWhenSpent'
        BY <2>1, <3>1, <3>2 DEF TypeOK, Phases, RaisesWhenSpent
      <4>2. Order'
        BY <2>1, <3>1, <3>2 DEF TypeOK, Order
      <4>3. Behind'
        <5> SUFFICES ASSUME NEW w \in at_work'
                     PROVE  w[2] < attempt'[w[1]]
                            \/ phase'[w[1]] \in {"sent", "waiting", "raised", "cancelled"}
          BY DEF Behind
        <5>1. w \in Call \X (0 .. MaxRetries) /\ w \in at_work /\ w # <<c, attempt[c]>>
          BY <2>1, <2>7 DEF Answer, TypeOK
        <5>2. w[1] = c => w[2] < attempt[c]
          BY <2>1, <5>1 DEF Order, TypeOK
        <5> QED
          BY <2>1, <3>2, <5>1, <5>2 DEF Behind, TypeOK
      <4> QED
        BY <4>1, <4>2, <4>3 DEF IInv
    <3>3. CASE \E e \in {"failing", "refused", "malformed"} : Except(c, e)
      BY <2>4, <3>1, <3>3 DEF Errors, RetryOn
    <3> QED
      BY <2>7, <3>2, <3>3 DEF Answer
  <2>8. ASSUME NEW c \in Call, Retry(c) PROVE IInv'
    <3>1. TypeOK' /\ RaisesWhenSpent'
      BY <2>1, <2>8 DEF Retry, TypeOK, Phases, RaisesWhenSpent
    <3>2. Order' /\ Behind'
      BY <2>1, <2>8 DEF Retry, TypeOK, Order, Behind
    <3> QED
      BY <3>1, <3>2 DEF IInv
  <2>9. ASSUME NEW c \in Call, Cancel(c) PROVE IInv'
    <3>1. TypeOK' /\ RaisesWhenSpent'
      BY <2>1, <2>9 DEF Cancel, TypeOK, Phases, RaisesWhenSpent
    <3>2. Order' /\ Behind'
      BY <2>1, <2>9 DEF Cancel, TypeOK, Order, Behind
    <3> QED
      BY <3>1, <3>2 DEF IInv
  <2>10. ASSUME NEW w \in at_work, AnswerNobody(w) PROVE IInv'
    <3>1. at_work' \subseteq at_work /\ UNCHANGED <<phase, attempt, error>>
      BY <2>10 DEF AnswerNobody
    <3> QED
      BY <2>1, <3>1 DEF IInv, TypeOK, RaisesWhenSpent, Order, Behind
  <2>11. CASE UNCHANGED vars
    BY <2>1, <2>11 DEF vars, IInv, TypeOK, RaisesWhenSpent, Order, Behind
  <2> QED
    BY <2>2, <2>3, <2>5, <2>6, <2>7, <2>8, <2>9, <2>10, <2>11 DEF Next, Proceed
<1> QED
  BY <1>1, <1>2, PTL DEF Spec

\* Type correctness.
THEOREM RayCallTypes == Spec => []TypeOK
<1>1. IInv => TypeOK
  BY DEF IInv
<1> QED
  BY <1>1, IInvCorrect, PTL

\* An error worth retrying surfaces only after the last attempt, any other
\* at the attempt that met it.
THEOREM ErrorsSurfaceInTime == Spec => []RaisesWhenSpent
<1>1. IInv => RaisesWhenSpent
  BY DEF IInv
<1> QED
  BY <1>1, IInvCorrect, PTL

-----------------------------------------------------------------------------
\* Every step of the path is a step of the retried calls, or none.
LEMMA ClientStepsAreCalls == [ClientNext]_allVars => [Next]_vars
<1> SUFFICES ASSUME [ClientNext]_allVars PROVE [Next]_vars
    OBVIOUS
<1>1. ASSUME NEW c \in Call, CallProceeds(c) \/ Leaves(c) PROVE Next
    BY <1>1 DEF CallProceeds, Leaves, Alone, Answered, TimesOut, Next, Proceed
<1>2. ASSUME NEW w \in Attempt, Reach(w) \/ ReplicaWorks(w) PROVE UNCHANGED vars
    BY <1>2 DEF Reach, ReplicaWorks
<1>3. ASSUME NEW w \in at_work, AnsweredToNobody(w) \/ NoticedLate(w) PROVE Next
    BY <1>3 DEF AnsweredToNobody, NoticedLate, Next
<1>4. CASE UNCHANGED allVars
    BY <1>4 DEF allVars
<1> QED BY <1>1, <1>2, <1>3, <1>4 DEF ClientNext

\* The calls of the embedding path are calls of RayCall.
THEOREM ClientImplementsRayCall == ClientSpec => Spec
<1>1. ClientInit => Init
    BY DEF ClientInit
<1> QED BY <1>1, ClientStepsAreCalls, PTL DEF ClientSpec, Spec

\* backoff.py, on the embedding path: an error worth retrying surfaces only when
\* the retries are spent, whatever the batching does to the attempts.
THEOREM PathRaisesWhenSpent == ClientSpec => []RaisesWhenSpent
BY ClientImplementsRayCall, ErrorsSurfaceInTime, PTL

-----------------------------------------------------------------------------
\* Every attempt of a call is one of the replica's requests.
LEMMA CurrentIsAttempt ==
    ASSUME TypeOK, NEW c \in Call
    PROVE  Current(c) \in Attempt
BY DEF TypeOK, Current, Attempt

\* Every step of the path is a step of the replica, or none.
LEMMA ClientStepsAreBatching ==
    TypeOK /\ [ClientNext]_allVars => [Replica!Next]_(Replica!vars)
<1> SUFFICES ASSUME TypeOK, [ClientNext]_allVars
             PROVE  [Replica!Next]_(Replica!vars)
    OBVIOUS
<1> USE DEF replicaVars, Replica!vars
<1>1. ASSUME NEW c \in Call, Departs(c) PROVE [Replica!Next]_(Replica!vars)
    BY <1>1, CurrentIsAttempt DEF Departs, Replica!Next
<1>2. ASSUME NEW c \in Call, CallProceeds(c) \/ Leaves(c)
      PROVE  [Replica!Next]_(Replica!vars)
    BY <1>1, <1>2 DEF CallProceeds, Leaves, Alone, Answered, TimesOut
<1>3. ASSUME NEW w \in Attempt, Reach(w) PROVE [Replica!Next]_(Replica!vars)
    <2>1. Body[w[1]] \in { Body[c] : c \in Call } \cup {<<>>}
        BY DEF Attempt
    <2> QED BY <1>3, <2>1 DEF Reach, Replica!Next
<1>4. ASSUME NEW w \in Attempt, ReplicaWorks(w)
      PROVE  [Replica!Next]_(Replica!vars)
    BY <1>4 DEF ReplicaWorks, Replica!Next
<1>5. ASSUME NEW w \in at_work, AnsweredToNobody(w)
      PROVE  [Replica!Next]_(Replica!vars)
    BY <1>5 DEF AnsweredToNobody
<1>6. CASE UNCHANGED allVars
    BY <1>6 DEF allVars
<1>7. ASSUME NEW w \in at_work, NoticedLate(w)
      PROVE  [Replica!Next]_(Replica!vars)
    <2>1. w \in Attempt
        BY DEF TypeOK, Attempt
    <2> QED BY <1>7, <2>1 DEF NoticedLate, Replica!Next
<1> QED BY <1>2, <1>3, <1>4, <1>5, <1>6, <1>7 DEF ClientNext

\* The replica of the embedding path is a replica of EmbedBatch.
THEOREM ClientImplementsBatching == ClientSpec => Replica!Spec
<1>1. ClientInit => Replica!Init
    BY DEF ClientInit
<1>2. ClientSpec => []TypeOK
    BY ClientImplementsRayCall, RayCallTypes, PTL
<1> QED
    BY <1>1, <1>2, ClientStepsAreBatching, PTL DEF ClientSpec, Replica!Spec
-----------------------------------------------------------------------------
\* The theorems about EmbedBatch, for the replica of the embedding path.
Batching == INSTANCE EmbedBatchProofs WITH
    Request <- Attempt, call <- handler,
    Bodies <- { Body[c] : c \in Call } \cup {<<>>},
    Cancellable <- Attempt, Malformed <- {}

\* What EmbedBatch assumes of its constants holds of the path's.
LEMMA BatchingAssumptions ==
    /\ Batching!BodiesAssumption
    /\ Batching!EncodeAssumption
    /\ Batching!RequestAssumption
<1>1. Batching!BodiesAssumption
    <2>1. <<>> \in Seq(Text)
        OBVIOUS
    <2>2. \A c \in Call : Body[c] \in Seq(Text)
        BY BodyAssumption
    <2> QED BY <2>1, <2>2 DEF Batching!BodiesAssumption
<1>2. Batching!EncodeAssumption
    BY EncodeAssumption DEF Batching!EncodeAssumption
<1>3. Batching!RequestAssumption
    BY NoTaskAssumption DEF Batching!RequestAssumption, Attempt
<1> QED BY <1>1, <1>2, <1>3

\* The two instances of EmbedBatch say the same.
LEMMA SlicesAgree ==
    /\ \A bs : Replica!Flat(bs) = Batching!Flat(bs)
    /\ \A bs : Replica!Total(bs) = Batching!Total(bs)
    /\ \A bs, vectors, i : Replica!Share(bs, vectors, i) = Batching!Share(bs, vectors, i)
    /\ \A ts : Replica!EncodeAll(Encode, ts) = Batching!EncodeAll(Encode, ts)
    /\ \A g : Replica!BodiesOf(g) = Batching!BodiesOf(g)
<1>0. \A S : Replica!Cardinality(S) = Batching!Cardinality(S)
    BY DEF Replica!Cardinality, Batching!Cardinality
<1>1. \A bs, n : Replica!Slots(bs, n) = Batching!Slots(bs, n)
    BY DEF Replica!Slots, Batching!Slots, Replica!Row, Batching!Row
<1>2. \A bs, i : Replica!Start(bs, i) = Batching!Start(bs, i)
    BY <1>0, <1>1 DEF Replica!Start, Batching!Start
<1>3. \A bs : Replica!Total(bs) = Batching!Total(bs)
    BY <1>0, <1>1 DEF Replica!Total, Batching!Total
<1>4. \A bs, p : Replica!SlotAt(bs, p) = Batching!SlotAt(bs, p)
    BY <1>1, <1>2, <1>3 DEF Replica!SlotAt, Batching!SlotAt
<1>5. \A bs : Replica!Flat(bs) = Batching!Flat(bs)
    BY <1>3, <1>4 DEF Replica!Flat, Batching!Flat
<1>6. \A bs, vectors, i : Replica!Share(bs, vectors, i) = Batching!Share(bs, vectors, i)
    BY <1>2 DEF Replica!Share, Batching!Share
<1>7. \A ts : Replica!EncodeAll(Encode, ts) = Batching!EncodeAll(Encode, ts)
    BY DEF Replica!EncodeAll, Batching!EncodeAll
<1>8. \A g : Replica!BodiesOf(g) = Batching!BodiesOf(g)
    BY DEF Replica!BodiesOf, Batching!BodiesOf
<1> QED BY <1>3, <1>5, <1>6, <1>7, <1>8

LEMMA DeliveriesAgree ==
    ASSUME NEW c, NEW g
    PROVE  /\ Replica!DeliverResults(c, g) => Batching!DeliverResults(c, g)
           /\ Replica!DeliverError(c, g) => Batching!DeliverError(c, g)
<1>1. Replica!Reached(g) = Batching!Reached(g)
    BY DEF Replica!Reached, Batching!Reached
<1>2. Replica!AllReached(g) = Batching!AllReached(g)
    BY DEF Replica!AllReached, Batching!AllReached
<1>3. Replica!DeliverResults(c, g) => Batching!DeliverResults(c, g)
    BY <1>1, <1>2, SlicesAgree DEF Replica!DeliverResults, Batching!DeliverResults
<1>4. Replica!DeliverError(c, g) => Batching!DeliverError(c, g)
    BY <1>1, <1>2 DEF Replica!DeliverError, Batching!DeliverError
<1> QED BY <1>3, <1>4

LEMMA StepsAgree == [Replica!Next]_(Replica!vars) => [Batching!Next]_(Batching!vars)
<1> SUFFICES ASSUME [Replica!Next]_(Replica!vars)
             PROVE  [Batching!Next]_(Batching!vars)
    OBVIOUS
<1>1. ASSUME NEW r, NEW ts, Replica!EmbedInGroup(r, ts)
      PROVE  Batching!EmbedInGroup(r, ts)
    BY <1>1 DEF Replica!EmbedInGroup, Batching!EmbedInGroup
<1>2. ASSUME NEW c, Replica!CloseDoor(c) PROVE Batching!CloseDoor(c)
    BY <1>2, SlicesAgree DEF Replica!CloseDoor, Batching!CloseDoor, Replica!TakeGroup, Batching!TakeGroup
<1>3. ASSUME NEW c, Replica!CloseDoorEmpty(c) PROVE Batching!CloseDoorEmpty(c)
    BY <1>3, SlicesAgree, DeliveriesAgree
    DEF Replica!CloseDoorEmpty, Batching!CloseDoorEmpty, Replica!TakeGroup, Batching!TakeGroup
<1>4. ASSUME NEW c, Replica!CloseDoorRaises(c) PROVE Batching!CloseDoorRaises(c)
    BY <1>4 DEF Replica!CloseDoorRaises, Batching!CloseDoorRaises, Replica!TakeGroup, Batching!TakeGroup
<1>5. ASSUME NEW c, Replica!EncodeReturns(c) PROVE Batching!EncodeReturns(c)
    BY <1>5, DeliveriesAgree DEF Replica!EncodeReturns, Batching!EncodeReturns
<1>6. ASSUME NEW c, Replica!EncodeRaises(c) PROVE Batching!EncodeRaises(c)
    BY <1>6, DeliveriesAgree DEF Replica!EncodeRaises, Batching!EncodeRaises
<1>7. ASSUME NEW r, Replica!Resume(r) \/ Replica!Cancel(r)
      PROVE  Batching!Resume(r) \/ Batching!Cancel(r)
    BY <1>7 DEF Replica!Resume, Batching!Resume, Replica!Cancel, Batching!Cancel
<1>8. CASE UNCHANGED Replica!vars
    BY <1>8 DEF Replica!vars, Batching!vars
<1> QED
    BY <1>1, <1>2, <1>3, <1>4, <1>5, <1>6, <1>7, <1>8
    DEF Replica!Next, Batching!Next, Replica!Collect, Batching!Collect, Replica!Finish, Batching!Finish

LEMMA PathIsBatching == ClientSpec => Batching!Spec
<1>1. Replica!Init => Batching!Init
    BY DEF Replica!Init, Batching!Init
<1>2. Replica!Spec => Batching!Spec
    BY <1>1, StepsAgree, PTL DEF Replica!Spec, Batching!Spec
<1> QED BY <1>2, ClientImplementsBatching, PTL

\* embedding_engine.py and ray_embed.py together: whatever calls time out, leave
\* or come back for another attempt, an attempt that is answered has the vectors
\* of its own texts.
THEOREM AttemptsGetTheirOwn == ClientSpec => []Batching!OwnVectors
<1>1. Batching!Spec => []Batching!OwnVectors
    BY Batching!AnswersAreOwn, BatchingAssumptions
<1> QED BY <1>1, PathIsBatching, PTL

\* An attempt is left without an answer only behind one that was cancelled, in
\* the group of a collector that died of it.
THEOREM AttemptsStrandBehindDepartures ==
    ClientSpec => []Batching!StrandedOnlyInABrokenGroup
<1>1. Batching!Spec => []Batching!StrandedOnlyInABrokenGroup
    BY Batching!StrandingNeedsABrokenGroup, BatchingAssumptions
<1> QED BY <1>1, PathIsBatching, PTL
-----------------------------------------------------------------------------
(***************************************************************************)
(* A departure costs a patient call at most one attempt.  Every attempt    *)
(* such a call has given up on lies in the group of a collector that died, *)
(* each of these groups has its own departed caller of a hasty call, and   *)
(* no group has two attempts of one call: the lost attempts can be sent    *)
(* one to one into the departures.                                         *)
(***************************************************************************)

Tries == 0 .. MaxRetries

\* The attempt w came to an exception, or was left in a group that died.
Spent(w) ==
    \E d \in Attempt :
        /\ w \in Batching!InGroup(d)
        /\ \/ future[w] = "exception" /\ Batching!Closed(d)
           \/ /\ task[d] = "died"
              /\ future[w] = "cancelled" \/ (handler[w] = "parked" /\ future[w] = "waiting")

\* Call p has nothing more to hope for of its n-th attempt.
Over(p, n) == n < attempt[p] \/ (n = attempt[p] /\ phase[p] \in {"waiting", "raised"})

\* The replica knows no attempt the call has not come to, and its texts.
Arrivals ==
    \A w \in Attempt : handler[w] # "new" =>
        w[2] <= attempt[w[1]] /\ texts[w] = Body[w[1]]

Losses ==
    \A p \in Call \ Hasty : \A n \in Tries :
        /\ Over(p, n) => Spent(<<p, n>>)
        /\ future[<<p, n>>] = "cancelled" =>
              \E d \in Attempt : task[d] = "died" /\ <<p, n>> \in Batching!InGroup(d)

\* Every group that died has its departed caller, ...
Deaths ==
    \A d \in Attempt : task[d] = "died" =>
        \E w \in Departures : w \in Batching!InGroup(d)

\* ... and holds at most one attempt of a patient call.
OneEach ==
    \A p \in Call \ Hasty : \A m, n \in Tries : \A d \in Attempt :
        <<p, m>> \in Batching!InGroup(d) /\ <<p, n>> \in Batching!InGroup(d) => m = n

Outcomes ==
    /\ \A c \in Call : phase[c] = "returned" => handler[Current(c)] = "returned"
    /\ \A p \in Call \ Hasty :
          /\ error[p] \in {"none", "transport", "failing"}
          /\ phase[p] = "raised" => error[p] # "none"
          /\ phase[p] # "cancelled"

PathInv == Arrivals /\ Losses /\ Deaths /\ OneEach /\ Outcomes

\* What else holds at every step: of the calls, and of the replica.
Parts == IInv /\ Batching!IInv /\ Batching!Custody /\ Batching!OwnVectors

LEMMA PartsHold == ClientSpec => []Parts
<1>1. Batching!Spec => [](Batching!IInv /\ Batching!Custody /\ Batching!OwnVectors)
    BY Batching!IInvCorrect, Batching!CustodyCorrect, Batching!AnswersAreOwn,
       BatchingAssumptions, PTL
<1>2. Spec => []IInv
    BY IInvCorrect
<1> QED
    BY <1>1, <1>2, PathIsBatching, ClientImplementsRayCall, PTL DEF Parts

\* The replica in a step of the path.
LEMMA ReplicaLasts ==
    ASSUME Parts, [ClientNext]_allVars
    PROVE  Batching!Lasting
<1>1. [Batching!Next]_(Batching!vars)
    BY ClientStepsAreBatching, StepsAgree DEF Parts, IInv
<1> QED
    BY <1>1, Batching!StepsLast, BatchingAssumptions DEF Parts

\* The call of attempt w does not wait for it any more.
GivenUp(w) ==
    w[2] < attempt[w[1]] \/ phase[w[1]] \in {"waiting", "raised", "cancelled"}

\* What a step of the path says of the calls: who cancels a handler, which
\* attempt arrives, and on what grounds an attempt ends.
Grounds ==
    /\ \A w \in Attempt : Batching!Cancel(w) =>
          w[1] \in Hasty \/ Stranded(w) \/ GivenUp(w)
    /\ \A w \in Attempt : handler[w] = "new" /\ handler'[w] # "new" =>
          w \in at_work /\ texts'[w] = Body[w[1]]
    /\ \A c \in Call :
          \/ attempt'[c] = attempt[c]
          \/ attempt'[c] = attempt[c] + 1 /\ phase[c] = "waiting" /\ phase'[c] = "queued"
    /\ \A c \in Call : phase'[c] \in {"waiting", "raised"} =>
          \/ phase'[c] = phase[c] /\ error'[c] = error[c]
          \/ /\ c \in Hasty \/ error'[c] \in {"transport", "failing"}
             /\ \/ c \in Hasty \/ Stranded(Current(c))
                \/ handler[Current(c)] = "raised"
    /\ \A c \in Call : phase'[c] = "returned" =>
          /\ attempt'[c] = attempt[c]
          /\ phase[c] = "returned" \/ handler[Current(c)] = "returned"
    /\ \A c \in Call \ Hasty :
          /\ error'[c] = error[c] \/ error'[c] \in {"transport", "failing"}
          /\ phase'[c] = "cancelled" => phase[c] = "cancelled"

\* A step of call c alone: nothing changes for the others.
LEMMA GroundsOfCall ==
    ASSUME Parts, NEW c \in Call, CallProceeds(c) \/ Leaves(c)
    PROVE  Grounds
<1>1. TypeOK /\ phase \in [Call -> Phases] /\ attempt \in [Call -> 0 .. MaxRetries]
      /\ error \in [Call -> Errors \cup {"none"}]
    BY DEF Parts, IInv, TypeOK
<1>2. handler \in [Attempt -> {"new", "parked", "returned", "raised", "cancelled"}]
    BY DEF Parts, Batching!IInv, Batching!TypeOK
<1>3. Current(c) \in Attempt /\ Current(c)[1] = c
    BY <1>1, CurrentIsAttempt DEF Current
\* The replica stands still, or the call's own handler is cancelled.
<1>4. ASSUME UNCHANGED replicaVars \/ (Departs(c) /\ (c \in Hasty \/ Stranded(Current(c))))
      PROVE  /\ \A w \in Attempt : Batching!Cancel(w) => w[1] \in Hasty \/ Stranded(w)
             /\ \A w \in Attempt : handler[w] = "new" => handler'[w] = "new"
    <2>1. CASE UNCHANGED replicaVars
        BY <2>1, <1>2 DEF replicaVars, Batching!Cancel
    <2>2. CASE Replica!Cancel(Current(c)) /\ (c \in Hasty \/ Stranded(Current(c)))
        <3>1. /\ handler' = [handler EXCEPT ![Current(c)] = "cancelled"]
              /\ handler[Current(c)] = "parked"
            BY <2>2 DEF Replica!Cancel
        <3>2. \A w \in Attempt : Batching!Cancel(w) =>
                  handler[w] = "parked" /\ handler'[w] = "cancelled"
            BY <1>2 DEF Batching!Cancel
        <3>3. \A w \in Attempt : Batching!Cancel(w) => w = Current(c)
            BY <3>1, <3>2, <1>2
        <3> QED BY <3>1, <3>3, <2>2, <1>2, <1>3
    <2> QED BY <1>4, <2>1, <2>2 DEF Departs
\* An attempt that ends with an error.
<1>5. ASSUME NEW e \in Errors, Except(c, e),
             c \in Hasty \/ e \in {"transport", "failing"},
             c \in Hasty \/ Stranded(Current(c)) \/ handler[Current(c)] = "raised",
             UNCHANGED replicaVars \/ (Departs(c) /\ (c \in Hasty \/ Stranded(Current(c))))
      PROVE  Grounds
    <2>1. /\ phase' \in [Call -> Phases] /\ attempt' = attempt
          /\ phase'[c] \in {"waiting", "raised"}
          /\ \A d \in Call \ {c} : phase'[d] = phase[d]
        BY <1>5, ExceptKeeps DEF Parts
    <2>2. error'[c] = e /\ \A d \in Call \ {c} : error'[d] = error[d]
        BY <1>1, <1>5 DEF Except
    <2> QED BY <1>4, <1>5, <2>1, <2>2 DEF Grounds
<1>6. CASE Alone(c)
    <2>1. UNCHANGED replicaVars
        BY <1>6 DEF Alone
    <2>2. CASE Begin(c)
        BY <2>1, <2>2, <1>1, <1>4 DEF Begin, Grounds
    <2>3. CASE Send(c)
        BY <2>1, <2>3, <1>1, <1>4 DEF Send, Grounds
    <2>4. CASE Retry(c)
        BY <2>1, <2>4, <1>1, <1>4 DEF Retry, Grounds
    <2>5. CASE c \in Hasty /\ NoConnection(c)
        BY <2>1, <2>5, <1>5 DEF NoConnection, Errors, RetryOn
    <2> QED BY <1>6, <2>2, <2>3, <2>4, <2>5 DEF Alone
<1>7. CASE Answered(c)
    <2>1. UNCHANGED replicaVars /\ Answer(c)
        BY <1>7 DEF Answered
    <2>2. CASE phase' = [phase EXCEPT ![c] = "returned"] /\ UNCHANGED <<attempt, error>>
        <3>1. handler[Current(c)] = "returned"
            BY <1>7, <2>2, <1>1 DEF Answered
        <3> QED BY <2>1, <2>2, <3>1, <1>1, <1>4 DEF Grounds
    <2>3. ASSUME NEW e \in Errors, Except(c, e) PROVE Grounds
        <3>1. phase'[c] # "returned" /\ error'[c] = e
            BY <2>3, <1>1 DEF Except
        <3> QED BY <1>7, <2>1, <2>3, <3>1, <1>5 DEF Answered
    <2>4. {"failing", "refused", "malformed"} \subseteq Errors
        BY DEF Errors, RetryOn
    <2> QED BY <2>1, <2>2, <2>3, <2>4 DEF Answer
<1>8. CASE TimesOut(c)
    BY <1>8, <1>5 DEF TimesOut, NoAnswer, Errors, RetryOn
<1>9. CASE Leaves(c)
    <2>1. c \in Hasty /\ Cancel(c) /\ Departs(c)
        BY <1>9 DEF Leaves
    <2> QED BY <2>1, <1>1, <1>4 DEF Cancel, Grounds
<1> QED BY <1>6, <1>7, <1>8, <1>9 DEF CallProceeds

LEMMA StepsHaveGrounds ==
    ASSUME Parts, [ClientNext]_allVars
    PROVE  Grounds
<1>1. TypeOK /\ attempt \in [Call -> 0 .. MaxRetries]
    BY DEF Parts, IInv, TypeOK
<1>2. handler \in [Attempt -> {"new", "parked", "returned", "raised", "cancelled"}]
      /\ texts \in [Attempt -> Seq(Text)]
    BY DEF Parts, Batching!IInv, Batching!TypeOK
\* A step the calls have no part in.
<1>3. ASSUME UNCHANGED <<phase, attempt, error>>,
             \A w \in Attempt : handler'[w] = "cancelled" => handler[w] = "cancelled",
             \A w \in Attempt : handler[w] = "new" /\ handler'[w] # "new" =>
                 w \in at_work /\ texts'[w] = Body[w[1]]
      PROVE  Grounds
    <2>1. \A w \in Attempt : Batching!Cancel(w) =>
              handler[w] = "parked" /\ handler'[w] = "cancelled"
        BY <1>2 DEF Batching!Cancel
    <2> QED BY <1>3, <2>1 DEF Grounds
<1>4. ASSUME NEW w \in Attempt, Reach(w) PROVE Grounds
    BY <1>2, <1>3, <1>4 DEF Reach, Replica!EmbedInGroup, vars
<1>5. ASSUME NEW w \in Attempt, ReplicaWorks(w) PROVE Grounds
    <2>1. \A v \in Attempt : \/ handler'[v] = handler[v]
                             \/ /\ handler[v] = "parked"
                                /\ handler'[v] \in {"returned", "raised"}
        BY <1>2, <1>5 DEF ReplicaWorks, Replica!Collect, Replica!Finish, Replica!CloseDoor,
                Replica!CloseDoorEmpty, Replica!CloseDoorRaises, Replica!EncodeReturns,
                Replica!EncodeRaises, Replica!Resume
    <2> QED BY <1>3, <1>5, <2>1 DEF ReplicaWorks, vars
<1>6. ASSUME NEW w \in at_work, AnsweredToNobody(w) PROVE Grounds
    BY <1>3, <1>6 DEF AnsweredToNobody, AnswerNobody, replicaVars
<1>7. CASE UNCHANGED allVars
    BY <1>3, <1>7 DEF allVars, vars, replicaVars
<1>8. ASSUME NEW w \in at_work, NoticedLate(w) PROVE Grounds
    <2>1. /\ UNCHANGED <<phase, attempt, error>>
          /\ ~(phase[w[1]] = "sent" /\ attempt[w[1]] = w[2])
          /\ handler' = [handler EXCEPT ![w] = "cancelled"]
          /\ handler[w] = "parked"
        BY <1>8 DEF NoticedLate, AnswerNobody, Replica!Cancel
    <2>2. w \in Attempt /\ w[1] \in Call /\ w[2] \in Nat /\ attempt[w[1]] \in Nat
        BY <1>1, MaxRetriesAssumption DEF TypeOK, Attempt
    <2>3. GivenUp(w)
        BY <2>1, <2>2 DEF Parts, IInv, Order, Behind, GivenUp
    <2>4. \A v \in Attempt : Batching!Cancel(v) => v = w
        BY <2>1, <1>2 DEF Batching!Cancel
    <2>5. \A v \in Attempt : handler[v] = "new" => handler'[v] = "new"
        BY <2>1, <1>2
    <2> QED BY <2>1, <2>3, <2>4, <2>5 DEF Grounds
<1> QED
    BY <1>4, <1>5, <1>6, <1>7, <1>8, GroundsOfCall DEF ClientNext

\* Before the proof of the step: what a state with PathInv says of its parts.
LEMMA PathFacts ==
    ASSUME Parts
    PROVE  /\ attempt \in [Call -> Tries] /\ phase \in [Call -> Phases]
           /\ at_work \subseteq Attempt
           /\ \A w \in at_work : w[2] <= attempt[w[1]]
           /\ future \in [Attempt -> {"none", "waiting", "result", "exception", "cancelled"}]
           /\ \A d \in Attempt : Batching!InGroup(d) \subseteq Attempt
           /\ Batching!InRoom \subseteq Attempt
           /\ \A w \in Attempt : handler[w] = "new" =>
                 w \notin Batching!InRoom /\ \A d \in Attempt : w \notin Batching!InGroup(d)
<1>1. Batching!TypeOK /\ Batching!Bookkeeping
    BY DEF Parts, Batching!IInv
<1> QED
    BY <1>1, Batching!HoldersHoldRequests, BatchingAssumptions
    DEF Parts, IInv, TypeOK, Order, Attempt, Tries, Batching!TypeOK, Batching!Bookkeeping

\* Replica and Batching agree on who is in a group.
LEMMA StrandedInGroup ==
    ASSUME NEW w \in Attempt, Stranded(w)
    PROVE  Spent(w) /\ \E d \in Attempt : task[d] = "died" /\ w \in Batching!InGroup(d)
<1>1. PICK d \in Attempt : task[d] = "died" /\ w \in Replica!InGroup(d)
    BY DEF Stranded
<1>2. w \in Batching!InGroup(d)
    BY <1>1 DEF Replica!InGroup, Batching!InGroup
<1> QED BY <1>1, <1>2 DEF Stranded, Spent

\* An attempt that raised was in a group whose pass is over.
LEMMA RaisedIsSpent ==
    ASSUME Parts, NEW w \in Attempt, handler[w] = "raised"
    PROVE  Spent(w)
BY DEF Parts, Batching!Custody, Spent

\* What is spent stays so.
LEMMA SpentLasts ==
    ASSUME Parts, Batching!Lasting, NEW w \in Attempt, Spent(w)
    PROVE  Spent(w)'
<1>1. PICK d \in Attempt :
          /\ w \in Batching!InGroup(d)
          /\ \/ future[w] = "exception" /\ Batching!Closed(d)
             \/ /\ task[d] = "died"
                /\ future[w] = "cancelled" \/ (handler[w] = "parked" /\ future[w] = "waiting")
    BY DEF Spent
<1>2. Batching!Closed(d)
    BY <1>1 DEF Batching!Closed
<1>3. /\ task'[d] = task[d] /\ w \in Batching!InGroup(d)'
      /\ future'[w] = future[w] \/ (future[w] = "waiting" /\ Batching!Cancel(w))
    BY <1>1, <1>2 DEF Batching!Lasting
<1>4. Batching!Closed(d)'
    BY <1>2, <1>3 DEF Batching!Closed
<1>5. CASE Batching!Cancel(w) /\ future[w] = "waiting"
    <2>1. future'[w] = "cancelled"
        BY <1>5, PathFacts DEF Batching!Cancel
    <2> QED BY <1>1, <1>3, <1>5, <2>1 DEF Spent
<1>6. CASE future'[w] = future[w] /\ ~(Batching!Cancel(w) /\ future[w] = "waiting")
    <2>1. handler[w] = "parked" /\ future[w] = "waiting" => handler'[w] = "parked"
        BY <1>6 DEF Batching!Lasting
    <2> QED BY <1>1, <1>3, <1>4, <1>6, <2>1 DEF Spent
<1> QED BY <1>3, <1>5, <1>6

\* A patient attempt that is new to the replica, or still in its room, is the
\* one its call is at.
LEMMA RoomHoldsTheCurrent ==
    ASSUME Parts, PathInv, NEW p \in Call \ Hasty, NEW n \in Tries,
           <<p, n>> \in Batching!InRoom \/ (handler[<<p, n>>] = "new" /\ n <= attempt[p])
    PROVE  n = attempt[p]
<1>1. <<p, n>> \in Attempt /\ attempt[p] \in Nat /\ n \in Nat
    BY PathFacts, MaxRetriesAssumption DEF Attempt, Tries
<1>2. n <= attempt[p]
    BY <1>1, PathFacts DEF PathInv, Arrivals
<1>3. ~(n < attempt[p])
    <2> SUFFICES ASSUME n < attempt[p] PROVE FALSE
        OBVIOUS
    <2>1. \E d \in Attempt : <<p, n>> \in Batching!InGroup(d)
        BY DEF PathInv, Losses, Over, Spent
    <2> QED BY <1>1, <2>1, PathFacts DEF Parts, Batching!Custody
<1> QED BY <1>1, <1>2, <1>3

\* The path's invariant is inductive.
LEMMA PathInvCorrect == ClientSpec => []PathInv
<1>1. ClientInit => PathInv
    <2> SUFFICES ASSUME ClientInit PROVE PathInv
        OBVIOUS
    <2> USE DEF ClientInit, Init, Replica!Init
    <2>1. Arrivals
        BY DEF Arrivals
    <2>2. \A p \in Call, n \in Tries : ~Over(p, n)
        BY MaxRetriesAssumption DEF Over, Tries
    <2>3. \A w \in Attempt : future[w] = "none" /\ task[w] = "none" /\ group[w] = <<>>
        OBVIOUS
    <2>4. Losses
        BY <2>2, <2>3 DEF Losses, Attempt, Tries
    <2>5. \A d \in Attempt : Batching!InGroup(d) = {}
        BY <2>3 DEF Batching!InGroup
    <2>6. Deaths /\ OneEach /\ Outcomes
        BY <2>3, <2>5 DEF Deaths, OneEach, Outcomes
    <2> QED BY <2>1, <2>4, <2>6 DEF PathInv
<1>2. Parts /\ Parts' /\ PathInv /\ [ClientNext]_allVars => PathInv'
    <2> SUFFICES ASSUME Parts, Parts', PathInv, [ClientNext]_allVars PROVE PathInv'
        OBVIOUS
    <2>0. /\ Batching!Lasting /\ Grounds
          /\ Arrivals /\ Losses /\ Deaths /\ OneEach /\ Outcomes
        BY ReplicaLasts, StepsHaveGrounds DEF PathInv
    <2>1. /\ attempt \in [Call -> Tries] /\ attempt' \in [Call -> Tries]
          /\ \A c \in Call : attempt[c] \in Nat /\ attempt'[c] \in Nat
                             /\ attempt[c] <= attempt'[c]
          /\ phase \in [Call -> Phases]
          /\ \A d \in Attempt : Batching!InGroup(d) \subseteq Attempt
          /\ \A d \in Attempt : Batching!InGroup(d)' \subseteq Attempt
        <3>1. attempt \in [Call -> Tries] /\ attempt' \in [Call -> Tries]
            BY PathFacts DEF Parts, IInv, TypeOK, Tries
        <3>2. \A d \in Attempt : Batching!InGroup(d)' \subseteq Attempt
            <4>1. Batching!TypeOK'
                BY DEF Parts, Batching!IInv
            <4>2. \A d \in Attempt : group'[d] \in Seq(Attempt)
                BY <4>1 DEF Batching!TypeOK
            <4> QED BY <4>2 DEF Batching!InGroup
        <3> QED BY <3>1, <3>2, <2>0, PathFacts, MaxRetriesAssumption DEF Grounds, Tries
    <2>2. Arrivals'
        <3> SUFFICES ASSUME NEW w \in Attempt, handler'[w] # "new"
                     PROVE  w[2] <= attempt'[w[1]] /\ texts'[w] = Body[w[1]]
            BY DEF Arrivals
        <3>1. w[1] \in Call /\ w[2] \in Nat
            BY MaxRetriesAssumption DEF Attempt
        <3>2. CASE handler[w] = "new"
            <4>1. w \in at_work /\ texts'[w] = Body[w[1]]
                BY <3>2, <2>0 DEF Grounds
            <4> QED BY <3>1, <4>1, <2>1, PathFacts
        <3>3. CASE handler[w] # "new"
            BY <3>1, <3>3, <2>0, <2>1 DEF Arrivals, Batching!Lasting
        <3> QED BY <3>2, <3>3
    <2>3. Losses'
        <3> SUFFICES ASSUME NEW p \in Call \ Hasty, NEW n \in Tries
                     PROVE  /\ Over(p, n)' => Spent(<<p, n>>)'
                            /\ future'[<<p, n>>] = "cancelled" =>
                                  \E d \in Attempt : task'[d] = "died"
                                      /\ <<p, n>> \in Batching!InGroup(d)'
            BY DEF Losses
        <3> DEFINE w == <<p, n>>
        <3>0. w \in Attempt /\ w[1] = p /\ n \in Nat
            BY MaxRetriesAssumption DEF Attempt, Tries
        <3>1. ASSUME Over(p, n)' PROVE Spent(w)
            <4>1. CASE Over(p, n)
                BY <4>1, <2>0 DEF Losses
            <4>2. CASE ~Over(p, n)
                <5>1. /\ attempt'[p] = attempt[p] \/ n # attempt[p]
                      /\ n = attempt'[p] /\ phase'[p] \in {"waiting", "raised"}
                    BY <3>0, <3>1, <4>2, <2>0, <2>1 DEF Over, Grounds
                <5>2. attempt'[p] = attempt[p] /\ phase'[p] # phase[p]
                    BY <3>0, <4>2, <5>1, <2>0, <2>1 DEF Over, Grounds
                <5>3. Current(p) = w
                    BY <5>1, <5>2 DEF Current
                <5>4. Stranded(w) \/ handler[w] = "raised"
                    BY <5>1, <5>2, <5>3, <2>0 DEF Grounds
                <5> QED BY <3>0, <5>4, StrandedInGroup, RaisedIsSpent
            <4> QED BY <4>1, <4>2
        <3>2. Over(p, n)' => Spent(w)'
            BY <3>0, <3>1, <2>0, SpentLasts
        <3>3. ASSUME future'[w] = "cancelled"
              PROVE  \E d \in Attempt : task[d] = "died" /\ w \in Batching!InGroup(d)
            <4>1. CASE future[w] = "cancelled"
                BY <4>1, <2>0 DEF Losses
            <4>2. CASE Batching!Cancel(w)
                <5>1. CASE Stranded(w)
                    BY <3>0, <5>1, StrandedInGroup
                <5>2. CASE GivenUp(w) /\ future[w] # "cancelled"
                    <6>1. handler[w] = "parked" /\ n <= attempt[p]
                        BY <3>0, <4>2, <2>0 DEF Batching!Cancel, Arrivals
                    <6>2. Spent(w)
                        BY <3>0, <5>2, <6>1, <2>0, <2>1
                        DEF GivenUp, Outcomes, Over, Losses
                    <6>3. future[w] # "exception"
                        BY <3>0, <3>3, <4>2, PathFacts DEF Batching!Cancel
                    <6> QED BY <6>2, <6>3 DEF Spent
                <5>3. Stranded(w) \/ GivenUp(w)
                    BY <3>0, <4>2, <2>0 DEF Grounds
                <5> QED BY <5>1, <5>2, <5>3, <2>0 DEF Losses
            <4> QED BY <3>0, <3>3, <4>1, <4>2, <2>0 DEF Batching!Lasting
        <3>4. \A d \in Attempt : task[d] = "died" =>
                  task'[d] = "died" /\ Batching!InGroup(d)' = Batching!InGroup(d)
            BY <2>0 DEF Batching!Lasting, Batching!Closed
        <3> QED BY <3>2, <3>3, <3>4
    <2>4. Deaths'
        <3> SUFFICES ASSUME NEW d \in Attempt, task'[d] = "died"
                     PROVE  \E w \in Departures' : w \in Batching!InGroup(d)'
            BY DEF Deaths
        <3>0. \A w \in Attempt : w \in Departures <=> w[1] \in Hasty /\ future[w] = "cancelled"
            BY HastyAssumption DEF Departures, Attempt
        <3>1. Departures \subseteq Departures'
            <4>1. \A w \in Departures : w \in Attempt
                BY HastyAssumption DEF Departures, Attempt
            <4> QED BY <4>1, <2>0 DEF Departures, Batching!Lasting
        <3>2. CASE task[d] = "died"
            <4>1. Batching!InGroup(d)' = Batching!InGroup(d)
                BY <3>2, <2>0 DEF Batching!Lasting, Batching!Closed
            <4> QED BY <3>1, <3>2, <4>1, <2>0 DEF Deaths
        <3>3. CASE task[d] # "died"
            <4>1. PICK w \in Batching!InGroup(d)' : future[w] = "cancelled"
                BY <3>3, <2>0 DEF Batching!Lasting
            <4>2. w \in Attempt /\ w[1] \in Call /\ w[2] \in Tries /\ w = <<w[1], w[2]>>
                BY <2>1 DEF Attempt, Tries
            \* A patient call's was cancelled in another group, and is still there.
            <4>3. w[1] \in Hasty
                <5> SUFFICES ASSUME w[1] \notin Hasty PROVE FALSE
                    OBVIOUS
                <5>1. PICK e \in Attempt : task[e] = "died" /\ w \in Batching!InGroup(e)
                    BY <4>1, <4>2, <2>0 DEF Losses
                <5>2. w \in Batching!InGroup(e)'
                    BY <5>1, <2>0 DEF Batching!Lasting, Batching!Closed
                <5>3. e = d
                    BY <4>1, <5>2 DEF Parts, Batching!Custody
                <5> QED BY <3>3, <5>1, <5>3
            <4> QED BY <3>0, <3>1, <4>1, <4>2, <4>3
        <3> QED BY <3>2, <3>3
    <2>5. OneEach'
        <3> SUFFICES ASSUME NEW p \in Call \ Hasty, NEW m \in Tries, NEW n \in Tries,
                            NEW d \in Attempt,
                            <<p, m>> \in Batching!InGroup(d)', <<p, n>> \in Batching!InGroup(d)'
                     PROVE  m = n
            BY DEF OneEach
        <3>1. CASE Batching!InGroup(d)' = Batching!InGroup(d)
            BY <3>1, <2>0 DEF OneEach
        <3>2. CASE Batching!InGroup(d)' = Batching!InRoom
            BY <3>2, RoomHoldsTheCurrent
        <3> QED BY <3>1, <3>2, <2>0 DEF Batching!Lasting
    <2>6. Outcomes'
        <3>1. ASSUME NEW c \in Call, phase'[c] = "returned"
              PROVE  handler'[Current(c)'] = "returned"
            <4>1. Current(c) \in Attempt /\ Current(c)' = Current(c)
                BY <3>1, <2>0, <2>1 DEF Grounds, Current, Attempt, Tries
            <4>2. handler[Current(c)] = "returned"
                BY <3>1, <2>0 DEF Grounds, Outcomes
            <4> QED BY <4>1, <4>2, <2>0 DEF Batching!Lasting
        <3>2. ASSUME NEW p \in Call \ Hasty
              PROVE  /\ error'[p] \in {"none", "transport", "failing"}
                     /\ phase'[p] = "raised" => error'[p] # "none"
                     /\ phase'[p] # "cancelled"
            BY <3>2, <2>0 DEF Grounds, Outcomes
        <3> QED BY <3>1, <3>2 DEF Outcomes
    <2> QED BY <2>2, <2>3, <2>4, <2>5, <2>6 DEF PathInv
<1> QED
    BY <1>1, <1>2, PartsHold, PTL DEF ClientSpec

\* embedding_engine.py:117, "nobody waits forever", and ray_embed.py's retries:
\* the attempts a patient call loses are no more than the callers that
\* departed, what it is answered with are its own vectors, and it raises only
\* when every one of its attempts was lost or came to an exception.
THEOREM DeparturesAreOutlived == ClientSpec => []DepartureCostsOneAttempt
<1>1. Parts /\ PathInv => DepartureCostsOneAttempt
    <2> SUFFICES ASSUME Parts, PathInv, NEW p \in Call \ Hasty
                 PROVE  /\ Cardinality(Unanswered(p)) <= Cardinality(Departures)
                        /\ phase[p] = "returned" =>
                              payload[Current(p)] = Replica!EncodeAll(Encode, Body[p])
                        /\ phase[p] = "raised" => \A n \in Tries :
                              n \in Unanswered(p) \/ future[<<p, n>>] = "exception"
        BY DEF DepartureCostsOneAttempt, Tries
    <2>0. Arrivals /\ Losses /\ Deaths /\ OneEach /\ Outcomes
        BY DEF PathInv
    \* Each lost attempt has a departed caller in its group.
    <2> DEFINE Shares(n, w) ==
                  \E d \in Attempt : <<p, n>> \in Batching!InGroup(d) /\ w \in Batching!InGroup(d)
               f == [n \in Unanswered(p) |-> CHOOSE w \in Departures : Shares(n, w)]
    <2>1. ASSUME NEW n \in Unanswered(p)
          PROVE  \E w \in Departures : Shares(n, w)
        <3>1. n \in Tries /\ <<p, n>> \in Attempt
            BY DEF Unanswered, Tries, Attempt
        <3>2. \E d \in Attempt : task[d] = "died" /\ <<p, n>> \in Batching!InGroup(d)
            BY <3>1, <2>0, StrandedInGroup DEF Unanswered, Losses
        <3> QED BY <3>2, <2>0 DEF Deaths
    <2>2. \A n \in Unanswered(p) : f[n] \in Departures /\ Shares(n, f[n])
        BY <2>1
    <2>3. ASSUME NEW m \in Unanswered(p), NEW n \in Unanswered(p), f[m] = f[n]
          PROVE  m = n
        <3>1. PICK d \in Attempt : <<p, m>> \in Batching!InGroup(d) /\ f[m] \in Batching!InGroup(d)
            BY <2>2
        <3>2. PICK e \in Attempt : <<p, n>> \in Batching!InGroup(e) /\ f[n] \in Batching!InGroup(e)
            BY <2>2
        <3>3. d = e
            BY <2>3, <3>1, <3>2 DEF Parts, Batching!Custody
        <3> QED BY <3>1, <3>2, <3>3, <2>0 DEF OneEach, Unanswered, Tries
    <2>4. f \in Injection(Unanswered(p), Departures)
        <3>1. f \in [Unanswered(p) -> Departures]
            BY <2>2
        <3> HIDE DEF f
        <3> QED BY <3>1, <2>3 DEF Injection, IsInjective
    <2>5. IsFiniteSet(Departures)
        <3>1. IsFiniteSet(Hasty) /\ IsFiniteSet(0 .. MaxRetries)
            BY HastyAssumption, CallAssumption, MaxRetriesAssumption, FS_Subset, FS_Interval
        <3>2. IsFiniteSet(Hasty \X (0 .. MaxRetries))
            BY <3>1, FS_Product
        <3> QED BY <3>2, FS_Subset DEF Departures
    <2>6. Cardinality(Unanswered(p)) <= Cardinality(Departures)
        <3> HIDE DEF f
        <3> QED BY <2>4, <2>5, FS_Injection
    <2>7. ASSUME phase[p] = "returned"
          PROVE  payload[Current(p)] = Replica!EncodeAll(Encode, Body[p])
        <3>1. Current(p) \in Attempt /\ Current(p)[1] = p
            BY CurrentIsAttempt DEF Parts, IInv, Current
        <3>2. handler[Current(p)] = "returned"
            BY <2>0, <2>7 DEF Outcomes
        <3>3. texts[Current(p)] = Body[p] /\ future[Current(p)] = "result"
            BY <3>1, <3>2, <2>0 DEF Arrivals, Parts, Batching!IInv, Batching!Bookkeeping
        <3> QED BY <3>1, <3>3, SlicesAgree DEF Parts, Batching!OwnVectors
    <2>8. ASSUME phase[p] = "raised", NEW n \in Tries
          PROVE  n \in Unanswered(p) \/ future[<<p, n>>] = "exception"
        <3>1. error[p] \in RetryOn
            BY <2>0, <2>8 DEF Outcomes, RetryOn
        <3>2. attempt[p] = MaxRetries
            BY <2>8, <3>1 DEF Parts, IInv, RaisesWhenSpent
        <3>3. Over(p, n)
            BY <2>8, <3>2, MaxRetriesAssumption DEF Over, Tries
        <3>4. Spent(<<p, n>>)
            BY <2>0, <3>3 DEF Losses
        <3>5. \A d : Batching!InGroup(d) = Replica!InGroup(d)
            BY DEF Batching!InGroup, Replica!InGroup
        <3> QED BY <3>4, <3>5 DEF Spent, Unanswered, Stranded, Tries
    <2> QED BY <2>6, <2>7, <2>8
<1> QED
    BY <1>1, PartsHold, PathInvCorrect, PTL
==============================================================================
