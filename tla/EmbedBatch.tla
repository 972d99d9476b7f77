----------------------------- MODULE EmbedBatch -----------------------------
(***************************************************************************)
(* EmbeddingDeployment (services/api/app/models/embedding_engine.py): the  *)
(* dynamic batching of one replica.  One event loop runs every coroutine,  *)
(* so an action is the code between two suspension points: a request runs  *)
(* from the start of _embed_in_group to `await future`; a collector runs   *)
(* from create_task to `await asyncio.sleep`, from there to                *)
(* `await asyncio.to_thread`, and from there to its end.                   *)
(*                                                                         *)
(* A collector is named by the request that started it.  A request may be  *)
(* cancelled while it is parked: Ray Serve cancels the handler of a caller *)
(* that disconnects or times out, and cancelling a task cancels the future *)
(* it awaits.  Filling a future that is already cancelled raises           *)
(* InvalidStateError, which ends the collector in the middle of its loop.  *)
(***************************************************************************)
EXTENDS EmbedSlices

CONSTANTS Request,      \* the requests the replica may receive
          Text,         \* the texts a request may carry
          Bodies,       \* the "text" lists of the bodies, each in Seq(Text)
          Vector,       \* the vectors of the model
          Encode,       \* the model: the vector of each text
          Cancellable,  \* the requests whose caller may go away
          Malformed,    \* the requests whose "text" is not a list (null)
          NoTask        \* `None` of _group_collector_task

\* A body without "text" counts as one with no texts: body.get("text", []).
ASSUME BodiesAssumption == Bodies \subseteq Seq(Text) /\ <<>> \in Bodies
ASSUME EncodeAssumption == Encode \in [Text -> Vector]
ASSUME RequestAssumption ==
    /\ Cancellable \subseteq Request
    /\ Malformed \subseteq Request
    /\ NoTask \notin Request

VARIABLES texts,      \* texts[r]: the list r put in the waiting room
          call,       \* call[r]: where r's __call__ is
          future,     \* future[r]: the state of r's container
          payload,    \* payload[r]: the result in r's container
          pending,    \* _pending: the waiting room, in arrival order
          collector,  \* _group_collector_task
          task,       \* task[c]: where the collector started by c is
          group       \* group[c]: the local `pending` of that collector

vars == <<texts, call, future, payload, pending, collector, task, group>>

\* The "text" lists of the requests of a group, in order.
BodiesOf(g) == [i \in 1 .. Len(g) |-> texts[g[i]]]

Init ==
    /\ texts     = [r \in Request |-> <<>>]
    /\ call      = [r \in Request |-> "new"]
    /\ future    = [r \in Request |-> "none"]
    /\ payload   = [r \in Request |-> <<>>]
    /\ pending   = <<>>
    /\ collector = NoTask
    /\ task      = [c \in Request |-> "none"]
    /\ group     = [c \in Request |-> <<>>]

\* __call__ up to `await future`: join the waiting room, and start the
\* collector if none is holding the door.
EmbedInGroup(r, ts) ==
    /\ call[r] = "new"
    /\ texts'   = [texts EXCEPT ![r] = ts]
    /\ call'    = [call EXCEPT ![r] = "parked"]
    /\ future'  = [future EXCEPT ![r] = "waiting"]
    /\ pending' = Append(pending, r)
    /\ IF collector = NoTask
       THEN /\ collector' = r
            /\ task' = [task EXCEPT ![r] = "sleeping"]
       ELSE UNCHANGED <<collector, task>>
    /\ UNCHANGED <<payload, group>>

\* The requests a delivery loop over g reaches: it stops with
\* InvalidStateError at the first future that is already cancelled.
Reached(g) ==
    { g[i] : i \in { i \in 1 .. Len(g) :
                        \A j \in 1 .. i : future[g[j]] # "cancelled" } }

AllReached(g) == \A i \in 1 .. Len(g) : future[g[i]] # "cancelled"

\* The delivery loop over g, run to its end or to its InvalidStateError:
\* set_result with each request's slice of the vectors.
DeliverResults(c, g) ==
    LET bs      == BodiesOf(g)
        vectors == EncodeAll(Encode, Flat(bs))
        share   == [r \in Reached(g) |->
                       Share(bs, vectors,
                             CHOOSE i \in 1 .. Len(g) : g[i] = r)]
    IN  /\ future'  = [r \in Request |->
                          IF r \in Reached(g) THEN "result" ELSE future[r]]
        /\ payload' = [r \in Request |->
                          IF r \in Reached(g) THEN share[r] ELSE payload[r]]
        /\ task'    = [task EXCEPT ![c] =
                          IF AllReached(g) THEN "done" ELSE "died"]

\* Slip: the `except` branch returns without filling any container.
DeliverErrorToNobody(c, g) ==
    /\ task' = [task EXCEPT ![c] = "done"]
    /\ UNCHANGED <<future, payload>>

\* The same loop in the `except` branch: set_exception for each request.
DeliverError(c, g) ==
    /\ future' = [r \in Request |->
                     IF r \in Reached(g) THEN "exception" ELSE future[r]]
    /\ task'   = [task EXCEPT ![c] =
                     IF AllReached(g) THEN "done" ELSE "died"]
    /\ UNCHANGED payload

\* Slip: the door closes without `_group_collector_task = None`.
TakeGroupKeepingCollector(c) ==
    /\ task[c] = "sleeping"
    /\ group'   = [group EXCEPT ![c] = pending]
    /\ pending' = <<>>
    /\ UNCHANGED collector

\* Slip: the waiting room is read but not reset.
TakeGroupKeepingRoom(c) ==
    /\ task[c] = "sleeping"
    /\ group'     = [group EXCEPT ![c] = pending]
    /\ collector' = NoTask
    /\ UNCHANGED pending

\* The door closes: the collector takes the whole waiting room and resets it.
TakeGroup(c) ==
    /\ task[c] = "sleeping"
    /\ group'     = [group EXCEPT ![c] = pending]
    /\ pending'   = <<>>
    /\ collector' = NoTask

\* The sleep ends with texts to encode; the collector suspends in to_thread.
CloseDoor(c) ==
    /\ TakeGroup(c)
    /\ \A i \in 1 .. Len(pending) : pending[i] \notin Malformed
    /\ Total(BodiesOf(pending)) > 0
    /\ task' = [task EXCEPT ![c] = "encoding"]
    /\ UNCHANGED <<texts, call, future, payload>>

\* The sleep ends and no request brought a text: `vectors = []`, and the
\* empty slices are handed out without suspending.
CloseDoorEmpty(c) ==
    /\ TakeGroup(c)
    /\ \A i \in 1 .. Len(pending) : pending[i] \notin Malformed
    /\ Total(BodiesOf(pending)) = 0
    /\ DeliverResults(c, pending)
    /\ UNCHANGED <<texts, call>>

\* The sleep ends on a body whose "text" cannot be iterated: the merge
\* raises outside the `try`, and the collector ends with the group in hand.
CloseDoorRaises(c) ==
    /\ TakeGroup(c)
    /\ \E i \in 1 .. Len(pending) : pending[i] \in Malformed
    /\ task' = [task EXCEPT ![c] = "died"]
    /\ UNCHANGED <<texts, call, future, payload>>

\* The worker thread returns the vectors.
EncodeReturns(c) ==
    /\ task[c] = "encoding"
    /\ DeliverResults(c, group[c])
    /\ UNCHANGED <<texts, call, pending, collector, group>>

\* The model raised.
EncodeRaises(c) ==
    /\ task[c] = "encoding"
    /\ DeliverError(c, group[c])
    /\ UNCHANGED <<texts, call, pending, collector, group>>

\* Slip: the error is swallowed at the `await` and the caller is answered.
ResumeSwallowingErrors(r) ==
    /\ call[r] = "parked"
    /\ future[r] \in {"result", "exception"}
    /\ call' = [call EXCEPT ![r] = "returned"]
    /\ UNCHANGED <<texts, future, payload, pending, collector, task, group>>

\* `await future` continues: __call__ returns its vectors, or raises.
Resume(r) ==
    /\ call[r] = "parked"
    /\ \/ /\ future[r] = "result"
          /\ call' = [call EXCEPT ![r] = "returned"]
       \/ /\ future[r] = "exception"
          /\ call' = [call EXCEPT ![r] = "raised"]
    /\ UNCHANGED <<texts, future, payload, pending, collector, task, group>>

\* The caller went away while the request is parked: the task is cancelled,
\* and with it the future it awaits unless that is done already.  Nothing
\* takes the request out of the waiting room or of its group.
Cancel(r) ==
    /\ r \in Cancellable
    /\ call[r] = "parked"
    /\ call'   = [call EXCEPT ![r] = "cancelled"]
    /\ future' = [future EXCEPT ![r] =
                     IF future[r] = "waiting" THEN "cancelled" ELSE future[r]]
    /\ UNCHANGED <<texts, payload, pending, collector, task, group>>

Collect(c) == CloseDoor(c) \/ CloseDoorEmpty(c) \/ CloseDoorRaises(c)

Finish(c) == EncodeReturns(c) \/ EncodeRaises(c)

\* A malformed body carries no list of texts; <<>> stands in for it.
Next ==
    \/ \E r \in Request \ Malformed, ts \in Bodies : EmbedInGroup(r, ts)
    \/ \E r \in Malformed : EmbedInGroup(r, <<>>)
    \/ \E c \in Request : Collect(c)
    \/ \E c \in Request : Finish(c)
    \/ \E r \in Request : Resume(r)
    \/ \E r \in Request : Cancel(r)

Spec == Init /\ [][Next]_vars

\* The event loop runs what is ready: a sleep ends, a worker thread ends,
\* a task whose future is done is resumed.  Callers owe nothing.
Fairness ==
    /\ \A c \in Request : WF_vars(Collect(c)) /\ WF_vars(Finish(c))
    /\ \A r \in Request : WF_vars(Resume(r))

FairSpec == Spec /\ Fairness
-----------------------------------------------------------------------------
\* Every variable has its type.
TypeOK ==
    /\ texts     \in [Request -> Seq(Text)]
    /\ call      \in [Request -> {"new", "parked", "returned", "raised",
                                  "cancelled"}]
    /\ future    \in [Request -> {"none", "waiting", "result", "exception",
                                  "cancelled"}]
    /\ payload   \in [Request -> Seq(Vector)]
    /\ pending   \in Seq(Request)
    /\ collector \in Request \cup {NoTask}
    /\ task      \in [Request -> {"none", "sleeping", "encoding", "done",
                                  "died"}]
    /\ group     \in [Request -> Seq(Request)]

\* The waiting room is never left without a collector: there is one exactly
\* while requests wait in it, and it is the only one asleep (a request that
\* joined while no collector slept would never be encoded).
DoorAttended ==
    /\ (pending = <<>>) = (collector = NoTask)
    /\ \A c \in Request : (task[c] = "sleeping") = (c = collector)

\* A request's vectors are its own: whatever shared its pass, an answered
\* request holds one vector per text of its own body, in that order.
OwnVectors ==
    \A r \in Request :
        future[r] = "result" => payload[r] = EncodeAll(Encode, texts[r])

Lists == INSTANCE SequencesExt

\* The order of the merge: `flat` is the concatenation of the requests'
\* lists in arrival order, and each share is a contiguous piece of it.
MergeConcatenates ==
    \A c \in Request :
        LET bs == BodiesOf(group[c])
        IN  /\ Flat(bs) = Lists!FlattenSeq(bs)
            /\ \A i \in 1 .. Len(bs) : Share(bs, Flat(bs), i) = bs[i]

\* The requests waiting in the room, or in the group of collector c.
InRoom == { pending[i] : i \in 1 .. Len(pending) }
InGroup(c) == { group[c][i] : i \in 1 .. Len(group[c]) }

\* r is held by the waiting room alone, or by the group of c alone.
WaitsInRoom(r) == r \in InRoom /\ \A c \in Request : r \notin InGroup(c)
WaitsInGroup(r, c) ==
    /\ r \in InGroup(c) /\ r \notin InRoom
    /\ \A d \in Request \ {c} : r \notin InGroup(d)

\* The collector c died, of a caller that went away and stood before r in the
\* group, or of a malformed body.
BrokenBefore(r, c) ==
    /\ task[c] = "died"
    /\ \/ \E i, j \in 1 .. Len(group[c]) :
             i < j /\ group[c][j] = r /\ future[group[c][i]] = "cancelled"
       \/ \E i \in 1 .. Len(group[c]) : group[c][i] \in Malformed

\* A parked request has one holder that may still fill its container: the
\* waiting room or one encoding group.  The only others left waiting are in
\* the group of a collector that died, and a collector strands only those
\* behind a caller that went away, or a group with a malformed body.
StrandedOnlyInABrokenGroup ==
    \A r \in Request : future[r] = "waiting" =>
        \/ WaitsInRoom(r)
        \/ \E c \in Request :
              /\ WaitsInGroup(r, c)
              /\ task[c] = "encoding" \/ BrokenBefore(r, c)

\* The callers see EmbedService: batching is invisible to them.
Service == INSTANCE EmbedService WITH
    reply <- [r \in Request |-> IF call[r] = "returned" THEN payload[r]
                                                        ELSE <<>>]

\* Every step of the batching is a step of the promised service, or none.
ImplementsService == Service!Spec

\* Every parked request ends, whatever joins, leaves or fails around it, but
\* for one in the group of a collector that died.
OnlyBrokenGroupsKeepWaiting ==
    \A r \in Request : call[r] = "parked" ~>
        \/ call[r] # "parked"
        \/ \E c \in Request : task[c] = "died" /\ r \in InGroup(c)

\* The docstring's promise, "so nobody waits forever": a parked request ends.
NobodyWaitsForever ==
    \A r \in Request : call[r] = "parked" ~> call[r] # "parked"
=============================================================================
