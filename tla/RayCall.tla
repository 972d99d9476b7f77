------------------------------ MODULE RayCall ------------------------------
(***************************************************************************)
(* Calls of the API to the embedding and LLM services: one POST over a     *)
(* pool of connections (clients/ray_embed.py, clients/ray_llm.py), retried *)
(* by exponential_backoff (libs/retry/backoff.py).  The service goes on    *)
(* with a request whose caller has given up on it, so a retry may find its *)
(* predecessor still at work.  The length of the waits is left out.        *)
(***************************************************************************)
EXTENDS Integers, FiniteSets

CONSTANTS Call,            \* the calls of the process
          MaxRetries,      \* retries after the first attempt
          MaxConnections   \* MAX_CONNECTIONS of the pool

ASSUME CallAssumption == IsFiniteSet(Call)
ASSUME MaxRetriesAssumption == MaxRetries \in Nat
ASSUME MaxConnectionsAssumption == MaxConnections \in Nat \ {0}

VARIABLES phase,    \* phase[c]: where call c is
          attempt,  \* attempt[c]: the loop's counter
          error,    \* error[c]: what the last attempt raised
          at_work   \* the attempts <<c, n>> the service is at work on

vars == <<phase, attempt, error, at_work>>

\* What an attempt can raise: no connection or no answer in time, a status of
\* 500 or more, a status of 400 to 499 (the request itself is at fault), an
\* answer without the expected body, or the RuntimeError of a client that is not
\* started, or closed by the shutdown.  The first three are httpx.HTTPErrors.
RetryOn == {"transport", "failing", "refused"}
Errors  == RetryOn \cup {"malformed", "closed"}
Phases  == {"idle", "queued", "sent", "waiting", "returned", "raised", "cancelled"}

Ended(c) == phase[c] \in {"returned", "raised", "cancelled"}
Holding  == { c \in Call : phase[c] = "sent" }

Init ==
    /\ phase   = [c \in Call |-> "idle"]
    /\ attempt = [c \in Call |-> 0]
    /\ error   = [c \in Call |-> "none"]
    /\ at_work = {}

Begin(c) ==
    /\ phase[c] = "idle"
    /\ phase' = [phase EXCEPT ![c] = "queued"]
    /\ UNCHANGED <<attempt, error, at_work>>

\* The pool has a connection, and the request reaches the service.
Send(c) ==
    /\ phase[c] = "queued" /\ Cardinality(Holding) < MaxConnections
    /\ phase'   = [phase EXCEPT ![c] = "sent"]
    /\ at_work' = at_work \cup {<<c, attempt[c]>>}
    /\ UNCHANGED <<attempt, error>>

\* Slip: one retry too many.
GivesUpLate(c) == attempt[c] > MaxRetries

\* The last attempt has failed.
GivesUp(c) == attempt[c] = MaxRetries

\* Slip: everything is retried.
ExceptAny(c, e) ==
    /\ error' = [error EXCEPT ![c] = e]
    /\ phase' = [phase EXCEPT ![c] = IF GivesUp(c) THEN "raised" ELSE "waiting"]
    /\ UNCHANGED attempt

\* The attempt raises e: "except retry_on" waits or raises, all else raises.
Except(c, e) ==
    /\ error' = [error EXCEPT ![c] = e]
    /\ phase' = [phase EXCEPT ![c] =
                   IF e \in RetryOn /\ ~GivesUp(c) THEN "waiting" ELSE "raised"]
    /\ UNCHANGED attempt

\* No connection: the pool is full for too long, the service is away, or there
\* is no pool.
NoConnection(c) ==
    /\ phase[c] = "queued"
    /\ \E e \in {"transport", "closed"} : Except(c, e)
    /\ UNCHANGED at_work

\* The timeout, or a broken connection: the service may not notice.
NoAnswer(c) ==
    /\ phase[c] = "sent"
    /\ Except(c, "transport")
    /\ at_work' \in {at_work, at_work \ {<<c, attempt[c]>>}}

\* The service answers the attempt that waits for it ...
Answer(c) ==
    /\ phase[c] = "sent" /\ <<c, attempt[c]>> \in at_work
    /\ at_work' = at_work \ {<<c, attempt[c]>>}
    /\ \/ /\ phase' = [phase EXCEPT ![c] = "returned"]
          /\ UNCHANGED <<attempt, error>>
       \/ \E e \in {"failing", "refused", "malformed"} : Except(c, e)

\* ... or ends one that nobody waits for.
AnswerNobody(w) ==
    /\ w \in at_work
    /\ ~(phase[w[1]] = "sent" /\ attempt[w[1]] = w[2])
    /\ at_work' = at_work \ {w}
    /\ UNCHANGED <<phase, attempt, error>>

\* Slip: the loop's counter is not raised.
RetrySame(c) ==
    /\ phase[c] = "waiting"
    /\ phase' = [phase EXCEPT ![c] = "queued"]
    /\ UNCHANGED <<attempt, error, at_work>>

\* The wait is over.
Retry(c) ==
    /\ phase[c] = "waiting"
    /\ phase'   = [phase EXCEPT ![c] = "queued"]
    /\ attempt' = [attempt EXCEPT ![c] = @ + 1]
    /\ UNCHANGED <<error, at_work>>

\* The request the call belongs to is cancelled: CancelledError is no
\* Exception, and ends the call wherever it is.
Cancel(c) ==
    /\ phase[c] \in {"queued", "sent", "waiting"}
    /\ phase' = [phase EXCEPT ![c] = "cancelled"]
    /\ at_work' \in {at_work, at_work \ {<<c, attempt[c]>>}}
    /\ UNCHANGED <<attempt, error>>

Proceed(c) ==
    Begin(c) \/ Send(c) \/ NoConnection(c) \/ NoAnswer(c) \/ Answer(c) \/ Retry(c)

Next ==
    \/ \E c \in Call : Proceed(c) \/ Cancel(c)
    \/ \E w \in at_work : AnswerNobody(w)

Spec == Init /\ [][Next]_vars

\* The timeouts are what a call can count on: for the pool, for the answer,
\* and of the wait between two attempts.
FairSpec == Spec /\ \A c \in Call : WF_vars(Proceed(c))
-----------------------------------------------------------------------------
\* Every variable has its type.
TypeOK ==
    /\ phase   \in [Call -> Phases]
    /\ attempt \in [Call -> 0 .. MaxRetries]
    /\ error   \in [Call -> Errors \cup {"none"}]
    /\ at_work \subseteq Call \X (0 .. MaxRetries)

\* backoff.py: a call surfaces an error worth retrying only after its last
\* attempt, and any other error at the attempt that met it.
RaisesWhenSpent ==
    \A c \in Call :
        /\ phase[c] = "raised" /\ error[c] \in RetryOn => attempt[c] = MaxRetries
        /\ phase[c] = "waiting" => error[c] \in RetryOn /\ attempt[c] < MaxRetries

\* Every call that is made ends.
EveryCallEnds == \A c \in Call : phase[c] = "queued" ~> Ended(c)
=============================================================================
