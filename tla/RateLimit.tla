----------------------------- MODULE RateLimit -----------------------------
(***************************************************************************)
(* The per-subject rate limit: RedisGateway.check_rate_limit and the       *)
(* enforce_rate_limit dependency that calls it before every route of the   *)
(* API (services/api/app/stores/redis_gateway.py, routes/ask.py).  The     *)
(* requests of all replicas share one Redis.  A check is one INCR and, for *)
(* the request that finds the counter at 1, one EXPIRE: two round trips,   *)
(* between which anything may happen.                                      *)
(*                                                                         *)
(* For the subjects in Faulty, the answer to a command may be lost after   *)
(* Redis ran it (the Redis client then sends it again, or raises and the   *)
(* request ends in a 500), a command may fail, and a replica may stop      *)
(* between the two.  The others are those none of whose commands fails.    *)
(*                                                                         *)
(* Bounds: only "is it 1" and "is it at most Limit" are ever asked of a    *)
(* counter, so it saturates at Limit + 1; time is counted in ticks, and    *)
(* Window is the window's length in them.                                  *)
(***************************************************************************)
EXTENDS Integers

CONSTANTS Subject,   \* the subjects of the tokens
          Request,   \* requests in flight at a time; each may come again
          Limit,     \* rate_limit_per_minute
          Window,    \* window_s, in ticks
          Faulty,    \* the subjects whose calls to Redis may fail
          NoKey      \* the subject of no check in flight

ASSUME LimitAssumption == Limit \in Nat \ {0}
ASSUME WindowAssumption == Window \in Nat \ {0}
ASSUME FaultyAssumption == Faulty \subseteq Subject
ASSUME NoKeyAssumption == NoKey \notin Subject

VARIABLES count,     \* count[s]: the counter of key "rate:" + s; 0, no key
          ttl,       \* ttl[s]: ticks to live of that key; 0, no expiry set
          phase,     \* phase[r]: where r's check is
          subject,   \* subject[r]: whose check it is
          verdict,   \* verdict[r]: how r's last check ended
          granted    \* granted[s][k]: (history) INCRs of s that were within
                     \* the limit k ticks ago

vars == <<count, ttl, phase, subject, verdict, granted>>

Cap == Limit + 1

Init ==
    /\ count   = [s \in Subject |-> 0]
    /\ ttl     = [s \in Subject |-> 0]
    /\ phase   = [r \in Request |-> "free"]
    /\ subject = [r \in Request |-> NoKey]
    /\ verdict = [r \in Request |-> "none"]
    /\ granted = [s \in Subject |-> [k \in 0 .. Window - 1 |-> 0]]

\* What INCR leaves in the key and answers.
Incremented(s) == IF count[s] < Cap THEN count[s] + 1 ELSE Cap

\* return count <= limit
Allowed(n) == n <= Limit

\* Slip: every request restarts the countdown.
AnyRequest(n) == TRUE

\* Slip: the countdown starts when the allowance is spent.
LastAllowed(n) == n = Limit

\* if count == 1
FirstOfWindow(n) == n = 1

\* r sends the INCR of its check of s, for the first time or again.
Asks(r, s) ==
    \/ phase[r] = "free"
    \/ phase[r] = "resending" /\ subject[r] = s

\* The check is over; enforce_rate_limit lets the request in or answers 429.
Conclude(r, n) ==
    /\ phase'   = [phase EXCEPT ![r] = "free"]
    /\ subject' = [subject EXCEPT ![r] = NoKey]
    /\ verdict' = [verdict EXCEPT ![r] =
                      IF Allowed(n) THEN "admitted" ELSE "limited"]

\* INCR, and its answer arrives: the first of a window goes on to EXPIRE,
\* the others have their verdict.
Incr(r, s) ==
    /\ Asks(r, s)
    /\ count' = [count EXCEPT ![s] = Incremented(s)]
    /\ granted' = IF Allowed(Incremented(s))
                  THEN [granted EXCEPT ![s][0] = @ + 1] ELSE granted
    /\ IF FirstOfWindow(Incremented(s))
       THEN /\ phase' = [phase EXCEPT ![r] = "expiring"]
            /\ subject' = [subject EXCEPT ![r] = s]
            /\ UNCHANGED verdict
       ELSE Conclude(r, Incremented(s))
    /\ UNCHANGED ttl

\* INCR is run but its answer is lost.
IncrAnswerLost(r, s) ==
    /\ s \in Faulty
    /\ Asks(r, s)
    /\ count'   = [count EXCEPT ![s] = Incremented(s)]
    /\ phase'   = [phase EXCEPT ![r] = "resending"]
    /\ subject' = [subject EXCEPT ![r] = s]
    /\ UNCHANGED <<ttl, verdict, granted>>

\* What EXPIRE leaves as the key's time to live: nothing without the key.
Expired(s, w) == IF count[s] > 0 THEN w ELSE 0

\* Slip: the window in the wrong unit, a tick instead of Window ticks.
ExpireTooSoon(r) ==
    /\ phase[r] = "expiring"
    /\ ttl' = [ttl EXCEPT ![subject[r]] = Expired(subject[r], 1)]
    /\ Conclude(r, 1)
    /\ UNCHANGED <<count, granted>>

\* EXPIRE, and its answer arrives.
Expire(r) ==
    /\ phase[r] = "expiring"
    /\ ttl' = [ttl EXCEPT ![subject[r]] = Expired(subject[r], Window)]
    /\ Conclude(r, 1)
    /\ UNCHANGED <<count, granted>>

\* EXPIRE is run but its answer is lost; it is sent again, or given up.
ExpireAnswerLost(r) ==
    /\ subject[r] \in Faulty
    /\ phase[r] = "expiring"
    /\ ttl' = [ttl EXCEPT ![subject[r]] = Expired(subject[r], Window)]
    /\ UNCHANGED <<count, phase, subject, verdict, granted>>

\* The call to Redis raises, or the replica stops: nothing more is sent, and
\* the request ends in a 500 or without an answer.
Fail(r) ==
    /\ subject[r] \in Faulty
    /\ phase[r] \in {"resending", "expiring"}
    /\ phase'   = [phase EXCEPT ![r] = "free"]
    /\ subject' = [subject EXCEPT ![r] = NoKey]
    /\ verdict' = [verdict EXCEPT ![r] = "failed"]
    /\ UNCHANGED <<count, ttl, granted>>

\* Slip: keys without an expiry count down too.
TickBelowZero ==
    /\ count'   = [s \in Subject |-> IF ttl[s] = 1 THEN 0 ELSE count[s]]
    /\ ttl'     = [s \in Subject |-> ttl[s] - 1]
    /\ granted' = [s \in Subject |-> [k \in 0 .. Window - 1 |->
                      IF k = 0 THEN 0 ELSE granted[s][k - 1]]]
    /\ UNCHANGED <<phase, subject, verdict>>

\* Time passes; Redis deletes the keys whose time has come.
Tick ==
    /\ count'   = [s \in Subject |-> IF ttl[s] = 1 THEN 0 ELSE count[s]]
    /\ ttl'     = [s \in Subject |-> IF ttl[s] > 0 THEN ttl[s] - 1 ELSE 0]
    /\ granted' = [s \in Subject |-> [k \in 0 .. Window - 1 |->
                      IF k = 0 THEN 0 ELSE granted[s][k - 1]]]
    /\ UNCHANGED <<phase, subject, verdict>>

Next ==
    \/ \E r \in Request, s \in Subject : Incr(r, s) \/ IncrAnswerLost(r, s)
    \/ \E r \in Request : Expire(r) \/ ExpireAnswerLost(r) \/ Fail(r)
    \/ Tick

Spec == Init /\ [][Next]_vars

\* Time passes, and a check that is under way goes on (the event loop runs
\* it, and Redis answers or fails).  Nobody owes another request.
Fairness ==
    /\ WF_vars(Tick)
    /\ \A r \in Request : WF_vars(Expire(r) \/ Fail(r))

FairSpec == Spec /\ Fairness
-----------------------------------------------------------------------------
\* Every variable has its type.
TypeOK ==
    /\ count   \in [Subject -> 0 .. Cap]
    /\ ttl     \in [Subject -> 0 .. Window]
    /\ phase   \in [Request -> {"free", "resending", "expiring"}]
    /\ subject \in [Request -> Subject \cup {NoKey}]
    /\ verdict \in [Request -> {"none", "admitted", "limited", "failed"}]
    /\ granted \in [Subject -> [0 .. Window - 1 -> Nat]]

\* As long as no command of a subject fails, a counter of it that will never
\* expire is owed its EXPIRE by exactly one check under way, whatever fails
\* for the others: it is not left counting forever, and no second check
\* restarts a window that is running.
RefillScheduled ==
    \A s \in Subject \ Faulty :
        LET owing == { r \in Request : phase[r] = "expiring" /\ subject[r] = s }
        IN  /\ (count[s] > 0 /\ ttl[s] = 0) = (owing # {})
            /\ \A r, q \in owing : r = q

\* From the ages in ticks of g's entries: how many are less than k ticks old.
Totals(g) == LET total[k \in 0 .. Window] ==
                     IF k = 0 THEN 0 ELSE total[k - 1] + g[k - 1]
             IN  total

\* A fixed window admits at most two allowances in any stretch of Window
\* ticks (the end of one window and the start of the next), whatever is lost,
\* resent or late: a counter lives for a whole window or longer.
AtMostTwoAllowances ==
    \A s \in Subject : Totals(granted[s])[Window] <= 2 * Limit

\* The allowance refills automatically: a counter that exists vanishes.
AllowanceRefills == \A s \in Subject \ Faulty : count[s] > 0 ~> count[s] = 0
=============================================================================
