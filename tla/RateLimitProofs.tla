-------------------------- MODULE RateLimitProofs --------------------------
(***************************************************************************)
(* Theorems about RateLimit, for any number of subjects and requests, any  *)
(* limit and any window.                                                   *)
(***************************************************************************)
EXTENDS RateLimit, WellFoundedInduction, TLAPS

\* What INCR answers is a counter, and is 1 exactly for a new key.
LEMMA IncrementedFacts ==
    ASSUME TypeOK, NEW s \in Subject
    PROVE  /\ Incremented(s) \in 1 .. Cap
           /\ FirstOfWindow(Incremented(s)) <=> count[s] = 0
BY LimitAssumption DEF TypeOK, Incremented, Cap, FirstOfWindow

\* The module's type invariant, whichever subjects' calls fail.
THEOREM RateLimitTypes == Spec => []TypeOK
<1>1. Init => TypeOK
    BY LimitAssumption, WindowAssumption DEF Init, TypeOK, Cap
<1>2. TypeOK /\ [Next]_vars => TypeOK'
    <2> SUFFICES ASSUME TypeOK, [Next]_vars PROVE TypeOK'
        OBVIOUS
    <2> USE LimitAssumption, WindowAssumption
    <2>1. ASSUME NEW r \in Request, NEW s \in Subject, Incr(r, s)
          PROVE  TypeOK'
        <3>1. count' \in [Subject -> 0 .. Cap] /\ UNCHANGED ttl
            BY <2>1, IncrementedFacts DEF Incr, TypeOK
        <3>2. granted' \in [Subject -> [0 .. Window - 1 -> Nat]]
            BY <2>1 DEF Incr, TypeOK
        <3>3. /\ phase' \in [Request -> {"free", "resending", "expiring"}]
              /\ subject' \in [Request -> Subject \cup {NoKey}]
              /\ verdict' \in [Request -> {"none", "admitted", "limited",
                                           "failed"}]
            BY <2>1 DEF Incr, Conclude, TypeOK
        <3> QED BY <3>1, <3>2, <3>3 DEF TypeOK
    <2>2. ASSUME NEW r \in Request, NEW s \in Subject, IncrAnswerLost(r, s)
          PROVE  TypeOK'
        <3>1. count' \in [Subject -> 0 .. Cap]
            BY <2>2, IncrementedFacts DEF IncrAnswerLost, TypeOK
        <3> QED BY <3>1, <2>2 DEF IncrAnswerLost, TypeOK
    <2>3. ASSUME NEW r \in Request, Expire(r) \/ ExpireAnswerLost(r)
          PROVE  TypeOK'
        <3>1. ttl' \in [Subject -> 0 .. Window]
            BY <2>3 DEF Expire, ExpireAnswerLost, Expired, TypeOK
        <3> QED BY <3>1, <2>3 DEF Expire, ExpireAnswerLost, Conclude, TypeOK
    <2>4. ASSUME NEW r \in Request, Fail(r) PROVE TypeOK'
        BY <2>4 DEF Fail, TypeOK
    <2>5. CASE Tick
        <3>1. count' \in [Subject -> 0 .. Cap]
            BY <2>5 DEF Tick, TypeOK, Cap
        <3>2. ttl' \in [Subject -> 0 .. Window]
            BY <2>5 DEF Tick, TypeOK
        <3>3. granted' \in [Subject -> [0 .. Window - 1 -> Nat]]
            BY <2>5 DEF Tick, TypeOK
        <3> QED BY <3>1, <3>2, <3>3, <2>5 DEF Tick, TypeOK
    <2>6. CASE UNCHANGED vars
        BY <2>6 DEF vars, TypeOK
    <2> QED BY <2>1, <2>2, <2>3, <2>4, <2>5, <2>6 DEF Next
<1>3. QED
    BY <1>1, <1>2, PTL DEF Spec

-----------------------------------------------------------------------------
\* r owes s the EXPIRE of its window.
Owes(r, s) == phase[r] = "expiring" /\ subject[r] = s

Healthy == Subject \ Faulty

\* The inductive form of RefillScheduled: besides the debt itself, a time to
\* live belongs to a key that exists, and whoever has sent a command has a
\* subject, which may have failed only if it is one of the faulty.
Debts ==
    /\ \A s \in Healthy :
          /\ (count[s] > 0 /\ ttl[s] = 0) <=> \E r \in Request : Owes(r, s)
          /\ \A r, q \in Request : Owes(r, s) /\ Owes(q, s) => r = q
          /\ ttl[s] > 0 => count[s] > 0
    /\ \A r \in Request :
          /\ phase[r] = "resending" => subject[r] \in Faulty
          /\ phase[r] = "expiring" => subject[r] \in Subject

\* What a request does for one subject leaves the debts to the others alone.
LEMMA FaultsStayTheirOwn ==
    ASSUME TypeOK, Debts, NEW r \in Request, NEW s \in Faulty,
           phase[r] = "free" \/ subject[r] = s,
           \A x \in Healthy : count'[x] = count[x] /\ ttl'[x] = ttl[x],
           \A q \in Request \ {r} : /\ phase'[q] = phase[q]
                                    /\ subject'[q] = subject[q],
           phase'[r] = "free" \/ subject'[r] = s
    PROVE  Debts'
<1>1. s \notin Healthy /\ s \in Subject
    BY FaultyAssumption DEF Healthy
<1>2. \A x \in Healthy, q \in Request : Owes(q, x)' <=> Owes(q, x)
    BY <1>1 DEF Owes
<1>3. \A q \in Request : /\ phase'[q] = "resending" => subject'[q] \in Faulty
                         /\ phase'[q] = "expiring" => subject'[q] \in Subject
    BY <1>1 DEF Debts
<1> QED
    BY <1>2, <1>3 DEF Debts

\* Whatever fails for other subjects, every counter without an expiry is owed
\* one by exactly one check under way.
THEOREM RefillIsScheduled == Spec => []RefillScheduled
<1>1. Init => Debts
    BY NoKeyAssumption, FaultyAssumption DEF Init, Debts, Owes, Healthy
<1>2. TypeOK /\ Debts /\ [Next]_vars => Debts'
    <2> SUFFICES ASSUME TypeOK, Debts, [Next]_vars PROVE Debts'
        OBVIOUS
    <2> USE LimitAssumption, WindowAssumption, NoKeyAssumption
    <2>0. Healthy \subseteq Subject
        BY DEF Healthy
    <2>1. ASSUME NEW r \in Request, NEW s \in Healthy, Incr(r, s)
          PROVE  Debts'
        <3>0. s \in Subject /\ s \notin Faulty
            BY DEF Healthy
        <3>1. /\ phase[r] = "free"
              /\ \A q \in Request \ {r} : /\ phase'[q] = phase[q]
                                          /\ subject'[q] = subject[q]
              /\ ttl' = ttl /\ count'[s] = Incremented(s)
              /\ \A x \in Subject \ {s} : count'[x] = count[x]
            BY <2>1, <3>0 DEF Incr, Asks, Conclude, Debts, TypeOK
        <3>2. \A x \in Subject : ~Owes(r, x)
            BY <3>1 DEF Owes
        <3>3. CASE count[s] = 0
            <4>1. /\ phase'[r] = "expiring" /\ subject'[r] = s
                  /\ count'[s] > 0 /\ ttl[s] = 0
                <5>1. /\ FirstOfWindow(Incremented(s)) /\ Incremented(s) > 0
                      /\ ttl[s] = 0
                    <6>1. Incremented(s) \in 1 .. Cap /\ Cap \in Nat
                        BY <3>0, IncrementedFacts DEF Cap
                    <6>2. ttl[s] = 0
                        <7>1. ttl[s] \in 0 .. Window
                            BY <3>0 DEF TypeOK
                        <7>2. ttl[s] > 0 => count[s] > 0
                            BY DEF Debts
                        <7> QED BY <7>1, <7>2, <3>3
                    <6> QED BY <6>1, <6>2, <3>0, <3>3, IncrementedFacts
                <5>2. /\ phase' = [phase EXCEPT ![r] = "expiring"]
                      /\ subject' = [subject EXCEPT ![r] = s]
                    BY <5>1, <2>1 DEF Incr
                <5> QED BY <5>1, <5>2, <3>1 DEF TypeOK
            <4>2. \A q \in Request : ~Owes(q, s)
                BY <3>3 DEF Debts
            <4> QED BY <2>0, <3>0, <3>1, <3>2, <4>1, <4>2 DEF Debts, Owes
        <3>4. CASE count[s] # 0
            <4>1. /\ phase'[r] = "free" /\ subject'[r] = NoKey
                  /\ count[s] > 0 /\ count'[s] > 0
                BY <3>0, <3>1, <3>4, <2>1, IncrementedFacts
                DEF Incr, Conclude, TypeOK, Debts
            <4> QED BY <2>0, <3>0, <3>1, <3>2, <4>1 DEF Debts, Owes
        <3> QED BY <3>3, <3>4
    <2>2. ASSUME NEW r \in Request, Expire(r), subject[r] \in Healthy
          PROVE  Debts'
        <3>1. /\ Owes(r, subject[r]) /\ subject[r] \in Subject
              /\ count[subject[r]] > 0
            BY <2>0, <2>2 DEF Expire, Debts, Owes
        <3>2. /\ phase'[r] = "free" /\ subject'[r] = NoKey /\ count' = count
              /\ \A q \in Request \ {r} : /\ phase'[q] = phase[q]
                                          /\ subject'[q] = subject[q]
              /\ ttl'[subject[r]] = Window
              /\ \A x \in Subject \ {subject[r]} : ttl'[x] = ttl[x]
            BY <2>2, <3>1 DEF Expire, Conclude, Expired, TypeOK
        <3>3. \A q \in Request : Owes(q, subject[r]) => q = r
            BY <2>2, <3>1 DEF Debts
        <3>4. \A x \in Subject \ {subject[r]} : ~Owes(r, x)
            BY DEF Owes
        <3> QED BY <2>0, <3>1, <3>2, <3>3, <3>4 DEF Debts, Owes
    <2>3. ASSUME NEW r \in Request, NEW s \in Subject \ Healthy,
                 Incr(r, s) \/ IncrAnswerLost(r, s)
          PROVE  Debts'
        <3>1. s \in Faulty /\ s \in Subject
            BY <2>3 DEF Healthy
        <3>2. /\ phase[r] = "free" \/ subject[r] = s
              /\ \A x \in Healthy : count'[x] = count[x] /\ ttl'[x] = ttl[x]
            BY <2>0, <2>3 DEF Incr, IncrAnswerLost, Asks, TypeOK
        <3>3. /\ \A q \in Request \ {r} : /\ phase'[q] = phase[q]
                                          /\ subject'[q] = subject[q]
              /\ phase'[r] = "free" \/ subject'[r] = s
            BY <2>3 DEF Incr, IncrAnswerLost, Conclude, TypeOK
        <3> QED BY <3>1, <3>2, <3>3, FaultsStayTheirOwn
    <2>4. ASSUME NEW r \in Request, subject[r] \in Faulty,
                 Expire(r) \/ ExpireAnswerLost(r) \/ Fail(r)
          PROVE  Debts'
        <3>1. \A x \in Healthy : count'[x] = count[x] /\ ttl'[x] = ttl[x]
            BY <2>0, <2>4 DEF Expire, ExpireAnswerLost, Fail, TypeOK, Healthy
        <3>2. /\ \A q \in Request \ {r} : /\ phase'[q] = phase[q]
                                          /\ subject'[q] = subject[q]
              /\ phase'[r] = "free" \/ subject'[r] = subject[r]
            BY <2>4 DEF Expire, ExpireAnswerLost, Fail, Conclude, TypeOK
        <3> QED BY <2>4, <3>1, <3>2, FaultsStayTheirOwn
    <2>5. CASE Tick
        <3>1. \A x \in Subject :
                  /\ ttl[x] \in 0 .. Window
                  /\ count'[x] = IF ttl[x] = 1 THEN 0 ELSE count[x]
                  /\ ttl'[x] = IF ttl[x] > 0 THEN ttl[x] - 1 ELSE 0
            BY <2>5 DEF Tick, TypeOK
        <3>2. \A x \in Subject, q \in Request : Owes(q, x)' <=> Owes(q, x)
            BY <2>5 DEF Tick, Owes
        <3>3. UNCHANGED <<phase, subject>>
            BY <2>5 DEF Tick
        <3> QED BY <2>0, <3>1, <3>2, <3>3 DEF Debts
    <2>6. CASE UNCHANGED vars
        BY <2>6 DEF vars, Debts, Owes
    <2>7. ASSUME NEW r \in Request, Expire(r)
          PROVE  subject[r] \in Healthy \/ subject[r] \in Faulty
        BY <2>7 DEF Expire, Debts, Healthy
    <2> QED
        BY <2>1, <2>2, <2>3, <2>4, <2>5, <2>6, <2>7
        DEF Next, IncrAnswerLost, ExpireAnswerLost, Fail, Healthy
<1>3. Debts => RefillScheduled
    <2> SUFFICES ASSUME Debts, NEW s \in Healthy
                 PROVE  LET owing == { r \in Request : Owes(r, s) }
                        IN  /\ (count[s] > 0 /\ ttl[s] = 0) = (owing # {})
                            /\ \A r, q \in owing : r = q
        BY DEF RefillScheduled, Owes, Healthy
    <2> QED
        BY DEF Debts
<1>4. QED
    BY <1>1, <1>2, <1>3, RateLimitTypes, PTL DEF Spec
-----------------------------------------------------------------------------
\* Induction over the naturals, for a set: the library's theorem takes an
\* operator, but its least-element theorem does not.
LEMMA SetInduction ==
    ASSUME NEW S \in SUBSET Nat, 0 \in S, \A n \in S : n + 1 \in S
    PROVE  S = Nat
<1>1. SUFFICES ASSUME Nat \ S # {} PROVE FALSE
    OBVIOUS
<1>2. \E x \in Nat \ S : \A y \in Nat \ S : ~ (<<y, x>> \in OpToRel(<, Nat))
    BY <1>1, WFMin, NatLessThanWellFounded
<1>3. PICK x \in Nat \ S : \A y \in Nat \ S : ~ (y < x)
    BY <1>2 DEF OpToRel
<1>4. x - 1 \in Nat /\ x - 1 < x /\ (x - 1) + 1 = x
    BY <1>3
<1> QED BY <1>3, <1>4

\* How the history of a subject counts its ages.
Ages == [0 .. Window - 1 -> Nat]

\* One unfolding of Totals, up to k ticks.
TotalsUpTo(g, k, f) ==
    f = [i \in 0 .. k |-> IF i = 0 THEN 0 ELSE f[i - 1] + g[i - 1]]

\* The recursive function Totals(g) is what its equation says.
LEMMA TotalsExists ==
    ASSUME NEW g \in Ages
    PROVE  TotalsUpTo(g, Window, Totals(g))
<1> USE WindowAssumption
<1> DEFINE S == { k \in Nat : \E f : TotalsUpTo(g, k, f) }
<1>1. 0 \in S
    <2>1. TotalsUpTo(g, 0, [i \in 0 .. 0 |-> 0])
        BY DEF TotalsUpTo
    <2> QED BY <2>1
<1>2. ASSUME NEW k \in S PROVE k + 1 \in S
    <2>1. PICK f : TotalsUpTo(g, k, f)
        OBVIOUS
    <2> DEFINE h == [i \in 0 .. k + 1 |-> IF i = k + 1 THEN f[k] + g[k] ELSE f[i]]
    <2>2. \A i \in 0 .. k : f[i] = IF i = 0 THEN 0 ELSE f[i - 1] + g[i - 1]
        BY <2>1 DEF TotalsUpTo
    <2>3. ASSUME NEW i \in 0 .. k + 1
          PROVE  h[i] = IF i = 0 THEN 0 ELSE h[i - 1] + g[i - 1]
        <3>1. CASE i = k + 1
            BY <3>1
        <3>2. CASE i \in 0 .. k
            <4>1. i # 0 => i - 1 \in 0 .. k /\ i - 1 # k + 1
                BY <3>2
            <4> QED BY <2>2, <3>2, <4>1
        <3> QED BY <3>1, <3>2
    <2>4. h = [i \in 0 .. k + 1 |-> IF i = 0 THEN 0 ELSE h[i - 1] + g[i - 1]]
        <3>1. h = [i \in 0 .. k + 1 |-> h[i]]
            OBVIOUS
        <3> HIDE DEF h
        <3> QED BY <2>3, <3>1
    <2> HIDE DEF h
    <2>5. TotalsUpTo(g, k + 1, h)
        BY <2>4 DEF TotalsUpTo
    <2> QED BY <2>5
<1>3. S = Nat
    <2> HIDE DEF S
    <2> QED BY <1>1, <1>2, SetInduction DEF S
<1>4. \E f : TotalsUpTo(g, Window, f)
    BY <1>3
<1> QED
    BY <1>4 DEF Totals, TotalsUpTo

\* A total counts nothing for no ticks, and one more entry for one more tick.
LEMMA TotalsFacts ==
    ASSUME NEW g \in Ages
    PROVE  /\ Totals(g) \in [0 .. Window -> Nat]
           /\ Totals(g)[0] = 0
           /\ \A k \in 1 .. Window : Totals(g)[k] = Totals(g)[k - 1] + g[k - 1]
<1> USE WindowAssumption
<1> DEFINE T == Totals(g)
<1>1. /\ DOMAIN T = 0 .. Window
      /\ T = [i \in 0 .. Window |-> T[i]]
      /\ T[0] = 0
      /\ \A k \in 1 .. Window : T[k] = T[k - 1] + g[k - 1]
    <2>1. T = [i \in 0 .. Window |-> IF i = 0 THEN 0 ELSE T[i - 1] + g[i - 1]]
        BY TotalsExists DEF TotalsUpTo
    <2> HIDE DEF T
    <2> QED BY <2>1
<1> HIDE DEF T
<1> DEFINE S == { k \in Nat : k <= Window => T[k] \in Nat }
<1>2. 0 \in S
    BY <1>1
<1>3. ASSUME NEW k \in S PROVE k + 1 \in S
    <2>1. CASE k + 1 <= Window
        <3>0. k \in Nat /\ k + 1 \in 1 .. Window /\ T[k] \in Nat
            BY <2>1
        <3> HIDE DEF S
        <3>1. T[k + 1] = T[(k + 1) - 1] + g[(k + 1) - 1]
            BY <3>0, <1>1
        <3>2. T[k + 1] \in Nat
            BY <3>0, <3>1 DEF Ages
        <3> QED BY <3>2 DEF S
    <2> QED BY <2>1
<1>4. S = Nat
    <2> HIDE DEF S
    <2> QED BY <1>2, <1>3, SetInduction DEF S
<1>5. T \in [0 .. Window -> Nat]
    <2>1. \A k \in 0 .. Window : T[k] \in Nat
        BY <1>4
    <2> QED BY <1>1, <2>1
<1> QED BY <1>1, <1>5 DEF T

\* A tick later, what was less than k ticks old is less than k + 1 ticks old.
LEMMA TotalsAge ==
    ASSUME NEW g \in Ages, NEW h \in Ages,
           h[0] = 0, \A k \in 1 .. Window - 1 : h[k] = g[k - 1]
    PROVE  \A k \in 0 .. Window - 1 : Totals(h)[k + 1] = Totals(g)[k]
<1> USE WindowAssumption
<1> DEFINE S == { k \in Nat : k < Window => Totals(h)[k + 1] = Totals(g)[k] }
<1>1. 0 \in S
    <2>1. Totals(h)[1] = Totals(h)[1 - 1] + h[1 - 1]
        BY TotalsFacts
    <2> QED BY <2>1, TotalsFacts
<1>2. ASSUME NEW k \in S PROVE k + 1 \in S
    <2>1. CASE k + 1 < Window
        <3>1. /\ Totals(h)[k + 2] = Totals(h)[(k + 2) - 1] + h[(k + 2) - 1]
              /\ Totals(g)[k + 1] = Totals(g)[(k + 1) - 1] + g[(k + 1) - 1]
            BY <2>1, TotalsFacts
        <3>2. h[k + 1] = g[(k + 1) - 1]
            BY <2>1
        <3> QED BY <2>1, <3>1, <3>2
    <2> QED BY <2>1
<1>3. S = Nat
    <2> HIDE DEF S
    <2> QED BY <1>1, <1>2, SetInduction DEF S
<1> QED BY <1>3

\* The last tick of a window adds what it granted.
LEMMA LastTotal ==
    ASSUME NEW g \in Ages
    PROVE  Totals(g)[Window - 1] <= Totals(g)[Window]
<1> USE WindowAssumption
<1>1. Window \in 1 .. Window /\ Window \in 0 .. Window /\ Window - 1 \in 0 .. Window
      /\ Window - 1 \in 0 .. Window - 1
    OBVIOUS
<1>2. Totals(g)[Window] = Totals(g)[Window - 1] + g[Window - 1]
    BY <1>1, TotalsFacts
<1>3. Totals(g)[Window - 1] \in Nat /\ Totals(g)[Window] \in Nat
    BY <1>1, TotalsFacts
<1>4. g[Window - 1] \in Nat
    BY <1>1 DEF Ages
<1> QED BY <1>2, <1>3, <1>4

\* One more INCR now is one more in every stretch that reaches to now.
LEMMA TotalsGrow ==
    ASSUME NEW g \in Ages, NEW h \in Ages,
           h[0] = g[0] + 1, \A k \in 1 .. Window - 1 : h[k] = g[k]
    PROVE  \A k \in 1 .. Window : Totals(h)[k] = Totals(g)[k] + 1
<1> USE WindowAssumption
<1> DEFINE S == { k \in Nat : k < Window => Totals(h)[k + 1] = Totals(g)[k + 1] + 1 }
<1>0. \A k \in 0 .. Window - 1 :
          /\ Totals(h)[k + 1] = Totals(h)[k] + h[k]
          /\ Totals(g)[k + 1] = Totals(g)[k] + g[k]
          /\ g[k] \in Nat /\ Totals(g)[k] \in Nat
    <2> SUFFICES ASSUME NEW k \in 0 .. Window - 1
                 PROVE  /\ Totals(h)[k + 1] = Totals(h)[k] + h[k]
                        /\ Totals(g)[k + 1] = Totals(g)[k] + g[k]
                        /\ g[k] \in Nat /\ Totals(g)[k] \in Nat
        OBVIOUS
    <2>1. k + 1 \in 1 .. Window /\ (k + 1) - 1 = k /\ k \in 0 .. Window
        OBVIOUS
    <2>2. Totals(h)[k + 1] = Totals(h)[(k + 1) - 1] + h[(k + 1) - 1]
        BY <2>1, TotalsFacts
    <2>3. Totals(g)[k + 1] = Totals(g)[(k + 1) - 1] + g[(k + 1) - 1]
        BY <2>1, TotalsFacts
    <2> QED BY <2>1, <2>2, <2>3, TotalsFacts DEF Ages
<1>1. 0 \in S
    <2>1. Totals(h)[0] = 0 /\ Totals(g)[0] = 0
        BY TotalsFacts
    <2> QED BY <1>0, <2>1
<1>2. ASSUME NEW k \in S PROVE k + 1 \in S
    <2>1. CASE k + 1 < Window
        <3>1. /\ k + 1 \in 1 .. Window - 1
              /\ Totals(h)[k + 1] = Totals(g)[k + 1] + 1
            BY <2>1
        <3>2. h[k + 1] = g[k + 1]
            BY <3>1
        <3> QED BY <1>0, <3>1, <3>2
    <2> QED BY <2>1
<1>3. S = Nat
    <2> HIDE DEF S
    <2> QED BY <1>1, <1>2, SetInduction DEF S
<1>4. \A k \in 1 .. Window : k - 1 \in Nat /\ k - 1 < Window /\ (k - 1) + 1 = k
    OBVIOUS
<1> QED BY <1>3, <1>4
-----------------------------------------------------------------------------
\* What the counter of s says of its history.  Without a key, the last window
\* ticks hold one allowance at most, and none of it is from now.  With a key,
\* there is an age of the key before which at most one allowance was left over,
\* since which no more were granted than it counts, and at which it is not due
\* to be deleted before a whole window has passed.
AllowancesOf(s) ==
    LET total == Totals(granted[s])
    IN  /\ count[s] = 0 =>
               /\ ttl[s] = 0 /\ granted[s][0] = 0
               /\ total[Window] <= Limit
        /\ count[s] > 0 => \E age \in 0 .. Window - 1 :
               /\ total[age + 1] <= Limit /\ total[age + 1] <= count[s]
               /\ total[Window] <= total[age + 1] + Limit
               /\ ttl[s] > 0 => ttl[s] >= Window - age

Allowances == \A s \in Subject : AllowancesOf(s)

\* INCR of a counter, granted if within the limit, or with its answer lost.
LEMMA IncrementKeeps ==
    ASSUME TypeOK, NEW s \in Subject, AllowancesOf(s),
           count'[s] = Incremented(s), ttl'[s] = ttl[s],
           \/ granted'[s] = granted[s]
           \/ Incremented(s) <= Limit /\ granted'[s] = [granted[s] EXCEPT ![0] = @ + 1]
    PROVE  AllowancesOf(s)'
<1> USE LimitAssumption, WindowAssumption
<1> DEFINE t == Totals(granted[s])
           u == Totals(granted'[s])
           n == count[s]
           m == count'[s]
<1>1. /\ granted[s] \in Ages /\ n \in 0 .. Limit + 1 /\ ttl[s] \in 0 .. Window
      /\ m = IF n < Limit + 1 THEN n + 1 ELSE Limit + 1
      /\ 0 \in 0 .. Window - 1
    BY DEF TypeOK, Ages, Incremented, Cap
<1>2. \/ \A k \in 0 .. Window : u[k] = t[k]
      \/ m <= Limit /\ \A k \in 1 .. Window : u[k] = t[k] + 1
    <2>1. CASE granted'[s] = granted[s]
        BY <2>1
    <2>2. CASE Incremented(s) <= Limit /\ granted'[s] = [granted[s] EXCEPT ![0] = @ + 1]
        <3> DEFINE h == granted'[s]
        <3>1. /\ h \in Ages /\ h[0] = granted[s][0] + 1
              /\ \A k \in 1 .. Window - 1 : h[k] = granted[s][k]
            BY <1>1, <2>2 DEF Ages
        <3> HIDE DEF h
        <3>2. \A k \in 1 .. Window : Totals(h)[k] = t[k] + 1
            BY <1>1, <3>1, TotalsGrow
        <3> QED BY <2>2, <3>2 DEF h
    <2> QED BY <2>1, <2>2
<1>3. /\ t \in [0 .. Window -> Nat] /\ t[0] = 0
      /\ t[1] = t[0] + granted[s][0]
    <2>1. t[1] = t[1 - 1] + granted[s][1 - 1]
        BY <1>1, TotalsFacts
    <2> QED BY <1>1, <2>1, TotalsFacts
<1>4. /\ n = 0 => ttl[s] = 0 /\ granted[s][0] = 0 /\ t[Window] <= Limit
      /\ n > 0 => \E age \in 0 .. Window - 1 :
             /\ t[age + 1] <= Limit /\ t[age + 1] <= n
             /\ t[Window] <= t[age + 1] + Limit
             /\ ttl[s] > 0 => ttl[s] >= Window - age
    BY DEF AllowancesOf
<1> HIDE DEF t, u
<1>5. \E age \in 0 .. Window - 1 :
          /\ u[age + 1] <= Limit /\ u[age + 1] <= m
          /\ u[Window] <= u[age + 1] + Limit
          /\ ttl[s] > 0 => ttl[s] >= Window - age
    <2>1. CASE n = 0
        <3>1. m = 1 /\ t[1] = 0 /\ t[Window] <= Limit /\ ttl[s] = 0 /\ t[Window] \in Nat
            BY <1>1, <1>3, <1>4, <2>1
        <3>2. 1 \in 0 .. Window /\ 1 \in 1 .. Window /\ Window \in 1 .. Window
            OBVIOUS
        <3>3. /\ u[0 + 1] <= Limit /\ u[0 + 1] <= m
              /\ u[Window] <= u[0 + 1] + Limit
            BY <1>2, <3>1, <3>2
        <3> QED BY <1>1, <3>1, <3>3
    <2>2. CASE n > 0
        <3>1. PICK age \in 0 .. Window - 1 :
                  /\ t[age + 1] <= Limit /\ t[age + 1] <= n
                  /\ t[Window] <= t[age + 1] + Limit
                  /\ ttl[s] > 0 => ttl[s] >= Window - age
            BY <1>4, <2>2
        <3>2. /\ age + 1 \in 1 .. Window /\ Window \in 1 .. Window
              /\ t[age + 1] \in Nat /\ t[Window] \in Nat
            BY <1>3
        <3>3. /\ u[age + 1] <= Limit /\ u[age + 1] <= m
              /\ u[Window] <= u[age + 1] + Limit
            BY <1>1, <1>2, <3>1, <3>2
        <3> QED BY <3>1, <3>3
    <2> QED BY <1>1, <2>1, <2>2
<1>6. m > 0
    BY <1>1
<1> QED
    BY <1>5, <1>6 DEF AllowancesOf, u

\* A tick, which deletes the key if its time has come.
LEMMA TickKeeps ==
    ASSUME TypeOK, NEW s \in Subject, AllowancesOf(s), Tick
    PROVE  AllowancesOf(s)'
<1> USE LimitAssumption, WindowAssumption
<1> DEFINE t == Totals(granted[s])
           u == Totals(granted'[s])
           n == count[s]
<1>1. /\ granted[s] \in Ages /\ granted'[s] \in Ages
      /\ n \in 0 .. Limit + 1 /\ ttl[s] \in 0 .. Window
      /\ count'[s] = IF ttl[s] = 1 THEN 0 ELSE n
      /\ ttl'[s] = IF ttl[s] > 0 THEN ttl[s] - 1 ELSE 0
      /\ granted'[s][0] = 0
      /\ \A k \in 1 .. Window - 1 : granted'[s][k] = granted[s][k - 1]
    BY DEF TypeOK, Ages, Cap, Tick
<1>2. \A k \in 0 .. Window - 1 : u[k + 1] = t[k]
    BY <1>1, TotalsAge
<1>3. t \in [0 .. Window -> Nat] /\ t[Window - 1] <= t[Window]
    BY <1>1, TotalsFacts, LastTotal
<1>4. /\ n = 0 => ttl[s] = 0 /\ t[Window] <= Limit
      /\ n > 0 => \E age \in 0 .. Window - 1 :
             /\ t[age + 1] <= Limit /\ t[age + 1] <= n
             /\ t[Window] <= t[age + 1] + Limit
             /\ ttl[s] > 0 => ttl[s] >= Window - age
    BY DEF AllowancesOf
<1>5. u[Window] <= t[Window] /\ u[Window] \in Nat /\ t[Window] \in Nat
    <2>1. Window - 1 \in 0 .. Window - 1 /\ (Window - 1) + 1 = Window
        OBVIOUS
    <2> QED BY <1>2, <1>3, <2>1
<1> HIDE DEF t, u
<1>6. CASE n = 0
    BY <1>1, <1>4, <1>5, <1>6 DEF AllowancesOf, u
<1>7. CASE n > 0
    <2>1. PICK age \in 0 .. Window - 1 :
              /\ t[age + 1] <= Limit /\ t[age + 1] <= n
              /\ t[Window] <= t[age + 1] + Limit
              /\ ttl[s] > 0 => ttl[s] >= Window - age
        BY <1>4, <1>7
    <2>2. CASE ttl[s] = 1
        <3>1. age + 1 = Window
            BY <2>1, <2>2
        <3> QED BY <1>1, <1>5, <2>1, <2>2, <3>1 DEF AllowancesOf, u
    <2>3. CASE ttl[s] # 1 /\ age + 1 < Window
        <3>1. /\ age + 1 \in 0 .. Window - 1 /\ u[(age + 1) + 1] = t[age + 1]
              /\ ttl'[s] > 0 => ttl'[s] >= Window - (age + 1)
            BY <1>1, <1>2, <2>1, <2>3
        <3>2. /\ u[(age + 1) + 1] <= Limit /\ u[(age + 1) + 1] <= n
              /\ u[Window] <= u[(age + 1) + 1] + Limit
            BY <1>3, <1>5, <2>1, <3>1
        <3> QED BY <1>1, <1>7, <2>3, <3>1, <3>2 DEF AllowancesOf, u
    <2>4. CASE ttl[s] # 1 /\ age + 1 = Window
        <3>1. /\ u[age + 1] <= Limit /\ u[age + 1] <= n
              /\ u[Window] <= u[age + 1] + Limit
              /\ ttl'[s] > 0 => ttl'[s] >= Window - age
            BY <1>1, <1>5, <2>1, <2>4
        <3> QED BY <1>1, <1>7, <2>1, <2>4, <3>1 DEF AllowancesOf, u
    <2> QED BY <2>1, <2>2, <2>3, <2>4
<1> QED BY <1>1, <1>6, <1>7

\* redis_gateway.py: whatever is lost, resent or late, and for the subjects whose
\* commands fail too, no stretch of a window's length admits more than twice the
\* limit: EXPIRE may come late, but never cuts a window short.
THEOREM AllowancesAreBounded == Spec => []AtMostTwoAllowances
<1>1. Init => Allowances
    <2> SUFFICES ASSUME Init, NEW s \in Subject PROVE AllowancesOf(s)
        BY DEF Allowances
    <2> USE LimitAssumption, WindowAssumption
    <2> DEFINE g == granted[s]
               S == { k \in Nat : k <= Window => Totals(g)[k] = 0 }
    <2>1. g \in Ages /\ \A k \in 0 .. Window - 1 : g[k] = 0
        BY DEF Init, Ages
    <2> HIDE DEF g
    <2>2. 0 \in S
        BY <2>1, TotalsFacts
    <2>3. ASSUME NEW k \in S PROVE k + 1 \in S
        <3>1. CASE k + 1 <= Window
            <4>1. /\ k + 1 \in 1 .. Window /\ k \in 0 .. Window - 1
                  /\ Totals(g)[k] = 0 /\ (k + 1) - 1 = k
                BY <3>1
            <4>2. Totals(g)[k + 1] = Totals(g)[(k + 1) - 1] + g[(k + 1) - 1]
                BY <2>1, <4>1, TotalsFacts
            <4> QED BY <2>1, <4>1, <4>2
        <3> QED BY <3>1
    <2>4. S = Nat
        <3> HIDE DEF S
        <3> QED BY <2>2, <2>3, SetInduction DEF S
    <2>5. Totals(g)[Window] = 0
        BY <2>4
    <2> QED BY <2>1, <2>5 DEF Init, AllowancesOf, g
<1>2. TypeOK /\ Allowances /\ [Next]_vars => Allowances'
    <2> SUFFICES ASSUME TypeOK, Allowances, [Next]_vars, NEW s \in Subject
                 PROVE  AllowancesOf(s)'
        BY DEF Allowances
    <2>0. AllowancesOf(s)
        BY DEF Allowances
    <2>1. ASSUME NEW r \in Request, NEW x \in Subject,
                 Incr(r, x) \/ IncrAnswerLost(r, x)
          PROVE  AllowancesOf(s)'
        <3>1. CASE x = s
            <4>1. /\ count'[s] = Incremented(s) /\ ttl'[s] = ttl[s]
                  /\ \/ granted'[s] = granted[s]
                     \/ /\ Incremented(s) <= Limit
                        /\ granted'[s] = [granted[s] EXCEPT ![0] = @ + 1]
                BY <2>1, <3>1 DEF Incr, IncrAnswerLost, Allowed, TypeOK
            <4> QED BY <2>0, <4>1, IncrementKeeps
        <3>2. CASE x # s
            <4>1. UNCHANGED <<count[s], ttl[s], granted[s]>>
                BY <2>1, <3>2 DEF Incr, IncrAnswerLost, TypeOK
            <4> QED BY <2>0, <4>1 DEF AllowancesOf
        <3> QED BY <3>1, <3>2
    <2>2. ASSUME NEW r \in Request, Expire(r) \/ ExpireAnswerLost(r)
          PROVE  AllowancesOf(s)'
        <3>1. /\ UNCHANGED <<count, granted>>
              /\ ttl'[s] = ttl[s] \/ ttl'[s] = Expired(s, Window)
            BY <2>2 DEF Expire, ExpireAnswerLost, TypeOK
        <3>2. ttl'[s] = ttl[s] \/ (count[s] = 0 /\ ttl'[s] = 0) \/ ttl'[s] = Window
            BY <3>1 DEF Expired, TypeOK
        <3>3. CASE ttl'[s] = Window /\ count[s] > 0
            BY <2>0, <3>1, <3>3, WindowAssumption DEF AllowancesOf
        <3>4. CASE ttl'[s] = ttl[s] \/ (count[s] = 0 /\ ttl'[s] = 0)
            BY <2>0, <3>1, <3>4 DEF AllowancesOf
        <3>5. ttl'[s] = ttl[s] \/ (count[s] = 0 /\ ttl'[s] = 0)
              \/ (ttl'[s] = Window /\ count[s] > 0)
            BY <3>1 DEF Expired, TypeOK
        <3> QED BY <3>3, <3>4, <3>5
    <2>3. CASE Tick
        BY <2>0, <2>3, TickKeeps
    <2>4. CASE UNCHANGED vars \/ \E r \in Request : Fail(r)
        BY <2>0, <2>4 DEF vars, Fail, AllowancesOf
    <2> QED BY <2>1, <2>2, <2>3, <2>4 DEF Next
<1>3. TypeOK /\ Allowances => AtMostTwoAllowances
    <2> SUFFICES ASSUME TypeOK, Allowances, NEW s \in Subject
                 PROVE  Totals(granted[s])[Window] <= 2 * Limit
        BY DEF AtMostTwoAllowances
    <2> USE LimitAssumption, WindowAssumption
    <2> DEFINE t == Totals(granted[s])
    <2>1. granted[s] \in Ages /\ count[s] \in Nat /\ AllowancesOf(s)
        BY DEF TypeOK, Ages, Cap, Allowances
    <2>2. t \in [0 .. Window -> Nat]
        BY <2>1, TotalsFacts
    <2>3. \/ t[Window] <= Limit
          \/ \E age \in 0 .. Window - 1 :
                 t[age + 1] <= Limit /\ t[Window] <= t[age + 1] + Limit
        BY <2>1 DEF AllowancesOf
    <2> HIDE DEF t
    <2>4. t[Window] <= 2 * Limit
        BY <2>2, <2>3
    <2> QED BY <2>4 DEF t
<1> QED
    BY <1>1, <1>2, <1>3, RateLimitTypes, PTL DEF Spec
=============================================================================
