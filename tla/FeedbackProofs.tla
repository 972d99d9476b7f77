--------------------------- MODULE FeedbackProofs ---------------------------
(***************************************************************************)
(* Theorems about Feedback, for any number of users, sessions and          *)
(* requests, and about Login, for any passwords and any lifetime.          *)
(***************************************************************************)
EXTENDS Login, SequenceTheorems, TLAPS

\* The verdicts of a session after one is appended.
LEMMA VerdictsAfterAppend ==
    ASSUME TypeOK, NEW r \in Request, NEW s \in Session,
           table' = [table EXCEPT ![s] = Append(@, r)]
    PROVE  /\ Verdicts(s)' = Verdicts(s) \cup {r}
           /\ \A t \in Session \ {s} : Verdicts(t)' = Verdicts(t)
           /\ table' \in [Session -> Seq(Request)]
<1> DEFINE old == table[s]
           new == table'[s]
<1>1. old \in Seq(Request) /\ new = Append(old, r)
    BY DEF TypeOK
<1>2. /\ new \in Seq(Request) /\ Len(new) = Len(old) + 1 /\ Len(old) \in Nat
      /\ \A i \in 1 .. Len(old) : new[i] = old[i]
      /\ new[Len(old) + 1] = r
    <2> HIDE DEF old, new
    <2> QED BY <1>1, AppendProperties
<1>3. Verdicts(s)' = Verdicts(s) \cup {r}
    <2>1. { new[i] : i \in 1 .. Len(new) }
            = { old[i] : i \in 1 .. Len(old) } \cup {r}
        <3> HIDE DEF old, new
        <3> QED BY <1>2
    <2> QED BY <2>1 DEF Verdicts
<1>4. \A t \in Session \ {s} : table'[t] = table[t]
    BY DEF TypeOK
<1>5. QED
    BY <1>2, <1>3, <1>4 DEF Verdicts, TypeOK

\* The module's type invariant.
THEOREM FeedbackTypes == Spec => []TypeOK
<1>1. Init => TypeOK
    BY DEF Init, TypeOK
<1>2. TypeOK /\ [Next]_vars => TypeOK'
    <2> SUFFICES ASSUME TypeOK, [Next]_vars PROVE TypeOK'
        OBVIOUS
    <2>1. ASSUME NEW r \in Request, NEW u \in User, NEW s \in Session,
                 Arrive(r, u, s)
          PROVE  TypeOK'
        BY <2>1 DEF TypeOK, Arrive
    <2>2. ASSUME NEW r \in Request, ReadVerdicts(r) PROVE TypeOK'
        BY <2>2 DEF TypeOK, ReadVerdicts
    <2>3. ASSUME NEW r \in Request,
                 \/ UNCHANGED table
                 \/ table' = [table EXCEPT ![session[r]] = Append(@, r)],
                 pc' \in [Request -> {"new", "read", "add", "recorded",
                                      "refused", "failed"}],
                 UNCHANGED <<user, session, before>>
          PROVE  TypeOK'
        <3>1. CASE UNCHANGED table
            BY <3>1, <2>3 DEF TypeOK
        <3>2. CASE session[r] \in Session /\ ~UNCHANGED table
            BY <3>2, <2>3, VerdictsAfterAppend DEF TypeOK
        <3>3. CASE session[r] \notin Session /\ ~UNCHANGED table
            BY <3>3, <2>3 DEF TypeOK
        <3> QED BY <3>1, <3>2, <3>3
    <2>4. ASSUME NEW r \in Request, AddVerdict(r) \/ Fail(r) PROVE TypeOK'
        <3>1. pc' \in [Request -> {"new", "read", "add", "recorded",
                                   "refused", "failed"}]
            BY <2>4 DEF TypeOK, AddVerdict, Fail
        <3>2. /\ UNCHANGED <<user, session, before>>
              /\ \/ UNCHANGED table
                 \/ table' = [table EXCEPT ![session[r]] = Append(@, r)]
            BY <2>4 DEF AddVerdict, Fail
        <3> QED BY <3>1, <3>2, <2>3
    <2>5. CASE UNCHANGED vars
        BY <2>5 DEF TypeOK, vars
    <2> QED BY <2>1, <2>2, <2>4, <2>5 DEF Next
<1>3. QED
    BY <1>1, <1>2, PTL DEF Spec

-----------------------------------------------------------------------------
\* p's outcome keeps r's verdict out unless the two agree: a recorded verdict
\* is by r's own user, a refusal was of another user.
Agrees(p, r) == IF pc[p] = "recorded" THEN user[p] = user[r]
                                      ELSE user[p] # user[r]

\* The inductive form of OnlyOverlapMixesAuthors.  A verdict in a session is
\* by a request for that session that has tried to add it; whoever was told
\* "recorded" is in the table, and whoever was refused saw another user there;
\* and a request that is about to add agrees with all that ended before it.
IInv ==
    /\ \A s \in Session : \A p \in Verdicts(s) :
          session[p] = s /\ pc[p] \in {"recorded", "failed"}
    /\ \A p \in Request : pc[p] # "new" => session[p] \in Session
    /\ \A p \in Request : pc[p] = "recorded" => p \in Verdicts(session[p])
    /\ \A p \in Request : pc[p] = "refused" =>
          \E q \in Verdicts(session[p]) : user[q] # user[p]
    /\ \A r \in Request : \A p \in before[r] :
          p \in Request /\ pc[p] \in {"recorded", "refused"} /\ pc[r] # "new"
    /\ \A r \in Request : \A p \in before[r] :
          (pc[r] = "add" \/ r \in Verdicts(session[r]))
          /\ session[p] = session[r] => Agrees(p, r)

\* Two authors in a session means two requests that overlapped.
THEOREM OverlapIsNeeded == Spec => []OnlyOverlapMixesAuthors
<1>1. Init => IInv
    BY DEF Init, IInv, Verdicts
<1>2. TypeOK /\ IInv /\ [Next]_vars => IInv'
    <2> SUFFICES ASSUME TypeOK, IInv, [Next]_vars PROVE IInv'
        OBVIOUS
    <2>0. \A s \in Session : Verdicts(s) \subseteq Request
        BY ElementOfSeq DEF TypeOK, Verdicts
    <2>1. ASSUME NEW r \in Request, NEW u \in User, NEW s \in Session,
                 Arrive(r, u, s)
          PROVE  IInv'
        <3>1. /\ pc[r] = "new" /\ pc'[r] = "read" /\ session'[r] = s
              /\ before'[r] = { p \in Request : pc[p] \in {"recorded", "refused"} }
              /\ \A p \in Request \ {r} :
                    /\ pc'[p] = pc[p] /\ session'[p] = session[p]
                    /\ user'[p] = user[p] /\ before'[p] = before[p]
            BY <2>1 DEF TypeOK, Arrive
        <3>2. \A t \in Session : Verdicts(t)' = Verdicts(t) /\ r \notin Verdicts(t)
            BY <2>1, <3>1 DEF Arrive, Verdicts, IInv
        <3>3. \A p \in Request : r \notin before[p]
            BY <3>1 DEF IInv
        <3>4. \A p \in Request \ {r} : pc[p] # "new" =>
                  Verdicts(session[p])' = Verdicts(session[p])
            BY <3>1, <3>2 DEF IInv
        <3>5. \A p \in Request : p \in before'[r] => pc[p] \in {"recorded", "refused"}
            BY <3>1
        <3>6. \A t \in Session : \A p \in Verdicts(t)' :
                  session'[p] = t /\ pc'[p] \in {"recorded", "failed"}
            BY <2>0, <3>1, <3>2 DEF IInv
        <3>7. \A p \in Request : pc'[p] # "new" => session'[p] \in Session
            BY <3>1 DEF IInv
        <3>8. \A p \in Request : pc'[p] = "recorded" => p \in Verdicts(session[p])'
            BY <3>1, <3>2 DEF IInv
        <3> QED
            BY <2>0, <3>1, <3>2, <3>3, <3>5, <3>6, <3>7 DEF IInv, Agrees
    <2>2. ASSUME NEW r \in Request, ReadVerdicts(r) PROVE IInv'
        <3>1. /\ pc[r] = "read" /\ session[r] \in Session
              /\ pc'[r] = IF Foreign(r) THEN "refused" ELSE "add"
              /\ \A p \in Request \ {r} : pc'[p] = pc[p]
              /\ UNCHANGED <<user, session, table, before>>
            BY <2>2 DEF TypeOK, ReadVerdicts, IInv
        <3>2. \A t \in Session : Verdicts(t)' = Verdicts(t) /\ r \notin Verdicts(t)
            BY <3>1 DEF Verdicts, IInv
        <3>3. \A p \in Request : r \notin before[p]
            BY <3>1 DEF IInv
        <3>4. /\ \A t \in Session : \A p \in Verdicts(t)' :
                    session'[p] = t /\ pc'[p] \in {"recorded", "failed"}
              /\ \A p \in Request : pc'[p] # "new" => session'[p] \in Session
              /\ \A p \in Request : pc'[p] = "recorded" => p \in Verdicts(session[p])'
            BY <2>0, <3>1, <3>2 DEF IInv
        <3>5. \A p \in Request : pc'[p] = "refused" =>
                  \E q \in Verdicts(session[p])' : user'[q] # user'[p]
            BY <3>1, <3>2 DEF IInv, Foreign
        <3>6. \A p \in before[r] :
                  pc'[r] = "add" /\ session[p] = session[r] => Agrees(p, r)
            BY <3>1, <3>2 DEF IInv, Foreign, Agrees
        <3> QED
            BY <2>0, <3>1, <3>2, <3>3, <3>4, <3>5, <3>6 DEF IInv, Agrees
    <2>3. ASSUME NEW r \in Request, AddVerdict(r) \/ Fail(r) PROVE IInv'
        <3>1. /\ pc[r] \in {"read", "add"} /\ pc'[r] \in {"recorded", "failed"}
              /\ session[r] \in Session
              /\ \A p \in Request \ {r} : pc'[p] = pc[p]
              /\ UNCHANGED <<user, session, before>>
            BY <2>3 DEF TypeOK, AddVerdict, Fail, IInv
        <3>2. \A t \in Session : r \notin Verdicts(t)
            BY <3>1 DEF IInv
        <3>3. \A p \in Request : r \notin before[p]
            BY <3>1 DEF IInv
        <3>4. CASE UNCHANGED table /\ pc'[r] = "failed"
            <4>1. \A t \in Session : Verdicts(t)' = Verdicts(t)
                BY <3>4 DEF Verdicts
            <4>2. /\ \A t \in Session : \A p \in Verdicts(t)' :
                        session'[p] = t /\ pc'[p] \in {"recorded", "failed"}
                  /\ \A p \in Request : pc'[p] # "new" => session'[p] \in Session
                  /\ \A p \in Request :
                        pc'[p] = "recorded" => p \in Verdicts(session[p])'
                  /\ \A p \in Request : pc'[p] = "refused" =>
                        \E q \in Verdicts(session[p])' : user'[q] # user'[p]
                BY <2>0, <3>1, <3>4, <4>1 DEF IInv
            <4> QED
                BY <2>0, <3>1, <3>2, <3>3, <3>4, <4>1, <4>2 DEF IInv, Agrees
        <3>5. CASE table' = [table EXCEPT ![session[r]] = Append(@, r)]
                   /\ pc[r] = "add"
            <4>1. /\ Verdicts(session[r])' = Verdicts(session[r]) \cup {r}
                  /\ \A t \in Session \ {session[r]} : Verdicts(t)' = Verdicts(t)
                BY <3>1, <3>5, VerdictsAfterAppend
            <4>2. \A t \in Session : Verdicts(t) \subseteq Verdicts(t)'
                BY <3>1, <4>1
            <4>3. /\ \A t \in Session : \A p \in Verdicts(t)' :
                        session'[p] = t /\ pc'[p] \in {"recorded", "failed"}
                  /\ \A p \in Request : pc'[p] # "new" => session'[p] \in Session
                  /\ \A p \in Request :
                        pc'[p] = "recorded" => p \in Verdicts(session[p])'
                BY <2>0, <3>1, <4>1, <4>2 DEF IInv
            <4>4. \A p \in Request : pc'[p] = "refused" =>
                      \E q \in Verdicts(session[p])' : user'[q] # user'[p]
                BY <3>1, <4>2 DEF IInv
            <4>5. \A q \in Request \ {r} :
                      pc[q] # "new" /\ q \in Verdicts(session[q])'
                          => q \in Verdicts(session[q])
                BY <3>1, <4>1 DEF IInv
            <4> QED
                BY <2>0, <3>1, <3>2, <3>3, <3>5, <4>3, <4>4, <4>5
                DEF IInv, Agrees
        <3> QED BY <2>3, <3>4, <3>5 DEF TypeOK, AddVerdict, Fail
    <2>4. CASE UNCHANGED vars
        BY <2>4 DEF vars, IInv, Verdicts, Agrees
    <2> QED BY <2>1, <2>2, <2>3, <2>4 DEF Next
<1>3. TypeOK /\ IInv => OnlyOverlapMixesAuthors
    BY DEF IInv, OnlyOverlapMixesAuthors, Agrees
<1>4. QED
    BY <1>1, <1>2, <1>3, FeedbackTypes, PTL DEF Spec

-----------------------------------------------------------------------------
\* A login that has begun has a username and a password.
Named ==
    \A l \in Attempt : at[l] # "new" => name[l] \in User /\ given[l] \in Password

\* LoginTypeOK holds throughout.
LEMMA LoginTypes == LoginSpec => [](LoginTypeOK /\ Named)
<1> USE LoginAssumption DEF LoginTypeOK, Named, Expired
<1> DEFINE Typed == LoginTypeOK /\ Named
<1>1. LoginInit => Typed
    BY DEF LoginInit
<1>2. Typed /\ [LoginNext]_<<vars, logins>> => Typed'
    <2> SUFFICES ASSUME Typed, [LoginNext]_<<vars, logins>>
                 PROVE  Typed'
        OBVIOUS
    <2>1. ASSUME NEW u \in User, NEW w \in Password, UpsertUser(u, w)
          PROVE  Typed'
        BY <2>1 DEF UpsertUser
    <2>2. ASSUME NEW l \in Attempt, NEW u \in User, NEW w \in Password,
                 Begin(l, u, w)
          PROVE  Typed'
        BY <2>2 DEF Begin
    <2>3. ASSUME NEW l \in Attempt, GetPasswordHash(l) PROVE Typed'
        <3>1. name[l] \in User
            BY <2>3 DEF GetPasswordHash
        <3>2. seen' \in [Attempt -> Password \cup {None}]
            BY <2>3, <3>1 DEF GetPasswordHash
        <3> QED BY <2>3, <3>2 DEF GetPasswordHash
    <2>4. ASSUME NEW l \in Attempt, Verify(l) \/ FailLogin(l) PROVE Typed'
        BY <2>4 DEF Verify, FailLogin
    <2>5. CASE Tick
        BY <2>5 DEF Tick
    <2>6. ASSUME NEW r \in Request, NEW l \in Attempt, NEW s \in Session,
                 Bring(r, l, s)
          PROVE  Typed'
        BY <2>6 DEF Bring
    <2>7. CASE UNCHANGED logins
        BY <2>7 DEF logins
    <2> QED
        BY <2>1, <2>2, <2>3, <2>4, <2>5, <2>6, <2>7
        DEF LoginNext, LoginStep, RequestStep
<1>3. QED
    BY <1>1, <1>2, PTL DEF LoginSpec

\* The requests that tokens let in are requests of Feedback: what is proved
\* above of the subjects of any tokens holds of those that logins mint.
THEOREM LoginImplementsFeedback == LoginSpec => Spec
<1>1. LoginInit => Init
    BY DEF LoginInit
<1>2. Named /\ [LoginNext]_<<vars, logins>> => [Next]_vars
    <2> SUFFICES ASSUME Named, [LoginNext]_<<vars, logins>>
                 PROVE  Next \/ UNCHANGED vars
        OBVIOUS
    <2>1. CASE LoginStep
        BY <2>1
        DEF LoginStep, UpsertUser, Begin, GetPasswordHash, Verify, FailLogin, Tick
    <2>2. ASSUME NEW r \in Request, NEW l \in Attempt, NEW s \in Session,
                 Bring(r, l, s)
          PROVE  Next
        BY <2>2 DEF Bring, RequireToken, Named, Next
    <2>3. CASE \E r \in Request : ReadVerdicts(r) \/ AddVerdict(r) \/ Fail(r)
        BY <2>3 DEF Next
    <2> QED BY <2>1, <2>2, <2>3 DEF LoginNext, RequestStep
<1>3. QED
    BY <1>1, <1>2, LoginTypes, PTL DEF LoginSpec, Spec

\* What ties a token to the password it was minted for: while the login runs,
\* the password it gave is not stale if it is, or was read, in the row; and
\* from then on it gets stale no faster than the token ages.
Tied ==
    /\ \A l \in Attempt :
          /\ at[l] \in {"read", "check"} /\ hash[name[l]] = given[l]
                => stale[l] = 0
          /\ at[l] = "check" /\ seen[l] = given[l] => stale[l] = 0
          /\ at[l] = "minted" => stale[l] <= age[l]
    /\ \A r \in Request : lag[r] <= Lifetime

\* A replaced password opens nothing beyond the lifetime of a token.
THEOREM PasswordsExpire == LoginSpec => []ReplacedPasswordsExpire
<1> USE LoginAssumption DEF Expired
<1>1. LoginInit => Tied
    BY DEF LoginInit, Tied
<1>2. Tied /\ LoginTypeOK /\ Named /\ [LoginNext]_<<vars, logins>> => Tied'
    <2> SUFFICES ASSUME Tied, LoginTypeOK, Named, [LoginNext]_<<vars, logins>>
                 PROVE  Tied'
        OBVIOUS
    <2> USE DEF LoginTypeOK, Named, Tied
    <2>1. ASSUME NEW u \in User, NEW w \in Password, UpsertUser(u, w)
          PROVE  Tied'
        BY <2>1 DEF UpsertUser
    <2>2. ASSUME NEW l \in Attempt, NEW u \in User, NEW w \in Password,
                 Begin(l, u, w)
          PROVE  Tied'
        BY <2>2 DEF Begin
    <2>3. ASSUME NEW l \in Attempt, GetPasswordHash(l) PROVE Tied'
        BY <2>3 DEF GetPasswordHash
    <2>4. ASSUME NEW l \in Attempt, Verify(l) \/ FailLogin(l) PROVE Tied'
        BY <2>4 DEF Verify, FailLogin
    <2>5. CASE Tick
        BY <2>5 DEF Tick
    <2>6. ASSUME NEW r \in Request, NEW l \in Attempt, NEW s \in Session,
                 Bring(r, l, s)
          PROVE  Tied'
        BY <2>6 DEF Bring, RequireToken
    <2>7. CASE UNCHANGED logins
        BY <2>7 DEF logins
    <2> QED
        BY <2>1, <2>2, <2>3, <2>4, <2>5, <2>6, <2>7
        DEF LoginNext, LoginStep, RequestStep
<1>3. Tied => ReplacedPasswordsExpire
    BY DEF Tied, ReplacedPasswordsExpire
<1>4. QED
    BY <1>1, <1>2, <1>3, LoginTypes, PTL DEF LoginSpec
=============================================================================
