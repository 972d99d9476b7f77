------------------------------ MODULE Feedback ------------------------------
(***************************************************************************)
(* POST /feedback (services/api/app/routes/feedback.py) over the feedback  *)
(* table (stores/postgres_feedback.py).  The handler reads the session's   *)
(* verdicts, refuses the caller if one is by another user, and then adds   *)
(* the caller's: two transactions, between which other requests run.       *)
(***************************************************************************)
EXTENDS Integers, Sequences, FiniteSets

CONSTANTS Request,   \* the requests
          User,      \* the subjects of the tokens
          Session,   \* the session ids
          None       \* of a request that has not arrived

ASSUME NoneAssumption == None \notin User \cup Session

VARIABLES pc,        \* pc[r]: where r's handler is
          user,      \* user[r]: claims["sub"]
          session,   \* session[r]: body.session_id
          table,     \* table[s]: the verdicts of s in insertion order, each
                     \* by its request
          before     \* before[r]: (history) the requests recorded or refused
                     \* when r arrived

vars == <<pc, user, session, table, before>>

Init ==
    /\ pc      = [r \in Request |-> "new"]
    /\ user    = [r \in Request |-> None]
    /\ session = [r \in Request |-> None]
    /\ table   = [s \in Session |-> <<>>]
    /\ before  = [r \in Request |-> {}]

Arrive(r, u, s) ==
    /\ pc[r] = "new"
    /\ pc'      = [pc EXCEPT ![r] = "read"]
    /\ user'    = [user EXCEPT ![r] = u]
    /\ session' = [session EXCEPT ![r] = s]
    /\ before'  = [before EXCEPT ![r] =
                      { p \in Request : pc[p] \in {"recorded", "refused"} }]
    /\ UNCHANGED table

\* The requests whose verdicts session s carries.
Verdicts(s) == { table[s][i] : i \in 1 .. Len(table[s]) }

\* Slip: only the last verdict is looked at.
ForeignLast(r) ==
    LET s == session[r]
    IN  Len(table[s]) > 0 /\ user[table[s][Len(table[s])]] # user[r]

\* any(row.user_id != claims["sub"] for row in existing)
Foreign(r) == \E p \in Verdicts(session[r]) : user[p] # user[r]

\* for_session, and the check of its rows.
ReadVerdicts(r) ==
    /\ pc[r] = "read"
    /\ pc' = [pc EXCEPT ![r] = IF Foreign(r) THEN "refused" ELSE "add"]
    /\ UNCHANGED <<user, session, table, before>>

\* add: the verdict is committed, and the caller told.
AddVerdict(r) ==
    /\ pc[r] = "add"
    /\ table' = [table EXCEPT ![session[r]] = Append(@, r)]
    /\ pc'    = [pc EXCEPT ![r] = "recorded"]
    /\ UNCHANGED <<user, session, before>>

\* The database raises, or the replica stops, with the verdict committed or
\* not: the caller gets no answer, or a 500.
Fail(r) ==
    /\ pc[r] \in {"read", "add"}
    /\ pc' = [pc EXCEPT ![r] = "failed"]
    /\ \/ UNCHANGED table
       \/ /\ pc[r] = "add"
          /\ table' = [table EXCEPT ![session[r]] = Append(@, r)]
    /\ UNCHANGED <<user, session, before>>

Next ==
    \/ \E r \in Request, u \in User, s \in Session : Arrive(r, u, s)
    \/ \E r \in Request : ReadVerdicts(r) \/ AddVerdict(r) \/ Fail(r)

Spec == Init /\ [][Next]_vars
-----------------------------------------------------------------------------
\* Every variable has its type.
TypeOK ==
    /\ pc \in [Request -> {"new", "read", "add", "recorded", "refused", "failed"}]
    /\ user    \in [Request -> User \cup {None}]
    /\ session \in [Request -> Session \cup {None}]
    /\ table   \in [Session -> Seq(Request)]
    /\ before  \in [Request -> SUBSET Request]

\* Two authors in one session can only be two requests that overlapped: a
\* verdict its caller was told of keeps every other user out who asks later,
\* and a session refused to a user stays refused.
OnlyOverlapMixesAuthors ==
    \A r \in Request : \A p \in before[r] :
        r \in Verdicts(session[r]) /\ session[p] = session[r] =>
            IF pc[p] = "recorded" THEN user[p] = user[r]
                                  ELSE user[p] # user[r]
=============================================================================
