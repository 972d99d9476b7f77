------------------------------- MODULE Login -------------------------------
(***************************************************************************)
(* Who may call: the users table (stores/postgres_users.py), POST /token   *)
(* (routes/auth.py) and the token every protected route asks for           *)
(* (auth.py), composed with the route whose rows carry the token's         *)
(* subject, POST /feedback.                                                *)
(*                                                                         *)
(* A login reads the stored hash in one transaction and compares what it   *)
(* read after it, so a password may be replaced in between; and a token    *)
(* is good until it expires, whatever becomes of the password.             *)
(*                                                                         *)
(* Abstractions.  A hash is the password it was made from.  A signature    *)
(* is good for the tokens that were minted and no others.  What passes     *)
(* before a request's token is looked at is left out, and time runs in     *)
(* ticks.                                                                  *)
(***************************************************************************)
EXTENDS Feedback

CONSTANTS Attempt,    \* the calls of POST /token
          Password,   \* the passwords
          Lifetime,   \* jwt_expiry_hours, in ticks
          MaxChanges  \* bound: the calls of upsert_user

ASSUME LoginAssumption ==
    None \notin Password /\ Lifetime \in Nat /\ MaxChanges \in Nat

VARIABLES hash,    \* hash[u]: the password in u's row, None without a row
          at,      \* at[l]: where the handler of attempt l is
          name,    \* name[l]: form.username
          given,   \* given[l]: form.password
          seen,    \* seen[l]: what get_password_hash returned
          age,     \* age[l]: ticks since l's token was minted
          stale,   \* stale[l]: (history) ticks since the password l gave was
                   \* replaced and l ended; past Lifetime when it never was
                   \* the one in the row
          lag,     \* lag[r]: (history) stale[l] when request r came with l's
                   \* token
          changes  \* calls of upsert_user so far

logins == <<hash, at, name, given, seen, age, stale, lag, changes>>

Expired == Lifetime + 1

LoginInit ==
    /\ Init
    /\ hash    = [u \in User |-> None]
    /\ at      = [l \in Attempt |-> "new"]
    /\ name    = [l \in Attempt |-> None]
    /\ given   = [l \in Attempt |-> None]
    /\ seen    = [l \in Attempt |-> None]
    /\ age     = [l \in Attempt |-> 0]
    /\ stale   = [l \in Attempt |-> Expired]
    /\ lag     = [r \in Request |-> 0]
    /\ changes = 0

\* upsert_user: the row of u is created, or its hash replaced.
UpsertUser(u, w) ==
    /\ changes < MaxChanges
    /\ changes' = changes + 1
    /\ hash'  = [hash EXCEPT ![u] = w]
    /\ stale' = [l \in Attempt |->
                    IF name[l] = u /\ given[l] = w THEN 0 ELSE stale[l]]
    /\ UNCHANGED <<at, name, given, seen, age, lag, vars>>

\* POST /token with a username and a password.
Begin(l, u, w) ==
    /\ at[l] = "new"
    /\ at'    = [at EXCEPT ![l] = "read"]
    /\ name'  = [name EXCEPT ![l] = u]
    /\ given' = [given EXCEPT ![l] = w]
    /\ stale' = [stale EXCEPT ![l] = IF hash[u] = w THEN 0 ELSE Expired]
    /\ UNCHANGED <<hash, seen, age, lag, changes, vars>>

\* get_password_hash: the row is read, and its session closed.
GetPasswordHash(l) ==
    /\ at[l] = "read"
    /\ at'   = [at EXCEPT ![l] = "check"]
    /\ seen' = [seen EXCEPT ![l] = hash[name[l]]]
    /\ UNCHANGED <<hash, name, given, age, stale, lag, changes, vars>>

\* checkpw, and mint_access_token or a 401.
Verify(l) ==
    /\ at[l] = "check"
    /\ at' = [at EXCEPT ![l] = IF seen[l] = given[l] THEN "minted" ELSE "refused"]
    /\ UNCHANGED <<hash, name, given, seen, age, stale, lag, changes, vars>>

\* The database raises, or the replica stops.
FailLogin(l) ==
    /\ at[l] \in {"read", "check"}
    /\ at' = [at EXCEPT ![l] = "refused"]
    /\ UNCHANGED <<hash, name, given, seen, age, stale, lag, changes, vars>>

\* Time passes: for the tokens, and for the passwords no longer in their rows.
Tick ==
    /\ \E l \in Attempt : at[l] = "minted" /\ age[l] < Expired
    /\ age' = [l \in Attempt |->
                  IF at[l] = "minted" /\ age[l] < Expired THEN age[l] + 1
                                                          ELSE age[l]]
    /\ stale' = [l \in Attempt |->
                    IF /\ at[l] = "minted" /\ stale[l] < Expired
                       /\ hash[name[l]] # given[l]
                    THEN stale[l] + 1 ELSE stale[l]]
    /\ UNCHANGED <<hash, at, name, given, seen, lag, changes, vars>>

\* Slip: the expiry is not verified.
Minted(l) == at[l] = "minted"

\* jwt.decode accepts the token of l.
RequireToken(l) == at[l] = "minted" /\ age[l] <= Lifetime

\* A request with the token of l; its author is the token's subject.  Without a
\* good token the answer is a 401, and nothing happens.
Bring(r, l, s) ==
    /\ RequireToken(l)
    /\ Arrive(r, name[l], s)
    /\ lag' = [lag EXCEPT ![r] = stale[l]]
    /\ UNCHANGED <<hash, at, name, given, seen, age, stale, changes>>

LoginStep ==
    \/ \E u \in User, w \in Password : UpsertUser(u, w)
    \/ \E l \in Attempt, u \in User, w \in Password : Begin(l, u, w)
    \/ \E l \in Attempt : GetPasswordHash(l) \/ Verify(l) \/ FailLogin(l)
    \/ Tick

RequestStep ==
    \/ \E r \in Request, l \in Attempt, s \in Session : Bring(r, l, s)
    \/ /\ \E r \in Request : ReadVerdicts(r) \/ AddVerdict(r) \/ Fail(r)
       /\ UNCHANGED logins

LoginNext == LoginStep \/ RequestStep

LoginSpec == LoginInit /\ [][LoginNext]_<<vars, logins>>
-----------------------------------------------------------------------------
\* Every variable has its type.
LoginTypeOK ==
    /\ hash    \in [User -> Password \cup {None}]
    /\ at      \in [Attempt -> {"new", "read", "check", "minted", "refused"}]
    /\ name    \in [Attempt -> User \cup {None}]
    /\ given   \in [Attempt -> Password \cup {None}]
    /\ seen    \in [Attempt -> Password \cup {None}]
    /\ age     \in [Attempt -> 0 .. Expired]
    /\ stale   \in [Attempt -> 0 .. Expired]
    /\ lag     \in [Request -> 0 .. Expired]
    /\ changes \in 0 .. MaxChanges

\* "mint a token, verify it per request": nobody acts as a user without having
\* given a password that was in the user's row, and a password that is replaced
\* opens nothing once the lifetime of a token has passed since then, or since
\* the end of the login that was under way: no token renews itself, and none is
\* minted for a password that was gone before the login began.
ReplacedPasswordsExpire == \A r \in Request : lag[r] <= Lifetime
=============================================================================
