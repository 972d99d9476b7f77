------------------------- MODULE ConversationProofs -------------------------
(***************************************************************************)
(* What the caches of Conversation serve, what its memory keeps and what   *)
(* the model is shown of it, for any number of requests over any           *)
(* questions, sessions and similarities.                                   *)
(*                                                                         *)
(* ServedAnswerFits rests on IInv, which speaks of answers alone.  The     *)
(* memory has an invariant of its own, MemoryInv, which relates the place  *)
(* of every handler to the rows it has written; the view of the model a    *)
(* third, ViewInv.  Each is kept by every step under those before it.      *)
(***************************************************************************)
EXTENDS Conversation, SequenceTheorems, WellFoundedInduction, TLAPS

\* The variables that say where answers are.
Places == Ended \cup Streaming \cup
              {"new", "exact", "semantic", "history", "cacheExact", "reply"}
AnswerTypes ==
    /\ pc       \in [Request -> Places]
    /\ body     \in [Request -> Bodies \cup {NoBody}]
    /\ answer   \in [Request -> Request \cup {NoAnswer}]
    /\ exact    \in [Question -> Request \cup {NoAnswer}]
    /\ semantic \subseteq Question \X Request

\* The requests that came, each with a question.
Came == { r \in Request : pc[r] # "new" }

\* The inductive form of ServedAnswerFits: a cache keeps an answer only under the
\* very question it was made for, because what is put there is always the answer
\* that the request itself was given by the model.
IInv ==
    /\ AnswerTypes
    /\ \A r \in Came : body[r] \in Bodies
    /\ \A r \in Request : pc[r] = "new" => answer[r] = NoAnswer
    /\ \A r \in Request : pc[r] \in {"cacheExact", "cacheSemantic"} => answer[r] = r
    /\ \A q \in Question : exact[q] # NoAnswer =>
           exact[q] \in Came /\ QuestionOf(exact[q]) = q
    /\ \A p \in semantic : p[2] \in Came /\ QuestionOf(p[2]) = p[1]
    /\ \A r \in Request : answer[r] # NoAnswer => answer[r] \in Came
    /\ ServedAnswerFits

\* Nobody has asked at the start.
LEMMA InitIInv == Init => IInv
BY DEF Init, IInv, AnswerTypes, Places, Came, ServedAnswerFits

\* A request asks about a question.
LEMMA QuestionsAsked ==
    ASSUME IInv, NEW r \in Came
    PROVE  QuestionOf(r) \in Question /\ KindOf(r) \in Kind
BY BodiesAssumption DEF IInv, Came, QuestionOf, KindOf

\* A step of request r that puts nothing into a cache, and gives r no answer or
\* one made for a question similar to its own.
LEMMA AnswerKeeps ==
    ASSUME IInv, NEW r \in Came,
           NEW place \in Places \ {"new"}, pc' = [pc EXCEPT ![r] = place],
           NEW a \in Came \cup {NoAnswer}, answer' = [answer EXCEPT ![r] = a],
           a # NoAnswer => <<QuestionOf(r), QuestionOf(a)>> \in Similar,
           place \in {"cacheExact", "cacheSemantic"} => a = r,
           UNCHANGED <<body, exact, semantic>>
    PROVE  IInv'
<1> USE DEF IInv, AnswerTypes
<1>0. r \in Request /\ a \in Request \cup {NoAnswer}
    BY DEF Came
<1>1. AnswerTypes'
    BY <1>0
<1>2. Came' = Came
    BY <1>0 DEF Came
<1>3. \A p \in Request : pc'[p] = "new" => answer'[p] = NoAnswer
    BY <1>0
<1>4. \A p \in Request : pc'[p] \in {"cacheExact", "cacheSemantic"} => answer'[p] = p
    BY <1>0
<1>5. \A p \in Request : answer'[p] # NoAnswer => answer'[p] \in Came
    BY <1>0
<1>6. \A p \in Request : answer'[p] # NoAnswer =>
          <<body[p].question, body[answer'[p]].question>> \in Similar
    BY <1>0 DEF ServedAnswerFits, QuestionOf
<1> QED
    BY <1>1, <1>2, <1>3, <1>4, <1>5, <1>6 DEF ServedAnswerFits, QuestionOf

\* A step of request r whose own answer may go into the caches.
LEMMA CachingKeeps ==
    ASSUME IInv, NEW r \in Came, pc[r] \in {"cacheExact", "cacheSemantic"},
           NEW place \in Places \ {"new"}, pc' = [pc EXCEPT ![r] = place],
           \/ exact' = [exact EXCEPT ![QuestionOf(r)] = answer[r]]
           \/ exact' = exact,
           \/ semantic' = semantic \cup {<<QuestionOf(r), answer[r]>>}
           \/ semantic' = semantic,
           UNCHANGED <<body, answer>>
    PROVE  IInv'
<1> DEFINE q == QuestionOf(r)
<1>1. r \in Request /\ answer[r] = r /\ q \in Question
    BY QuestionsAsked DEF IInv, Came
<1> USE DEF IInv, AnswerTypes
<1>2. AnswerTypes'
    <2>1. pc' \in [Request -> Places] /\ exact' \in [Question -> Request \cup {NoAnswer}]
        BY <1>1
    <2>2. semantic' \subseteq Question \X Request
        BY <1>1
    <2> QED BY <2>1, <2>2
<1>3. Came' = Came
    BY <1>1 DEF Came
<1>4. \A p \in Question : exact'[p] # NoAnswer =>
          exact'[p] \in Came /\ body[exact'[p]].question = p
    BY <1>1 DEF QuestionOf
<1>5. \A p \in semantic' : p[2] \in Came /\ body[p[2]].question = p[1]
    BY <1>1 DEF QuestionOf
<1>6. /\ \A p \in Request : pc'[p] = "new" => answer[p] = NoAnswer
      /\ \A p \in Request : pc'[p] \in {"cacheExact", "cacheSemantic"} => answer[p] = p
    BY <1>1
<1> QED
    BY <1>2, <1>3, <1>4, <1>5, <1>6 DEF ServedAnswerFits, QuestionOf

\* A request arrives, which nothing has named before.
LEMMA ArrivalKeeps ==
    ASSUME IInv, NEW r \in Request, NEW b \in Bodies, Arrive(r, b)
    PROVE  IInv'
<1> USE DEF IInv, AnswerTypes
<1>1. /\ r \notin Came /\ answer[r] = NoAnswer
      /\ body' = [body EXCEPT ![r] = b]
      /\ UNCHANGED <<answer, exact, semantic>>
    BY DEF Arrive, Came
<1>2. \E place \in {"exact", "semantic", "history", "model"} :
          pc' = [pc EXCEPT ![r] = place]
    <2>1. b.kind \in Kind
        BY BodiesAssumption
    <2> QED BY <2>1 DEF Arrive, Goto, Kind
<1>3. AnswerTypes'
    BY <1>1, <1>2 DEF Places, Ended, Streaming
<1>4. Came' = Came \cup {r}
    BY <1>1, <1>2 DEF Came
<1>5. \A p \in Came : body'[p] = body[p]
    BY <1>1 DEF Came
<1>6. \A p \in Came' : body'[p] \in Bodies
    BY <1>1, <1>4, <1>5 DEF Came
<1>7. /\ \A p \in Request : pc'[p] = "new" => answer[p] = NoAnswer
      /\ \A p \in Request : pc'[p] \in {"cacheExact", "cacheSemantic"} => answer[p] = p
    BY <1>1, <1>2
<1>8. \A p \in Request : answer[p] # NoAnswer =>
          /\ answer[p] \in Came /\ p \in Came
          /\ <<body'[p].question, body'[answer[p]].question>> \in Similar
    BY <1>1, <1>5 DEF ServedAnswerFits, QuestionOf, Came
<1>9. /\ \A q \in Question : exact[q] # NoAnswer =>
             exact[q] \in Came /\ body'[exact[q]].question = q
      /\ \A p \in semantic : p[2] \in Came /\ body'[p[2]].question = p[1]
    BY <1>5 DEF QuestionOf
<1> QED
    BY <1>1, <1>3, <1>4, <1>6, <1>7, <1>8, <1>9 DEF ServedAnswerFits, QuestionOf

\* The places a handler goes to after an answer, and after a row.
LEMMA PlacesAfter ==
    ASSUME IInv, NEW r \in Came
    PROVE  /\ RecordOrReply(r) \in {"user", "reply"}
           /\ HistoryOrModel(r) \in {"history", "model"}
           /\ \A role \in {"user", "assistant"} :
                 /\ Committing[role] \in {"user commit", "assistant commit"}
                 /\ AfterRow(r, role) \in {"assistant", "reply", "replied", "cacheSemantic"}
                 /\ AfterRow(r, role) = "cacheSemantic" => answer[r] = r
<1>1. KindOf(r) \in Kind
    BY QuestionsAsked
<1> QED
    BY <1>1 DEF RecordOrReply, HistoryOrModel, AfterRow, Committing, FromCache, Kind

\* Every step of a handler keeps the caches to what was made for their questions.
LEMMA StepKeeps ==
    ASSUME IInv, NEW r \in Request, Step(r)
    PROVE  IInv'
<1> USE DEF Places, Ended, Streaming
<1>1. /\ r \in Came
      /\ answer = [answer EXCEPT ![r] = answer[r]]
      /\ answer[r] \in Came \cup {NoAnswer}
      /\ answer[r] # NoAnswer => <<QuestionOf(r), QuestionOf(answer[r])>> \in Similar
    <2>0. /\ Committing["user"] = "user commit"
          /\ Committing["assistant"] = "assistant commit"
        BY DEF Committing
    <2>1. pc[r] # "new"
        BY <2>0 DEF Step, ExactHit, ExactMiss, SemanticHit, SemanticMiss, GetHistory, Model,
                    ModelSilent, Send, SetExact, SetSemantic, Stamp, Commit, Reply
    <2> QED BY <2>1 DEF IInv, AnswerTypes, Came, ServedAnswerFits
<1>2. QuestionOf(r) \in Question /\ KindOf(r) \in Kind
    BY <1>1, QuestionsAsked
<1>3. CASE ExactHit(r)
    <2> DEFINE a == exact[QuestionOf(r)]
    <2>1. a \in Came /\ <<QuestionOf(r), QuestionOf(a)>> \in Similar
        BY <1>2, <1>3, SimilarAssumption DEF ExactHit, IInv
    <2>2. /\ answer' = [answer EXCEPT ![r] = a]
          /\ pc' = [pc EXCEPT ![r] = RecordOrReply(r)]
          /\ UNCHANGED <<body, exact, semantic>>
        BY <1>3 DEF ExactHit, Goto
    <2>3. RecordOrReply(r) \in Places \ {"new", "cacheExact", "cacheSemantic"}
        BY <1>1, PlacesAfter
    <2> HIDE DEF a, Places
    <2> QED BY <1>1, <2>1, <2>2, <2>3, AnswerKeeps
<1>4. CASE SemanticHit(r)
    <2>1. PICK p \in semantic : /\ <<QuestionOf(r), p[1]>> \in Similar
                                /\ answer' = [answer EXCEPT ![r] = p[2]]
        BY <1>4 DEF SemanticHit
    <2>2. p[2] \in Came /\ <<QuestionOf(r), QuestionOf(p[2])>> \in Similar
        BY <2>1 DEF IInv
    <2> DEFINE place == IF KindOf(r) = "chat" THEN "send" ELSE RecordOrReply(r)
    <2>3. pc' = [pc EXCEPT ![r] = place] /\ UNCHANGED <<body, exact, semantic>>
        BY <1>4 DEF SemanticHit, Goto
    <2>4. place \in Places \ {"new", "cacheExact", "cacheSemantic"}
        BY <1>1, PlacesAfter
    <2> HIDE DEF place, Places
    <2> QED BY <1>1, <2>1, <2>2, <2>3, <2>4, AnswerKeeps
<1>5. CASE Model(r)
    <2> DEFINE place == CASE KindOf(r) = "ask"   -> "cacheExact"
                          [] KindOf(r) = "agent" -> RecordOrReply(r)
                          [] KindOf(r) = "chat"  -> "send"
    <2>1. /\ answer' = [answer EXCEPT ![r] = r] /\ pc' = [pc EXCEPT ![r] = place]
          /\ UNCHANGED <<body, exact, semantic>>
        BY <1>5 DEF Model, Goto
    <2>2. place \in Places \ {"new"}
        BY <1>1, <1>2, PlacesAfter DEF Kind
    <2>3. <<QuestionOf(r), QuestionOf(r)>> \in Similar
        BY <1>2, SimilarAssumption
    <2> HIDE DEF place, Places
    <2> QED BY <1>1, <2>1, <2>2, <2>3, AnswerKeeps
<1>6. CASE SetExact(r) \/ SetSemantic(r)
    <2>1. PICK place \in Places \ {"new"} : pc' = [pc EXCEPT ![r] = place]
        BY <1>1, <1>6, PlacesAfter DEF SetExact, SetSemantic, Goto
    <2>2. /\ pc[r] \in {"cacheExact", "cacheSemantic"}
          /\ UNCHANGED <<body, answer>>
          /\ \/ exact' = [exact EXCEPT ![QuestionOf(r)] = answer[r]]
             \/ exact' = exact
          /\ \/ semantic' = semantic \cup {<<QuestionOf(r), answer[r]>>}
             \/ semantic' = semantic
        BY <1>6 DEF SetExact, SetSemantic
    <2> HIDE DEF Places
    <2> QED BY <1>1, <2>1, <2>2, CachingKeeps
<1>7. ASSUME NEW role \in {"user", "assistant"}, Commit(r, role) PROVE IInv'
    <2>1. /\ pc' = [pc EXCEPT ![r] = AfterRow(r, role)]
          /\ UNCHANGED <<body, answer, exact, semantic>>
        BY <1>7 DEF Commit, Goto
    <2>2. /\ AfterRow(r, role) \in Places \ {"new", "cacheExact"}
          /\ AfterRow(r, role) = "cacheSemantic" => answer[r] = r
        BY <1>1, PlacesAfter
    <2> HIDE DEF Places
    <2> QED BY <1>1, <2>1, <2>2, AnswerKeeps
<1>8. CASE \/ ExactMiss(r) \/ SemanticMiss(r) \/ GetHistory(r) \/ ModelSilent(r)
           \/ Send(r) \/ Reply(r)
           \/ \E role \in {"user", "assistant"} : Stamp(r, role)
    <2>1. PICK place \in Places \ {"new", "cacheExact", "cacheSemantic"} :
              pc' = [pc EXCEPT ![r] = place]
        BY <1>1, <1>8, PlacesAfter DEF ExactMiss, SemanticMiss, GetHistory, ModelSilent,
                                       Send, Reply, Stamp, Goto
    <2>2. UNCHANGED <<body, answer, exact, semantic>>
        BY <1>8 DEF ExactMiss, SemanticMiss, GetHistory, ModelSilent, Send, Reply, Stamp
    <2> HIDE DEF Places
    <2> QED BY <1>1, <2>1, <2>2, AnswerKeeps
<1> QED BY <1>3, <1>4, <1>5, <1>6, <1>7, <1>8 DEF Step

LEMMA NextIInv == IInv /\ [Next]_vars => IInv'
<1> SUFFICES ASSUME IInv, [Next]_vars PROVE IInv'
    OBVIOUS
<1>1. ASSUME NEW r \in Request, Fail(r) \/ Disconnect(r) PROVE IInv'
    <2>1. /\ r \in Came
          /\ answer = [answer EXCEPT ![r] = answer[r]]
          /\ answer[r] \in Came \cup {NoAnswer}
          /\ answer[r] # NoAnswer => <<QuestionOf(r), QuestionOf(answer[r])>> \in Similar
        BY <1>1 DEF IInv, AnswerTypes, Came, ServedAnswerFits, Fail, Disconnect, Streaming
    <2>2. PICK place \in Places \ {"new", "cacheExact", "cacheSemantic"} :
              pc' = [pc EXCEPT ![r] = place]
        BY <1>1 DEF Fail, Disconnect, Goto, Places, Ended
    <2>3. UNCHANGED <<body, answer, exact, semantic>>
        BY <1>1 DEF Fail, Disconnect
    <2> QED BY <2>1, <2>2, <2>3, AnswerKeeps
<1>2. ASSUME NEW q \in Question, ExactExpires(q) PROVE IInv'
    BY <1>2 DEF ExactExpires, IInv, AnswerTypes, Came, QuestionOf, ServedAnswerFits
<1>3. CASE UNCHANGED vars
    BY <1>3 DEF vars, IInv, AnswerTypes, Came, QuestionOf, ServedAnswerFits
<1> QED BY <1>1, <1>2, <1>3, ArrivalKeeps, StepKeeps DEF Next

\* semantic_cache.py and ask.py: whatever chain of caches, requests, failures and
\* disconnects an answer came through, the question it was made for is above the
\* threshold from the question it is served to.
THEOREM ServedAnswersFit == Spec => []ServedAnswerFits
<1>1. IInv => ServedAnswerFits
    BY DEF IInv
<1> QED BY InitIInv, NextIInv, <1>1, PTL DEF Spec
-----------------------------------------------------------------------------
\* Induction, from the least element of a set of numbers.
LEMMA SetInduction ==
    ASSUME NEW S \in SUBSET Nat, 0 \in S, \A n \in S : n + 1 \in S
    PROVE  S = Nat
<1>1. SUFFICES ASSUME Nat \ S # {} PROVE FALSE
    OBVIOUS
<1>2. \E x \in Nat \ S : \A y \in Nat \ S : ~ (<<y, x>> \in OpToRel(<, Nat))
    BY <1>1, WFMin, NatLessThanWellFounded
<1>3. PICK x \in Nat \ S : \A y \in Nat \ S : ~ (y < x)
    BY <1>2 DEF OpToRel
<1>4. x - 1 \in Nat /\ x - 1 < x /\ (x - 1) + 1 = x
    BY <1>3
<1> QED BY <1>3, <1>4

\* One unfolding of Keep, up to n elements.
KeepUpTo(s, T, n, f) ==
    f = [i \in 0 .. n |-> IF i = 0 THEN <<>>
                          ELSE IF s[i] \in T THEN Append(f[i - 1], s[i]) ELSE f[i - 1]]

\* Keep is the value of a function that satisfies it.
LEMMA KeepExists ==
    ASSUME NEW S, NEW s \in Seq(S), NEW T
    PROVE  \E f : KeepUpTo(s, T, Len(s), f) /\ Keep(s, T) = f[Len(s)]
<1> DEFINE N == { n \in Nat : \E f : KeepUpTo(s, T, n, f) }
<1>1. 0 \in N
    <2>1. KeepUpTo(s, T, 0, [i \in 0 .. 0 |-> <<>>])
        BY DEF KeepUpTo
    <2> QED BY <2>1
<1>2. ASSUME NEW n \in N PROVE n + 1 \in N
    <2>1. PICK f : KeepUpTo(s, T, n, f)
        OBVIOUS
    <2> DEFINE last == IF s[n + 1] \in T THEN Append(f[n], s[n + 1]) ELSE f[n]
               h == [i \in 0 .. n + 1 |-> IF i = n + 1 THEN last ELSE f[i]]
    <2>2. \A i \in 0 .. n : f[i] = IF i = 0 THEN <<>>
                                   ELSE IF s[i] \in T THEN Append(f[i - 1], s[i]) ELSE f[i - 1]
        BY <2>1 DEF KeepUpTo
    <2>3. ASSUME NEW i \in 0 .. n + 1
          PROVE  h[i] = IF i = 0 THEN <<>>
                        ELSE IF s[i] \in T THEN Append(h[i - 1], s[i]) ELSE h[i - 1]
        <3>1. CASE i = n + 1
            BY <3>1
        <3>2. CASE i \in 0 .. n
            <4>1. i # 0 => i - 1 \in 0 .. n /\ i - 1 # n + 1
                BY <3>2
            <4> QED BY <2>2, <3>2, <4>1
        <3> QED BY <3>1, <3>2
    <2>4. h = [i \in 0 .. n + 1 |-> h[i]]
        OBVIOUS
    <2> HIDE DEF h
    <2>5. KeepUpTo(s, T, n + 1, h)
        BY <2>3, <2>4 DEF KeepUpTo
    <2> QED BY <2>5
<1>3. N = Nat
    <2> HIDE DEF N
    <2> QED BY <1>1, <1>2, SetInduction DEF N
<1>4. Len(s) \in N
    <2>1. Len(s) \in Nat
        OBVIOUS
    <2> HIDE DEF N
    <2> QED BY <1>3, <2>1
<1> QED
    BY <1>4 DEF Keep, KeepUpTo

\* d is what is kept of the first n elements of s: e says where each element of d
\* comes from, in the order of s, and misses nothing that is in T.
KeptFrom(S, s, T, n, d, e) ==
    /\ d \in Seq(S) /\ e \in [1 .. Len(d) -> 1 .. n]
    /\ \A k \in 1 .. Len(d) : d[k] = s[e[k]] /\ d[k] \in T
    /\ \A k, l \in 1 .. Len(d) : k < l => e[k] < e[l]
    /\ \A i \in 1 .. n : s[i] \in T => \E k \in 1 .. Len(d) : e[k] = i

\* One more element, which is kept at the end or left out.
LEMMA KeptFromAdvances ==
    ASSUME NEW S, NEW s \in Seq(S), NEW T, NEW n \in Nat, n + 1 <= Len(s),
           NEW d, NEW e, KeptFrom(S, s, T, n, d, e)
    PROVE  /\ s[n + 1] \notin T => \E x : KeptFrom(S, s, T, n + 1, d, x)
           /\ s[n + 1] \in T =>
                  \E x : KeptFrom(S, s, T, n + 1, Append(d, s[n + 1]), x)
<1> USE DEF KeptFrom
<1>1. CASE s[n + 1] \notin T
    <2>1. KeptFrom(S, s, T, n + 1, d, e)
        <3>1. e \in [1 .. Len(d) -> 1 .. n + 1]
            OBVIOUS
        <3>2. \A i \in 1 .. n + 1 : s[i] \in T => i \in 1 .. n
            BY <1>1
        <3> QED BY <3>1, <3>2
    <2> QED BY <1>1, <2>1
<1>2. CASE s[n + 1] \in T
    <2> DEFINE c == Append(d, s[n + 1])
               x == [k \in 1 .. Len(c) |-> IF k = Len(c) THEN n + 1 ELSE e[k]]
    <2>1. /\ s[n + 1] \in S /\ c \in Seq(S) /\ Len(c) = Len(d) + 1
          /\ c[Len(c)] = s[n + 1]
          /\ \A k \in 1 .. Len(d) : c[k] = d[k]
          /\ Len(d) \in Nat
        OBVIOUS
    <2> HIDE DEF c
    <2>2. \A k \in 1 .. Len(c) : k = Len(c) \/ k \in 1 .. Len(d)
        BY <2>1
    <2>3. /\ x \in [1 .. Len(c) -> 1 .. n + 1] /\ x[Len(c)] = n + 1
          /\ \A k \in 1 .. Len(d) : x[k] = e[k] /\ x[k] \in 1 .. n
        <3>1. e \in [1 .. Len(d) -> 1 .. n] /\ Len(c) \in 1 .. Len(c)
            BY <2>1
        <3>2. \A k \in 1 .. Len(d) : e[k] \in 1 .. n /\ k \in 1 .. Len(c) /\ k # Len(c)
            BY <2>1, <3>1
        <3>3. \A k \in 1 .. Len(c) : x[k] \in 1 .. n + 1
            BY <2>2, <3>2
        <3> QED BY <3>1, <3>2, <3>3
    <2> HIDE DEF x
    <2>4. \A k \in 1 .. Len(c) : c[k] = s[x[k]] /\ c[k] \in T
        BY <1>2, <2>1, <2>2, <2>3
    <2>5. \A k, l \in 1 .. Len(c) : k < l => x[k] < x[l]
        <3> SUFFICES ASSUME NEW k \in 1 .. Len(c), NEW l \in 1 .. Len(c), k < l
                     PROVE  x[k] < x[l]
            OBVIOUS
        <3>1. k \in 1 .. Len(d)
            BY <2>1
        <3>2. CASE l = Len(c)
            BY <2>3, <3>1, <3>2
        <3>3. CASE l \in 1 .. Len(d)
            BY <2>3, <3>1, <3>3
        <3> QED BY <2>2, <3>2, <3>3
    <2>6. \A i \in 1 .. n + 1 : s[i] \in T => \E k \in 1 .. Len(c) : x[k] = i
        <3> SUFFICES ASSUME NEW i \in 1 .. n + 1, s[i] \in T
                     PROVE  \E k \in 1 .. Len(c) : x[k] = i
            OBVIOUS
        <3>1. CASE i = n + 1
            BY <2>1, <2>3, <3>1
        <3>2. CASE i \in 1 .. n
            <4>1. PICK k \in 1 .. Len(d) : e[k] = i
                BY <3>2
            <4>2. k \in 1 .. Len(c) /\ x[k] = i
                BY <2>1, <2>3, <4>1
            <4> QED BY <4>2
        <3> QED BY <3>1, <3>2
    <2>7. KeptFrom(S, s, T, n + 1, c, x)
        BY <2>1, <2>3, <2>4, <2>5, <2>6
    <2> QED BY <1>2, <2>7 DEF c
<1> QED BY <1>1, <1>2

\* What Keep keeps: the members that are in T, each once, in their order.
LEMMA KeepKeeps ==
    ASSUME NEW S, NEW s \in Seq(S), NEW T
    PROVE  \E e : KeptFrom(S, s, T, Len(s), Keep(s, T), e)
<1>1. PICK f : KeepUpTo(s, T, Len(s), f) /\ Keep(s, T) = f[Len(s)]
    BY KeepExists
<1>2. \A i \in 0 .. Len(s) : f[i] = IF i = 0 THEN <<>>
                                    ELSE IF s[i] \in T THEN Append(f[i - 1], s[i])
                                    ELSE f[i - 1]
    BY <1>1 DEF KeepUpTo
<1> DEFINE N == { n \in Nat : n <= Len(s) => \E e : KeptFrom(S, s, T, n, f[n], e) }
<1>3. 0 \in N
    <2>1. f[0] = <<>>
        BY <1>2
    <2>2. KeptFrom(S, s, T, 0, <<>>, <<>>)
        BY DEF KeptFrom
    <2> QED BY <2>1, <2>2
<1>4. ASSUME NEW n \in N PROVE n + 1 \in N
    <2>1. CASE n + 1 <= Len(s)
        <3>1. PICK e : KeptFrom(S, s, T, n, f[n], e)
            BY <2>1
        <3>2. f[n + 1] = IF s[n + 1] \in T THEN Append(f[n], s[n + 1]) ELSE f[n]
            <4>1. n + 1 \in 0 .. Len(s) /\ n + 1 # 0 /\ (n + 1) - 1 = n
                BY <2>1
            <4> QED BY <1>2, <4>1
        <3>3. n \in Nat
            OBVIOUS
        <3> HIDE DEF N
        <3>4. \E x : KeptFrom(S, s, T, n + 1, f[n + 1], x)
            BY <2>1, <3>1, <3>2, <3>3, KeptFromAdvances
        <3> QED BY <3>3, <3>4 DEF N
    <2> QED BY <2>1
<1>5. N = Nat
    <2> HIDE DEF N
    <2> QED BY <1>3, <1>4, SetInduction DEF N
<1> QED BY <1>1, <1>5
-----------------------------------------------------------------------------
\* The row that request r writes for a role, once committed or not yet.
Entry(r, role, done) == [by |-> r, role |-> role, committed |-> done]

\* The session of r holds such a row.
Holds(r, role, done) ==
    \E i \in DOMAIN memory[SessionOf(r)] :
        memory[SessionOf(r)][i] = Entry(r, role, done)

\* Where a handler can be when the row of a role is in the memory.
Written == [ user      |-> {"user commit", "assistant", "assistant commit", "reply",
                            "cacheSemantic"} \cup Ended,
             assistant |-> {"assistant commit", "reply", "cacheSemantic"} \cup Ended ]

\* A row is in its request's session, and its request is past it: waiting for its
\* commit if there was none yet.
RowBelongs(s, row) ==
    /\ s = SessionOf(row.by)
    /\ answer[row.by] # NoAnswer
    /\ pc[row.by] \in Written[row.role]
    /\ pc[row.by] = "cacheSemantic" => KindOf(row.by) = "chat"
    /\ row.committed \/ pc[row.by] = Committing[row.role]

RowsBelong ==
    \A s \in Conversations : \A i \in DOMAIN memory[s] : RowBelongs(s, memory[s][i])

\* No request has two rows of a role.
RowsOnce ==
    \A s \in Conversations : \A i, j \in DOMAIN memory[s] :
        memory[s][i].by = memory[s][j].by /\ memory[s][i].role = memory[s][j].role
            => i = j

\* Before an assistant's row is the row it answers, for others to see.
UserFirst ==
    \A s \in Conversations : \A i \in DOMAIN memory[s] :
        memory[s][i].role = "assistant" =>
            \E j \in DOMAIN memory[s] :
                j < i /\ memory[s][j] = Entry(memory[s][i].by, "user", TRUE)

\* What r's place says of its answer, its session and its rows.
PlaceTells(r) ==
    /\ pc[r] \in {"exact", "semantic", "history", "model"} => answer[r] = NoAnswer
    /\ pc[r] \in {"send", "cacheExact", "cacheSemantic", "user", "user commit",
                  "assistant", "assistant commit", "reply"} => answer[r] # NoAnswer
    /\ pc[r] = "send" => KindOf(r) = "chat"
    /\ pc[r] = "cacheExact" => KindOf(r) = "ask"
    /\ pc[r] \in {"history", "user", "user commit", "assistant", "assistant commit"} =>
           Remembered(r)
    /\ pc[r] = "user commit" => Holds(r, "user", FALSE)
    /\ pc[r] = "assistant" => Holds(r, "user", TRUE)
    /\ pc[r] = "assistant commit" => Holds(r, "assistant", FALSE)
    /\ pc[r] = "cacheSemantic" /\ KindOf(r) = "chat" => Holds(r, "assistant", TRUE)
    /\ pc[r] \in {"reply", "replied"} /\ Remembered(r) /\ answer[r] # NoAnswer =>
           Holds(r, "assistant", TRUE)

\* A chat's answer is in the semantic cache once its turn is whole.
CachedWhole ==
    \A p \in semantic : KindOf(p[2]) = "chat" => Holds(p[2], "assistant", TRUE)

MemoryInv ==
    /\ memory \in [Conversations -> Seq(Row)]
    /\ RowsBelong
    /\ RowsOnce
    /\ UserFirst
    /\ \A r \in Request : PlaceTells(r)
    /\ CachedWhole

\* What the end of r leaves alone.
Safe(r, row) == row.by # r \/ row.committed

\* A step of r leaves every such row where its order puts it.
Survive(r) ==
    \A s \in Conversations : \E f :
        /\ \A i \in DOMAIN memory[s] : Safe(r, memory[s][i]) =>
               f[i] \in DOMAIN memory'[s] /\ memory'[s][f[i]] = memory[s][i]
        /\ \A i, j \in DOMAIN memory[s] :
               Safe(r, memory[s][i]) /\ Safe(r, memory[s][j]) /\ i < j => f[i] < f[j]

\* The places of the rows, role by role.
LEMMA PlacesOfRows ==
    /\ Written["user"] = {"user commit", "assistant", "assistant commit", "reply",
                          "cacheSemantic", "replied", "failed", "gone"}
    /\ Written["assistant"] = {"assistant commit", "reply", "cacheSemantic",
                               "replied", "failed", "gone"}
    /\ Committing["user"] = "user commit" /\ Committing["assistant"] = "assistant commit"
    /\ \A row \in Row : row.role \in {"user", "assistant"} /\ row.by \in Request
<1>1. Committing["user"] = "user commit" /\ Committing["assistant"] = "assistant commit"
    BY DEF Committing
<1>2. \A row \in Row : row.role \in {"user", "assistant"} /\ row.by \in Request
    BY DEF Row
<1>3. /\ Written["user"] = {"user commit", "assistant", "assistant commit", "reply",
                            "cacheSemantic"} \cup Ended
      /\ Written["assistant"] = {"assistant commit", "reply", "cacheSemantic"} \cup Ended
    BY DEF Written
<1>4. Ended = {"replied", "failed", "gone"}
    BY DEF Ended
<1> QED BY <1>1, <1>2, <1>3, <1>4

\* No rows, no answers and no cached pairs at the start.
LEMMA InitMemory == Init => MemoryInv
<1> SUFFICES ASSUME Init PROVE MemoryInv
    OBVIOUS
<1>1. \A s \in Conversations : memory[s] = <<>> /\ memory[s] \in Seq(Row) /\ DOMAIN memory[s] = {}
    BY DEF Init
<1>2. memory \in [Conversations -> Seq(Row)]
    BY <1>1 DEF Init
<1>3. \A r \in Request : pc[r] = "new"
    BY DEF Init
<1>4. semantic = {}
    BY DEF Init
<1> QED
    BY <1>1, <1>2, <1>3, <1>4 DEF MemoryInv, RowsBelong, RowsOnce, UserFirst, PlaceTells,
                                  CachedWhole

\* Where the rows of a request go.
LEMMA SessionsAre ==
    ASSUME IInv, NEW r \in Came
    PROVE  /\ r \in Request /\ KindOf(r) \in Kind
           /\ Remembered(r) => SessionOf(r) \in Conversations
           /\ KindOf(r) = "chat" => Remembered(r)
<1>1. r \in Request /\ body[r] \in Bodies
    BY DEF IInv, Came
<1>2. body[r].kind \in Kind /\ body[r].session \in Session \cup {NoSession}
    BY <1>1, BodiesAssumption
<1> QED
    BY <1>1, <1>2, NamesAssumption DEF KindOf, Remembered, SessionOf, Conversations

\* A row that is not in r's hands is held on.
LEMMA HoldsOn ==
    ASSUME NEW r \in Request, Survive(r),
           NEW q \in Request, body'[q] = body[q], SessionOf(q) \in Conversations,
           NEW role, NEW done \in BOOLEAN, q # r \/ done, Holds(q, role, done)
    PROVE  Holds(q, role, done)'
<1> DEFINE s == SessionOf(q)
<1>1. PICK i \in DOMAIN memory[s] : memory[s][i] = Entry(q, role, done)
    BY DEF Holds
<1>2. Safe(r, memory[s][i])
    BY <1>1 DEF Safe, Entry
<1>3. PICK f : \A k \in DOMAIN memory[s] : Safe(r, memory[s][k]) =>
                   f[k] \in DOMAIN memory'[s] /\ memory'[s][f[k]] = memory[s][k]
    BY DEF Survive
<1>4. SessionOf(q)' = s
    BY DEF SessionOf
<1> QED
    BY <1>1, <1>2, <1>3, <1>4 DEF Holds, Entry

\* A step that leaves the memory alone.
LEMMA UnchangedSurvive ==
    ASSUME memory' = memory, memory \in [Conversations -> Seq(Row)], NEW r
    PROVE  Survive(r)
<1> SUFFICES ASSUME NEW s \in Conversations
             PROVE  \E f : /\ \A i \in DOMAIN memory[s] : Safe(r, memory[s][i]) =>
                                f[i] \in DOMAIN memory'[s] /\ memory'[s][f[i]] = memory[s][i]
                           /\ \A i, j \in DOMAIN memory[s] :
                                  Safe(r, memory[s][i]) /\ Safe(r, memory[s][j]) /\ i < j
                                      => f[i] < f[j]
    BY DEF Survive
<1> DEFINE f == [i \in DOMAIN memory[s] |-> i]
<1>1. \A i \in DOMAIN memory[s] : f[i] = i
    OBVIOUS
<1> HIDE DEF f
<1> QED BY <1>1

\* What r's step says of the others' places.
LEMMA OthersTell ==
    ASSUME IInv, MemoryInv, NEW r \in Request, Survive(r),
           \A q \in Request \ {r} : pc'[q] = pc[q] /\ answer'[q] = answer[q]
                                                   /\ body'[q] = body[q]
    PROVE  \A q \in Request \ {r} : PlaceTells(q)'
<1> SUFFICES ASSUME NEW q \in Request \ {r} PROVE PlaceTells(q)'
    OBVIOUS
<1>1. PlaceTells(q) /\ pc'[q] = pc[q] /\ answer'[q] = answer[q] /\ body'[q] = body[q]
    BY DEF MemoryInv
<1>2. KindOf(q)' = KindOf(q) /\ Remembered(q)' = Remembered(q)
    BY <1>1 DEF KindOf, Remembered, SessionOf
<1>3. CASE pc[q] = "new"
    BY <1>1, <1>3 DEF PlaceTells
<1>4. CASE pc[q] # "new"
    <2>1. q \in Came
        BY <1>4 DEF Came
    <2>2. Remembered(q) \/ KindOf(q) = "chat" => SessionOf(q) \in Conversations
        BY <2>1, SessionsAre
    <2>3. \A role \in {"user", "assistant"}, done \in BOOLEAN :
              (Remembered(q) \/ KindOf(q) = "chat") /\ Holds(q, role, done)
                  => Holds(q, role, done)'
        BY <1>1, <2>2, HoldsOn
    <2> QED BY <1>1, <1>2, <2>3 DEF PlaceTells
<1> QED BY <1>3, <1>4

\* The cached pairs of chats whose turns stay.
LEMMA CachedStay ==
    ASSUME IInv, MemoryInv, NEW r \in Request, Survive(r),
           \A q \in Came : body'[q] = body[q]
    PROVE  \A p \in semantic : KindOf(p[2])' = "chat" => Holds(p[2], "assistant", TRUE)'
<1> SUFFICES ASSUME NEW p \in semantic, KindOf(p[2])' = "chat"
             PROVE  Holds(p[2], "assistant", TRUE)'
    OBVIOUS
<1>1. p[2] \in Came
    BY DEF IInv
<1>2. KindOf(p[2]) = "chat" /\ body'[p[2]] = body[p[2]]
    BY <1>1 DEF KindOf
<1>3. SessionOf(p[2]) \in Conversations /\ p[2] \in Request
    BY <1>1, <1>2, SessionsAre
<1>4. Holds(p[2], "assistant", TRUE)
    BY <1>2 DEF MemoryInv, CachedWhole
<1> QED BY <1>2, <1>3, <1>4, HoldsOn

\* A step that leaves the memory alone: nothing of r's is in it, or r ends there.
LEMMA QuietKeeps ==
    ASSUME IInv, MemoryInv, NEW r \in Came,
           NEW place, pc' = [pc EXCEPT ![r] = place],
           NEW a, answer' = [answer EXCEPT ![r] = a],
           UNCHANGED <<body, memory>>,
           \/ pc[r] \notin Written["user"]
           \/ pc[r] = "cacheSemantic" /\ KindOf(r) # "chat"
           \/ /\ pc[r] \in {"reply", "cacheSemantic"}
              /\ place = "replied" /\ a = answer[r],
           PlaceTells(r)', CachedWhole'
    PROVE  MemoryInv'
<1>1. /\ r \in Request /\ pc \in [Request -> Places]
      /\ answer \in [Request -> Request \cup {NoAnswer}]
      /\ memory \in [Conversations -> Seq(Row)]
    BY DEF Came, IInv, AnswerTypes, MemoryInv
<1>2. \A q \in Request \ {r} : PlaceTells(q)'
    BY <1>1, UnchangedSurvive, OthersTell
<1>3. \A q \in Request : PlaceTells(q)'
    BY <1>2
<1>4. RowsBelong'
    <2> SUFFICES ASSUME NEW s \in Conversations, NEW i \in DOMAIN memory[s]
                 PROVE  RowBelongs(s, memory[s][i])'
        BY DEF RowsBelong
    <2> DEFINE row == memory[s][i]
    <2>1. RowBelongs(s, row) /\ row \in Row
        BY <1>1 DEF MemoryInv, RowsBelong
    <2>2. CASE row.by # r
        <3>1. pc'[row.by] = pc[row.by] /\ answer'[row.by] = answer[row.by]
            BY <1>1, <2>1, <2>2 DEF Row
        <3> QED BY <2>1, <3>1 DEF RowBelongs, SessionOf, KindOf
    <2>3. CASE row.by = r
        <3>1. pc[r] \in Written[row.role] /\ Written[row.role] \subseteq Written["user"]
            BY <2>1, <2>3, PlacesOfRows DEF RowBelongs
        <3>2. /\ pc[r] \in {"reply", "cacheSemantic"}
              /\ pc'[r] = "replied" /\ answer'[r] = answer[r]
            BY <1>1, <2>1, <2>3, <3>1 DEF RowBelongs
        <3>3. "replied" \in Written[row.role] /\ Committing[row.role] \notin {"reply", "cacheSemantic"}
            BY <2>1, PlacesOfRows
        <3> QED BY <2>1, <2>3, <3>2, <3>3 DEF RowBelongs, SessionOf, KindOf
    <2> QED BY <2>2, <2>3
<1>5. RowsOnce' /\ UserFirst'
    BY DEF MemoryInv, RowsOnce, UserFirst, Entry
<1> QED
    BY <1>1, <1>3, <1>4, <1>5 DEF MemoryInv
\* A row is stamped, at the end of its session and for nobody else to see.
LEMMA StampKeeps ==
    ASSUME IInv, MemoryInv, NEW r \in Came, NEW role \in {"user", "assistant"},
           Stamp(r, role)
    PROVE  MemoryInv' /\ Survive(r)
<1> DEFINE z == SessionOf(r)
           last == Len(memory[z]) + 1
           new == Entry(r, role, FALSE)
<1>1. /\ r \in Request /\ pc \in [Request -> Places]
      /\ memory \in [Conversations -> Seq(Row)]
      /\ pc[r] = role /\ PlaceTells(r)
    BY DEF Came, IInv, AnswerTypes, MemoryInv, Stamp
<1>2. Remembered(r) /\ z \in Conversations /\ answer[r] # NoAnswer
    BY <1>1, SessionsAre DEF PlaceTells
<1>3. /\ pc' = [pc EXCEPT ![r] = Committing[role]]
      /\ UNCHANGED <<body, answer, exact, semantic>>
      /\ memory' = [memory EXCEPT ![z] = Append(@, new)]
    BY DEF Stamp, Goto, Entry
<1>4. new \in Row /\ new.by = r /\ new.role = role /\ ~new.committed
    BY <1>1 DEF Entry, Row
<1>5. /\ memory'[z] = Append(memory[z], new)
      /\ \A s \in Conversations : s # z => memory'[s] = memory[s]
      /\ memory' \in [Conversations -> Seq(Row)]
    <2>1. memory[z] \in Seq(Row)
        BY <1>1, <1>2
    <2>2. new \in Row
        BY <1>4
    <2> HIDE DEF new, z
    <2>3. Append(memory[z], new) \in Seq(Row)
        BY <2>1, <2>2
    <2> QED BY <1>1, <1>2, <1>3, <2>3
<1>6. /\ \A i \in DOMAIN memory[z] : i \in DOMAIN memory'[z] /\ memory'[z][i] = memory[z][i] /\ i < last
      /\ last \in DOMAIN memory'[z] /\ memory'[z][last] = new
      /\ \A i \in DOMAIN memory'[z] : i = last \/ i \in DOMAIN memory[z]
      /\ last \in Nat
    <2>1. memory[z] \in Seq(Row)
        BY <1>1, <1>2
    <2> HIDE DEF new, z
    <2> QED BY <1>4, <1>5, <2>1
<1> HIDE DEF last, new, z
<1>7. \A s \in Conversations : \A i \in DOMAIN memory[s] :
          i \in DOMAIN memory'[s] /\ memory'[s][i] = memory[s][i]
    BY <1>5, <1>6
<1>8. \A s \in Conversations : \A i \in DOMAIN memory'[s] :
          \/ s = z /\ i = last /\ memory'[s][i] = new
          \/ i \in DOMAIN memory[s] /\ memory'[s][i] = memory[s][i]
    BY <1>5, <1>6
<1>9. Survive(r)
    <2> SUFFICES ASSUME NEW s \in Conversations
                 PROVE  \E f : /\ \A i \in DOMAIN memory[s] : Safe(r, memory[s][i]) =>
                                    f[i] \in DOMAIN memory'[s] /\ memory'[s][f[i]] = memory[s][i]
                               /\ \A i, j \in DOMAIN memory[s] :
                                      Safe(r, memory[s][i]) /\ Safe(r, memory[s][j]) /\ i < j
                                          => f[i] < f[j]
        BY DEF Survive
    <2> DEFINE f == [i \in DOMAIN memory[s] |-> i]
    <2>1. \A i \in DOMAIN memory[s] : f[i] = i
        OBVIOUS
    <2> HIDE DEF f
    <2> QED BY <1>7, <2>1
<1>10. \A s \in Conversations : \A i \in DOMAIN memory[s] : memory[s][i].by = r =>
           memory[s][i].role # role /\ memory[s][i].role = "user" /\ memory[s][i].committed
    <2> SUFFICES ASSUME NEW s \in Conversations, NEW i \in DOMAIN memory[s],
                        memory[s][i].by = r
                 PROVE  /\ memory[s][i].role # role /\ memory[s][i].role = "user"
                        /\ memory[s][i].committed
        OBVIOUS
    <2>1. RowBelongs(s, memory[s][i]) /\ memory[s][i] \in Row
        BY <1>1 DEF MemoryInv, RowsBelong
    <2> QED BY <1>1, <2>1, PlacesOfRows DEF RowBelongs
<1>11. RowsBelong'
    <2> SUFFICES ASSUME NEW s \in Conversations, NEW i \in DOMAIN memory'[s]
                 PROVE  RowBelongs(s, memory[s][i])'
        BY DEF RowsBelong
    <2>1. CASE s = z /\ memory'[s][i] = new
        <3>1. pc'[r] = Committing[role] /\ Committing[role] \in Written[role]
              /\ Committing[role] # "cacheSemantic"
            BY <1>1, <1>3, PlacesOfRows
        <3>2. SessionOf(r)' = z
            BY <1>3 DEF SessionOf, z
        <3> QED BY <1>2, <1>3, <1>4, <2>1, <3>1, <3>2 DEF RowBelongs
    <2>2. CASE i \in DOMAIN memory[s] /\ memory'[s][i] = memory[s][i]
        <3> DEFINE row == memory[s][i]
        <3>1. RowBelongs(s, row) /\ row \in Row
            BY <1>1, <2>2 DEF MemoryInv, RowsBelong
        <3>2. /\ \A q \in Request : SessionOf(q)' = SessionOf(q) /\ KindOf(q)' = KindOf(q)
              /\ answer'[row.by] = answer[row.by] /\ row.by \in Request
            BY <1>3, <3>1, PlacesOfRows DEF SessionOf, KindOf
        <3>3. CASE row.by # r
            <4>1. pc'[row.by] = pc[row.by]
                BY <1>1, <1>3, <3>1, <3>3, PlacesOfRows
            <4> QED BY <2>2, <3>1, <3>2, <4>1 DEF RowBelongs
        <3>4. CASE row.by = r
            <4>1. row.role = "user" /\ role = "assistant" /\ row.committed
                BY <1>10, <2>2, <3>4
            <4>2. pc'[r] = "assistant commit" /\ "assistant commit" \in Written["user"]
                BY <1>1, <1>3, <4>1, PlacesOfRows
            <4> QED BY <2>2, <3>1, <3>2, <3>4, <4>1, <4>2 DEF RowBelongs
        <3> QED BY <3>3, <3>4
    <2> QED BY <1>8, <2>1, <2>2
<1>12. RowsOnce'
    <2> SUFFICES ASSUME NEW s \in Conversations,
                        NEW i \in DOMAIN memory'[s], NEW j \in DOMAIN memory'[s],
                        memory'[s][i].by = memory'[s][j].by,
                        memory'[s][i].role = memory'[s][j].role
                 PROVE  i = j
        BY DEF RowsOnce
    <2>1. RowsOnce
        BY DEF MemoryInv
    <2> QED BY <1>4, <1>8, <1>10, <2>1 DEF RowsOnce
<1>13. UserFirst'
    <2> SUFFICES ASSUME NEW s \in Conversations, NEW i \in DOMAIN memory'[s],
                        memory'[s][i].role = "assistant"
                 PROVE  \E j \in DOMAIN memory'[s] : j < i /\
                            memory'[s][j] = Entry(memory'[s][i].by, "user", TRUE)
        BY DEF UserFirst, Entry
    <2>1. CASE i \in DOMAIN memory[s] /\ memory'[s][i] = memory[s][i]
        <3>1. \E j \in DOMAIN memory[s] :
                  j < i /\ memory[s][j] = Entry(memory[s][i].by, "user", TRUE)
            BY <2>1 DEF MemoryInv, UserFirst
        <3> QED BY <1>7, <2>1, <3>1
    <2>2. CASE s = z /\ i = last /\ memory'[s][i] = new
        <3>1. Holds(r, "user", TRUE)
            BY <1>1, <1>4, <2>2 DEF PlaceTells
        <3>2. PICK j \in DOMAIN memory[z] : memory[z][j] = Entry(r, "user", TRUE)
            BY <3>1 DEF Holds, z
        <3>3. j \in DOMAIN memory'[z] /\ memory'[z][j] = memory[z][j] /\ j < last
            BY <1>6
        <3> QED BY <1>4, <2>2, <3>2, <3>3
    <2> QED BY <1>8, <2>1, <2>2
<1>14. \A q \in Request \ {r} : PlaceTells(q)'
    BY <1>1, <1>3, <1>9, OthersTell
<1>15. PlaceTells(r)'
    <2>1. pc'[r] = Committing[role] /\ answer'[r] = answer[r]
        BY <1>1, <1>3
    <2>2. Remembered(r)'
        BY <1>2, <1>3 DEF Remembered, SessionOf
    <2>3. Holds(r, role, FALSE)'
        <3>1. SessionOf(r)' = z
            BY <1>3 DEF SessionOf, z
        <3> QED BY <1>6, <3>1 DEF Holds, Entry, new
    <2> QED BY <1>2, <2>1, <2>2, <2>3, PlacesOfRows DEF PlaceTells
<1>16. CachedWhole'
    BY <1>1, <1>3, <1>9, CachedStay DEF CachedWhole
<1> QED
    BY <1>5, <1>9, <1>11, <1>12, <1>13, <1>14, <1>15, <1>16 DEF MemoryInv
\* A row is committed, where its stamp put it.
LEMMA CommitKeeps ==
    ASSUME IInv, MemoryInv, NEW r \in Came, NEW role \in {"user", "assistant"},
           Commit(r, role)
    PROVE  MemoryInv' /\ Survive(r)
<1> DEFINE z == SessionOf(r)
           Mine(row) == row.by = r /\ row.role = role
           place == AfterRow(r, role)
<1>1. /\ r \in Request /\ pc \in [Request -> Places]
      /\ memory \in [Conversations -> Seq(Row)]
      /\ pc[r] = Committing[role] /\ PlaceTells(r)
    BY DEF Came, IInv, AnswerTypes, MemoryInv, Commit
<1>2. /\ Remembered(r) /\ z \in Conversations /\ answer[r] # NoAnswer
      /\ KindOf(r) \in Kind /\ Holds(r, role, FALSE)
    BY <1>1, SessionsAre, PlacesOfRows DEF PlaceTells
<1>3. /\ pc' = [pc EXCEPT ![r] = place]
      /\ UNCHANGED <<body, answer, exact, semantic>>
      /\ memory' = [memory EXCEPT ![z] =
                       [i \in DOMAIN memory[z] |->
                           IF Mine(memory[z][i])
                           THEN [memory[z][i] EXCEPT !.committed = TRUE]
                           ELSE memory[z][i]]]
    BY DEF Commit, Goto
<1>4. /\ role = "user" => place = "assistant"
      /\ role = "assistant" /\ KindOf(r) # "chat" => place = "reply"
      /\ role = "assistant" /\ KindOf(r) = "chat" => place \in {"replied", "cacheSemantic"}
    BY <1>2 DEF AfterRow
<1> HIDE DEF z, place
<1>5. \A s \in Conversations : memory[s] \in Seq(Row) /\ DOMAIN memory[s] = 1 .. Len(memory[s])
                               /\ \A i \in DOMAIN memory[s] : memory[s][i] \in Row
    BY <1>1
<1>6. \A s \in Conversations : \A i \in DOMAIN memory[s] :
          RowBelongs(s, memory[s][i]) /\ (memory[s][i].by = r => s = z)
    BY DEF MemoryInv, RowsBelong, RowBelongs, z
<1>7. \A s \in Conversations :
          /\ DOMAIN memory'[s] = DOMAIN memory[s]
          /\ \A i \in DOMAIN memory[s] :
                 /\ ~Mine(memory[s][i]) => memory'[s][i] = memory[s][i]
                 /\ Mine(memory[s][i]) => memory'[s][i] = Entry(r, role, TRUE)
    <2> SUFFICES ASSUME NEW s \in Conversations
                 PROVE  /\ DOMAIN memory'[s] = DOMAIN memory[s]
                        /\ \A i \in DOMAIN memory[s] :
                               /\ ~Mine(memory[s][i]) => memory'[s][i] = memory[s][i]
                               /\ Mine(memory[s][i]) => memory'[s][i] = Entry(r, role, TRUE)
        OBVIOUS
    <2>1. CASE s # z
        BY <1>1, <1>2, <1>3, <1>6, <2>1
    <2>2. CASE s = z
        <3>1. memory'[z] = [i \in DOMAIN memory[z] |->
                               IF Mine(memory[z][i])
                               THEN [memory[z][i] EXCEPT !.committed = TRUE]
                               ELSE memory[z][i]]
            BY <1>1, <1>2, <1>3
        <3>2. ASSUME NEW row \in Row, Mine(row)
              PROVE  [row EXCEPT !.committed = TRUE] = Entry(r, role, TRUE)
            <4>1. ASSUME NEW done \in BOOLEAN
                  PROVE  [row EXCEPT !.committed = done] = Entry(r, role, done)
                BY <3>2 DEF Row, Entry
            <4> QED BY <4>1
        <3>3. ASSUME NEW i \in DOMAIN memory[z], Mine(memory[z][i])
              PROVE  memory'[z][i] = Entry(r, role, TRUE)
            <4>1. memory[z][i] \in Row
                BY <1>2, <1>5
            <4>2. memory'[z][i] = [memory[z][i] EXCEPT !.committed = TRUE]
                BY <3>1, <3>3
            <4> QED BY <3>2, <3>3, <4>1, <4>2
        <3> QED BY <2>2, <3>1, <3>3
    <2> QED BY <2>1, <2>2
<1>8. /\ Entry(r, role, TRUE) \in Row /\ Entry(r, role, TRUE).by = r
      /\ Entry(r, role, TRUE).role = role /\ Entry(r, role, TRUE).committed
    BY <1>1 DEF Entry, Row
<1>9. memory' \in [Conversations -> Seq(Row)]
    <2>1. DOMAIN memory' = Conversations /\ memory' = [s \in Conversations |-> memory'[s]]
        BY <1>1, <1>3
    <2>2. ASSUME NEW s \in Conversations PROVE memory'[s] \in Seq(Row)
        <3>1. \A i \in 1 .. Len(memory[s]) : memory'[s][i] \in Row
            BY <1>5, <1>7, <1>8
        <3>2. memory'[s] = [i \in 1 .. Len(memory[s]) |-> memory'[s][i]]
            <4>1. CASE s # z
                BY <1>1, <1>2, <1>3, <1>5, <4>1
            <4>2. CASE s = z
                <5>1. memory'[z] = [i \in DOMAIN memory[z] |->
                                       IF Mine(memory[z][i])
                                       THEN [memory[z][i] EXCEPT !.committed = TRUE]
                                       ELSE memory[z][i]]
                    BY <1>1, <1>2, <1>3
                <5> HIDE DEF Mine
                <5> QED BY <1>5, <4>2, <5>1
            <4> QED BY <4>1, <4>2
        <3>3. Len(memory[s]) \in Nat
            BY <1>5
        <3>4. [i \in 1 .. Len(memory[s]) |-> memory'[s][i]] \in Seq(Row)
            BY <3>1, <3>3
        <3> QED BY <3>2, <3>4
    <2> QED BY <2>1, <2>2
<1>10. \A s \in Conversations : \A i \in DOMAIN memory[s] :
           /\ i \in DOMAIN memory'[s]
           /\ memory'[s][i].by = memory[s][i].by /\ memory'[s][i].role = memory[s][i].role
           /\ Safe(r, memory[s][i]) => memory'[s][i] = memory[s][i]
    <2> SUFFICES ASSUME NEW s \in Conversations, NEW i \in DOMAIN memory[s]
                 PROVE  /\ i \in DOMAIN memory'[s]
                        /\ memory'[s][i].by = memory[s][i].by
                        /\ memory'[s][i].role = memory[s][i].role
                        /\ Safe(r, memory[s][i]) => memory'[s][i] = memory[s][i]
        OBVIOUS
    <2>1. ASSUME Mine(memory[s][i]), Safe(r, memory[s][i])
          PROVE  memory[s][i] = Entry(r, role, TRUE)
        BY <1>5, <2>1 DEF Safe, Entry, Row
    <2> QED BY <1>7, <1>8, <2>1
<1>11. Survive(r)
    <2> SUFFICES ASSUME NEW s \in Conversations
                 PROVE  \E f : /\ \A i \in DOMAIN memory[s] : Safe(r, memory[s][i]) =>
                                    f[i] \in DOMAIN memory'[s] /\ memory'[s][f[i]] = memory[s][i]
                               /\ \A i, j \in DOMAIN memory[s] :
                                      Safe(r, memory[s][i]) /\ Safe(r, memory[s][j]) /\ i < j
                                          => f[i] < f[j]
        BY DEF Survive
    <2> DEFINE f == [i \in DOMAIN memory[s] |-> i]
    <2>1. \A i \in DOMAIN memory[s] : f[i] = i
        OBVIOUS
    <2> HIDE DEF f
    <2> QED BY <1>10, <2>1
<1>12. RowsBelong'
    <2> SUFFICES ASSUME NEW s \in Conversations, NEW i \in DOMAIN memory'[s]
                 PROVE  RowBelongs(s, memory[s][i])'
        BY DEF RowsBelong
    <2> DEFINE row == memory[s][i]
    <2>0. i \in DOMAIN memory[s]
        BY <1>7
    <2>1. RowBelongs(s, row) /\ row \in Row /\ row.by \in Request
        BY <1>5, <1>6, <2>0, PlacesOfRows
    <2>2. /\ \A q \in Request : SessionOf(q)' = SessionOf(q) /\ KindOf(q)' = KindOf(q)
          /\ answer' = answer
        BY <1>3 DEF SessionOf, KindOf
    <2>3. CASE row.by # r
        <3>1. pc'[row.by] = pc[row.by] /\ memory'[s][i] = row
            BY <1>1, <1>3, <1>7, <2>0, <2>1, <2>3
        <3> QED BY <2>1, <2>2, <3>1 DEF RowBelongs
    <2>4. CASE row.by = r
        <3>1. pc'[r] = place /\ SessionOf(r)' = s
            BY <1>1, <1>3, <2>1, <2>2, <2>4 DEF RowBelongs
        <3>2. row.role # role => row.role = "user" /\ role = "assistant" /\ row.committed
            BY <1>1, <2>1, <2>4, PlacesOfRows DEF RowBelongs
        <3>3. memory'[s][i].by = r /\ memory'[s][i].role = row.role /\ memory'[s][i].committed
            BY <1>7, <1>8, <2>0, <2>4, <3>2
        <3>4. place \in Written[row.role] /\ (place = "cacheSemantic" => KindOf(r) = "chat")
            BY <1>2, <1>4, <3>2, PlacesOfRows
        <3> QED BY <1>1, <1>2, <2>2, <3>1, <3>3, <3>4 DEF RowBelongs
    <2> QED BY <2>3, <2>4
<1>13. RowsOnce'
    <2>1. RowsOnce
        BY DEF MemoryInv
    <2> SUFFICES ASSUME NEW s \in Conversations,
                        NEW i \in DOMAIN memory'[s], NEW j \in DOMAIN memory'[s],
                        memory'[s][i].by = memory'[s][j].by,
                        memory'[s][i].role = memory'[s][j].role
                 PROVE  i = j
        BY DEF RowsOnce
    <2>2. i \in DOMAIN memory[s] /\ j \in DOMAIN memory[s]
        BY <1>7
    <2>3. memory[s][i].by = memory[s][j].by /\ memory[s][i].role = memory[s][j].role
        BY <1>10, <2>2
    <2> QED BY <2>1, <2>2, <2>3 DEF RowsOnce
<1>14. UserFirst'
    <2> SUFFICES ASSUME NEW s \in Conversations, NEW i \in DOMAIN memory[s],
                        memory[s][i].role = "assistant"
                 PROVE  \E j \in DOMAIN memory'[s] : j < i /\
                            memory'[s][j] = Entry(memory[s][i].by, "user", TRUE)
        BY <1>7, <1>10 DEF UserFirst, Entry
    <2>1. PICK j \in DOMAIN memory[s] :
              j < i /\ memory[s][j] = Entry(memory[s][i].by, "user", TRUE)
        BY DEF MemoryInv, UserFirst
    <2>2. Safe(r, memory[s][j])
        BY <2>1 DEF Safe, Entry
    <2> QED BY <1>10, <2>1, <2>2
<1>15. \A q \in Request \ {r} : PlaceTells(q)'
    BY <1>1, <1>3, <1>11, OthersTell
<1>16. PlaceTells(r)'
    <2>1. pc'[r] = place /\ answer'[r] = answer[r]
        BY <1>1, <1>3
    <2>2. Remembered(r)' /\ SessionOf(r)' = z /\ KindOf(r)' = KindOf(r)
        BY <1>2, <1>3 DEF Remembered, SessionOf, KindOf, z
    <2>3. Holds(r, role, TRUE)'
        <3>1. PICK i \in DOMAIN memory[z] : memory[z][i] = Entry(r, role, FALSE)
            BY <1>2 DEF Holds, z
        <3>2. Mine(memory[z][i])
            BY <3>1 DEF Entry
        <3>3. i \in DOMAIN memory'[z] /\ memory'[z][i] = Entry(r, role, TRUE)
            BY <1>2, <1>7, <3>2
        <3> QED BY <2>2, <3>3 DEF Holds, Entry
    <2> QED BY <1>2, <1>4, <2>1, <2>2, <2>3 DEF PlaceTells
<1>17. CachedWhole'
    BY <1>1, <1>3, <1>11, CachedStay DEF CachedWhole
<1> QED
    BY <1>9, <1>11, <1>12, <1>13, <1>14, <1>15, <1>16, <1>17 DEF MemoryInv
\* A request ends where it is, and takes its uncommitted row along.
LEMMA AbandonKeeps ==
    ASSUME IInv, MemoryInv, NEW r \in Came, Abandon(r),
           NEW place \in {"failed", "gone"}, pc' = [pc EXCEPT ![r] = place],
           UNCHANGED <<body, answer, exact, semantic>>
    PROVE  MemoryInv' /\ Survive(r)
<1> DEFINE T == {row \in Row : row.by # r \/ row.committed}
<1>1. /\ r \in Request /\ pc \in [Request -> Places]
      /\ memory \in [Conversations -> Seq(Row)]
    BY DEF Came, IInv, AnswerTypes, MemoryInv
<1>2. \A s \in Conversations : /\ memory'[s] = Keep(memory[s], T)
                               /\ memory[s] \in Seq(Row) /\ Len(memory[s]) \in Nat
                               /\ DOMAIN memory[s] = 1 .. Len(memory[s])
                               /\ \A i \in DOMAIN memory[s] : memory[s][i] \in Row
    BY <1>1 DEF Abandon
<1>3. \A row \in Row : row \in T <=> Safe(r, row)
    BY DEF Safe
<1> HIDE DEF T
<1>4. \A s \in Conversations :
          \E e : KeptFrom(Row, memory[s], T, Len(memory[s]), memory'[s], e)
    BY <1>2, KeepKeeps
<1>5. memory' \in [Conversations -> Seq(Row)]
    <2>1. memory' = [s \in Conversations |-> memory'[s]]
        BY DEF Abandon
    <2>2. \A s \in Conversations : memory'[s] \in Seq(Row)
        BY <1>4 DEF KeptFrom
    <2> QED BY <2>1, <2>2
<1>6. \A s \in Conversations : \E e :
          /\ \A k \in DOMAIN memory'[s] :
                 /\ e[k] \in DOMAIN memory[s] /\ memory'[s][k] = memory[s][e[k]]
                 /\ Safe(r, memory[s][e[k]])
          /\ \A k, l \in DOMAIN memory'[s] : k < l => e[k] < e[l]
          /\ \A i \in DOMAIN memory[s] : Safe(r, memory[s][i]) =>
                 \E k \in DOMAIN memory'[s] : e[k] = i
    <2> SUFFICES ASSUME NEW s \in Conversations
                 PROVE  \E e : /\ \A k \in DOMAIN memory'[s] :
                                      /\ e[k] \in DOMAIN memory[s]
                                      /\ memory'[s][k] = memory[s][e[k]]
                                      /\ Safe(r, memory[s][e[k]])
                               /\ \A k, l \in DOMAIN memory'[s] : k < l => e[k] < e[l]
                               /\ \A i \in DOMAIN memory[s] : Safe(r, memory[s][i]) =>
                                      \E k \in DOMAIN memory'[s] : e[k] = i
        OBVIOUS
    <2>1. PICK e : KeptFrom(Row, memory[s], T, Len(memory[s]), memory'[s], e)
        BY <1>4
    <2>2. DOMAIN memory'[s] = 1 .. Len(memory'[s])
        BY <1>5
    <2>3. \A k \in DOMAIN memory'[s] : /\ e[k] \in DOMAIN memory[s]
                                       /\ memory'[s][k] = memory[s][e[k]]
                                       /\ memory'[s][k] \in T
        BY <1>2, <2>1, <2>2 DEF KeptFrom
    <2>4. \A k \in DOMAIN memory'[s] : Safe(r, memory[s][e[k]])
        BY <1>2, <1>3, <2>3
    <2>5. \A k, l \in DOMAIN memory'[s] : k < l => e[k] < e[l]
        BY <2>1, <2>2 DEF KeptFrom
    <2>6. \A i \in DOMAIN memory[s] : Safe(r, memory[s][i]) =>
              \E k \in DOMAIN memory'[s] : e[k] = i
        BY <1>2, <1>3, <2>1, <2>2 DEF KeptFrom
    <2> QED BY <2>3, <2>4, <2>5, <2>6
<1>7. \A s \in Conversations : \A k \in DOMAIN memory[s] : k \in Nat
    BY <1>2
<1>8. \A s \in Conversations : \A k \in DOMAIN memory'[s] : k \in Nat
    BY <1>5
<1>9. Survive(r)
    <2> SUFFICES ASSUME NEW s \in Conversations
                 PROVE  \E f : /\ \A i \in DOMAIN memory[s] : Safe(r, memory[s][i]) =>
                                    f[i] \in DOMAIN memory'[s] /\ memory'[s][f[i]] = memory[s][i]
                               /\ \A i, j \in DOMAIN memory[s] :
                                      Safe(r, memory[s][i]) /\ Safe(r, memory[s][j]) /\ i < j
                                          => f[i] < f[j]
        BY DEF Survive
    <2>1. PICK e : /\ \A k \in DOMAIN memory'[s] :
                          /\ e[k] \in DOMAIN memory[s] /\ memory'[s][k] = memory[s][e[k]]
                          /\ Safe(r, memory[s][e[k]])
                   /\ \A k, l \in DOMAIN memory'[s] : k < l => e[k] < e[l]
                   /\ \A i \in DOMAIN memory[s] : Safe(r, memory[s][i]) =>
                          \E k \in DOMAIN memory'[s] : e[k] = i
        BY <1>6
    <2> DEFINE f == [i \in DOMAIN memory[s] |-> CHOOSE k \in DOMAIN memory'[s] : e[k] = i]
    <2>2. \A i \in DOMAIN memory[s] : Safe(r, memory[s][i]) =>
              f[i] \in DOMAIN memory'[s] /\ e[f[i]] = i
        BY <2>1
    <2> HIDE DEF f
    <2>3. ASSUME NEW i \in DOMAIN memory[s], NEW j \in DOMAIN memory[s],
                 Safe(r, memory[s][i]), Safe(r, memory[s][j]), i < j
          PROVE  f[i] < f[j]
        <3>1. /\ f[i] \in DOMAIN memory'[s] /\ f[j] \in DOMAIN memory'[s]
              /\ e[f[i]] = i /\ e[f[j]] = j
            BY <2>2, <2>3
        <3>2. f[i] \in Nat /\ f[j] \in Nat /\ i \in Nat /\ j \in Nat
            BY <1>7, <1>8, <3>1
        <3>3. f[j] < f[i] => j < i
            BY <2>1, <3>1
        <3>4. f[j] # f[i]
            BY <2>3, <3>1, <3>2
        <3> QED BY <2>3, <3>2, <3>3, <3>4
    <2> QED BY <2>1, <2>2, <2>3
<1>10. RowsBelong'
    <2> SUFFICES ASSUME NEW s \in Conversations, NEW k \in DOMAIN memory'[s]
                 PROVE  RowBelongs(s, memory[s][k])'
        BY DEF RowsBelong
    <2>1. PICK i \in DOMAIN memory[s] : memory'[s][k] = memory[s][i] /\ Safe(r, memory[s][i])
        BY <1>6
    <2>2. RowBelongs(s, memory[s][i]) /\ memory[s][i] \in Row /\ memory[s][i].by \in Request
        BY <1>2, PlacesOfRows DEF MemoryInv, RowsBelong
    <2>3. /\ \A q \in Request : SessionOf(q)' = SessionOf(q) /\ KindOf(q)' = KindOf(q)
          /\ answer' = answer
        BY DEF SessionOf, KindOf
    <2>4. CASE memory[s][i].by # r
        <3>1. pc'[memory[s][i].by] = pc[memory[s][i].by]
            BY <1>1, <2>2, <2>4
        <3> QED BY <2>1, <2>2, <2>3, <3>1 DEF RowBelongs
    <2>5. CASE memory[s][i].by = r
        <3>1. pc'[r] = place /\ place \in Written[memory[s][i].role] /\ place # "cacheSemantic"
            BY <1>1, <2>2, PlacesOfRows
        <3>2. memory[s][i].committed
            BY <2>1, <2>5 DEF Safe
        <3> QED BY <1>1, <2>1, <2>2, <2>3, <2>5, <3>1, <3>2 DEF RowBelongs
    <2> QED BY <2>4, <2>5
<1>11. RowsOnce'
    <2> SUFFICES ASSUME NEW s \in Conversations,
                        NEW k \in DOMAIN memory'[s], NEW l \in DOMAIN memory'[s],
                        memory'[s][k].by = memory'[s][l].by,
                        memory'[s][k].role = memory'[s][l].role
                 PROVE  k = l
        BY DEF RowsOnce
    <2>1. PICK e : /\ \A m \in DOMAIN memory'[s] :
                          e[m] \in DOMAIN memory[s] /\ memory'[s][m] = memory[s][e[m]]
                   /\ \A m, n \in DOMAIN memory'[s] : m < n => e[m] < e[n]
        BY <1>6
    <2>2. e[k] = e[l]
        BY <2>1 DEF MemoryInv, RowsOnce
    <2>3. k \in Nat /\ l \in Nat /\ e[k] \in Nat
        BY <1>7, <1>8, <2>1
    <2> QED BY <2>1, <2>2, <2>3
<1>12. UserFirst'
    <2> SUFFICES ASSUME NEW s \in Conversations, NEW k \in DOMAIN memory'[s],
                        memory'[s][k].role = "assistant"
                 PROVE  \E l \in DOMAIN memory'[s] : l < k /\
                            memory'[s][l] = Entry(memory'[s][k].by, "user", TRUE)
        BY DEF UserFirst, Entry
    <2>1. PICK e : /\ \A m \in DOMAIN memory'[s] :
                          e[m] \in DOMAIN memory[s] /\ memory'[s][m] = memory[s][e[m]]
                   /\ \A m, n \in DOMAIN memory'[s] : m < n => e[m] < e[n]
                   /\ \A i \in DOMAIN memory[s] : Safe(r, memory[s][i]) =>
                          \E m \in DOMAIN memory'[s] : e[m] = i
        BY <1>6
    <2>2. PICK j \in DOMAIN memory[s] :
              j < e[k] /\ memory[s][j] = Entry(memory[s][e[k]].by, "user", TRUE)
        <3>1. e[k] \in DOMAIN memory[s] /\ memory[s][e[k]].role = "assistant"
            BY <2>1
        <3>2. UserFirst
            BY DEF MemoryInv
        <3> HIDE DEF MemoryInv
        <3> QED BY <3>1, <3>2 DEF UserFirst
    <2>3. PICK l \in DOMAIN memory'[s] : e[l] = j
        BY <2>1, <2>2 DEF Safe, Entry
    <2>4. l < k
        <3>1. k \in Nat /\ l \in Nat /\ e[k] \in Nat /\ j \in Nat
            BY <1>7, <1>8, <2>1
        <3>2. k < l => e[k] < e[l]
            BY <2>1
        <3> QED BY <2>2, <2>3, <3>1, <3>2
    <2> QED BY <2>1, <2>2, <2>3, <2>4
<1>13. \A q \in Request \ {r} : PlaceTells(q)'
    BY <1>1, <1>9, OthersTell
<1>14. PlaceTells(r)'
    BY <1>1 DEF PlaceTells
<1>15. CachedWhole'
    BY <1>1, <1>9, CachedStay DEF CachedWhole
<1> QED
    BY <1>5, <1>9, <1>10, <1>11, <1>12, <1>13, <1>14, <1>15 DEF MemoryInv

\* A request arrives, and nothing of it is anywhere.
LEMMA ArrivalRemembers ==
    ASSUME IInv, MemoryInv, NEW r \in Request, NEW b \in Bodies, Arrive(r, b)
    PROVE  MemoryInv'
<1>1. /\ pc \in [Request -> Places] /\ memory \in [Conversations -> Seq(Row)]
      /\ body \in [Request -> Bodies \cup {NoBody}]
      /\ r \notin Came /\ pc[r] = "new" /\ answer[r] = NoAnswer
      /\ body' = [body EXCEPT ![r] = b]
      /\ UNCHANGED <<answer, exact, semantic, memory>>
    BY DEF Arrive, Came, IInv, AnswerTypes, MemoryInv
<1>2. PICK place \in {"exact", "semantic", "history", "model"} :
          /\ pc' = [pc EXCEPT ![r] = place]
          /\ place = "history" => b.session # NoSession /\ b.kind = "agent"
    <2>1. b.kind \in Kind
        BY BodiesAssumption
    <2> QED BY <2>1 DEF Arrive, Goto, Kind
<1>3. \A q \in Request \ {r} : /\ pc'[q] = pc[q] /\ answer'[q] = answer[q]
                               /\ body'[q] = body[q] /\ SessionOf(q)' = SessionOf(q)
                               /\ KindOf(q)' = KindOf(q)
    BY <1>1, <1>2 DEF SessionOf, KindOf
<1>4. \A q \in Request \ {r} : PlaceTells(q)'
    BY <1>1, <1>3, UnchangedSurvive, OthersTell
<1>5. PlaceTells(r)'
    <2>1. pc'[r] = place /\ answer'[r] = NoAnswer /\ body'[r] = b
        BY <1>1, <1>2
    <2>2. place = "history" => Remembered(r)'
        BY <1>2, <2>1 DEF Remembered, SessionOf
    <2> QED BY <2>1, <2>2 DEF PlaceTells
<1>6. RowsBelong'
    <2> SUFFICES ASSUME NEW s \in Conversations, NEW i \in DOMAIN memory[s]
                 PROVE  RowBelongs(s, memory[s][i])'
        BY <1>1 DEF RowsBelong
    <2>1. RowBelongs(s, memory[s][i]) /\ memory[s][i] \in Row
        BY <1>1 DEF MemoryInv, RowsBelong
    <2>2. memory[s][i].by \in Request /\ memory[s][i].by # r
        BY <1>1, <2>1, PlacesOfRows DEF RowBelongs
    <2>3. memory' = memory
        BY <1>1
    <2> QED BY <1>3, <2>1, <2>2, <2>3 DEF RowBelongs
<1>7. RowsOnce' /\ UserFirst' /\ memory' \in [Conversations -> Seq(Row)]
    BY <1>1 DEF MemoryInv, RowsOnce, UserFirst, Entry
<1>8. CachedWhole'
    <2>1. \A q \in Came : body'[q] = body[q]
        BY <1>1, <1>3 DEF Came
    <2> QED BY <1>1, <2>1, UnchangedSurvive, CachedStay DEF CachedWhole
<1> QED
    BY <1>4, <1>5, <1>6, <1>7, <1>8 DEF MemoryInv
\* The next call of a handler keeps the memory in step with the handlers.
LEMMA StepRemembers ==
    ASSUME IInv, MemoryInv, NEW r \in Request, Step(r)
    PROVE  MemoryInv' /\ Survive(r)
<1>1. /\ PlaceTells(r) /\ CachedWhole
      /\ memory \in [Conversations -> Seq(Row)]
      /\ pc \in [Request -> Places] /\ answer \in [Request -> Request \cup {NoAnswer}]
      /\ answer = [answer EXCEPT ![r] = answer[r]]
    BY DEF MemoryInv, IInv, AnswerTypes
<1>2. pc[r] # "new" => r \in Came
    BY DEF Came
<1>3. r \in Came => KindOf(r) \in Kind /\ (KindOf(r) = "chat" => Remembered(r))
    BY SessionsAre
<1>4. /\ RecordOrReply(r) = IF Remembered(r) THEN "user" ELSE "reply"
      /\ HistoryOrModel(r) = IF Remembered(r) THEN "history" ELSE "model"
    BY DEF RecordOrReply, HistoryOrModel
<1>5. ASSUME UNCHANGED body
      PROVE  Remembered(r)' = Remembered(r) /\ KindOf(r)' = KindOf(r)
    BY <1>5 DEF Remembered, SessionOf, KindOf
<1>6. ASSUME UNCHANGED <<body, semantic, memory>> PROVE CachedWhole'
    BY <1>1, <1>6 DEF CachedWhole, Holds, SessionOf, KindOf, Entry
<1>7. ASSUME UNCHANGED <<body, memory>>,
             NEW role \in {"user", "assistant"}, NEW done \in BOOLEAN
      PROVE  Holds(r, role, done)' = Holds(r, role, done)
    BY <1>7 DEF Holds, SessionOf, Entry
<1>8. UNCHANGED memory => Survive(r)
    BY <1>1, UnchangedSurvive
<1>9. CASE ExactHit(r)
    <2>1. /\ pc[r] = "exact" /\ r \in Came
          /\ pc' = [pc EXCEPT ![r] = RecordOrReply(r)]
          /\ UNCHANGED <<body, semantic, memory>>
        BY <1>2, <1>9 DEF ExactHit, Goto
    <2>2. PICK a : a # NoAnswer /\ answer' = [answer EXCEPT ![r] = a]
        BY <1>9 DEF ExactHit
    <2>3. PlaceTells(r)'
        BY <1>1, <1>4, <1>5, <2>1, <2>2 DEF PlaceTells
    <2> QED BY <1>6, <1>8, <2>1, <2>2, <2>3, PlacesOfRows, QuietKeeps
<1>10. CASE SemanticHit(r)
    <2>1. /\ pc[r] = "semantic" /\ r \in Came
          /\ pc' = [pc EXCEPT ![r] = IF KindOf(r) = "chat" THEN "send" ELSE RecordOrReply(r)]
          /\ UNCHANGED <<body, semantic, memory>>
        BY <1>2, <1>10 DEF SemanticHit, Goto
    <2>2. PICK a : a # NoAnswer /\ answer' = [answer EXCEPT ![r] = a]
        <3>1. PICK p \in semantic : answer' = [answer EXCEPT ![r] = p[2]]
            BY <1>10 DEF SemanticHit
        <3>2. p[2] \in Request
            BY <3>1 DEF IInv, AnswerTypes
        <3> QED BY <3>1, <3>2, NamesAssumption
    <2>3. PlaceTells(r)'
        BY <1>1, <1>4, <1>5, <2>1, <2>2 DEF PlaceTells
    <2> QED BY <1>6, <1>8, <2>1, <2>2, <2>3, PlacesOfRows, QuietKeeps
<1>11. CASE ExactMiss(r) \/ SemanticMiss(r) \/ GetHistory(r)
    <2>1. PICK place \in {"semantic", "history", "model"} :
              /\ pc' = [pc EXCEPT ![r] = place]
              /\ place = "history" => Remembered(r)
        BY <1>4, <1>11 DEF ExactMiss, SemanticMiss, GetHistory, Goto
    <2>2. /\ pc[r] \in {"exact", "semantic", "history"} /\ r \in Came
          /\ UNCHANGED <<answer, body, semantic, memory>>
        BY <1>2, <1>11 DEF ExactMiss, SemanticMiss, GetHistory
    <2>3. answer' = [answer EXCEPT ![r] = answer[r]]
        BY <1>1, <2>2
    <2>4. PlaceTells(r)'
        BY <1>1, <1>5, <2>1, <2>2 DEF PlaceTells
    <2> QED BY <1>6, <1>8, <2>1, <2>2, <2>3, <2>4, PlacesOfRows, QuietKeeps
<1>12. CASE Model(r)
    <2> DEFINE place == CASE KindOf(r) = "ask"   -> "cacheExact"
                          [] KindOf(r) = "agent" -> RecordOrReply(r)
                          [] KindOf(r) = "chat"  -> "send"
    <2>1. /\ pc[r] = "model" /\ r \in Came
          /\ pc' = [pc EXCEPT ![r] = place] /\ answer' = [answer EXCEPT ![r] = r]
          /\ UNCHANGED <<body, semantic, memory>>
        BY <1>2, <1>12 DEF Model, Goto
    <2>2. /\ KindOf(r) = "ask" => place = "cacheExact"
          /\ KindOf(r) = "agent" => place = RecordOrReply(r)
          /\ KindOf(r) = "chat" => place = "send"
          /\ KindOf(r) \in {"ask", "agent", "chat"}
        BY <1>3, <2>1 DEF Kind
    <2> HIDE DEF place
    <2>3. r # NoAnswer
        BY NamesAssumption
    <2>4. PlaceTells(r)'
        BY <1>1, <1>4, <1>5, <2>1, <2>2, <2>3 DEF PlaceTells
    <2> QED BY <1>6, <1>8, <2>1, <2>4, PlacesOfRows, QuietKeeps
<1>13. CASE ModelSilent(r) \/ Send(r)
    <2>1. PICK place \in {"replied", "user"} :
              /\ pc' = [pc EXCEPT ![r] = place]
              /\ place = "replied" => pc[r] = "model"
              /\ place = "user" => pc[r] = "send"
        BY <1>13 DEF ModelSilent, Send, Goto
    <2>2. /\ pc[r] \in {"model", "send"} /\ r \in Came
          /\ UNCHANGED <<answer, body, semantic, memory>>
        BY <1>2, <1>13 DEF ModelSilent, Send
    <2>3. answer' = [answer EXCEPT ![r] = answer[r]]
        BY <1>1, <2>2
    <2>4. PlaceTells(r)'
        BY <1>1, <1>3, <1>5, <2>1, <2>2 DEF PlaceTells
    <2> QED BY <1>6, <1>8, <2>1, <2>2, <2>3, <2>4, PlacesOfRows, QuietKeeps
<1>14. CASE SetExact(r) \/ Reply(r)
    <2>1. PICK place \in {"cacheSemantic", "replied"} :
              /\ pc' = [pc EXCEPT ![r] = place]
              /\ place = "cacheSemantic" => pc[r] = "cacheExact"
              /\ place = "replied" => pc[r] = "reply"
        BY <1>14 DEF SetExact, Reply, Goto
    <2>2. /\ pc[r] \in {"cacheExact", "reply"} /\ r \in Came
          /\ UNCHANGED <<answer, body, semantic, memory>>
        BY <1>2, <1>14 DEF SetExact, Reply
    <2>3. answer' = [answer EXCEPT ![r] = answer[r]]
        BY <1>1, <2>2
    <2>4. PlaceTells(r)'
        BY <1>1, <1>5, <1>7, <2>1, <2>2 DEF PlaceTells
    <2>5. pc[r] = "cacheExact" => pc[r] \notin Written["user"]
        BY PlacesOfRows
    <2> QED BY <1>6, <1>8, <2>1, <2>2, <2>3, <2>4, <2>5, QuietKeeps
<1>15. CASE SetSemantic(r)
    <2> DEFINE place == IF KindOf(r) = "chat" THEN "replied" ELSE RecordOrReply(r)
    <2>1. /\ pc[r] = "cacheSemantic" /\ r \in Came
          /\ pc' = [pc EXCEPT ![r] = place] /\ answer[r] = r
          /\ UNCHANGED <<answer, body, memory>>
          /\ \A p \in semantic' : p \in semantic \/ p[2] = r
        BY <1>2, <1>15 DEF SetSemantic, Goto, IInv
    <2>2. answer' = [answer EXCEPT ![r] = answer[r]]
        BY <1>1, <2>1
    <2>3. PlaceTells(r)'
        BY <1>1, <1>4, <1>5, <1>7, <2>1 DEF PlaceTells
    <2>4. CachedWhole'
        <3> SUFFICES ASSUME NEW p \in semantic', KindOf(p[2])' = "chat"
                     PROVE  Holds(p[2], "assistant", TRUE)'
            BY DEF CachedWhole
        <3>1. KindOf(p[2]) = "chat"
            BY <2>1 DEF KindOf
        <3>2. Holds(p[2], "assistant", TRUE)
            BY <1>1, <2>1, <3>1 DEF CachedWhole, PlaceTells
        <3> QED BY <2>1, <3>2 DEF Holds, SessionOf, Entry
    <2> QED BY <1>8, <2>1, <2>2, <2>3, <2>4, QuietKeeps
<1>16. ASSUME NEW role \in {"user", "assistant"}, Stamp(r, role) \/ Commit(r, role)
       PROVE  MemoryInv' /\ Survive(r)
    <2>1. r \in Came
        BY <1>2, <1>16, PlacesOfRows DEF Stamp, Commit
    <2> QED BY <1>16, <2>1, StampKeeps, CommitKeeps
<1> QED
    BY <1>9, <1>10, <1>11, <1>12, <1>13, <1>14, <1>15, <1>16 DEF Step

\* A request fails or is left, and ends.
LEMMA EndRemembers ==
    ASSUME IInv, MemoryInv, NEW r \in Request, Fail(r) \/ Disconnect(r)
    PROVE  MemoryInv' /\ Survive(r)
<1>1. r \in Came /\ Abandon(r) /\ UNCHANGED <<body, answer, exact, semantic>>
    BY DEF Came, Fail, Disconnect, Streaming
<1>2. PICK place \in {"failed", "gone"} : pc' = [pc EXCEPT ![r] = place]
    BY DEF Fail, Disconnect, Goto
<1> QED BY <1>1, <1>2, AbandonKeeps

\* Every step keeps the memory in step with the handlers.
LEMMA NextMemory == IInv /\ MemoryInv /\ [Next]_vars => MemoryInv'
<1> SUFFICES ASSUME IInv, MemoryInv, [Next]_vars PROVE MemoryInv'
    OBVIOUS
<1>1. ASSUME UNCHANGED <<pc, body, answer, semantic, memory>> PROVE MemoryInv'
    <2>1. RowsBelong' /\ RowsOnce' /\ UserFirst'
        BY <1>1 DEF MemoryInv, RowsBelong, RowBelongs, RowsOnce, UserFirst, SessionOf, KindOf,
                    Entry
    <2>2. \A r \in Request : PlaceTells(r)'
        BY <1>1 DEF MemoryInv, PlaceTells, Holds, SessionOf, KindOf, Remembered, Entry
    <2>3. CachedWhole'
        BY <1>1 DEF MemoryInv, CachedWhole, Holds, SessionOf, KindOf, Entry
    <2> QED BY <1>1, <2>1, <2>2, <2>3 DEF MemoryInv
<1>2. (\E q \in Question : ExactExpires(q)) \/ UNCHANGED vars => MemoryInv'
    BY <1>1 DEF ExactExpires, vars
<1> QED BY <1>2, ArrivalRemembers, StepRemembers, EndRemembers DEF Next
-----------------------------------------------------------------------------
\* e says where in session s the committed rows of r are, whose roles are m.
PlacedAt(r, s, m, e) ==
    /\ \A k \in DOMAIN m : /\ e[k] \in DOMAIN memory[s]
                           /\ memory[s][e[k]] = Entry(r, m[k], TRUE)
    /\ \A k, l \in DOMAIN m : k < l => e[k] < e[l]
    /\ \A i \in DOMAIN memory[s] :
           memory[s][i].by = r /\ memory[s][i].committed => \E k \in DOMAIN m : e[k] = i

\* The roles r has in a session are those of its committed rows, in their order.
LEMMA RolesAre ==
    ASSUME memory \in [Conversations -> Seq(Row)],
           NEW r \in Request, NEW s \in Conversations
    PROVE  /\ RolesIn(r, s) \in Seq({"user", "assistant"})
           /\ \E e : PlacedAt(r, s, RolesIn(r, s), e)
<1> DEFINE Done == {row \in Row : row.committed}
           Of == {row \in Row : row.by = r}
           rows == Keep(memory[s], Done)
           mine == Keep(rows, Of)
           roles == [i \in 1 .. Len(mine) |-> mine[i].role]
<1>1. /\ memory[s] \in Seq(Row) /\ DOMAIN memory[s] = 1 .. Len(memory[s])
      /\ \A i \in DOMAIN memory[s] : memory[s][i] \in Row
    OBVIOUS
<1>2. RolesIn(r, s) = roles
    BY DEF RolesIn, Rows
<1>3. /\ \A row \in Row : row \in Done <=> row.committed
      /\ \A row \in Row : row \in Of <=> row.by = r
      /\ \A row \in Row : row.by = r /\ row.committed => row = Entry(r, row.role, TRUE)
    BY DEF Row, Entry
<1> HIDE DEF Done, Of
<1>4. PICK d : KeptFrom(Row, memory[s], Done, Len(memory[s]), rows, d)
    BY <1>1, KeepKeeps
<1> HIDE DEF rows
<1>5. rows \in Seq(Row) /\ DOMAIN rows = 1 .. Len(rows)
    BY <1>4 DEF KeptFrom
<1>6. PICK e : KeptFrom(Row, rows, Of, Len(rows), mine, e)
    BY <1>5, KeepKeeps
<1> HIDE DEF mine
<1>7. mine \in Seq(Row) /\ DOMAIN mine = 1 .. Len(mine) /\ Len(mine) \in Nat
    BY <1>6 DEF KeptFrom
<1>8. roles \in Seq({"user", "assistant"}) /\ DOMAIN roles = DOMAIN mine
      /\ \A k \in DOMAIN mine : roles[k] = mine[k].role
    <2>0. \A k \in 1 .. Len(mine) : mine[k] \in Row
        BY <1>7
    <2>1. \A k \in 1 .. Len(mine) : mine[k].role \in {"user", "assistant"}
        BY <2>0, PlacesOfRows
    <2> QED BY <1>7, <2>1
<1> HIDE DEF roles
<1> DEFINE at == [k \in DOMAIN mine |-> d[e[k]]]
<1>9. \A k \in DOMAIN mine : /\ at[k] = d[e[k]] /\ e[k] \in DOMAIN rows
                             /\ mine[k] = rows[e[k]] /\ mine[k] \in Of
    BY <1>5, <1>6, <1>7 DEF KeptFrom
<1> HIDE DEF at
<1>10. \A k \in DOMAIN rows : /\ d[k] \in DOMAIN memory[s]
                              /\ rows[k] = memory[s][d[k]] /\ rows[k] \in Done
    BY <1>1, <1>4, <1>5 DEF KeptFrom
<1>11. \A k \in DOMAIN mine : /\ at[k] \in DOMAIN memory[s]
                              /\ memory[s][at[k]] = Entry(r, roles[k], TRUE)
    <2> SUFFICES ASSUME NEW k \in DOMAIN mine
                 PROVE  /\ at[k] \in DOMAIN memory[s]
                        /\ memory[s][at[k]] = Entry(r, roles[k], TRUE)
        OBVIOUS
    <2>1. /\ at[k] \in DOMAIN memory[s] /\ memory[s][at[k]] = mine[k]
          /\ mine[k] \in Done /\ mine[k] \in Of
        BY <1>9, <1>10
    <2>2. mine[k] \in Row /\ mine[k].by = r /\ mine[k].committed
        BY <1>1, <1>3, <2>1
    <2> QED BY <1>3, <1>8, <2>1, <2>2
<1>12. \A k, l \in DOMAIN mine : k < l => at[k] < at[l]
    <2>1. \A k, l \in DOMAIN mine : k < l => e[k] < e[l]
        BY <1>6, <1>7 DEF KeptFrom
    <2>2. \A k, l \in DOMAIN rows : k < l => d[k] < d[l]
        BY <1>4, <1>5 DEF KeptFrom
    <2> QED BY <1>9, <2>1, <2>2
<1>13. ASSUME NEW i \in DOMAIN memory[s], memory[s][i].by = r, memory[s][i].committed
       PROVE  \E k \in DOMAIN mine : at[k] = i
    <2>1. memory[s][i] \in Done /\ memory[s][i] \in Of
        BY <1>1, <1>3, <1>13
    <2>2. PICK j \in DOMAIN rows : d[j] = i
        BY <1>1, <1>4, <1>5, <2>1 DEF KeptFrom
    <2>3. rows[j] \in Of
        BY <1>10, <2>1, <2>2
    <2>4. PICK k \in DOMAIN mine : e[k] = j
        BY <1>5, <1>6, <1>7, <2>3 DEF KeptFrom
    <2> QED BY <1>9, <2>2, <2>4
<1>14. PlacedAt(r, s, roles, at)
    BY <1>8, <1>11, <1>12, <1>13 DEF PlacedAt
<1> QED BY <1>2, <1>8, <1>14

\* A turn is in the memory in its order, as far as it got.
LEMMA TurnsAre ==
    ASSUME MemoryInv, NEW r \in Request, NEW s \in Conversations
    PROVE  /\ RolesIn(r, s) \in {<<>>, <<"user">>, WholeTurn}
           /\ RolesIn(r, s) # <<>> => s = SessionOf(r) /\ answer[r] # NoAnswer
           /\ s = SessionOf(r) /\ Holds(r, "assistant", TRUE) => RolesIn(r, s) = WholeTurn
           /\ s = SessionOf(r) => \A role \in {"user", "assistant"} :
                  Holds(r, role, TRUE) <=>
                      \E k \in DOMAIN RolesIn(r, s) : RolesIn(r, s)[k] = role
<1> DEFINE m == RolesIn(r, s)
<1>1. /\ memory \in [Conversations -> Seq(Row)]
      /\ RowsBelong /\ RowsOnce /\ UserFirst
    BY DEF MemoryInv
<1>2. m \in Seq({"user", "assistant"}) /\ \E e : PlacedAt(r, s, m, e)
    BY <1>1, RolesAre
<1>3. PICK e : PlacedAt(r, s, m, e)
    BY <1>2
<1> HIDE DEF m
<1>4. /\ DOMAIN m = 1 .. Len(m) /\ Len(m) \in Nat
      /\ \A k \in DOMAIN m : m[k] \in {"user", "assistant"}
    BY <1>2
<1>5. \A k \in DOMAIN m : e[k] \in DOMAIN memory[s] /\ e[k] \in Nat
    <2>1. \A i \in DOMAIN memory[s] : i \in Nat
        BY <1>1
    <2>2. \A k \in DOMAIN m : e[k] \in DOMAIN memory[s]
        BY <1>3 DEF PlacedAt
    <2> QED BY <2>1, <2>2
<1>6. \A k \in DOMAIN m : /\ memory[s][e[k]].by = r /\ memory[s][e[k]].role = m[k]
                          /\ memory[s][e[k]].committed
    <2>1. \A k \in DOMAIN m : memory[s][e[k]] = Entry(r, m[k], TRUE)
        BY <1>3 DEF PlacedAt
    <2>2. \A role : /\ Entry(r, role, TRUE).by = r /\ Entry(r, role, TRUE).role = role
                    /\ Entry(r, role, TRUE).committed
        BY DEF Entry
    <2> QED BY <2>1, <2>2
<1>7. ASSUME NEW k \in DOMAIN m, NEW l \in DOMAIN m, m[k] = m[l] PROVE k = l
    <2>1. e[k] = e[l]
        BY <1>1, <1>5, <1>6, <1>7 DEF RowsOnce
    <2> QED BY <1>3, <1>4, <1>5, <2>1 DEF PlacedAt
<1>8. ASSUME NEW k \in DOMAIN m, m[k] = "assistant"
      PROVE  \E l \in DOMAIN m : l < k /\ m[l] = "user"
    <2>1. PICK j \in DOMAIN memory[s] : j < e[k] /\ memory[s][j] = Entry(r, "user", TRUE)
        <3>1. /\ e[k] \in DOMAIN memory[s]
              /\ memory[s][e[k]].role = "assistant" /\ memory[s][e[k]].by = r
            BY <1>5, <1>6, <1>8
        <3>2. UserFirst
            BY <1>1
        <3> HIDE DEF MemoryInv
        <3> QED BY <3>1, <3>2 DEF UserFirst
    <2>2. PICK l \in DOMAIN m : e[l] = j
        BY <1>3, <2>1 DEF Entry, PlacedAt
    <2>3. m[l] = "user"
        BY <1>6, <2>1, <2>2 DEF Entry
    <2>4. l < k
        <3>1. k < l => e[k] < e[l]
            BY <1>3 DEF PlacedAt
        <3>2. e[l] < e[k]
            BY <2>1, <2>2
        <3> QED BY <1>4, <1>5, <3>1, <3>2
    <2> QED BY <2>3, <2>4
<1>9. m \in {<<>>, <<"user">>, WholeTurn}
    <2>1. Len(m) < 3
        <3> SUFFICES ASSUME Len(m) >= 3 PROVE FALSE
            BY <1>4
        <3>1. 1 \in DOMAIN m /\ 2 \in DOMAIN m /\ 3 \in DOMAIN m
            BY <1>4
        <3>2. m[1] # m[2] /\ m[1] # m[3] /\ m[2] # m[3]
            BY <1>7, <3>1
        <3> QED BY <1>4, <3>1, <3>2
    <2>2. Len(m) >= 1 => m[1] = "user"
        BY <1>4, <1>8
    <2>3. Len(m) = 2 => m[2] = "assistant"
        <3> SUFFICES ASSUME Len(m) = 2 PROVE m[2] = "assistant"
            OBVIOUS
        <3>1. 1 \in DOMAIN m /\ 2 \in DOMAIN m
            BY <1>4
        <3>2. m[1] # m[2]
            BY <1>7, <3>1
        <3> QED BY <1>4, <2>2, <3>1, <3>2
    <2>4. CASE Len(m) = 0
        BY <1>2, <2>4
    <2>5. CASE Len(m) = 1
        BY <1>2, <2>2, <2>5
    <2>6. CASE Len(m) = 2
        BY <1>2, <2>2, <2>3, <2>6 DEF WholeTurn
    <2> QED BY <1>4, <2>1, <2>4, <2>5, <2>6
<1>10. m # <<>> => s = SessionOf(r) /\ answer[r] # NoAnswer
    <2> SUFFICES ASSUME m # <<>> PROVE s = SessionOf(r) /\ answer[r] # NoAnswer
        OBVIOUS
    <2>1. 1 \in DOMAIN m
        BY <1>2, <1>9 DEF WholeTurn
    <2> QED BY <1>1, <1>5, <1>6, <2>1 DEF RowsBelong, RowBelongs
<1>11. s = SessionOf(r) /\ Holds(r, "assistant", TRUE) => m = WholeTurn
    <2> SUFFICES ASSUME s = SessionOf(r), Holds(r, "assistant", TRUE) PROVE m = WholeTurn
        OBVIOUS
    <2>1. PICK i \in DOMAIN memory[s] : memory[s][i] = Entry(r, "assistant", TRUE)
        BY DEF Holds
    <2>2. PICK k \in DOMAIN m : e[k] = i
        BY <1>3, <2>1 DEF Entry, PlacedAt
    <2>3. m[k] = "assistant"
        BY <1>6, <2>1, <2>2 DEF Entry
    <2> QED BY <1>8, <1>9, <2>3
<1>12. ASSUME s = SessionOf(r), NEW role \in {"user", "assistant"}
      PROVE  Holds(r, role, TRUE) <=> \E k \in DOMAIN m : m[k] = role
    <2>1. ASSUME Holds(r, role, TRUE) PROVE \E k \in DOMAIN m : m[k] = role
        <3>1. PICK i \in DOMAIN memory[s] : memory[s][i] = Entry(r, role, TRUE)
            BY <1>12, <2>1 DEF Holds
        <3>2. memory[s][i].by = r /\ memory[s][i].committed /\ memory[s][i].role = role
            BY <3>1 DEF Entry
        <3>3. PICK k \in DOMAIN m : e[k] = i
            BY <1>3, <3>1, <3>2 DEF PlacedAt
        <3> QED BY <1>6, <3>2, <3>3
    <2>2. ASSUME NEW k \in DOMAIN m, m[k] = role PROVE Holds(r, role, TRUE)
        <3>1. e[k] \in DOMAIN memory[s] /\ memory[s][e[k]] = Entry(r, role, TRUE)
            BY <1>3, <2>2 DEF PlacedAt
        <3> QED BY <1>12, <3>1 DEF Holds
    <2> QED BY <2>1, <2>2
<1> QED BY <1>9, <1>10, <1>11, <1>12 DEF m

\* postgres_store.py and the routes: a request leaves rows only in its own session
\* and only with an answer, the user's before the assistant's and none twice,
\* however requests interleave, fail or are left.
THEOREM RowsFollowTurns == Spec => []RowsFollowTheTurn
<1>1. MemoryInv => RowsFollowTheTurn
    <2> SUFFICES ASSUME MemoryInv, NEW r \in Request, NEW s \in Conversations,
                        RolesIn(r, s) # <<>>
                 PROVE  /\ s = SessionOf(r) /\ answer[r] # NoAnswer
                        /\ RolesIn(r, s) \in {<<"user">>, WholeTurn}
        BY DEF RowsFollowTheTurn
    <2> QED BY TurnsAre
<1> QED BY InitIInv, NextIInv, InitMemory, NextMemory, <1>1, PTL DEF Spec

\* A row that waits for its commit is the only one of its role.
LEMMA NotYet ==
    ASSUME MemoryInv, NEW r \in Request, NEW role \in {"user", "assistant"},
           SessionOf(r) \in Conversations, Holds(r, role, FALSE)
    PROVE  ~Holds(r, role, TRUE)
<1> SUFFICES ASSUME Holds(r, role, TRUE) PROVE FALSE
    OBVIOUS
<1> DEFINE s == SessionOf(r)
<1>1. PICK i \in DOMAIN memory[s] : memory[s][i] = Entry(r, role, FALSE)
    BY DEF Holds
<1>2. PICK j \in DOMAIN memory[s] : memory[s][j] = Entry(r, role, TRUE)
    BY DEF Holds
<1>3. /\ memory[s][i].by = r /\ memory[s][i].role = role /\ memory[s][i].committed = FALSE
      /\ memory[s][j].by = r /\ memory[s][j].role = role /\ memory[s][j].committed = TRUE
    BY <1>1, <1>2 DEF Entry
<1>4. i = j
    BY <1>1, <1>2, <1>3 DEF MemoryInv, RowsOnce
<1> QED BY <1>3, <1>4

\* ask.py, agent.py and chat.py: the whole turn of an answered request with a
\* session is in the history by the end of the response; the caller of a stream,
\* who has the answer before, can miss only what is not recorded yet.
THEOREM TurnsAreLateOnlyWhileRecorded == Spec => []LateOnlyWhileRecording
<1>1. IInv /\ MemoryInv => LateOnlyWhileRecording
    <2> SUFFICES ASSUME IInv, MemoryInv, NEW r \in Request, HoldsAnswer(r), Remembered(r)
                 PROVE  RolesIn(r, SessionOf(r)) =
                            CASE pc[r] \in RecordingUser      -> <<>>
                              [] pc[r] \in RecordingAssistant -> <<"user">>
                              [] OTHER                        -> WholeTurn
        BY DEF LateOnlyWhileRecording
    <2> DEFINE m == RolesIn(r, SessionOf(r))
    <2>0. pc[r] \in {"user", "user commit", "assistant", "assistant commit",
                     "cacheSemantic", "replied"}
        BY DEF HoldsAnswer, RecordingUser, RecordingAssistant
    <2>1. SessionOf(r) \in Conversations
        BY <2>0, SessionsAre DEF Came
    <2>2. /\ m \in {<<>>, <<"user">>, WholeTurn}
          /\ Holds(r, "assistant", TRUE) => m = WholeTurn
          /\ \A role \in {"user", "assistant"} :
                 Holds(r, role, TRUE) <=> \E k \in DOMAIN m : m[k] = role
        BY <2>1, TurnsAre
    <2>3. /\ PlaceTells(r) /\ RowsBelong
          /\ \A role \in {"user", "assistant"} :
                 Holds(r, role, FALSE) => ~Holds(r, role, TRUE)
        BY <2>1, NotYet DEF MemoryInv
    <2> HIDE DEF m
    <2>a. /\ 1 \in DOMAIN <<"user">> /\ <<"user">>[1] = "user"
          /\ 1 \in DOMAIN WholeTurn /\ WholeTurn[1] = "user"
          /\ 2 \in DOMAIN WholeTurn /\ WholeTurn[2] = "assistant"
          /\ DOMAIN << >> = {}
        BY DEF WholeTurn
    <2>4. ~Holds(r, "user", TRUE) => m = <<>>
        <3> HAVE ~Holds(r, "user", TRUE)
        <3>1. \A k \in DOMAIN m : m[k] # "user"
            BY <2>2
        <3>2. m # <<"user">> /\ m # WholeTurn
            BY <2>a, <3>1
        <3> QED BY <2>2, <3>2
    <2>5. Holds(r, "user", TRUE) /\ ~Holds(r, "assistant", TRUE) => m = <<"user">>
        <3> HAVE Holds(r, "user", TRUE) /\ ~Holds(r, "assistant", TRUE)
        <3>1. \A k \in DOMAIN m : m[k] # "assistant"
            BY <2>2
        <3>2. m # WholeTurn
            BY <2>a, <3>1
        <3>3. DOMAIN m # {}
            BY <2>2
        <3>4. m # << >>
            BY <2>a, <3>3
        <3> QED BY <2>2, <3>2, <3>4
    <2>6. \A role \in {"user", "assistant"} : Holds(r, role, TRUE) => pc[r] \in Written[role]
        <3> TAKE role \in {"user", "assistant"}
        <3> HAVE Holds(r, role, TRUE)
        <3>1. PICK i \in DOMAIN memory[SessionOf(r)] :
                  memory[SessionOf(r)][i] = Entry(r, role, TRUE)
            BY DEF Holds
        <3>2. memory[SessionOf(r)][i].by = r /\ memory[SessionOf(r)][i].role = role
            BY <3>1 DEF Entry
        <3> QED BY <2>1, <2>3, <3>1, <3>2 DEF RowsBelong, RowBelongs
    <2>7. CASE pc[r] \in RecordingUser
        <3>1. ~Holds(r, "user", TRUE)
            BY <2>3, <2>6, <2>7 DEF RecordingUser, PlaceTells, Written, Ended
        <3>2. m = <<>>
            BY <2>4, <3>1
        <3>3. RolesIn(r, SessionOf(r)) = <<>>
            BY <3>2 DEF m
        <3>4. (CASE pc[r] \in RecordingUser      -> <<>>
                [] pc[r] \in RecordingAssistant -> <<"user">>
                [] OTHER                        -> WholeTurn) = <<>>
            BY <2>7 DEF RecordingUser, RecordingAssistant
        <3> QED BY <3>3, <3>4
    <2>8. CASE pc[r] \in RecordingAssistant
        <3>1. ~Holds(r, "assistant", TRUE)
            BY <2>3, <2>6, <2>8 DEF RecordingAssistant, PlaceTells, Written, Ended
        <3>2. Holds(r, "user", TRUE)
            <4>1. CASE pc[r] = "assistant"
                BY <2>3, <4>1 DEF PlaceTells
            <4>2. CASE pc[r] = "assistant commit"
                <5>1. PICK i \in DOMAIN memory[SessionOf(r)] :
                          memory[SessionOf(r)][i] = Entry(r, "assistant", FALSE)
                    BY <2>3, <4>2 DEF PlaceTells, Holds
                <5>2. /\ memory[SessionOf(r)][i].by = r
                      /\ memory[SessionOf(r)][i].role = "assistant"
                    BY <5>1 DEF Entry
                <5> QED BY <2>1, <5>1, <5>2 DEF MemoryInv, UserFirst, Holds
            <4> QED BY <2>8, <4>1, <4>2 DEF RecordingAssistant
        <3>3. ~(pc[r] \in RecordingUser)
            BY <2>8 DEF RecordingUser, RecordingAssistant
        <3> QED BY <2>5, <2>8, <3>1, <3>2, <3>3 DEF m
    <2>9. CASE ~(pc[r] \in RecordingUser) /\ ~(pc[r] \in RecordingAssistant)
        <3>1. Holds(r, "assistant", TRUE)
            BY <2>3, <2>9 DEF HoldsAnswer, PlaceTells
        <3> QED BY <2>2, <2>9, <3>1 DEF m
    <2> QED BY <2>7, <2>8, <2>9
<1> QED BY InitIInv, NextIInv, InitMemory, NextMemory, <1>1, PTL DEF Spec

\* chat.py: an answer that others may be served from a chat is in that chat's
\* history, with the question it answers.
THEOREM ChatsCacheWhatIsRecorded == Spec => []ChatCachesWhatItRecorded
<1>1. IInv /\ MemoryInv => ChatCachesWhatItRecorded
    <2> SUFFICES ASSUME IInv, MemoryInv, NEW p \in semantic, KindOf(p[2]) = "chat"
                 PROVE  RolesIn(p[2], SessionOf(p[2])) = WholeTurn
        BY DEF ChatCachesWhatItRecorded
    <2>1. p[2] \in Came
        BY DEF IInv
    <2>2. p[2] \in Request /\ SessionOf(p[2]) \in Conversations
        BY <2>1, SessionsAre
    <2>3. Holds(p[2], "assistant", TRUE)
        BY DEF MemoryInv, CachedWhole
    <2> QED BY <2>2, <2>3, TurnsAre
<1> QED BY InitIInv, NextIInv, InitMemory, NextMemory, <1>1, PTL DEF Spec
-----------------------------------------------------------------------------
\* Who came before r is of its session, and was answered for good.
AnsweredBefore(r) ==
    \A p \in before[r] :
        /\ p \in Request /\ pc[p] = "replied" /\ answer[p] # NoAnswer
        /\ body[r].session # NoSession /\ SessionOf(p) = body[r].session

\* What is shown is in the rows, for all to see.
Held(rows, view) ==
    \A i \in DOMAIN view :
        view[i].committed /\ \E k \in DOMAIN rows : rows[k] = view[i]

\* A row of a request of P that is not shown is before all that is.
PushedOut(rows, view, P) ==
    \A p \in P, role \in {"user", "assistant"} :
        \/ \E i \in DOMAIN view : view[i] = Entry(p, role, TRUE)
        \/ /\ Len(view) = Turns
           /\ \A i \in DOMAIN view : \A j, k \in DOMAIN rows :
                  rows[j] = Entry(p, role, TRUE) /\ rows[k] = view[i] => j < k

\* What the model is shown for r is in r's session, and the last of it.
ShownHeld(r) == Held(memory[SessionOf(r)], shown[r])
ShownLast(r) == PushedOut(memory[SessionOf(r)], shown[r], before[r])
Sees(r) == pc[r] = "model" /\ Remembered(r) => ShownHeld(r) /\ ShownLast(r)

ViewInv ==
    /\ shown \in [Request -> Seq(Row)]
    /\ before \in [Request -> SUBSET Request]
    /\ \A r \in Request : AnsweredBefore(r)
    /\ \A r \in Request : Sees(r)

\* Nobody came before, and nothing is shown at the start.
LEMMA InitView == Init => ViewInv
<1> SUFFICES ASSUME Init PROVE ViewInv
    OBVIOUS
<1>1. <<>> \in Seq(Row)
    OBVIOUS
<1> QED BY <1>1 DEF Init, ViewInv, AnsweredBefore, Sees

\* A row is where it is: no other place has one of its request and role.
LEMMA OnePlace ==
    ASSUME RowsOnce, NEW s \in Conversations, NEW i \in DOMAIN memory[s],
           NEW j \in DOMAIN memory[s], memory[s][i] = memory[s][j]
    PROVE  i = j
BY DEF RowsOnce

\* Both rows of a request that was answered to the end are in its session.
LEMMA AnsweredHold ==
    ASSUME MemoryInv, NEW p \in Request, pc[p] = "replied", answer[p] # NoAnswer,
           SessionOf(p) \in Conversations, NEW role \in {"user", "assistant"}
    PROVE  Holds(p, role, TRUE)
<1>1. Remembered(p) /\ UserFirst /\ PlaceTells(p)
    BY NamesAssumption DEF Remembered, MemoryInv, Conversations
<1>2. PICK i \in DOMAIN memory[SessionOf(p)] :
          memory[SessionOf(p)][i] = Entry(p, "assistant", TRUE)
    BY <1>1 DEF PlaceTells, Holds
<1>3. /\ memory[SessionOf(p)][i].role = "assistant"
      /\ memory[SessionOf(p)][i].by = p
    BY <1>2 DEF Entry
<1>4. \E j \in DOMAIN memory[SessionOf(p)] :
          memory[SessionOf(p)][j] = Entry(p, "user", TRUE)
    BY <1>1, <1>2, <1>3 DEF UserFirst
<1> QED BY <1>2, <1>4 DEF Holds

\* What a request was shown stays so while others write.
LEMMA SeesOn ==
    ASSUME IInv, MemoryInv, RowsOnce', NEW r, Survive(r), NEW q \in Came,
           AnsweredBefore(q), Sees(q),
           pc'[q] = pc[q], body'[q] = body[q], shown'[q] = shown[q], before'[q] = before[q]
    PROVE  Sees(q)'
<1> SUFFICES ASSUME pc[q] = "model", Remembered(q)' PROVE ShownHeld(q)' /\ ShownLast(q)'
    BY DEF Sees
<1> DEFINE s == SessionOf(q)
           old == memory[s]
           new == memory'[s]
           view == shown[q]
<1>1. SessionOf(q)' = s /\ Remembered(q)
    BY DEF Remembered, SessionOf
<1>2. s \in Conversations
    BY <1>1, SessionsAre
<1>3. ShownHeld(q) /\ ShownLast(q)
    BY <1>1 DEF Sees
<1>4. PICK f : /\ \A i \in DOMAIN old : Safe(r, old[i]) =>
                      f[i] \in DOMAIN new /\ new[f[i]] = old[i]
               /\ \A i, j \in DOMAIN old :
                      Safe(r, old[i]) /\ Safe(r, old[j]) /\ i < j => f[i] < f[j]
    BY <1>2 DEF Survive
<1>5. \A i, j \in DOMAIN new : new[i] = new[j] => i = j
    BY <1>2 DEF RowsOnce
<1>6. \A i \in DOMAIN view : \E k \in DOMAIN old : old[k] = view[i] /\ Safe(r, old[k])
    BY <1>3 DEF ShownHeld, Held, Safe
<1>7. ShownHeld(q)'
    <2>1. \A i \in DOMAIN view : view[i].committed /\ \E k \in DOMAIN new : new[k] = view[i]
        BY <1>3, <1>4, <1>6 DEF ShownHeld, Held
    <2> QED BY <1>1, <2>1 DEF ShownHeld, Held
<1>8. ASSUME NEW p \in before[q], NEW role \in {"user", "assistant"},
             ~ \E i \in DOMAIN view : view[i] = Entry(p, role, TRUE)
      PROVE  /\ Len(view) = Turns
             /\ \A i \in DOMAIN view : \A j, k \in DOMAIN new :
                    new[j] = Entry(p, role, TRUE) /\ new[k] = view[i] => j < k
    <2>1. /\ Len(view) = Turns
          /\ \A i \in DOMAIN view : \A j, k \in DOMAIN old :
                 old[j] = Entry(p, role, TRUE) /\ old[k] = view[i] => j < k
        BY <1>3, <1>8 DEF ShownLast, PushedOut
    <2>2. /\ p \in Request /\ pc[p] = "replied" /\ answer[p] # NoAnswer
          /\ body[q].session # NoSession /\ SessionOf(p) = body[q].session
        BY DEF AnsweredBefore
    <2>3. SessionOf(p) = s
        BY <2>2 DEF SessionOf
    <2>4. PICK a \in DOMAIN old : old[a] = Entry(p, role, TRUE)
        BY <1>2, <2>2, <2>3, AnsweredHold DEF Holds
    <2>5. Safe(r, old[a])
        BY <2>4 DEF Safe, Entry
    <2> SUFFICES ASSUME NEW i \in DOMAIN view, NEW j \in DOMAIN new, NEW k \in DOMAIN new,
                        new[j] = Entry(p, role, TRUE), new[k] = view[i]
                 PROVE  j < k
        BY <2>1
    <2>6. PICK b \in DOMAIN old : old[b] = view[i] /\ Safe(r, old[b])
        BY <1>6
    <2>7. a < b
        BY <2>1, <2>4, <2>6
    <2>8. /\ f[a] \in DOMAIN new /\ new[f[a]] = old[a]
          /\ f[b] \in DOMAIN new /\ new[f[b]] = old[b]
          /\ f[a] < f[b]
        BY <1>4, <2>5, <2>6, <2>7
    <2>9. f[a] = j /\ f[b] = k
        BY <1>5, <2>4, <2>6, <2>8
    <2> QED BY <2>8, <2>9
<1>9. ShownLast(q)'
    <2>1. PushedOut(new, view, before[q])
        BY <1>8 DEF PushedOut
    <2>2. SessionOf(q)' = s /\ shown'[q] = view /\ before'[q] = before[q]
        BY <1>1
    <2> HIDE DEF s, view
    <2> QED BY <2>1, <2>2 DEF ShownLast
<1> QED BY <1>7, <1>9

\* What is left of a history without its first d rows.
LEMMA WithoutFirst ==
    ASSUME NEW rows \in Seq(Row), NEW d \in Nat, d <= Len(rows),
           NEW tail, tail = SubSeq(rows, d + 1, Len(rows))
    PROVE  /\ tail \in Seq(Row) /\ Len(tail) + d = Len(rows)
           /\ \A i \in DOMAIN tail : d + i \in DOMAIN rows /\ tail[i] = rows[d + i]
<1>1. PICK n \in Nat : n = Len(rows)
    OBVIOUS
<1>2. DOMAIN rows = 1 .. n
    BY <1>1
<1>3. \A i \in d + 1 .. n : rows[i] \in Row
    BY <1>1
<1>4. /\ tail \in Seq(Row)
      /\ Len(tail) = IF d + 1 <= n THEN n - (d + 1) + 1 ELSE 0
      /\ \A i \in 1 .. n - (d + 1) + 1 : tail[i] = rows[(d + 1) + i - 1]
    <2>1. d + 1 \in Int /\ n \in Int /\ tail = SubSeq(rows, d + 1, n)
        BY <1>1
    <2> QED BY <1>3, <2>1, SubSeqProperties
<1>5. Len(tail) = n - d
    <2>1. CASE d + 1 <= n
        BY <1>4, <2>1
    <2>2. CASE ~ (d + 1 <= n)
        <3>1. n = d
            BY <1>1, <2>2
        <3> QED BY <1>4, <2>2, <3>1
    <2> QED BY <2>1, <2>2
<1>6. DOMAIN tail = 1 .. n - d
    BY <1>4, <1>5
<1>7. ASSUME NEW i \in DOMAIN tail PROVE d + i \in DOMAIN rows /\ tail[i] = rows[d + i]
    <2>1. i \in Nat /\ i >= 1 /\ i <= n - d /\ (d + 1) + i - 1 = d + i
        BY <1>6
    <2>2. i \in 1 .. n - (d + 1) + 1
        BY <2>1
    <2> QED BY <1>2, <1>4, <2>1, <2>2
<1> QED BY <1>1, <1>4, <1>5, <1>7

\* What the last turns of a history are.
LEMMA LastTurnsAre ==
    ASSUME NEW rows \in Seq(Row)
    PROVE  /\ LastTurns(rows) \in Seq(Row)
           /\ \E d \in Nat :
                 /\ Len(LastTurns(rows)) + d = Len(rows)
                 /\ d > 0 => Len(LastTurns(rows)) = Turns
                 /\ \A i \in DOMAIN LastTurns(rows) :
                        d + i \in DOMAIN rows /\ LastTurns(rows)[i] = rows[d + i]
<1>1. Len(rows) \in Nat /\ Turns \in Nat /\ Turns > 0
    BY TurnsAssumption
<1>2. PICK tail : tail = LastTurns(rows)
    OBVIOUS
<1>3. CASE Len(rows) > Turns
    <2>1. PICK d \in Nat : d = Len(rows) - Turns
        BY <1>1, <1>3
    <2>2. d <= Len(rows) /\ tail = SubSeq(rows, d + 1, Len(rows))
        BY <1>1, <1>2, <1>3, <2>1 DEF LastTurns
    <2>3. /\ tail \in Seq(Row) /\ Len(tail) + d = Len(rows)
          /\ \A i \in DOMAIN tail : d + i \in DOMAIN rows /\ tail[i] = rows[d + i]
        BY <2>2, WithoutFirst
    <2>4. Len(tail) = Turns
        BY <1>1, <2>1, <2>3
    <2> QED BY <1>2, <2>3, <2>4
<1>4. CASE ~ (Len(rows) > Turns)
    <2>1. 0 <= Len(rows) /\ tail = SubSeq(rows, 0 + 1, Len(rows))
        BY <1>1, <1>2, <1>4 DEF LastTurns
    <2>2. /\ tail \in Seq(Row) /\ Len(tail) + 0 = Len(rows)
          /\ \A i \in DOMAIN tail : 0 + i \in DOMAIN rows /\ tail[i] = rows[0 + i]
        BY <2>1, WithoutFirst
    <2> QED BY <1>2, <2>2
<1> QED BY <1>3, <1>4

\* get_history shows the last of what is committed.
LEMMA HistorySees ==
    ASSUME IInv, MemoryInv, NEW r \in Request, shown \in [Request -> Seq(Row)],
           AnsweredBefore(r), GetHistory(r)
    PROVE  shown' \in [Request -> Seq(Row)] /\ Sees(r)'
<1> DEFINE s == SessionOf(r)
           Done == {row \in Row : row.committed}
           rows == Keep(memory[s], Done)
           view == LastTurns(rows)
<1>1. /\ shown' = [shown EXCEPT ![r] = LastTurns(Rows(s))]
      /\ pc[r] = "history" /\ UNCHANGED <<body, memory, before>>
    BY DEF GetHistory
<1>2. s \in Conversations /\ memory[s] \in Seq(Row) /\ RowsOnce
    BY <1>1, SessionsAre DEF MemoryInv, PlaceTells, Came
<1>3. DOMAIN memory[s] = 1 .. Len(memory[s]) /\ \A i \in DOMAIN memory[s] : memory[s][i] \in Row
    BY <1>2
<1>4. \A row \in Row : row \in Done <=> row.committed
    OBVIOUS
<1>5. Rows(s) = rows
    BY DEF Rows
<1> HIDE DEF Done
<1>6. PICK e : KeptFrom(Row, memory[s], Done, Len(memory[s]), rows, e)
    BY <1>2, KeepKeeps
<1> HIDE DEF rows
<1>7. rows \in Seq(Row) /\ DOMAIN rows = 1 .. Len(rows) /\ Len(rows) \in Nat
    BY <1>6 DEF KeptFrom
<1>8. /\ \A k \in DOMAIN rows : /\ e[k] \in DOMAIN memory[s]
                                /\ memory[s][e[k]] = rows[k] /\ rows[k].committed
      /\ \A k, l \in DOMAIN rows : k < l => e[k] < e[l]
      /\ \A i \in DOMAIN memory[s] : memory[s][i].committed => \E k \in DOMAIN rows : e[k] = i
    <2>1. \A k \in DOMAIN rows : /\ e[k] \in DOMAIN memory[s]
                                 /\ memory[s][e[k]] = rows[k] /\ rows[k] \in Done
        BY <1>3, <1>6, <1>7 DEF KeptFrom
    <2>2. \A k \in DOMAIN rows : rows[k].committed
        BY <1>3, <1>4, <2>1
    <2>3. \A k, l \in DOMAIN rows : k < l => e[k] < e[l]
        BY <1>6, <1>7 DEF KeptFrom
    <2>4. \A i \in DOMAIN memory[s] : memory[s][i].committed => \E k \in DOMAIN rows : e[k] = i
        BY <1>3, <1>4, <1>6, <1>7 DEF KeptFrom
    <2> QED BY <2>1, <2>2, <2>3, <2>4
<1>9. PICK d \in Nat :
          /\ Len(view) + d = Len(rows)
          /\ d > 0 => Len(view) = Turns
          /\ \A i \in DOMAIN view : d + i \in DOMAIN rows /\ view[i] = rows[d + i]
    BY <1>7, LastTurnsAre
<1>10. view \in Seq(Row)
    BY <1>7, LastTurnsAre
<1> HIDE DEF view
<1>11. DOMAIN view = 1 .. Len(view) /\ Len(view) \in Nat
    BY <1>10
<1>12. shown' \in [Request -> Seq(Row)] /\ shown'[r] = view
    <2>1. shown' = [shown EXCEPT ![r] = view]
        BY <1>1, <1>5 DEF view
    <2> QED BY <1>10, <2>1
<1>13. SessionOf(r)' = s
    BY <1>1 DEF SessionOf
<1>14. ShownHeld(r)'
    <2>1. \A i \in DOMAIN view : view[i].committed /\ \E k \in DOMAIN memory[s] : memory[s][k] = view[i]
        BY <1>8, <1>9
    <2> QED BY <1>1, <1>12, <1>13, <2>1 DEF ShownHeld, Held
<1>15. ASSUME NEW p \in before[r], NEW role \in {"user", "assistant"},
              ~ \E i \in DOMAIN view : view[i] = Entry(p, role, TRUE)
       PROVE  /\ Len(view) = Turns
              /\ \A i \in DOMAIN view : \A j, k \in DOMAIN memory[s] :
                     memory[s][j] = Entry(p, role, TRUE) /\ memory[s][k] = view[i] => j < k
    <2>1. ASSUME NEW j \in DOMAIN memory[s], memory[s][j] = Entry(p, role, TRUE)
          PROVE  \E m \in DOMAIN rows : e[m] = j /\ m <= d
        <3>1. memory[s][j].committed
            BY <2>1 DEF Entry
        <3>2. PICK m \in DOMAIN rows : e[m] = j
            BY <1>8, <3>1
        <3>3. rows[m] = Entry(p, role, TRUE)
            BY <1>8, <2>1, <3>2
        <3>4. ~ (m - d \in DOMAIN view)
            <4>1. m - d \in DOMAIN view => view[m - d] = rows[d + (m - d)] /\ d + (m - d) = m
                BY <1>7, <1>9
            <4> QED BY <1>15, <3>3, <4>1
        <3> QED BY <1>7, <1>9, <1>11, <3>2, <3>4
    <2>2. ASSUME NEW i \in DOMAIN view, NEW j \in DOMAIN memory[s], NEW k \in DOMAIN memory[s],
                 memory[s][j] = Entry(p, role, TRUE), memory[s][k] = view[i]
          PROVE  j < k
        <3>1. PICK m \in DOMAIN rows : e[m] = j /\ m <= d
            BY <2>1, <2>2
        <3>2. d + i \in DOMAIN rows /\ view[i] = rows[d + i] /\ m < d + i
            BY <1>7, <1>9, <1>11, <3>1
        <3>3. e[d + i] \in DOMAIN memory[s] /\ memory[s][e[d + i]] = memory[s][k]
            BY <1>8, <2>2, <3>2
        <3>4. e[d + i] = k
            BY <1>2, <3>3, OnePlace
        <3> QED BY <1>8, <3>1, <3>2, <3>4
    <2>3. Len(view) = Turns
        <3>1. /\ p \in Request /\ pc[p] = "replied" /\ answer[p] # NoAnswer
              /\ body[r].session # NoSession /\ SessionOf(p) = body[r].session
            BY DEF AnsweredBefore
        <3>2. SessionOf(p) = s
            BY <3>1 DEF SessionOf
        <3>3. PICK j \in DOMAIN memory[s] : memory[s][j] = Entry(p, role, TRUE)
            BY <1>2, <3>1, <3>2, AnsweredHold DEF Holds
        <3>4. \E m \in DOMAIN rows : m <= d
            BY <2>1, <3>3
        <3>5. d > 0
            BY <1>7, <3>4
        <3> QED BY <1>9, <3>5
    <2> QED BY <2>2, <2>3
<1>16. ShownLast(r)'
    <2>1. PushedOut(memory[s], view, before[r])
        BY <1>15 DEF PushedOut
    <2> HIDE DEF s
    <2> QED BY <1>1, <1>12, <1>13, <2>1 DEF ShownLast
<1> QED BY <1>12, <1>14, <1>16 DEF Sees

\* The steps that end no answered request, and leave nobody at the model but
\* those that know their history.
LEMMA NextView == IInv /\ MemoryInv /\ ViewInv /\ [Next]_vars => ViewInv'
<1> SUFFICES ASSUME IInv, MemoryInv, ViewInv, [Next]_vars PROVE ViewInv'
    OBVIOUS
<1>1. /\ shown \in [Request -> Seq(Row)] /\ before \in [Request -> SUBSET Request]
      /\ \A q \in Request : AnsweredBefore(q) /\ Sees(q)
      /\ pc \in [Request -> Places] /\ memory \in [Conversations -> Seq(Row)]
      /\ body \in [Request -> Bodies \cup {NoBody}]
      /\ RowsOnce'
    <2>1. MemoryInv'
        BY NextMemory
    <2> QED BY <2>1 DEF ViewInv, IInv, AnswerTypes, MemoryInv
<1>2. ASSUME NEW r \in Request, pc[r] \notin {"replied"},
             \A q \in Request \ {r} : pc'[q] = pc[q],
             UNCHANGED <<body, before>>,
             \A q \in Request \ {r} : answer'[q] = answer[q],
             NEW q \in Request
      PROVE  AnsweredBefore(q)'
    <2> SUFFICES ASSUME NEW p \in before[q]
                 PROVE  /\ p \in Request /\ pc'[p] = "replied" /\ answer'[p] # NoAnswer
                        /\ body[q].session # NoSession /\ SessionOf(p)' = body[q].session
        BY <1>2 DEF AnsweredBefore
    <2>1. /\ p \in Request /\ pc[p] = "replied" /\ answer[p] # NoAnswer
          /\ body[q].session # NoSession /\ SessionOf(p) = body[q].session
        BY <1>1 DEF AnsweredBefore
    <2>2. p # r
        BY <1>2, <2>1
    <2> QED BY <1>2, <2>1, <2>2 DEF SessionOf
<1>3. ASSUME NEW r \in Request, Survive(r), NEW q \in Request \ {r},
             pc'[q] = pc[q], body'[q] = body[q], shown'[q] = shown[q], before'[q] = before[q]
      PROVE  Sees(q)'
    <2>1. CASE q \in Came
        BY <1>1, <1>3, <2>1, SeesOn
    <2>2. CASE q \notin Came
        BY <1>3, <2>2 DEF Came, Sees
    <2> QED BY <2>1, <2>2
<1>4. ASSUME NEW r \in Request, NEW b \in Bodies, Arrive(r, b) PROVE ViewInv'
    <2>1. /\ pc[r] = "new" /\ body' = [body EXCEPT ![r] = b]
          /\ before' = [before EXCEPT ![r] = Answered(b.session)]
          /\ UNCHANGED <<answer, shown, memory>>
          /\ \A q \in Request \ {r} : pc'[q] = pc[q] /\ body'[q] = body[q]
        BY <1>1, <1>4 DEF Arrive, Goto
    <2>2. body'[r] = b /\ before'[r] = Answered(b.session)
        BY <1>1, <2>1
    <2>3. pc'[r] = "model" => b.kind = "agent" /\ b.session = NoSession
        <3>1. b.kind \in Kind
            BY BodiesAssumption
        <3> QED BY <1>1, <1>4, <3>1 DEF Arrive, Goto, Kind
    <2>4. Sees(r)'
        BY <2>2, <2>3 DEF Sees, Remembered, SessionOf
    <2>5. \A q \in Request : Sees(q)'
        <3>1. Survive(r)
            BY <1>1, <2>1, UnchangedSurvive
        <3> QED BY <1>1, <1>3, <2>1, <2>4, <3>1
    <2>6. before' \in [Request -> SUBSET Request]
        <3>1. Answered(b.session) \subseteq Request
            BY DEF Answered
        <3> QED BY <1>1, <2>1, <3>1
    <2>7. ASSUME NEW q \in Request PROVE AnsweredBefore(q)'
        <3> SUFFICES ASSUME NEW p \in before'[q]
                     PROVE  /\ p \in Request /\ pc'[p] = "replied" /\ answer[p] # NoAnswer
                            /\ body'[q].session # NoSession
                            /\ SessionOf(p)' = body'[q].session
            BY <2>1 DEF AnsweredBefore
        <3>1. /\ p \in Request /\ pc[p] = "replied" /\ answer[p] # NoAnswer
              /\ body'[q].session # NoSession /\ SessionOf(p) = body'[q].session
            <4>1. CASE q = r
                BY <2>2, <4>1 DEF Answered
            <4>2. CASE q # r
                BY <1>1, <2>1, <4>2 DEF AnsweredBefore
            <4> QED BY <4>1, <4>2
        <3>2. p # r
            BY <2>1, <3>1
        <3> QED BY <2>1, <3>1, <3>2 DEF SessionOf
    <2> QED BY <1>1, <2>1, <2>5, <2>6, <2>7 DEF ViewInv
<1>5. ASSUME NEW r \in Request, Step(r) PROVE ViewInv'
    <2>1. Survive(r)
        BY <1>5, StepRemembers
    <2>2. /\ pc[r] \notin {"new", "replied"}
          /\ \A q \in Request \ {r} : pc'[q] = pc[q] /\ answer'[q] = answer[q]
          /\ UNCHANGED <<body, before>>
        <3>1. answer \in [Request -> Request \cup {NoAnswer}]
            BY DEF IInv, AnswerTypes
        <3>2. /\ Committing["user"] = "user commit"
              /\ Committing["assistant"] = "assistant commit"
            BY PlacesOfRows
        <3>3. pc[r] \notin {"new", "replied"}
            BY <1>5, <3>2 DEF Step, ExactHit, ExactMiss, SemanticHit, SemanticMiss, GetHistory,
                    Model, ModelSilent, Send, SetExact, SetSemantic, Stamp, Commit, Reply
        <3>4. UNCHANGED <<body, before>>
            BY <1>5 DEF Step, ExactHit, ExactMiss, SemanticHit, SemanticMiss, GetHistory,
                    Model, ModelSilent, Send, SetExact, SetSemantic, Stamp, Commit, Reply
        <3>5. \A q \in Request \ {r} : pc'[q] = pc[q]
            BY <1>1, <1>5 DEF Step, ExactHit, ExactMiss, SemanticHit, SemanticMiss, GetHistory,
                    Model, ModelSilent, Send, SetExact, SetSemantic, Stamp, Commit, Reply, Goto
        <3>6. \A q \in Request \ {r} : answer'[q] = answer[q]
            BY <1>5, <3>1 DEF Step, ExactHit, ExactMiss, SemanticHit, SemanticMiss, GetHistory,
                    Model, ModelSilent, Send, SetExact, SetSemantic, Stamp, Commit, Reply
        <3> QED BY <3>3, <3>4, <3>5, <3>6
    <2>3. r \in Came
        BY <2>2 DEF Came
    <2>4. \/ GetHistory(r)
          \/ UNCHANGED shown
          \/ shown' = [shown EXCEPT ![r] = <<>>]
        BY <1>5 DEF Step, ExactHit, ExactMiss, SemanticHit, SemanticMiss,
                    Model, ModelSilent, Send, SetExact, SetSemantic, Stamp, Commit, Reply
    <2>5. shown' \in [Request -> Seq(Row)] /\ \A q \in Request \ {r} : shown'[q] = shown[q]
        <3>1. CASE GetHistory(r)
            BY <1>1, <3>1, HistorySees DEF GetHistory
        <3>2. CASE UNCHANGED shown \/ shown' = [shown EXCEPT ![r] = <<>>]
            <4>1. <<>> \in Seq(Row)
                OBVIOUS
            <4> QED BY <1>1, <3>2, <4>1
        <3> QED BY <2>4, <3>1, <3>2
    <2>6. Sees(r)'
        <3>1. CASE GetHistory(r)
            BY <1>1, <3>1, HistorySees
        <3>2. CASE SemanticMiss(r)
            <4>1. pc'[r] = HistoryOrModel(r) /\ Remembered(r)' = Remembered(r)
                BY <1>1, <3>2 DEF SemanticMiss, Goto, Remembered, SessionOf
            <4> QED BY <4>1 DEF Sees, HistoryOrModel
        <3>3. CASE ~GetHistory(r) /\ ~SemanticMiss(r)
            <4>1. pc'[r] # "model"
                <5>1. /\ RecordOrReply(r) # "model" /\ KindOf(r) \in {"ask", "agent", "chat"}
                      /\ \A role \in {"user", "assistant"} :
                             Committing[role] # "model" /\ AfterRow(r, role) # "model"
                    BY <2>3, PlacesAfter, QuestionsAsked DEF Kind
                <5> QED
                    BY <1>1, <1>5, <3>3, <5>1
                    DEF Step, ExactHit, ExactMiss, SemanticHit, Model, ModelSilent, Send,
                        SetExact, SetSemantic, Stamp, Commit, Reply, Goto
            <4> QED BY <4>1 DEF Sees
        <3> QED BY <3>1, <3>2, <3>3
    <2>7. \A q \in Request : Sees(q)'
        BY <1>3, <2>1, <2>2, <2>5, <2>6
    <2>8. \A q \in Request : AnsweredBefore(q)'
        BY <1>2, <2>2
    <2> QED BY <1>1, <2>2, <2>5, <2>7, <2>8 DEF ViewInv
<1>6. ASSUME NEW r \in Request, Fail(r) \/ Disconnect(r) PROVE ViewInv'
    <2>1. Survive(r) /\ UNCHANGED <<body, answer, before>> /\ shown' = [shown EXCEPT ![r] = <<>>]
        BY <1>6, EndRemembers DEF Fail, Disconnect, Abandon
    <2>2. /\ pc[r] # "replied" /\ pc'[r] # "model"
          /\ \A q \in Request \ {r} : pc'[q] = pc[q]
        BY <1>1, <1>6 DEF Fail, Disconnect, Goto, Ended, Streaming
    <2>3. shown' \in [Request -> Seq(Row)] /\ \A q \in Request \ {r} : shown'[q] = shown[q]
        <3>1. <<>> \in Seq(Row)
            OBVIOUS
        <3> QED BY <1>1, <2>1, <3>1
    <2>4. \A q \in Request : Sees(q)'
        <3>1. Sees(r)'
            BY <2>2 DEF Sees
        <3> QED BY <1>3, <2>1, <2>2, <2>3, <3>1
    <2>5. \A q \in Request : AnsweredBefore(q)'
        BY <1>2, <2>1, <2>2
    <2> QED BY <1>1, <2>1, <2>3, <2>4, <2>5 DEF ViewInv
<1>7. ASSUME UNCHANGED <<pc, body, answer, shown, memory, before>> PROVE ViewInv'
    <2>1. \A r \in Request : AnsweredBefore(r)'
        BY <1>1, <1>7 DEF AnsweredBefore, SessionOf
    <2>2. \A r \in Request : Sees(r)'
        BY <1>1, <1>7 DEF Sees, ShownHeld, ShownLast, Remembered, SessionOf
    <2> QED BY <1>1, <1>7, <2>1, <2>2 DEF ViewInv
<1>8. (\E q \in Question : ExactExpires(q)) \/ UNCHANGED vars => ViewInv'
    BY <1>7 DEF ExactExpires, vars
<1> QED BY <1>4, <1>5, <1>6, <1>8 DEF Next

\* What a place is, for a row that is in one.
LEMMA PlaceOfRow ==
    ASSUME RowsOnce, NEW s \in Conversations, NEW i \in DOMAIN memory[s], NEW x,
           memory[s][i] = x
    PROVE  (CHOOSE j \in DOMAIN memory[s] :
                memory[s][j].by = x.by /\ memory[s][j].role = x.role) = i
BY DEF RowsOnce

\* postgres_store.py's get_history: the model is shown both rows of every turn
\* that was answered before the request came, but for those that later rows of the
\* session push out of the last Turns: for any number of requests and sessions.
THEOREM NextTurnsSeeTheLast == Spec => []NextTurnSeesTheLast
<1>1. IInv /\ MemoryInv /\ ViewInv => NextTurnSeesTheLast
    <2> SUFFICES ASSUME IInv, MemoryInv, ViewInv, NEW r \in Request,
                        pc[r] = "model", Remembered(r),
                        NEW p \in before[r], NEW role \in {"user", "assistant"}
                 PROVE  LET rows   == memory[SessionOf(r)]
                            row    == [by |-> p, role |-> role, committed |-> TRUE]
                            at(x)  == CHOOSE i \in DOMAIN rows :
                                          rows[i].by = x.by /\ rows[i].role = x.role
                            inView == { shown[r][i] : i \in DOMAIN shown[r] }
                        IN  \/ row \in inView
                            \/ Len(shown[r]) = Turns /\ \A x \in inView : at(row) < at(x)
        BY DEF NextTurnSeesTheLast
    <2> DEFINE s == SessionOf(r)
               rows == memory[s]
               row == [by |-> p, role |-> role, committed |-> TRUE]
               at(x) == CHOOSE i \in DOMAIN rows : rows[i].by = x.by /\ rows[i].role = x.role
               view == shown[r]
    <2>1. ShownHeld(r) /\ ShownLast(r) /\ AnsweredBefore(r) /\ RowsOnce
        BY DEF ViewInv, Sees, MemoryInv
    <2>2. s \in Conversations
        BY SessionsAre DEF Came
    <2>3. row = Entry(p, role, TRUE)
        BY DEF Entry
    <2>4. PICK j \in DOMAIN rows : rows[j] = row
        <3>1. /\ p \in Request /\ pc[p] = "replied" /\ answer[p] # NoAnswer
              /\ body[r].session # NoSession /\ SessionOf(p) = body[r].session
            BY <2>1 DEF AnsweredBefore
        <3>2. SessionOf(p) = s
            BY <3>1 DEF SessionOf
        <3> QED BY <2>2, <2>3, <3>1, <3>2, AnsweredHold DEF Holds
    <2> HIDE DEF row
    <2>5. at(row) = j
        BY <2>1, <2>2, <2>4, PlaceOfRow
    <2>6. ASSUME ~ \E i \in DOMAIN view : view[i] = row,
                 NEW i \in DOMAIN view
          PROVE  at(row) < at(view[i])
        <3>1. PICK k \in DOMAIN rows : rows[k] = view[i]
            BY <2>1 DEF ShownHeld, Held
        <3>2. at(view[i]) = k
            BY <2>1, <2>2, <3>1, PlaceOfRow
        <3>3. j < k
            BY <2>1, <2>3, <2>4, <2>6, <3>1 DEF ShownLast, PushedOut
        <3> QED BY <2>5, <3>2, <3>3
    <2>7. (~ \E i \in DOMAIN view : view[i] = row) => Len(view) = Turns
        BY <2>1, <2>3 DEF ShownLast, PushedOut
    <2> HIDE DEF at
    <2> QED BY <2>6, <2>7 DEF row, at
<1> QED BY InitIInv, NextIInv, InitMemory, NextMemory, InitView, NextView, <1>1, PTL DEF Spec

\* Every variable has its type.
THEOREM ConversationTypes == Spec => []TypeOK
<1>1. IInv /\ MemoryInv /\ ViewInv => TypeOK
    BY DEF IInv, AnswerTypes, MemoryInv, ViewInv, TypeOK, Places
<1> QED BY InitIInv, NextIInv, InitMemory, NextMemory, InitView, NextView, <1>1, PTL DEF Spec
=============================================================================
