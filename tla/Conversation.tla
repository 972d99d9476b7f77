---------------------------- MODULE Conversation ----------------------------
(***************************************************************************)
(* The three answering routes of the API over the stores they share:       *)
(* POST /ask, POST /agent/ask and POST /chat/stream, the exact cache in    *)
(* Redis, the semantic cache in Qdrant and the conversation memory in      *)
(* Postgres (services/api/app/routes/{ask,agent,chat}.py, stores/*.py).    *)
(*                                                                         *)
(* A handler suspends at every call to a store or a model, so an action is *)
(* one such call with the code around it, and requests interleave between  *)
(* them.  An answer is named by the request whose model call produced it.  *)
(*                                                                         *)
(* Abstractions.  Questions are members of a small set; Similar holds the  *)
(* pairs whose score reaches the threshold, and any stored pair above it   *)
(* may be the nearest one.  The time to live of the exact cache is an      *)
(* action that may happen at any time.  The retrieval service and the      *)
(* agent graph are one step, model(r).  A row's content is its question or *)
(* answer, so a row names only its request and its role.                   *)
(***************************************************************************)
EXTENDS Integers, Sequences, FiniteSets

CONSTANTS Request,    \* the requests
          Question,   \* the questions and messages
          Similar,    \* the pairs of questions above the threshold
          Session,    \* the session ids callers send
          NoSession,  \* `None`: the caller sent no session id
          NoAnswer,   \* `None`: a miss
          Bodies,     \* the [kind, question, session] a request may carry
          Turns       \* memory_turns: rows of history read

ASSUME TurnsAssumption == Turns \in Nat \ {0}
ASSUME SimilarAssumption ==
    /\ Similar \subseteq Question \X Question
    /\ \A q \in Question : <<q, q>> \in Similar
ASSUME NamesAssumption ==
    /\ NoAnswer \notin Request
    /\ Session \cap Request = {} /\ NoSession \notin Session \cup Request

Kind == {"ask", "agent", "chat"}

ASSUME BodiesAssumption ==
    Bodies \subseteq [kind : Kind, question : Question,
                      session : Session \cup {NoSession}]

VARIABLES pc,        \* pc[r]: the call r's handler is at
          body,      \* body[r]: the body of r
          answer,    \* answer[r]: the local `answer` or `cached`
          shown,     \* shown[r]: the rows of history the model is called with
          exact,     \* exact[q]: the answer under cache:sha256(q)
          semantic,  \* the <<question, answer>> points of the collection
          memory,    \* memory[s]: the rows of session s by created_at
          before     \* before[r]: (history) the requests of r's session that
                     \* had been answered to the end when r arrived

vars == <<pc, body, answer, shown, exact, semantic, memory, before>>

\* A chat without a session id gets a fresh one, here its own name.
Conversations == Session \cup Request
SessionOf(r) == IF body[r].kind = "chat" /\ body[r].session = NoSession
                THEN r ELSE body[r].session
Remembered(r) == SessionOf(r) # NoSession
KindOf(r) == body[r].kind
QuestionOf(r) == body[r].question

Row == [by : Request, role : {"user", "assistant"}, committed : BOOLEAN]

\* The members of sequence s that are in T, in their order.
Keep(s, T) ==
    LET kept[i \in 0 .. Len(s)] ==
            IF i = 0 THEN <<>>
            ELSE IF s[i] \in T THEN Append(kept[i - 1], s[i]) ELSE kept[i - 1]
    IN  kept[Len(s)]

NoBody == [kind |-> "none", question |-> NoAnswer, session |-> NoSession]

Init ==
    /\ pc       = [r \in Request |-> "new"]
    /\ body     = [r \in Request |-> NoBody]
    /\ answer   = [r \in Request |-> NoAnswer]
    /\ shown    = [r \in Request |-> <<>>]
    /\ exact    = [q \in Question |-> NoAnswer]
    /\ semantic = {}
    /\ memory   = [s \in Conversations |-> <<>>]
    /\ before   = [r \in Request |-> {}]

Goto(r, place) == pc' = [pc EXCEPT ![r] = place]

\* The requests of session s that were answered, and whose response has ended.
Answered(s) ==
    { p \in Request : /\ s # NoSession /\ SessionOf(p) = s
                      /\ pc[p] = "replied" /\ answer[p] # NoAnswer }

\* Past the rate limit and the token, a handler starts at its first call.
Arrive(r, b) ==
    /\ pc[r] = "new"
    /\ body' = [body EXCEPT ![r] = b]
    /\ Goto(r, CASE b.kind = "ask"  -> "exact"
                 [] b.kind = "chat" -> "semantic"
                 [] b.kind = "agent" /\ b.session # NoSession -> "history"
                 [] b.kind = "agent" /\ b.session = NoSession -> "model")
    /\ before' = [before EXCEPT ![r] = Answered(b.session)]
    /\ UNCHANGED <<answer, shown, exact, semantic, memory>>

\* Where a handler goes with an answer in hand and its caches written: ask
\* and agent record the turn if it has a session, then reply.
RecordOrReply(r) == IF Remembered(r) THEN "user" ELSE "reply"

\* Slip: on a miss the user's turn is recorded before there is an answer.
RecordFirst(r) == IF Remembered(r) THEN "user" ELSE "model"

\* Where a handler goes on a miss.
HistoryOrModel(r) == IF Remembered(r) THEN "history" ELSE "model"

\* get_cached
ExactHit(r) ==
    /\ pc[r] = "exact"
    /\ exact[QuestionOf(r)] # NoAnswer
    /\ answer' = [answer EXCEPT ![r] = exact[QuestionOf(r)]]
    /\ Goto(r, RecordOrReply(r))
    /\ UNCHANGED <<body, shown, exact, semantic, memory, before>>

ExactMiss(r) ==
    /\ pc[r] = "exact"
    /\ exact[QuestionOf(r)] = NoAnswer
    /\ Goto(r, "semantic")
    /\ UNCHANGED <<body, answer, shown, exact, semantic, memory, before>>

\* Slip: an answer found by similarity is stored under the new question too,
\* as if the models had produced it.
SemanticHitStored(r) ==
    /\ pc[r] = "semantic"
    /\ \E p \in semantic :
          /\ <<QuestionOf(r), p[1]>> \in Similar
          /\ answer' = [answer EXCEPT ![r] = p[2]]
    /\ Goto(r, IF KindOf(r) = "chat" THEN "send" ELSE "cacheExact")
    /\ UNCHANGED <<body, shown, exact, semantic, memory, before>>

\* Slip: the payload's question is handed out for its answer.
SemanticHitReturnsQuery(r) ==
    /\ pc[r] = "semantic"
    /\ \E p \in semantic :
          /\ <<QuestionOf(r), p[1]>> \in Similar
          /\ answer' = [answer EXCEPT ![r] = p[1]]
    /\ Goto(r, IF KindOf(r) = "chat" THEN "send" ELSE RecordOrReply(r))
    /\ UNCHANGED <<body, shown, exact, semantic, memory, before>>

\* SemanticCacheStore.get: a stored pair above the threshold, or a miss,
\* which is also what any failure of the lookup becomes.
SemanticHit(r) ==
    /\ pc[r] = "semantic"
    /\ \E p \in semantic :
          /\ <<QuestionOf(r), p[1]>> \in Similar
          /\ answer' = [answer EXCEPT ![r] = p[2]]
    /\ Goto(r, IF KindOf(r) = "chat" THEN "send" ELSE RecordOrReply(r))
    /\ UNCHANGED <<body, shown, exact, semantic, memory, before>>

SemanticMiss(r) ==
    /\ pc[r] = "semantic"
    /\ Goto(r, HistoryOrModel(r))
    /\ UNCHANGED <<body, answer, shown, exact, semantic, memory, before>>

\* The committed rows of a session, oldest first.
Rows(s) == Keep(memory[s], {row \in Row : row.committed})

\* Slip: the oldest Turns rows are read.
FirstTurns(rows) == SubSeq(rows, 1, IF Len(rows) > Turns THEN Turns ELSE Len(rows))

\* The newest Turns rows, oldest first.
LastTurns(rows) ==
    SubSeq(rows, IF Len(rows) > Turns THEN Len(rows) - Turns + 1 ELSE 1, Len(rows))

\* get_history
GetHistory(r) ==
    /\ pc[r] = "history"
    /\ shown' = [shown EXCEPT ![r] = LastTurns(Rows(SessionOf(r)))]
    /\ Goto(r, "model")
    /\ UNCHANGED <<body, answer, exact, semantic, memory, before>>

\* The retrieval service or the agent graph answers.
Model(r) ==
    /\ pc[r] = "model"
    /\ answer' = [answer EXCEPT ![r] = r]
    /\ Goto(r, CASE KindOf(r) = "ask"   -> "cacheExact"
                 [] KindOf(r) = "agent" -> RecordOrReply(r)
                 [] KindOf(r) = "chat"  -> "send")
    /\ shown' = [shown EXCEPT ![r] = <<>>]
    /\ UNCHANGED <<body, exact, semantic, memory, before>>

\* The graph ends with an empty answer: a chat records and caches nothing.
ModelSilent(r) ==
    /\ pc[r] = "model"
    /\ KindOf(r) = "chat"
    /\ Goto(r, "replied")
    /\ shown' = [shown EXCEPT ![r] = <<>>]
    /\ UNCHANGED <<body, answer, exact, semantic, memory, before>>

\* The answer line of the stream is on its way to the caller.
Send(r) ==
    /\ pc[r] = "send"
    /\ Goto(r, "user")
    /\ UNCHANGED <<body, answer, shown, exact, semantic, memory, before>>

\* set_cached
SetExact(r) ==
    /\ pc[r] = "cacheExact"
    /\ exact' = [exact EXCEPT ![QuestionOf(r)] = answer[r]]
    /\ Goto(r, "cacheSemantic")
    /\ UNCHANGED <<body, answer, shown, semantic, memory, before>>

\* SemanticCacheStore.set: a failure is swallowed.  A chat is then at its end.
SetSemantic(r) ==
    /\ pc[r] = "cacheSemantic"
    /\ \/ semantic' = semantic \cup {<<QuestionOf(r), answer[r]>>}
       \/ UNCHANGED semantic
    /\ Goto(r, IF KindOf(r) = "chat" THEN "replied" ELSE RecordOrReply(r))
    /\ UNCHANGED <<body, answer, shown, exact, memory, before>>

\* Where add_message commits the row of a role.
Committing == [user |-> "user commit", assistant |-> "assistant commit"]

\* add_message builds the row, which takes its created_at...
Stamp(r, role) ==
    /\ pc[r] = role
    /\ memory' = [memory EXCEPT ![SessionOf(r)] =
                     Append(@, [by |-> r, role |-> role, committed |-> FALSE])]
    /\ Goto(r, Committing[role])
    /\ UNCHANGED <<body, answer, shown, exact, semantic, before>>

\* A chat answered from the semantic cache: its answer is another request's.
FromCache(r) == answer[r] # r

\* Slip: a chat's pair is cached between its two rows.
AfterRowEarly(r, role) ==
    CASE KindOf(r) = "chat" /\ role = "user" /\ ~FromCache(r) -> "cacheSemantic"
      [] role = "user"                                        -> "assistant"
      [] OTHER                                                -> "reply"

\* Slip: the reply is sent with the assistant's turn still to be written.
AfterRowHasty(r, role) ==
    IF KindOf(r) = "chat" THEN "assistant" ELSE "reply"

\* Where a handler goes once a row is committed.
AfterRow(r, role) ==
    CASE role = "user"                      -> "assistant"
      [] role = "assistant" /\ KindOf(r) # "chat" -> "reply"
      [] role = "assistant" /\ KindOf(r) = "chat" ->
             IF FromCache(r) THEN "replied" ELSE "cacheSemantic"

\* ... and commits it, which makes it visible where its stamp puts it.
Commit(r, role) ==
    /\ pc[r] = Committing[role]
    /\ memory' = [memory EXCEPT ![SessionOf(r)] =
                     [i \in DOMAIN @ |->
                         IF @[i].by = r /\ @[i].role = role
                         THEN [@[i] EXCEPT !.committed = TRUE] ELSE @[i]]]
    /\ Goto(r, AfterRow(r, role))
    /\ UNCHANGED <<body, answer, shown, exact, semantic, before>>

\* The JSON reply of ask and agent.
Reply(r) ==
    /\ pc[r] = "reply"
    /\ Goto(r, "replied")
    /\ UNCHANGED <<body, answer, shown, exact, semantic, memory, before>>

Ended == {"replied", "failed", "gone"}

\* An uncommitted row goes with its request, and what was read for the model.
Abandon(r) ==
    /\ memory' = [s \in Conversations |->
                     Keep(memory[s], {row \in Row : row.by # r \/ row.committed})]
    /\ shown'  = [shown EXCEPT ![r] = <<>>]

\* A store or a model raises, an acknowledgement is lost, or the replica
\* stops: the request ends where it is.
Fail(r) ==
    /\ pc[r] \notin Ended \cup {"new"}
    /\ Goto(r, "failed")
    /\ Abandon(r)
    /\ UNCHANGED <<body, answer, exact, semantic, before>>

\* The places of a chat handler that run inside its response.
Streaming == {"model", "send", "user", "user commit", "assistant",
              "assistant commit", "cacheSemantic"}

\* The caller of a stream disconnects: the server cancels the generator at
\* the await or the yield it is suspended at.
Disconnect(r) ==
    /\ KindOf(r) = "chat"
    /\ pc[r] \in Streaming
    /\ Goto(r, "gone")
    /\ Abandon(r)
    /\ UNCHANGED <<body, answer, exact, semantic, before>>

\* Redis deletes a cached answer whose time to live is over.
ExactExpires(q) ==
    /\ exact[q] # NoAnswer
    /\ exact' = [exact EXCEPT ![q] = NoAnswer]
    /\ UNCHANGED <<pc, body, answer, shown, semantic, memory, before>>

\* The next call of r's handler.
Step(r) ==
    \/ ExactHit(r) \/ ExactMiss(r)
    \/ SemanticHit(r) \/ SemanticMiss(r)
    \/ GetHistory(r)
    \/ Model(r) \/ ModelSilent(r)
    \/ Send(r)
    \/ SetExact(r) \/ SetSemantic(r)
    \/ \E role \in {"user", "assistant"} : Stamp(r, role) \/ Commit(r, role)
    \/ Reply(r)

Next ==
    \/ \E r \in Request, b \in Bodies : Arrive(r, b)
    \/ \E r \in Request : Step(r)
    \/ \E r \in Request : Fail(r)
    \/ \E r \in Request : Disconnect(r)
    \/ \E q \in Question : ExactExpires(q)

Spec == Init /\ [][Next]_vars
-----------------------------------------------------------------------------
\* Every variable has its type.
TypeOK ==
    /\ pc \in [Request -> Ended \cup Streaming \cup
                  {"new", "exact", "semantic", "history", "cacheExact", "reply"}]
    /\ body     \in [Request -> Bodies \cup {NoBody}]
    /\ answer   \in [Request -> Request \cup {NoAnswer}]
    /\ shown    \in [Request -> Seq(Row)]
    /\ exact    \in [Question -> Request \cup {NoAnswer}]
    /\ semantic \subseteq Question \X Request
    /\ memory   \in [Conversations -> Seq(Row)]
    /\ before   \in [Request -> SUBSET Request]

\* No drift: whatever cache an answer came through, the question it was
\* produced for is itself above the threshold from the question it serves.
\* Caches hold only answers produced for the very question they are stored
\* under, so paraphrases of paraphrases never add up.
ServedAnswerFits ==
    \A r \in Request : answer[r] # NoAnswer =>
        <<QuestionOf(r), QuestionOf(answer[r])>> \in Similar

\* The roles of the rows r has in session s, oldest first.
RolesIn(r, s) ==
    LET mine == Keep(Rows(s), {row \in Row : row.by = r})
    IN  [i \in 1 .. Len(mine) |-> mine[i].role]

WholeTurn == <<"user", "assistant">>

\* A request leaves rows only in its own session, only once it has an answer,
\* never an assistant's row without the user's before it, and never a row
\* twice: a one-off question or one that fails unanswered leaves no trace.
RowsFollowTheTurn ==
    \A r \in Request, s \in Conversations : RolesIn(r, s) # <<>> =>
        /\ s = SessionOf(r) /\ answer[r] # NoAnswer
        /\ RolesIn(r, s) \in {<<"user">>, WholeTurn}

\* The caller of r holds its answer: the JSON reply, or the answer line of a
\* stream, which goes out before the turn is recorded.
RecordingUser      == {"user", "user commit"}
RecordingAssistant == {"assistant", "assistant commit"}
HoldsAnswer(r) ==
    \/ pc[r] = "replied" /\ answer[r] # NoAnswer
    \/ /\ KindOf(r) = "chat"
       /\ pc[r] \in RecordingUser \cup RecordingAssistant \cup {"cacheSemantic"}

\* What a caller's next message can miss of the turn it has the answer of: once
\* the response has ended, and for a stream already while the pair is cached,
\* nothing.  A message that overtakes the recording of a stream misses the whole
\* turn or the assistant's row, and never the user's row alone.  (A stream that is
\* cut while it records is what NothingHalfDone is about.)
LateOnlyWhileRecording ==
    \A r \in Request : HoldsAnswer(r) /\ Remembered(r) =>
        RolesIn(r, SessionOf(r)) =
            CASE pc[r] \in RecordingUser      -> <<>>
              [] pc[r] \in RecordingAssistant -> <<"user">>
              [] OTHER                        -> WholeTurn

\* The stream caches only what it has recorded whole: an answer others may
\* be served from a chat is in that chat's history.
ChatCachesWhatItRecorded ==
    \A p \in semantic : KindOf(p[2]) = "chat" =>
        RolesIn(p[2], SessionOf(p[2])) = WholeTurn

\* A conversation's next turn sees the last ones: what the model is shown holds
\* both rows of every turn that was answered before the request came, but for
\* those that later rows of the session push out of the last Turns.
NextTurnSeesTheLast ==
    \A r \in Request : pc[r] = "model" /\ Remembered(r) =>
        \A p \in before[r], role \in {"user", "assistant"} :
            LET rows   == memory[SessionOf(r)]
                row    == [by |-> p, role |-> role, committed |-> TRUE]
                at(x)  == CHOOSE i \in DOMAIN rows :
                              rows[i].by = x.by /\ rows[i].role = x.role
                inView == { shown[r][i] : i \in DOMAIN shown[r] }
            IN  \/ row \in inView
                \/ Len(shown[r]) = Turns /\ \A x \in inView : at(row) < at(x)

\* chat.py: "a broken connection mid-stream records nothing half-done".
NothingHalfDone ==
    \A r \in Request : pc[r] = "gone" =>
        RolesIn(r, SessionOf(r)) \in {<<>>, WholeTurn}
=============================================================================
