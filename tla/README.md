# TLA+ models of scalable-rag-core

Specifications of the services and pipelines of this repository, the TLC
configurations that check them on small instances, and theorems that TLAPS
checks for every value of the constants. `PROJECT.json` maps each definition to
the source lines it models and lists the runs, the hazards each property is
aimed at, and the theorems.

    tlc -config EmbedBatch_group.cfg MCEmbedBatch     # a run
    tlapm EmbedBatchProofs.tla                        # proofs of a module

Paths below are relative to `src/`; `app/` is `services/api/app/`,
`ingestion/` is `pipelines/ingestion/`.

## 1. Inventory

| Component | State it keeps | Operations | Hard behaviour | What makes it correct |
|---|---|---|---|---|
| Embedding replica, `app/models/embedding_engine.py` | waiting room `_pending`, `_group_collector_task`, one future per parked request | `__call__`, collector, delivery | many coroutines over one room; callers that go away; a group fails together | own vectors, nobody stranded, batching invisible |
| Rate limit, `app/stores/redis_gateway.py`, `routes/ask.py` | `rate:<sub>` counters and expiries in Redis | `INCR`, `EXPIRE` | two round trips; lost answers and resends; replicas that stop between them | bounded admission, allowance refills |
| Answering routes, `app/routes/{ask,agent,chat}.py` with both caches and the memory store | exact cache (Redis), semantic cache (Qdrant), `chat_history` (Postgres) | look up, read history, ask the model, cache, record, reply or stream | requests of one conversation interleave; failure or disconnect between two writes | cached answers fit, turns whole and in order, a turn late only while it is recorded, next turn sees the last |
| Login and tokens, `app/auth.py`, `app/routes/auth.py`, `app/stores/postgres_users.py` | `users` table; a token carries its own subject and expiry | create or change a user, log in, verify a token | a password replaced while a login compares, or while its tokens live | a replaced password opens nothing for longer than a token lives |
| Feedback, `app/routes/feedback.py` | feedback table | read verdicts, check the author, add | check and insert are two transactions | one author per session unless requests overlap |
| Agent graph, `app/agents/`, `app/enhancers/` | one run's state | plan, rewrite, HyDE, two concurrent searches, merge, tool, respond | any call may fail; two searches finish in either order | only primaries end a run, no answer without evidence by accident, the calculator stays small |
| Sandbox, `services/sandbox/runner.py`, `app/agents/sandbox_tool.py` | one event loop, one child, one pipe | `POST /execute`, join, kill, report; the tool's timeout | synchronous join on the loop; two timeouts; a pipe that fills; a report cut off | every request answered, time out only in a crowd |
| Service clients, `app/clients/ray_*.py`, `libs/retry/backoff.py` | connection pool, attempt counter | send, wait, retry | timeouts racing late answers; a full pool; a retry that meets another group | errors surface exactly when due, a call outlives the departures of others, doubled work passes |
| Uploads and storage events, `app/routes/upload.py`, `scripts/bulk_upload.py`, `pipelines/jobs/` | blobs; events on their way; jobs submitted | write or overwrite a blob, deliver an event, submit a job | late, repeated and reordered events; a blob overwritten under a job | what is in storage becomes searchable |
| Ingestion, `pipelines/ingestion/` | graph (Neo4j), points (Qdrant), tasks of a job | parse, extract, merge, embed, upsert | overlapping jobs; lost workers; retried tasks; open transactions | idempotent writes, "complete" means indexed |
| Lifespan, `app/main.py` | pools of each replica; collections and tables shared | open, ensure, build, serve, close | replicas race; a start fails half way | serves only when ready, every replica serves in the end |
| Health, loaders, LLM serving, settings, gateway script, local scripts | none | | | not modelled, see section 8 |

Interactions. Every route checks a token, then the rate limit. `ask` and `chat`
look in the caches before they call the retrieval service or the agent graph;
`agent` calls the graph directly. The graph embeds through `RayEmbedClient`,
whose POST ends in the embedding replica's batch, searches Qdrant and Neo4j,
and may call the sandbox through its tool. The subject of a verified token is the key of
the rate limit and the author of feedback. A blob's event starts an ingestion job, which writes the two stores the
searches read. The API's replicas share Redis, Postgres, Qdrant and Neo4j and no
memory.

## 2. Modules

    EmbedSlices <- EmbedService        the promise: no batching in sight
        ^              ^ refined by
        +--------- EmbedBatch <- MCEmbedBatch
        EmbedBatch   <- EmbedBatchProofs
    RayCall, EmbedBatch <- EmbedClient <- MCEmbedClient
        EmbedClient  <- EmbedClientProofs
    Ingestion    <- Uploads    <- MCIngestion,    IngestionProofs
    Feedback     <- Login      <- MCFeedback,     FeedbackProofs
    AgentGraph, Calculator <- AgentTools <- MCAgentGraph, AgentGraphProofs
    RateLimit    <- MCRateLimit,    RateLimitProofs
    Conversation <- MCConversation, ConversationProofs
    Sandbox      <- MCSandbox;  AgentGraphProofs (its theorems too)
    Boot         <- MCBoot,         BootProofs

An arrow points from the module that is extended (`EmbedClient` takes `EmbedBatch`
by `INSTANCE`). `MC` modules hold constants. `Sandbox` and `Calculator` have their names in those of
their specifications (`SandboxSpec`), so that one module can prove about both and the agent.
An operator whose comment begins with "Slip:" is a plausible bug kept beside
the operator it would replace; no specification uses it.

**Atomicity.** The services are `asyncio` programs: a coroutine runs undisturbed
between two awaits, so an action is the code from one suspension point to the
next, and every call to a store, a model or another service is a suspension
point. Where the store is shared by replicas (Redis, Postgres, Neo4j) the unit
is one command or one transaction; where a transaction is not atomic to others
(a Neo4j merge, a Postgres row whose `created_at` is taken before its commit)
its parts are separate actions.

**EmbedBatch.** `texts`, `call` are the request, `future`/`payload` its
container, `pending` and `collector` the two fields of the deployment, `task`
and `group` the locals of each collector. `EmbedInGroup` is `__call__` up to
`await future`; `CloseDoor`, `CloseDoorEmpty`, `CloseDoorRaises` what a
collector does after its sleep (it suspends only if there is a text to encode,
and raises on a body whose `text` cannot be iterated); `EncodeReturns` and
`EncodeRaises` the rest; `Resume` the way back; `Cancel` a caller that goes
away. Filling a container that was cancelled raises and ends the delivery loop
there: that is `Reached`. `EmbedSlices` has the merge and the split, counted
with cardinalities instead of recursion.

**RateLimit.** `Incr` and `Expire` are the two commands. For the subjects in
`Faulty` an answer may be lost and the command sent again (the Redis client
resends by default), a command may fail, and a replica may stop in between.
Counters saturate at `Limit + 1`, since the code only asks "is it 1" and "is it
within the limit". `granted` is a history of the last `Window` ticks.

**Conversation.** An answer is named by the request whose model call made it, a
row by its request and role, so a property can say whose answer was served to
whom. `Similar` holds the pairs of questions above the semantic threshold; it is
not transitive. `Stamp` and `Commit` are the two halves of `add_message`. `Fail`
ends a handler at any await, `Disconnect` cancels a stream (a broken connection
cancels the generator). The answer line of a stream is sent (`Send`) before its rows are written, so
the caller of a chat holds its answer from "user" on. `Abandon` rolls back what was not committed. `Keep` is the `where` of a
query: the rows of a sequence that belong to a set, in their order.

**Feedback.** `ReadVerdicts` and `AddVerdict` are the handler's two
transactions; `Fail` may lose the answer of one that committed.

**Login** composes it with who may call. `UpsertUser` is the store's operation, `Begin`,
`GetPasswordHash` and `Verify` the three parts of `POST /token` around its one await,
`RequireToken` the check of every protected route, and `Bring` a feedback request whose author is
the subject of its token. A hash is the password it was made from. `stale` is the time since the
password a login gave was replaced, and `lag` what it was when a request used the token.

**AgentGraph.** One run. `Plan` and `PlannerFails` decide, `Enhance` is the
rewriter and HyDE, both of which fall back to what they were given; `VectorReturns`
and `GraphReturns` happen in either order, `Merge` when both have; a tool that
calls a store with nothing around the call (`Raising`) may raise, which ends the run. The graph
tool first asks the model for entities (`Extract`) and then looks up one after the other
(`LookUpEntity`); a null in place of their list raises.

**Calculator.** `_walk` computes bottom-up, so its recursion is a stack, `parts`: a constant is put
on it (`Read`), a minus changes its last part (`Negate`), and an operator makes one part of the last
two (`Operate`) or raises, which ends the walk. Every order in which that is possible is the walk over
some tree, so no tree is built. `PowerTooLarge` is the cap on powers. An integer is kept exactly, since
Python's do not overflow; a float has a fixed size and its value is left out. A part remembers
where in the expression it began, so that `LiteralsOf` can count what it was computed from. Writing
the result may fail (`Answered`): Python 3.12 prints no integer of more than 4300 digits, and
`1000000 ** 1000`, which the caps let through, has 6001.

**AgentTools.** The composition: where the planner's choice is the calculator, the tool node is in
`calculate`, which awaits nothing, until its walk has ended.

**Sandbox.** Time is in ticks of 2.5 seconds and stops while anything can
happen (`Urgent`), the best case for the tool. `Start` takes the loop, `Join` or `Kill`
gives it back; `Crash` is an `execute()` that raises. The tool says the same, "the sandbox did not
answer", of a timeout that is over (`GiveUp`, state "expired") and of an exchange that fails
(`PostFails`, `ExchangeFails`, or a 500, whose plain text is no JSON, in `Deliver`: state "failed").
The model keeps them apart, since only the first says something about the load. A child cannot exit before the parent reads the pipe when its
report is larger than the pipe's buffer: it is "blocked". If it dies there, by the container's
memory or by its own hand (`Tear`), half a report is left, and the parent waits for the other half.

**RayCall.** `Send` needs a connection, `NoAnswer` is the client's timeout and
the service may stay at work on the attempt (`at_work`), `Except` is the `except` of
the backoff loop (a client that is not open raises "closed", which is not retried), `Cancel` a cancelled caller.

**EmbedClient** composes the two ends of the embedding path. Every attempt of a call is a request
of its own at the replica: the proxy hands it over (`Reach`), `Answered` passes on what its
handler came to, and a departure cancels the handler when it is noticed: at once (`Departs`), while the
next attempt is under way (`NoticedLate`), or never. A hasty call may
leave, time out or be refused at any moment; a patient one times out only where no answer will
ever come.

**Ingestion.** A job's two branches over its rows: `Extract`, `MergeNodes` (the
transaction reads what is there), `CommitGraph`, then `Embed` and `Upsert`.
`LoseGraphWorker` and `LoseVectorWorker` are a worker lost in mid-write whose task is run
again, with the write done or not. `contested` is a history of the entities two open
transactions had in hand at the same time.

**Uploads** composes it with storage. `Upload` writes or overwrites a name and raises an event,
`HandleBlobEvent` submits a job for the path of an event, and `Run` is the submitted job: it reads
what is under its prefix when it gets to it (`Covered`), a prefix covering every name that begins
with it, and then does the steps of `Ingestion`.

**Boot.** `Start` is `lifespan()` as a list of awaited statements, the same for
every replica. `Check` and `Create` are the two halves of every "ensure";
`Fault` is any call that raises, `Restart` the orchestrator's, `Close` and
`CloseRaises` the shutdown, where a close that raises leaves the later pools open.

## 3. Runs

| Run | Instance | Shows |
|---|---|---|
| `EmbedBatch_group` | 4 requests, 3 bodies (none, one, two texts), two that may go away, one malformed | `TypeOK`; `DoorAttended`; `OwnVectors`; `StrandedOnlyInABrokenGroup`; `MergeConcatenates` (split and merge against plain concatenation); `ImplementsService` (refinement); `OnlyBrokenGroupsKeepWaiting` (liveness) |
| `RateLimit_window` | 2 subjects, one faulty, 2 requests at a time, limit 2, window 3 ticks | `TypeOK`; `RefillScheduled`, `AllowanceRefills` for the healthy subject; `AtMostTwoAllowances` for both |
| `Conversation_turns` | 3 requests, 5 bodies over the three routes, one shared session, 2 rows of history, similarity chain q1-q2-q3 | `TypeOK`; `ServedAnswerFits` (no drift through caches); `RowsFollowTheTurn`; `LateOnlyWhileRecording` (what a caller who has its answer can miss of the turn); `ChatCachesWhatItRecorded`; `NextTurnSeesTheLast` |
| `Feedback_overlap` | 3 requests, 2 users, 2 sessions; 2 logins, 2 passwords, 2 changes, tokens of 1 tick | `OnlyOverlapMixesAuthors`; `ReplacedPasswordsExpire` |
| `Ingestion_jobs` | 2 jobs, 2 names of which one begins with the other, 3 contents (two share a chunk, one cannot be parsed), 2 uploads, one lost worker a job | `TypeOK`; `CopiesNeedOverlap`; `OnePointPerText`; `CompleteMeansIndexed`; `VectorsFollowGraphs`; `CurrentIsSearchable` |
| `Sandbox_calls` | 3 calls, 5 kinds of code, timeouts 2 and 4 ticks, posts and exchanges that fail, answers that are errors | `SandboxTypeOK` (no child is joined beyond its timeout); `TimeoutNeedsACrowd`; `EveryExecuteEnds` |
| `AgentGraph_answers` | 3 pieces of evidence, up to 2 from each search, 5 tools, 2 entities; integers below and above the cap on bases of 3, exponents to 2, expressions of up to 4 literals | `OnlyPrimariesEndTheRun`; `NoEvidenceOnlyByChoice`; `EvidenceIsWhole`; `NumbersStayShort` |
| `Boot_race` | 2 replicas, 2 faults each | `ServingMeansReady`; `FewStartsAreLost`; `EveryReplicaServes` |
| `EmbedClient_calls` | a patient and a hasty call, 1 retry each, 1 connection, one replica | `TypeOK`; `RaisesWhenSpent`; `DepartureCostsOneAttempt`; `EveryCallEnds`; `OnlyStrandedWorkLingers` (liveness of the replica's work) |
| `EmbedBatch_disconnect` | 3 requests, one may go away | violates `NobodyWaitsForever` |
| `Conversation_halfdone` | 2 chats of one session | violates `NothingHalfDone` |
| `Sandbox_report` | 2 calls | violates `EndedCodeIsReported` |

**Why the bounds are enough.** The defects these properties describe need few
actors: a collector that closes while another encodes, with a caller on each side of the
one that goes away, takes four requests and three bodies of different lengths.
A limit of 2 separates the first, the last allowed and the first refused request; a
window of 3 ticks has a beginning, a middle and an end. Three turns and a history
of two rows are the least at which a turn is pushed out of view. The chain q1-q2-q3 is the
least in which similarity is not transitive. Two jobs with a shared chunk and a
shared entity meet in every pair of steps. Three sandbox calls are the least
with which two inner timeouts exhaust the outer one. With one retry an attempt is the
first or the last, a retried attempt meets the group of its predecessor, and one connection for two
calls makes the pool full; the theorems hold for any number of either. Two uploads overwrite a
name once, and two jobs finish in either order. Two changes of a password replace it and bring it
back. Three literals make a power of a power, where caps scaled down to 2 and 3 are passed as the
code's are. Three replicas behave like two for a race, since only one
creation succeeds and any other finds its target there. The named bounds are
`MaxLost`, `MaxFaults`, `MaxDocs`, `MaxEntities`, `MaxLiterals`, `MaxRan`, `MaxUploads`,
`MaxChanges`, the saturating `Cap`, and the finite sets above.
`CHECK_DEADLOCK FALSE` stands where the system may stop: every request answered, every job
ended, every replica stopped.

**Symmetry** is used in `Conversation_turns`, `Feedback_overlap` and
`Ingestion_jobs` over what nothing tells apart (requests; requests, users, logins and
passwords; jobs), and in no run
with a liveness property.

## 4. Fairness

Fairness is weak everywhere, and only on steps that the code's own scheduling
guarantees.

- `EmbedBatch`: the event loop runs what is ready (a sleep ends, a worker
  thread ends, a task whose future is done resumes). Callers owe nothing: neither
  a request nor a cancellation is fair.
- `RateLimit`: time passes, and a check that is under way continues or fails.
- `Sandbox`: both loops run and time passes. The child owes nothing but its end
  by SIGTERM. `EveryExecuteEnds` excepts a report that was cut off.
- `Boot`: a statement that can run does, and a failed replica is restarted by
  the orchestrator. Faults are bounded by `MaxFaults`: a store that
  fails for good is not survived by any start.
- `EmbedClient`: the client's own timeouts, for a connection, for the answer and of the
  wait between two attempts; the delivery by the proxy and the replica's event loop. The patient call's
  timeout counts only where no answer will come, as if the client waited as long as it takes, so
  `EveryCallEnds` does not lean on timeouts that cut off a slow answer. An attempt whose handler has
  ended is done with, whether or not somebody waits for it. That the proxy notices a departure is not
  assumed, which is why `OnlyStrandedWorkLingers` excepts what is stranded.

The safety properties are properties of `Spec`, the same initial states and steps, whether a run
states them under fairness or not.

## 5. Theorems

For every value of the constants, under the `ASSUME`s of the modules, which TLC
evaluates on every run.

- **EmbedBatchProofs** `ShareIsOwn`: for any number of lists of any length, the slice cut
  for a caller is the encoding of its own list. Slots of different
  requests are disjoint, so `Start` grows by each length, and no two slots
  share a position of `Flat`; this counting replaces induction over the group.
  `TypeCorrect`, `AnswersAreOwn` (by `ShareIsOwn`, with
  `texts` fixed once a request is parked), `DoorIsAttended`,
  `StrandingNeedsABrokenGroup`, and `Refinement`: every behaviour of `EmbedBatch`
  is one of `EmbedService`. `StrandedOnlyInABrokenGroup` is not inductive by
  itself. `IInv` adds `Bookkeeping`: a request that has not arrived is nowhere, a
  collector has no group before it closes the door, no container in the room or in
  an encoding group is filled, and an answered request keeps its result.
  `Refinement` follows from it together with `OwnVectors` at the step where a
  caller is answered. `FlatIsConcatenation` and `MergeIsConcatenation`: the merged list is the
  plain concatenation (`FlattenSeq`, a recursive function) of the lists, by induction over the
  requests. `Custody` is the last invariant: every request that has arrived has exactly one
  holder, a filled container lies in a group whose pass is over; `Lasting` says what no step
  undoes.
- **RateLimitProofs** `RateLimitTypes`, `AllowancesAreBounded` (`Allowances`: a counter has
  an age such that no more was granted since than it counts, what is left of the window before
  that is at most one allowance, and its expiry, if it has one, is not due before a whole window
  has passed at that age), `RefillIsScheduled`: for a subject whose own
  commands do not fail, a counter without an expiry is owed one by exactly one check.
  `Debts` is the inductive form; `FaultsStayTheirOwn` says the failing subjects'
  steps leave a healthy subject's key alone.
- **FeedbackProofs** `FeedbackTypes`, `OverlapIsNeeded`: its `IInv` carries what a request
  that has read the verdicts knows of those ended before it arrived. `LoginImplementsFeedback`: with
  authors taken from tokens it is the same route. `PasswordsExpire`, by `Tied`: what a login
  compares with was not replaced before the login, and a token is never younger than
  the time since its password was replaced.
- **EmbedClientProofs** `RayCallTypes`, `ErrorsSurfaceInTime`, from one
  inductive `IInv`: attempts at work are never ahead of the counter, and a call waits for a retry
  only with an error worth one and retries left.
  Then the composition, by refinement: `ClientImplementsRayCall` and
  `ClientImplementsBatching` map every step of the path to a step or a stutter of each part, so
  the theorems of the parts carry over: `PathRaisesWhenSpent`, `AttemptsGetTheirOwn`,
  `AttemptsStrandBehindDepartures`.
  `DeparturesAreOutlived` is of the composition alone. Its `PathInv` says that an attempt a patient
  call has given up on lies in a group whose pass is over, that a group that died has a departed
  caller of its own, and that no group holds two attempts of one call. Since a request has one
  holder, the lost attempts then map one to one into the departures.
- **AgentGraphProofs** `PrimariesAlone`, `EvidenceByDefault`, from an `IInv` that
  says which calls each place of the graph has behind it. `EvidenceReachesTheResponder`: merging
  keeps every piece of both searches once, at its first place, by induction over the pieces.
  The sandbox behind the `python` tool has its theorems here too: `SandboxTypes` (no child is joined
  beyond its timeout) and `TimingOutNeedsACrowd`, by `SandboxInv`: the time a call has waited
  is shared out over the calls that had the loop in that time, each for at most the inner timeout.
  And the calculator's: `CalculatorsNumbersStayShort`, by `CalculatorInv`: the parts on the stack follow
  each other and each has a literal, so that what an operator makes of two has the literals of
  both. The laws of powers it takes (`PowersMultiply`, `PowersAreCapped`) are proved by induction
  over the exponent, from the equation of the recursive function. `RunsCalculate` takes the theorems to
  the composition (`RunsAreSafe`).
- **ConversationProofs** `ServedAnswersFit`: its `IInv` says that a cache keeps an answer only
  under the very question it was made for, because a handler that writes one has its answer from the
  model and not from a cache. The rows: `RowsFollowTurns`, `TurnsAreLateOnlyWhileRecorded`,
  `ChatsCacheWhatIsRecorded`, from `MemoryInv`, which relates the place of every handler to the rows
  it has written, whatever the others put between them. `NextTurnsSeeTheLast`, from `ViewInv`: while a
  request that remembers waits for the model, what it was shown is among the committed rows of its
  session, and a row of an earlier turn that it was not shown stands before all that it was shown,
  with the view full. Rows written meanwhile change neither. `ConversationTypes`.
  What `Keep` keeps is proved once, by induction over the sequence (`KeepKeeps`).
- **BootProofs** `ServingIsReady` (`Prepared`: what lies before the statement a start is at is
  open or in the stores, which only grow) and `StartsLostAreFew` (`Counted`: each start lost
  has brought a target of its own to the stores).
- **IngestionProofs** `IngestionTypes`, `TextsHaveOnePoint` (ids are content
  hashes and an upsert replaces), `CopiesComeFromOverlap` (`Hands`: what an open
  transaction is going to create is absent, or contested), `CompleteIsIndexed`
  (`Indexed`: what each written task left, with the stores only growing),
  `VectorsComeAfterGraphs` (`Followed`: nothing is embedded before the graph branch is
  whole, and what is whole stays so). `UploadsRunIngestion`: the jobs that events start are jobs of
  `Ingestion`. `UploadsAreSearchable` follows from it and `Indexed`, with `Unstarted` (a job
  that was not submitted has read nothing).

The proofs by induction over data (`KeepKeeps`, `FlatIsConcatenation`, the merge of evidence, powers)
do not cite an induction theorem, whose operator parameter the provers cannot instantiate:
`SetInduction` derives the principle, for a set of numbers, from the least element of its complement
(`WFMin`). It is stated in each module that needs it.

Only model-checked: every liveness property, since liveness under fairness and `ENABLED` are outside
the prover's reach.

## 6. What the checks found

Shown by a run:

- `EmbedBatch_disconnect`: a caller that goes away while its group encodes leaves those
  behind it in the group waiting forever (`embedding_engine.py:159`); the
  docstring says "so nobody waits forever".
- `Conversation_halfdone`: a stream cut between the rows of `record` leaves the
  user's row alone (`chat.py:61`); the docstring says "records nothing half-done".
- `Sandbox_report`: a code that ends in time with a report larger than the pipe
  is answered with 408 (`runner.py:92`), which is documented for a child that
  "outlived its timeout".

Met while modelling; the models contain the behaviour, and the properties above
are stated so as to say precisely when it happens:

- a body whose `text` is null raises in the merge, outside the `try`, and strands its whole
  group (`embedding_engine.py:131`);
- an `EXPIRE` that is never run leaves its subject limited for good (`redis_gateway.py:67`,
  which says that the allowance "refills automatically"). `RefillScheduled` and
  `AllowanceRefills` are therefore over `Subject \ Faulty`;
- the answer line of a stream is sent before the turn is recorded, so a prompt
  caller's next message can miss it (`chat.py:105` and the "hole" of `chat.py:54-56`).
  `NextTurnSeesTheLast` speaks of turns whose response had ended, and `LateOnlyWhileRecording` says
  what is missing before: the whole turn or the assistant's row, as far as `record` has not come;
- an answer made with one session's history is served from the exact cache to
  others, whose turns no model is shown (`ask.py:79` against `ask.py:62-63`);
- a power within both caps can still be one that Python refuses to write out, so that plain
  arithmetic is answered with an error (`tool.py:75` against `tool.py:38`, "an error message for anything
  that is not arithmetic");
- two users whose feedback overlaps both record (`feedback.py:43` against `feedback.py:39-41`);
- `MERGE` without a uniqueness constraint makes two nodes in two transactions that overlap
  (`indexing/neo4j.py:25` against `:4-6`);
- a node without a label or a name fails the whole run (`indexing/neo4j.py:95` against
  `extractor.py:7-9`);
- the vector branch starts when the graph branch has ended (`ingestion/main.py:97`
  against `ARCHITECTURE.md:197-198`);
- a report with a lone surrogate makes the answer a 500, and the tool says of a code that ran that the
  sandbox did not answer (`runner.py:103`, `sandbox_tool.py:40`);
- sandbox calls queue behind the child that is joined, so the tool's timeout does not
  cover the sandbox's (`runner.py:92` against `sandbox_tool.py:36`);
- the retriever waits for a graph store that does not answer (`retriever.py:53` against
  `retriever.py:6-7`);
- a null where the model should list entities raises out of the graph tool and ends the run
  (`graph_search.py:47` against `:33`, "extraction failure degrades to no results");
- a child that dies while its report waits to be read leaves the sandbox's loop waiting for good
  (`runner.py:103` against `:33-34`, "whatever the code does [...] stays in this process");
- two replicas that start together can lose a start to each target
  (`semantic_cache.py:42`, "Safe at every boot");
- the points of a document that was overwritten stay searchable (`indexing/qdrant.py:79`, where ids are
  content hashes and nothing deletes), next to those of its new content;
- a close that raises leaves the later pools open (`app/main.py:157`);
- a refusal with a status of 400 to 499 is retried (`ray_llm.py:55` against `ray_llm.py:4-5`).

## 7. Assumptions

- A broken stream connection cancels the generator at its await, and Ray Serve
  cancels the task of a caller that went away.
- Postgres and Neo4j transactions commit or not as a whole; a lost worker's
  transaction ends at once; clocks of replicas agree (`created_at` is taken by the
  process that builds the row).
- Points above the similarity threshold: any of them may be the nearest.
- SIGTERM ends the sandbox's child.
- The tool's timeout is one limit on the whole exchange. (httpx applies it to the connect, the write and
  each read by itself; connecting and writing take no time here, and one that runs out of it counts as
  a failed exchange.)
- bcrypt and HS256 are perfect: a hash matches one password, and a token that verifies was minted.
- An event of storage is delivered at least once, in any order.
- The Neo4j and Qdrant clients connect at first use, so opening a pool does not fail.
- The merges of one transaction read the graph once, where Neo4j reads at every statement.
- A row's text fixes the graph extracted from it, unless the extraction fails.

## 8. Not modelled

- Document loaders, health, logging, tracing: pure input and output.
- vLLM serving and `rate_limit.lua`: configuration of a library, and a script that
  repeats the two commands of `RateLimit`.
- Chunk store `add`: called by scripts and tests only.
- Prompts, wording, text splitting, JSON parsing, the values of floats, the lengths of
  the backoff's waits, memory cap and network policy of the sandbox.
- A restart of the sandbox's process in the middle of a call: the tool sees a failed exchange, which
  is modelled, the calls that waited for the process are not taken away.
- Two branches the ingestion pipeline cannot take: a random id for a row without a hash
  (`indexing/qdrant.py:77`, where every chunk has one) and the passing over of a row without a vector
  (`indexing/qdrant.py:84`, where `embed` returns one for each row or raises).
- The age of a semantic-cache answer against the documents it was made from.

## 9. Plan

Done, in this order: the embedding replica with its service and refinement; the
rate limit; the routes over caches and memory; feedback; ingestion; the sandbox; the
agent's run; retried calls; the lifespan; then the embedding path end to end, storage with its
events around the ingestion, logins around the feedback, the graph tool and the calculator.

Then the proofs: every safety property of the runs is a theorem.

Next, most important first:

1. A second worker process of the sandbox, its restarts, and `TimeoutNeedsACrowd` for several.
2. Clocks of replicas that disagree, as an offset per request in `Stamp`, and what is left of
   `NextTurnSeesTheLast` then.
