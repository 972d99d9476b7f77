------------------------------ MODULE Sandbox ------------------------------
(***************************************************************************)
(* The code sandbox (services/sandbox/runner.py) and the agent's tool that *)
(* calls it (services/api/app/agents/sandbox_tool.py).                     *)
(*                                                                         *)
(* The sandbox is one process with one event loop, and execute() joins its *)
(* child synchronously: while one call runs, the others wait in the socket.*)
(* The tool stops waiting after its own timeout; the sandbox does not know.*)
(*                                                                         *)
(* Time is counted in ticks.  Network and start-up take none, and nothing  *)
(* that can happen now waits for the next tick: the best case for the      *)
(* tool's timeout.  SIGTERM is assumed to end the child.                   *)
(*                                                                         *)
(* The tool tells the agent the same, that the sandbox did not answer, when*)
(* its timeout is over and when the exchange fails: no connection, a broken*)
(* one, or an answer that is no JSON.  The model tells the two apart.      *)
(***************************************************************************)
EXTENDS Integers, FiniteSets

CONSTANTS Call,      \* the calls of the tool
          Programs,  \* the codes it may send, see ProgramsAssumption
          Inner,     \* body.timeout: ticks before the child is killed
          Outer      \* the tool's own timeout

ASSUME TimeoutsAssumption == Inner \in Nat \ {0} /\ Outer \in Nat \ {0}

\* What a code does: it computes for `runs` ticks, more than Inner if it would
\* not end in time, and then reports.  A "big" report is larger than the pipe's
\* buffer; "none" is a child that dies without one; an "oversize" code is not run.
ASSUME ProgramsAssumption ==
    Programs \subseteq [runs : Nat, report : {"small", "big", "none", "oversize"}]

VARIABLES client,   \* client[c]: where the tool is with call c
          code,     \* code[c]: what it sent
          waited,   \* waited[c]: the ticks it has waited
          request,  \* request[c]: where the sandbox is with c
          status,   \* status[c]: what it answered
          child,    \* the child of the running call
          ran,      \* the ticks execute() has joined it
          met       \* met[c]: (history) the calls that were at the sandbox
                    \* while c waited for it

sandboxVars == <<client, code, waited, request, status, child, ran, met>>

NoCode == [runs |-> 0, report |-> "none"]

SandboxInit ==
    /\ client  = [c \in Call |-> "idle"]
    /\ code    = [c \in Call |-> NoCode]
    /\ waited  = [c \in Call |-> 0]
    /\ request = [c \in Call |-> "none"]
    /\ status  = [c \in Call |-> "none"]
    /\ child   = "none"
    /\ ran     = 0
    /\ met     = [c \in Call |-> {}]

AtSandbox == { c \in Call : request[c] \in {"queued", "running"} }
LoopFree == \A c \in Call : request[c] # "running"

\* run_python_code posts the code.
Post(c, p) ==
    /\ client[c] = "idle"
    /\ client'  = [client EXCEPT ![c] = "waiting"]
    /\ code'    = [code EXCEPT ![c] = p]
    /\ request' = [request EXCEPT ![c] = "queued"]
    /\ met'     = [d \in Call |->
                      CASE d = c -> AtSandbox
                        [] d # c /\ client[d] = "waiting" -> met[d] \cup {c}
                        [] OTHER -> met[d]]
    /\ UNCHANGED <<waited, status, child, ran>>

\* The post raises before the sandbox has the request: the connection is refused,
\* or does not come about.
PostFails(c) ==
    /\ client[c] = "idle"
    /\ client' = [client EXCEPT ![c] = "failed"]
    /\ UNCHANGED <<code, waited, request, status, child, ran, met>>

Answer(c, s) ==
    /\ request' = [request EXCEPT ![c] = "answered"]
    /\ status'  = [status EXCEPT ![c] = s]
    /\ child'   = "none"
    /\ ran'     = 0
    /\ UNCHANGED <<client, code, waited, met>>

\* 413: the code exceeds the size cap.
Refuse(c) ==
    /\ request[c] = "queued" /\ LoopFree
    /\ code[c].report = "oversize"
    /\ Answer(c, "refused")

\* execute() starts the child and joins it, with the loop in its hands.
Start(c) ==
    /\ request[c] = "queued" /\ LoopFree
    /\ code[c].report # "oversize"
    /\ request' = [request EXCEPT ![c] = "running"]
    /\ child'   = "running"
    /\ ran'     = 0
    /\ UNCHANGED <<client, code, waited, status, met>>

\* The code ends, and execute_in_child puts its report.  The process does not
\* end before the whole report is in the pipe, which nobody reads yet.
CodeEnds(c) ==
    /\ request[c] = "running"
    /\ child = "running" /\ ran = code[c].runs
    /\ child' = IF code[c].report = "big" THEN "blocked" ELSE "exited"
    /\ UNCHANGED <<client, code, waited, request, status, ran, met>>

\* A child that waits for its report to be read dies (the container's memory is
\* full, or a thread of the code ends the process), and leaves half of it.  The
\* queue is not empty, and get() waits for the other half: the parent has the
\* pipe's writing end as well, so it is never told that none will come.
Tear(c) ==
    /\ request[c] = "running"
    /\ child = "blocked"
    /\ child' = "torn"
    /\ UNCHANGED <<client, code, waited, request, status, ran, met>>

\* join() returns with the child gone: its report is passed on, whether of a
\* success or of an error, or 200 "no output produced".
Join(c) ==
    /\ request[c] = "running"
    /\ child = "exited"
    /\ Answer(c, IF code[c].report = "none" THEN "silent" ELSE "output")

\* 500: execute() raises, where it starts the child, or where it answers with a
\* report that has no encoding in UTF-8 (a lone surrogate that the code printed).
Crash(c) ==
    /\ \/ request[c] = "queued" /\ LoopFree /\ code[c].report # "oversize"
       \/ request[c] = "running" /\ child = "exited" /\ code[c].report # "none"
    /\ Answer(c, "error")

\* Slip: the deadline is twice what the caller asked for.
DueTwice == ran = 2 * Inner

\* child.join(body.timeout) has waited long enough.
Due == ran = Inner

\* Slip: a child whose code has ended is not killed.
Computing == child = "running"

\* child.is_alive()
Alive == child \in {"running", "blocked"}

\* 408: the child is terminated.
Kill(c) ==
    /\ request[c] = "running"
    /\ Alive /\ Due
    /\ Answer(c, "killed")

ClientEnds(c, how) ==
    /\ client[c] = "waiting"
    /\ client' = [client EXCEPT ![c] = how]
    /\ waited' = [waited EXCEPT ![c] = 0]
    /\ met'    = [met EXCEPT ![c] = IF how = "expired" THEN @ ELSE {}]
    /\ UNCHANGED <<code, request, status, child, ran>>

\* The tool gets the answer: a 413 or a 408 is JSON as a 200 is, and is passed on
\* to the agent; a 500 is plain text, and response.json() raises.
Deliver(c) ==
    /\ request[c] = "answered"
    /\ ClientEnds(c, IF status[c] = "error" THEN "failed" ELSE "result")

\* The connection breaks, which the sandbox does not notice.
ExchangeFails(c) == ClientEnds(c, "failed")

\* The tool stops waiting.
GiveUp(c) == waited[c] = Outer /\ ClientEnds(c, "expired")

\* A step of the sandbox on c.
Serve(c) ==
    Refuse(c) \/ Start(c) \/ CodeEnds(c) \/ Join(c) \/ Kill(c) \/ Crash(c)

\* Bound: a join that is never cut short is counted up to here.
MaxRan == 2 * Inner

\* Something can happen now.
Urgent ==
    \E c \in Call :
        \/ client[c] = "waiting" /\ (request[c] = "answered" \/ waited[c] = Outer)
        \/ request[c] = "queued" /\ LoopFree
        \/ request[c] = "running" /\
              (child = "exited" \/ (Alive /\ Due)
                                \/ (child = "running" /\ ran = code[c].runs))

Tick ==
    /\ ~Urgent
    /\ \E c \in Call : client[c] = "waiting" \/ request[c] = "running"
    /\ waited' = [c \in Call |-> IF client[c] = "waiting"
                                 THEN waited[c] + 1 ELSE waited[c]]
    /\ ran'    = IF LoopFree \/ child = "torn" \/ ran = MaxRan
                 THEN ran ELSE ran + 1
    /\ UNCHANGED <<client, code, request, status, child, met>>

SandboxNext ==
    \/ \E c \in Call, p \in Programs : Post(c, p)
    \/ \E c \in Call : PostFails(c) \/ Serve(c) \/ Tear(c)
    \/ \E c \in Call : Deliver(c) \/ GiveUp(c) \/ ExchangeFails(c)
    \/ Tick

SandboxSpec == SandboxInit /\ [][SandboxNext]_sandboxVars

\* The loop runs, the tool's loop runs, and time passes.
SandboxFairSpec ==
    /\ SandboxSpec
    /\ \A c \in Call : /\ WF_sandboxVars(Serve(c))
                       /\ WF_sandboxVars(Deliver(c) \/ GiveUp(c))
    /\ WF_sandboxVars(Tick)
-----------------------------------------------------------------------------
\* Every variable has its type: no child is joined beyond its timeout, and no
\* call waited for beyond the tool's.
SandboxTypeOK ==
    /\ client  \in [Call -> {"idle", "waiting", "result", "expired", "failed"}]
    /\ code    \in [Call -> Programs \cup {NoCode}]
    /\ waited  \in [Call -> 0 .. Outer]
    /\ request \in [Call -> {"none", "queued", "running", "answered"}]
    /\ status  \in [Call -> {"none", "output", "silent", "killed", "refused", "error"}]
    /\ child   \in {"none", "running", "blocked", "torn", "exited"}
    /\ ran     \in 0 .. Inner
    /\ met     \in [Call -> SUBSET Call]

\* sandbox_tool.py, "outer timeout = inner timeout + overhead around": the tool's
\* timeout is over only for a call that met so many others at the sandbox, those
\* among them whose callers had long gone, that their timeouts add up to its own.
\* A call that finds the sandbox to itself and stays alone gets its result, unless
\* its exchange fails or a report is torn.
TimeoutNeedsACrowd ==
    \A c \in Call : client[c] = "expired" =>
        Outer <= Inner * (1 + Cardinality(met[c])) \/ child = "torn"

\* Every request the sandbox receives is answered: no code keeps the loop, but
\* for one whose process dies in the middle of its report.
EveryExecuteEnds ==
    \A c \in Call :
        request[c] = "queued" ~> request[c] = "answered" \/ child = "torn"

\* runner.py: execute() is to run the code "and return its output": a code
\* that ends in its time is not answered with 408.
EndedCodeIsReported ==
    \A c \in Call : status[c] = "killed" => code[c].runs >= Inner
=============================================================================
