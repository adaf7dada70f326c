----------------------------- MODULE Sample1App -----------------------------
(***************************************************************************)
(* The main loop of sample1 (main.cpp) without --fork: every line typed is *)
(* a request, served by RequestPipeline, "cleanup", which pays for the     *)
(* messages in the billing queue, or "exit".  All of it is done by main,   *)
(* one line at a time.                                                     *)
(***************************************************************************)
EXTENDS RequestPipeline

CONSTANTS
  Total,            \* characters of each text
  Changed,          \* those that transform changes
  Width,            \* bits of an unsigned
  MovesInRequests   \* bound: does the agent also move while a request is served

ASSUME CostAssumption ==
  /\ Total \in [Inputs -> Nat]
  /\ Changed \in [Inputs -> Nat]
  /\ \A i \in Inputs : Changed[i] <= Total[i]
  /\ Width \in Nat

VARIABLES stage,    \* where main stands when it is not in handle_request: startup,
                    \* prompt, cleaning, polling, paying, stopping or exited
          current,  \* the message on_billing_message was called with, if any
          ledger    \* what "Paying up" has been printed for: message and success

appVars == <<stage, current, ledger>>
allVars == <<vars, appVars>>

Entry(m, ok) == [msg |-> m, paid |-> ok]

AppInit == Init /\ stage = "startup" /\ current = <<>> /\ ledger = <<>>

MainAt(from, to) == stage = from /\ stage' = to /\ UNCHANGED pc

Unsigned(n) == n % 2^Width

\* Mutant: the changed characters are deducted.
CostCheaper(i) == Unsigned(Unsigned(Total[i]) - 2 * Unsigned(Changed[i]))
\* changed_chars * 2 + total_chars, each an unsigned.
Cost(i) == Unsigned(2 * Unsigned(Changed[i]) + Unsigned(Total[i]))

\* cost <= 0
ZeroCost == {i \in Inputs : Cost(i) = 0}

\* run_main_loop up to its first prompt.
EnterLoop ==
  /\ MainAt("startup", "prompt")
  /\ agent' = A!CreateInfo(agent, "billing")
  /\ UNCHANGED <<requestVars, tagVars, resultVars, queue, current, ledger>>

\* A line that is no command goes to handle_request, which returns to the prompt.
ServeRequest ==
  /\ stage = "prompt"
  /\ (\E i \in Inputs : ReadRequest(i)) \/ MainStep \/ ServerStep \/ DbStep \/ DispStep
  /\ UNCHANGED appVars

\* perform_cleanup up to its call of poll_process_messages.
BeginCleanup ==
  /\ pc["main"] = "read"
  /\ MainAt("prompt", "cleaning")
  /\ agent' = A!Start(A!Create(agent, "main", "custom", served), "main", "custom")
  /\ UNCHANGED <<requestVars, tagVars, resultVars, queue, current, ledger>>

\* poll_process_messages up to its loop.
BeginPolling ==
  /\ MainAt("cleaning", "polling")
  /\ agent' = A!Start(A!CreateFor(agent, "main", "receive", served, "billing"), "main", "receive")
  /\ UNCHANGED <<requestVars, tagVars, resultVars, queue, current, ledger>>

\* Mutants: the tag is set after the start; it is not set.
Poll(taken, left, a) ==
  /\ queue # <<>> /\ MainAt("polling", "paying")
  /\ current' = taken /\ queue' = left /\ agent' = a
  /\ UNCHANGED <<requestVars, tagVars, resultVars, ledger>>
NewProcess == A!CreateFor(agent, "main", "process", queue[1].req, "billing")
PollMessageLateTag ==
  Poll(<<queue[1]>>, Tail(queue),
       A!SetTag(A!Start(NewProcess, "main", "process"), "main", "process", queue[1].tag))
PollMessageNoTag == Poll(<<queue[1]>>, Tail(queue), A!Start(NewProcess, "main", "process"))

\* poll_receive_one hands out a message; on_billing_message sets the tag that
\* came with it, then starts the process tracer.
PollMessage ==
  /\ queue # <<>>
  /\ MainAt("polling", "paying")
  /\ current' = <<Head(queue)>> /\ queue' = Tail(queue)
  /\ LET m  == Head(queue)
         a1 == A!CreateFor(agent, "main", "process", m.req, "billing")
         a2 == A!SetTag(a1, "main", "process", m.tag)
     IN  agent' = A!Set(A!Start(a2, "main", "process"), "main", "process")
  /\ UNCHANGED <<requestVars, tagVars, resultVars, ledger>>

Pay ==
  /\ stage = "paying" /\ current[1].input \notin ZeroCost
  /\ MainAt("paying", "polling")
  /\ agent' = A!End(agent, "main", "process")
  /\ ledger' = Append(ledger, Entry(current[1], TRUE)) /\ current' = <<>>
  /\ UNCHANGED <<requestVars, tagVars, resultVars, queue>>

\* Mutants: perform_cleanup swallows the error; the message is forgotten.
PayThrowsQuietly ==
  /\ stage = "paying" /\ current[1].input \in ZeroCost /\ MainAt("paying", "prompt")
  /\ agent' = A!End(A!Fail(A!Fail(agent, "main", "process"), "main", "receive"), "main", "custom")
  /\ ledger' = Append(ledger, Entry(current[1], FALSE)) /\ current' = <<>>
  /\ UNCHANGED <<requestVars, tagVars, resultVars, queue>>
PayThrowsForgets ==
  /\ stage = "paying" /\ current[1].input \in ZeroCost /\ MainAt("paying", "prompt")
  /\ agent' = A!Fail(A!Fail(A!Fail(agent, "main", "process"), "main", "receive"), "main", "custom")
  /\ current' = <<>>
  /\ UNCHANGED <<requestVars, tagVars, resultVars, queue, ledger>>

\* "Cannot pay zero cents." leaves on_billing_message and, with what is still
\* in the queue, poll_process_messages; perform_cleanup catches it.
PayThrows ==
  /\ stage = "paying" /\ current[1].input \in ZeroCost
  /\ MainAt("paying", "prompt")
  /\ agent' = A!Fail(A!Fail(A!Fail(agent, "main", "process"), "main", "receive"), "main", "custom")
  /\ ledger' = Append(ledger, Entry(current[1], FALSE)) /\ current' = <<>>
  /\ UNCHANGED <<requestVars, tagVars, resultVars, queue>>

\* An empty message ends the loop.
PollNothing ==
  /\ queue = <<>>
  /\ MainAt("polling", "prompt")
  /\ agent' = A!End(A!End(agent, "main", "receive"), "main", "custom")
  /\ UNCHANGED <<requestVars, tagVars, resultVars, queue, current, ledger>>

\* Mutant: the handle is not deleted.
ExitLeaky ==
  /\ pc["main"] = "read" /\ MainAt("prompt", "stopping")
  /\ UNCHANGED <<agent, requestVars, tagVars, resultVars, queue, current, ledger>>

Exit ==
  /\ pc["main"] = "read"
  /\ MainAt("prompt", "stopping")
  /\ agent' = A!DeleteInfo(agent, "billing")
  /\ UNCHANGED <<requestVars, tagVars, resultVars, queue, current, ledger>>

\* onesdk_shutdown, only after a successful onesdk_initialize_2.
Shutdown ==
  /\ MainAt("stopping", "exited")
  /\ agent' = IF agent.initialized THEN A!ShutDown(agent) ELSE agent
  /\ UNCHANGED <<requestVars, tagVars, resultVars, queue, current, ledger>>

Exited == stage = "exited" /\ UNCHANGED allVars

Cleanup == BeginPolling \/ PollMessage \/ Pay \/ PayThrows \/ PollNothing

AppNext ==
  \/ EnterLoop \/ ServeRequest \/ BeginCleanup \/ Cleanup \/ Exit \/ Shutdown \/ Exited
  \/ (MovesInRequests \/ pc["main"] = "read") /\ AgentToggle /\ UNCHANGED appVars

AppSpec == AppInit /\ [][AppNext]_allVars

-------------------------------------------------------------------------------

\* All messages ever sent, oldest first, wherever they are now.
Everything == [k \in 1..Len(ledger) |-> ledger[k].msg] \o current \o queue

\* From the send to the ledger no message is lost, doubled or overtaken, also
\* when a cleanup fails in the middle; only a new one is added, at the end.
\* (The comment at billing_queue.h:39-42 gives up redelivery, not this.)
NothingLost ==
  [][/\ Len(Everything') >= Len(Everything)
     /\ SubSeq(Everything', 1, Len(Everything)) = Everything]_allVars

\* What is not paid is unpaid for its own text, never for another message's: an
\* empty text, which is never paid, or one so long that its cost can wrap.
OnlyZeroUnpaid ==
  \A k \in 1..Len(ledger) :
    LET i == ledger[k].msg.input
    IN  /\ Total[i] = 0 => ~ledger[k].paid
        /\ ledger[k].paid \/ Total[i] = 0 \/ 3 * Total[i] >= 2^Width

\* main.cpp:248-249: a message is processed while the receive tracer of its
\* cleanup is started; the trace of the processing hangs under it and leads,
\* by the tag in the message, to the request that sent it.
ProcessTraced ==
  /\ A!Live(agent, "process") =>
       /\ stage = "paying"
       /\ agent.tr["process"].tag = current[1].tag
       /\ agent.tr["process"].req = current[1].req
  /\ ChildOf("receive", "custom")
  /\ A!Live(agent, "process") =>
       agent.tr["process"].parent =
         IF A!Live(agent, "receive") THEN "receive"
         ELSE IF A!Live(agent, "custom") THEN "custom" ELSE NoTracer

\* A failed cleanup is traced as such at each of its levels.
CleanupBlamed ==
  stage = "prompt" =>
    \A s, t \in {"custom", "receive"} :
      agent.tr[s].phase = "ended" /\ agent.tr[t].phase = "ended" => (agent.tr[s].err <=> agent.tr[t].err)

\* README.md:690 and the "exactly once" of every *info_delete: when the SDK is
\* shut down, every tracer has ended and every info object is released.  (The
\* metrics of the queues are not: QueueRegistry has them.)
ReleasedAtExit ==
  stage = "exited" =>
    /\ ~ agent.initialized
    /\ \A i \in Infos : agent.info[i] # "live"
    /\ \A s \in Tracers : ~ A!Live(agent, s)

===============================================================================
