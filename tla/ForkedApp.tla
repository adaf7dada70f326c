------------------------------ MODULE ForkedApp ------------------------------
(***************************************************************************)
(* sample1 started with --fork (main.cpp): the original process reads the  *)
(* lines and forks a child for every request.  A child has a copy of the   *)
(* original's memory, the billing queue among it, handles one request,     *)
(* returns out of run_main_loop and ends.  The SDK is initialized with     *)
(* ONESDK_INIT_FLAG_FORKABLE before any fork.                              *)
(***************************************************************************)
EXTENDS Naturals, Sequences

CONSTANTS Children,  \* the child processes that can be forked, one for each request
          Original,  \* the process main was called in
          MayFail    \* may fork() and requests fail

ASSUME ChildrenAssumption == Original \notin Children /\ MayFail \in BOOLEAN

Processes == Children \union {Original}

VARIABLES at,        \* at[p]: where process p stands
          sdk,       \* sdk[p]: what onesdk_agent_get_fork_state tells p
          pending,   \* pending[p]: p's copy of the billing queue, as the children that sent
          answered,  \* children whose request was answered with the transformed text
          paid,      \* children whose message a cleanup has paid for
          refused    \* did the original process call what its SDK state does not allow

vars == <<at, sdk, pending, answered, paid, refused>>

Places == {"absent", "startup", "prompt", "handling", "leaving", "exited"}
ForkStates == {"none", "parentInit", "preInit", "fullInit", "shutDown"}

\* Mutant: onesdk_initialize_2 without the flag.
InitUnforkable ==
  /\ at = [p \in Processes |-> IF p = Original THEN "startup" ELSE "absent"]
  /\ sdk = [p \in Processes |-> IF p = Original THEN "fullInit" ELSE "none"]
  /\ pending = [p \in Processes |-> <<>>]
  /\ answered = {} /\ paid = {} /\ refused = FALSE

\* main has parsed --fork and called onesdk_initialize_2 with the flag.
Init ==
  /\ at = [p \in Processes |-> IF p = Original THEN "startup" ELSE "absent"]
  /\ sdk = [p \in Processes |-> IF p = Original THEN "parentInit" ELSE "none"]
  /\ pending = [p \in Processes |-> <<>>]
  /\ answered = {} /\ paid = {} /\ refused = FALSE

Move(p, from, to) == at[p] = from /\ at' = [at EXCEPT ![p] = to]

\* A call that needs a fully initialized agent (onesdk_common.h:382-404).
UseSdk(p) ==
  /\ sdk' = [sdk EXCEPT ![p] = IF @ = "preInit" THEN "fullInit" ELSE @]
  /\ refused' = (refused \/ sdk[p] = "parentInit")

\* run_main_loop: connect_queue creates the metric, then the messaging system
\* info is created.
EnterLoop ==
  /\ Move(Original, "startup", "prompt")
  /\ UseSdk(Original)
  /\ UNCHANGED <<pending, answered, paid>>

\* fork() == 0 in the child; the original goes on reading.
Fork(c) ==
  /\ at[Original] = "prompt" /\ at[c] = "absent"
  /\ at' = [at EXCEPT ![c] = "handling"]
  /\ sdk' = [sdk EXCEPT ![c] = IF sdk[Original] = "parentInit" THEN "preInit" ELSE "none"]
  /\ pending' = [pending EXCEPT ![c] = pending[Original]]
  /\ UNCHANGED <<answered, paid, refused>>

\* fork() == -1: an error is printed, the request is dropped.
ForkFails(c) ==
  /\ MayFail
  /\ at[Original] = "prompt" /\ at[c] = "absent"
  /\ at' = [at EXCEPT ![c] = "exited"]
  /\ UNCHANGED <<sdk, pending, answered, paid, refused>>

\* Mutant: the child goes on in the loop.
HandleRequestNoReturn(c) ==
  /\ Move(c, "handling", "prompt") /\ UseSdk(c)
  /\ pending' = [pending EXCEPT ![c] = Append(@, c)]
  /\ answered' = answered \union {c}
  /\ UNCHANGED paid

\* handle_request in the child, see RequestService: it leaves the transformed
\* text and a message in the queue, or a failure with or without a message.
HandleRequest(c) ==
  /\ Move(c, "handling", "leaving")
  /\ UseSdk(c)
  /\ \/ /\ pending' = [pending EXCEPT ![c] = Append(@, c)]
        /\ answered' = answered \union {c}
     \/ /\ MayFail
        /\ UNCHANGED answered
        /\ pending' = pending \/ pending' = [pending EXCEPT ![c] = Append(@, c)]
  /\ UNCHANGED paid

\* return from run_main_loop, onesdk_shutdown, return from main.
Leave(c) ==
  /\ Move(c, "leaving", "exited")
  /\ sdk' = [sdk EXCEPT ![c] = "shutDown"]
  /\ UNCHANGED <<pending, answered, paid, refused>>

\* perform_cleanup in the original process.
Cleanup ==
  /\ at[Original] = "prompt"
  /\ UseSdk(Original)
  /\ paid' = paid \union {pending[Original][k] : k \in 1..Len(pending[Original])}
  /\ pending' = [pending EXCEPT ![Original] = <<>>]
  /\ UNCHANGED <<at, answered>>

\* "exit", onesdk_messagingsysteminfo_delete, onesdk_shutdown; nobody waits for
\* the children.
ExitOriginal ==
  /\ Move(Original, "prompt", "exited")
  /\ sdk' = [sdk EXCEPT ![Original] = "shutDown"]
  /\ refused' = (refused \/ sdk[Original] = "parentInit")
  /\ UNCHANGED <<pending, answered, paid>>

Done == (\A p \in Processes : at[p] \in {"absent", "exited"}) /\ UNCHANGED vars

Next ==
  \/ EnterLoop \/ Cleanup \/ ExitOriginal \/ Done
  \/ \E c \in Children : Fork(c) \/ ForkFails(c) \/ HandleRequest(c) \/ Leave(c)

Spec == Init /\ [][Next]_vars

-------------------------------------------------------------------------------
TypeOK ==
  /\ at \in [Processes -> Places]
  /\ sdk \in [Processes -> ForkStates]
  /\ pending \in [Processes -> Seq(Children)]
  /\ answered \subseteq Children /\ paid \subseteq Children /\ refused \in BOOLEAN

\* Only the original reads the prompt: a child that went on in the loop would
\* take lines from it (main.cpp:173).
OnePrompt == \A p \in Processes : at[p] = "prompt" => p = Original

\* Whatever the original did before the fork, cleanups included, the child can
\* use the SDK: its request is traced, by an agent of its own state.
ChildrenTraced ==
  \A c \in Children :
    /\ at[c] = "handling" => sdk[c] = "preInit"
    /\ at[c] = "leaving" => sdk[c] = "fullInit"

\* No message crosses from one process to another: each is alone in the queue
\* of the child that sent it, and no cleanup pays for any.
MessagesStay ==
  /\ paid = {} /\ pending[Original] = <<>>
  /\ \A c \in Children : pending[c] \in {<<>>, <<c>>}
  /\ \A c \in answered : pending[c] = <<c>>

\* Hint 2 (main.cpp:147): the message of an answered request is in the billing
\* queue, the one the cleanup command processes (Hint 3), until it is paid for.
AnsweredIsBilled ==
  at[Original] = "prompt" =>
    \A c \in answered :
      c \in paid \/ \E k \in 1..Len(pending[Original]) : pending[Original][k] = c

\* onesdk_common.h:385-386: what the original calls while parent-initialized is
\* among the functions that can be called in that state.
OriginalLeavesSdkAlone == ~ refused
===============================================================================
