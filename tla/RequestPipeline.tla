--------------------------- MODULE RequestPipeline ---------------------------
(***************************************************************************)
(* One request of sample1 from handle_request to its printed response, in  *)
(* the four threads it runs in:                                            *)
(*   main    web_client::send_request spawns server and joins it;          *)
(*   server  web_service::process starts db with std::async, calls the     *)
(*           transformer service and then waits for db;                    *)
(*   db      the lambda of get_response_body queries config_database;      *)
(*   disp    transformer_service_dispatcher::dispatch runs transform,      *)
(*           which sends the billing message.                              *)
(* Every block between two points where threads interact is one action,    *)
(* with all the agent calls it makes, in their order (TracerAgent).        *)
(* Requests follow one another on main.  The agent may become inactive or  *)
(* active again at any time.                                               *)
(***************************************************************************)
EXTENDS Integers, Sequences

CONSTANTS Inputs,      \* request bodies
          BadInputs,   \* those with a '!' in them
          NoInput,     \* "no request yet"
          ErrorBody,   \* "Internal server error."
          Faults,      \* which of the failures below can happen
          AgentFound,  \* may the SDK be without an agent (FALSE), with one (TRUE)
          AgentMoves,  \* may the agent change its state while the program runs
          MaxRequests  \* bound: requests in a behaviour

\* "spawn": std::thread cannot start the server or dispatcher thread;
\* "async": std::async cannot start the database thread; "transport": an
\* exception before the server processes the request; "db": the query throws,
\* before or after its tracer was created; "send": message_queue::send throws.
FaultKinds == {"spawn", "async", "transport", "db", "send"}

ASSUME InputsAssumption ==
  /\ BadInputs \subseteq Inputs
  /\ NoInput \notin Inputs /\ ErrorBody \notin Inputs /\ NoInput # ErrorBody
ASSUME FaultsAssumption == 
  /\ Faults \subseteq FaultKinds
  /\ AgentFound \subseteq BOOLEAN /\ AgentMoves \in BOOLEAN
ASSUME BoundAssumption == MaxRequests \in Nat

Threads == {"main", "server", "db", "disp"}
\* The call sites that create tracers; the last three are main's in cleanup.
Tracers == {"outWeb", "inWeb", "inLink", "dbReq", "outRemote", "inRemote", "outMsg",
            "custom", "receive", "process"}
\* Info objects: of config_database, web_service, transformer_service, and
\* the one run_main_loop keeps for cleanup.
RequestInfos == {"database", "webapp", "destination"}
Infos == RequestInfos \union {"billing"}
NoTracer == "none"
NoTag == <<>>

A == INSTANCE TracerAgent

VARIABLES pc,         \* pc[t]: where thread t stands, "idle" if it does not exist
          agent,      \* the agent, see TracerAgent
          client,     \* does handle_request's web_client (and all it owns) exist?
          served,     \* requests read so far: the number of the current one
          input,      \* body of the current request
          hdrTag,     \* tag send_request put in the request's header
          link,       \* in_process_link captured by get_response_body
          callTag,    \* tag invoke_remote_method captured for the dispatcher
          dbResult,   \* shared state of output_prefix_future
          rpcResult,  \* result and exception of invoke_remote_method
          response,   \* http_response shared by send_request and the server thread
          queue       \* the billing queue (its operations are atomic: BillingQueue)

requestVars == <<client, served, input>>
tagVars == <<hdrTag, link, callTag>>
resultVars == <<dbResult, rpcResult, response>>
vars == <<pc, agent, requestVars, tagVars, resultVars, queue>>

Labels ==
  [main   |-> {"read", "send", "spawn", "join", "finish", "reply"},
   server |-> {"idle", "begin", "link", "async", "call", "spawn", "join", "await",
               "unwind", "ok", "fail", "done"},
   db     |-> {"idle", "begin", "query", "fetch", "close", "throw", "done"},
   disp   |-> {"idle", "begin", "transform", "send", "return", "throw", "done"}]

Outcomes == {"pending", "ok", "failed"}
Answer(status, body) == [status |-> status, body |-> body]
Unsent == Answer(-1, NoInput)  \* a default http_response: the exchange failed
Responses == {Unsent, Answer(500, ErrorBody)} \union {Answer(200, i) : i \in Inputs}
Messages == [req : Nat, tag : A!Tags, input : Inputs]

Init ==
  /\ pc = [t \in Threads |-> IF t = "main" THEN "read" ELSE "idle"]
  /\ \E init \in AgentFound, act \in BOOLEAN : (act => init) /\ agent = A!Fresh(init, act)
  /\ client = FALSE /\ served = 0 /\ input = NoInput
  /\ hdrTag = NoTag /\ link = NoTag /\ callTag = NoTag
  /\ dbResult = "pending" /\ rpcResult = "pending" /\ response = Unsent
  /\ queue = <<>>

\* Thread t goes from one label to the next.
Step(t, from, to) == pc[t] = from /\ pc' = [pc EXCEPT ![t] = to]

\* Thread t goes on and starts thread u.
Spawn(t, from, to, u) ==
  /\ pc[t] = from
  /\ pc[u] = "idle"
  /\ pc' = [pc EXCEPT ![t] = to, ![u] = "begin"]

\* Thread t waits for thread u to end.
Join(t, from, to, u) ==
  /\ pc[t] = from
  /\ pc[u] = "done"
  /\ pc' = [pc EXCEPT ![t] = to, ![u] = "idle"]

-------------------------------------------------------------------------------
\* main: handle_request, web_client::send_request

\* handle_request: web_client and all it owns are built, member by member.
ReadRequest(i) ==
  /\ served < MaxRequests
  /\ Step("main", "read", "send")
  /\ client' = TRUE /\ served' = served + 1 /\ input' = i
  /\ agent' = A!CreateInfo(A!CreateInfo(A!CreateInfo(agent, "database"), "destination"), "webapp")
  /\ response' = Unsent
  /\ UNCHANGED <<tagVars, dbResult, rpcResult, queue>>

\* Mutant: the tag is taken before the start.
SendRequestEarlyTag ==
  /\ Step("main", "send", "spawn")
  /\ hdrTag' = A!OutTag(A!Create(agent, "main", "outWeb", served), "main", "outWeb")
  /\ agent' = A!Start(A!Create(agent, "main", "outWeb", served), "main", "outWeb")
  /\ UNCHANGED <<requestVars, link, callTag, resultVars, queue>>

\* The tracer is started before its tag is taken: the other way round the tag
\* would be empty.
SendRequest ==
  /\ Step("main", "send", "spawn")
  /\ agent' = A!Start(A!Create(agent, "main", "outWeb", served), "main", "outWeb")
  /\ hdrTag' = A!OutTag(agent', "main", "outWeb")
  /\ UNCHANGED <<requestVars, link, callTag, resultVars, queue>>

SpawnServer ==
  /\ Spawn("main", "spawn", "join", "server")
  /\ UNCHANGED <<agent, requestVars, tagVars, resultVars, queue>>

\* The catch clauses of send_request.
GiveUp == agent' = A!Error(agent, "main", "outWeb") /\ response' = Unsent

SpawnServerFails ==
  /\ "spawn" \in Faults
  /\ Step("main", "spawn", "finish")
  /\ GiveUp
  /\ UNCHANGED <<requestVars, tagVars, dbResult, rpcResult, queue>>

JoinServer ==
  /\ Join("main", "join", "finish", "server")
  /\ IF response.status < 0
     THEN GiveUp
     ELSE agent' = A!Set(agent, "main", "outWeb") /\ UNCHANGED response
  /\ UNCHANGED <<requestVars, tagVars, dbResult, rpcResult, queue>>

FinishRequest ==
  /\ Step("main", "finish", "reply")
  /\ agent' = A!End(agent, "main", "outWeb")
  /\ UNCHANGED <<requestVars, tagVars, resultVars, queue>>

\* Mutant: ~config_database does not delete its info object.
ReplyLeaky ==
  /\ Step("main", "reply", "read") /\ client' = FALSE
  /\ agent' = A!DeleteInfo(A!DeleteInfo(agent, "webapp"), "destination")
  /\ UNCHANGED <<served, input, tagVars, resultVars, queue>>

\* The body is printed; web_client is destroyed, its members in reverse order
\* after the body of ~web_service.
Reply ==
  /\ Step("main", "reply", "read")
  /\ client' = FALSE
  /\ agent' = A!DeleteInfo(A!DeleteInfo(A!DeleteInfo(agent, "webapp"), "destination"), "database")
  /\ UNCHANGED <<served, input, tagVars, resultVars, queue>>

\* Behaviours end at the prompt, where getline waits for another line.
Prompt == pc["main"] = "read" /\ served = MaxRequests /\ UNCHANGED vars

-------------------------------------------------------------------------------
\* server: the thread of do_send_request, web_service::process and
\* get_response_body, with invoke_remote_method of the client proxy

ServerTransportFails ==
  /\ "transport" \in Faults
  /\ Step("server", "begin", "done")
  /\ response' = Unsent
  /\ UNCHANGED <<agent, requestVars, tagVars, dbResult, rpcResult, queue>>

\* The tag arrives with the headers, all of them set before the start; without
\* a tag there is no such header.
ServerBegin ==
  /\ Step("server", "begin", "link")
  /\ LET a1 == A!CreateFor(agent, "server", "inWeb", served, "webapp")
         a2 == IF hdrTag # NoTag THEN A!SetTag(a1, "server", "inWeb", hdrTag) ELSE a1
     IN  agent' = A!Start(a2, "server", "inWeb")
  /\ UNCHANGED <<requestVars, tagVars, resultVars, queue>>

CaptureLink ==
  /\ Step("server", "link", "async")
  /\ link' = A!Link(agent, "server")
  /\ UNCHANGED <<agent, requestVars, hdrTag, callTag, resultVars, queue>>

StartAsync ==
  /\ Spawn("server", "async", "call", "db")
  /\ dbResult' = "pending"
  /\ UNCHANGED <<agent, requestVars, tagVars, rpcResult, response, queue>>

StartAsyncFails ==
  /\ "async" \in Faults
  /\ Step("server", "async", "fail")
  /\ UNCHANGED <<agent, requestVars, tagVars, resultVars, queue>>

CallRemote ==
  /\ Step("server", "call", "spawn")
  /\ agent' = A!Start(A!Create(agent, "server", "outRemote", served), "server", "outRemote")
  /\ callTag' = A!OutTag(agent', "server", "outRemote")
  /\ rpcResult' = "pending"
  /\ UNCHANGED <<requestVars, hdrTag, link, dbResult, response, queue>>

SpawnDispatcher ==
  /\ Spawn("server", "spawn", "join", "disp")
  /\ UNCHANGED <<agent, requestVars, tagVars, resultVars, queue>>

SpawnDispatcherFails ==
  /\ "spawn" \in Faults
  /\ Step("server", "spawn", "unwind")
  /\ agent' = A!Fail(agent, "server", "outRemote")
  /\ rpcResult' = "failed"
  /\ UNCHANGED <<requestVars, tagVars, dbResult, response, queue>>

\* Mutant: the catch clause ends the tracer without the error.
JoinDispatcherSilent ==
  /\ Join("server", "join", IF rpcResult = "ok" THEN "await" ELSE "unwind", "disp")
  /\ agent' = A!End(agent, "server", "outRemote")
  /\ UNCHANGED <<requestVars, tagVars, resultVars, queue>>

\* The dispatcher's exception, if any, is thrown again in this thread.
JoinDispatcher ==
  /\ \/ /\ rpcResult = "ok"
        /\ Join("server", "join", "await", "disp")
        /\ agent' = A!End(agent, "server", "outRemote")
     \/ /\ rpcResult = "failed"
        /\ Join("server", "join", "unwind", "disp")
        /\ agent' = A!Fail(agent, "server", "outRemote")
  /\ UNCHANGED <<requestVars, tagVars, resultVars, queue>>

\* Mutants: the future is waited for, not asked; its value is waited for.
AwaitFutureBlind ==
  Join("server", "await", "ok", "db") /\ UNCHANGED <<agent, requestVars, tagVars, resultVars, queue>>
AwaitFutureValue ==
  /\ dbResult = "ok" /\ Join("server", "await", "ok", "db")
  /\ UNCHANGED <<agent, requestVars, tagVars, resultVars, queue>>

\* output_prefix_future.get(): waits for db and throws what it threw.
AwaitFuture ==
  /\ Join("server", "await", IF dbResult = "ok" THEN "ok" ELSE "fail", "db")
  /\ UNCHANGED <<agent, requestVars, tagVars, resultVars, queue>>

\* Mutant: a detached thread in place of std::async.
UnwindFutureDetached ==
  Step("server", "unwind", "fail") /\ UNCHANGED <<agent, requestVars, tagVars, resultVars, queue>>

\* An exception leaves get_response_body: the destructor of a future that came
\* from std::async waits for its thread, whatever that returns or throws.
UnwindFuture ==
  /\ Join("server", "unwind", "fail", "db")
  /\ UNCHANGED <<agent, requestVars, tagVars, resultVars, queue>>

ServerOk ==
  /\ Step("server", "ok", "done")
  /\ response' = Answer(200, input)
  /\ agent' = A!End(A!Set(agent, "server", "inWeb"), "server", "inWeb")
  /\ UNCHANGED <<requestVars, tagVars, dbResult, rpcResult, queue>>

\* Mutant: the body of the request is sent back with the error.
ServerFailEcho ==
  /\ Step("server", "fail", "done")
  /\ response' = Answer(500, input)
  /\ agent' = A!Fail(agent, "server", "inWeb")
  /\ UNCHANGED <<requestVars, tagVars, dbResult, rpcResult, queue>>

ServerFail ==
  /\ Step("server", "fail", "done")
  /\ response' = Answer(500, ErrorBody)
  /\ agent' = A!End(A!Set(A!Error(agent, "server", "inWeb"), "server", "inWeb"), "server", "inWeb")
  /\ UNCHANGED <<requestVars, tagVars, dbResult, rpcResult, queue>>

-------------------------------------------------------------------------------
\* db: the lambda of get_response_body, config_database::get_output_prefix

DbBegin ==
  /\ Step("db", "begin", "query")
  /\ agent' = A!Start(A!CreateLinked(agent, "db", "inLink", served, link), "db", "inLink")
  /\ UNCHANGED <<requestVars, tagVars, resultVars, queue>>

DbQuery ==
  /\ Step("db", "query", "fetch")
  /\ agent' = A!Start(A!CreateFor(agent, "db", "dbReq", served, "database"), "db", "dbReq")
  /\ UNCHANGED <<requestVars, tagVars, resultVars, queue>>

\* Building the statement throws, before there is a tracer.
DbQueryFails ==
  /\ "db" \in Faults
  /\ Step("db", "query", "throw")
  /\ UNCHANGED <<agent, requestVars, tagVars, resultVars, queue>>

DbFetch ==
  /\ Step("db", "fetch", "close")
  /\ agent' = A!End(A!Set(agent, "db", "dbReq"), "db", "dbReq")
  /\ UNCHANGED <<requestVars, tagVars, resultVars, queue>>

DbFetchFails ==
  /\ "db" \in Faults
  /\ Step("db", "fetch", "throw")
  /\ agent' = A!Fail(agent, "db", "dbReq")
  /\ UNCHANGED <<requestVars, tagVars, resultVars, queue>>

DbClose ==
  /\ Step("db", "close", "done")
  /\ agent' = A!End(agent, "db", "inLink")
  /\ dbResult' = "ok"
  /\ UNCHANGED <<requestVars, tagVars, rpcResult, response, queue>>

DbThrow ==
  /\ Step("db", "throw", "done")
  /\ agent' = A!Fail(agent, "db", "inLink")
  /\ dbResult' = "failed"
  /\ UNCHANGED <<requestVars, tagVars, rpcResult, response, queue>>

-------------------------------------------------------------------------------
\* disp: the thread of invoke_remote_method, dispatch, transformer_service

DispBegin ==
  /\ Step("disp", "begin", "transform")
  /\ LET a1 == A!Create(agent, "disp", "inRemote", served)
         a2 == A!SetTag(a1, "disp", "inRemote", callTag)
     IN  agent' = A!Start(a2, "disp", "inRemote")
  /\ UNCHANGED <<requestVars, tagVars, resultVars, queue>>

\* Mutant: any character is valid.
TransformAny ==
  /\ Step("disp", "transform", "send")
  /\ agent' = A!Start(A!CreateFor(agent, "disp", "outMsg", served, "destination"), "disp", "outMsg")
  /\ UNCHANGED <<requestVars, tagVars, resultVars, queue>>

Transform ==
  /\ input \notin BadInputs
  /\ Step("disp", "transform", "send")
  /\ agent' = A!Start(A!CreateFor(agent, "disp", "outMsg", served, "destination"), "disp", "outMsg")
  /\ UNCHANGED <<requestVars, tagVars, resultVars, queue>>

TransformThrows ==
  /\ input \in BadInputs
  /\ Step("disp", "transform", "throw")
  /\ UNCHANGED <<agent, requestVars, tagVars, resultVars, queue>>

SendMessage ==
  /\ Step("disp", "send", "return")
  /\ queue' = Append(queue, [req |-> served, tag |-> A!OutTag(agent, "disp", "outMsg"), input |-> input])
  /\ agent' = A!End(A!Set(agent, "disp", "outMsg"), "disp", "outMsg")
  /\ UNCHANGED <<requestVars, tagVars, resultVars>>

\* Mutants: the tracer is not ended; the message is in the queue all the same.
SendMessageThrowsOpen ==
  /\ "send" \in Faults /\ Step("disp", "send", "throw")
  /\ agent' = A!Error(agent, "disp", "outMsg")
  /\ UNCHANGED <<requestVars, tagVars, resultVars, queue>>
SendMessageThrowsLate ==
  /\ "send" \in Faults /\ Step("disp", "send", "throw")
  /\ queue' = Append(queue, [req |-> served, tag |-> A!OutTag(agent, "disp", "outMsg"), input |-> input])
  /\ agent' = A!Fail(agent, "disp", "outMsg")
  /\ UNCHANGED <<requestVars, tagVars, resultVars>>

SendMessageThrows ==
  /\ "send" \in Faults
  /\ Step("disp", "send", "throw")
  /\ agent' = A!Fail(agent, "disp", "outMsg")
  /\ UNCHANGED <<requestVars, tagVars, resultVars, queue>>

DispReturn ==
  /\ Step("disp", "return", "done")
  /\ agent' = A!End(agent, "disp", "inRemote")
  /\ rpcResult' = "ok"
  /\ UNCHANGED <<requestVars, tagVars, dbResult, response, queue>>

DispThrow ==
  /\ Step("disp", "throw", "done")
  /\ agent' = A!Fail(agent, "disp", "inRemote")
  /\ rpcResult' = "failed"
  /\ UNCHANGED <<requestVars, tagVars, dbResult, response, queue>>

-------------------------------------------------------------------------------
AgentToggle ==
  /\ AgentMoves /\ agent.initialized
  /\ agent' = A!Toggle(agent)
  /\ UNCHANGED <<pc, requestVars, tagVars, resultVars, queue>>

MainStep ==
  \/ SendRequest \/ SpawnServer \/ SpawnServerFails \/ JoinServer \/ FinishRequest \/ Reply

ServerStep ==
  \/ ServerTransportFails \/ ServerBegin \/ CaptureLink \/ StartAsync \/ StartAsyncFails
  \/ CallRemote \/ SpawnDispatcher \/ SpawnDispatcherFails \/ JoinDispatcher
  \/ AwaitFuture \/ UnwindFuture \/ ServerOk \/ ServerFail

DbStep ==
  \/ DbBegin \/ DbQuery \/ DbQueryFails \/ DbFetch \/ DbFetchFails \/ DbClose \/ DbThrow

DispStep ==
  \/ DispBegin \/ Transform \/ TransformThrows \/ SendMessage \/ SendMessageThrows
  \/ DispReturn \/ DispThrow

Next ==
  \/ \E i \in Inputs : ReadRequest(i)
  \/ MainStep \/ ServerStep \/ DbStep \/ DispStep \/ AgentToggle \/ Prompt

Spec == Init /\ [][Next]_vars

\* The operating system runs every thread that is not waiting.  Nobody has to
\* type a request, and the agent does not have to change its state.
Fairness == WF_vars(MainStep) /\ WF_vars(ServerStep) /\ WF_vars(DbStep) /\ WF_vars(DispStep)

FairSpec == Spec /\ Fairness

-------------------------------------------------------------------------------
\* Types of all variables; each thread only stands at labels of its own code.
TypeOK ==
  /\ pc \in [Threads -> UNION {Labels[t] : t \in Threads}]
  /\ \A t \in Threads : pc[t] \in Labels[t]
  /\ agent \in A!AgentState
  /\ client \in BOOLEAN /\ served \in 0..MaxRequests /\ input \in Inputs \union {NoInput}
  /\ hdrTag \in A!Tags /\ link \in A!Tags /\ callTag \in A!Tags
  /\ dbResult \in Outcomes /\ rpcResult \in Outcomes /\ response \in Responses
  /\ queue \in Seq(Messages)

\* Threads are nested like the calls they stand for: the dispatcher runs only
\* while invoke_remote_method joins it, the database thread only while the
\* server is in get_response_body, also when that is left by an exception, and
\* the server only while send_request joins it, with the objects it refers to
\* (this, &request, &response) alive.
StructuredThreads ==
  /\ pc["disp"] # "idle" => pc["server"] = "join"
  /\ pc["db"] # "idle" => pc["server"] \in {"call", "spawn", "join", "await", "unwind"}
  /\ pc["server"] # "idle" => pc["main"] = "join"
  /\ pc["main"] # "read" => client

\* Whatever fails, and however often the agent changes its state, the program
\* makes no call that onesdk_agent.h forbids: no tracer is used by another
\* thread, started, failed or ended twice, or ended before its children, no
\* handle is lost and no info object is used after its deletion.
NoUsageError == ~ agent.misuse

\* Back at the prompt, nothing of the request is left: no tracer, no thread, no
\* info object, no client.
QuiescentClean ==
  pc["main"] = "read" =>
    /\ ~ client
    /\ \A t \in Threads \ {"main"} : pc[t] = "idle"
    /\ \A s \in Tracers : ~ A!Live(agent, s)
    /\ \A t \in Threads : agent.top[t] = NoTracer
    /\ \A i \in RequestInfos : agent.info[i] # "live"

\* The tag or link of a running tracer is that of the operation that caused it,
\* of this very request; it is empty only if that operation is not traced.
CausedBy(s, t) ==
  A!Live(agent, s) =>
    agent.tr[s].tag = IF A!Live(agent, t) THEN <<t, served>> ELSE NoTag

\* The tracer the thread would attach s to: p, or none if p is not traced.
ChildOf(s, p) ==
  A!Live(agent, s) => agent.tr[s].parent = IF A!Live(agent, p) THEN p ELSE NoTracer

\* Every hop of the trace leads to its cause, and only tags and links lead from
\* one thread to another (web_client.h:112-116, proxy:75-79).
LinkedHops ==
  /\ CausedBy("inWeb", "outWeb") /\ CausedBy("inLink", "inWeb") /\ CausedBy("inRemote", "outRemote")
  /\ ChildOf("outRemote", "inWeb") /\ ChildOf("dbReq", "inLink") /\ ChildOf("outMsg", "inRemote")
  /\ \A s \in {"outWeb", "inWeb", "inLink", "inRemote"} : A!Live(agent, s) => agent.tr[s].parent = NoTracer
  /\ \A k \in 1..Len(queue) : queue[k].tag \in {NoTag, <<"outMsg", queue[k].req>>}

\* The number of billing messages of request n.
Billed(n) == {k \in 1..Len(queue) : queue[k].req = n}

\* A request is billed at most once, and only for a valid text; an answered one
\* is billed exactly once; one that is billed but not answered is one whose
\* database query failed after the message was sent.
BilledOnce ==
  /\ \A j, k \in 1..Len(queue) : queue[j].req = queue[k].req => j = k
  /\ Billed(served) # {} => input \notin BadInputs
  /\ pc["main"] \in {"finish", "reply"} =>
       /\ response.status = 200 => Billed(served) # {}
       /\ response.status # 200 /\ Billed(served) # {} => dbResult = "failed"

\* A transformed text that is handed out consists of both results it is made
\* of: neither the database thread nor the dispatcher failed or is still busy.
AnswerIsWhole ==
  pc["main"] \in {"finish", "reply"} /\ response.status = 200 =>
    dbResult = "ok" /\ rpcResult = "ok" /\ response.body = input /\ input \notin BadInputs

\* In a finished request, a tracer carries an error exactly if its operation
\* failed, and the failure reached everyone it had to reach.
Traced(s) == agent.tr[s].phase = "ended" /\ agent.tr[s].req = served
Blamed(s, failed) == Traced(s) => (agent.tr[s].err <=> failed)
ErrorTrail ==
  pc["main"] = "reply" =>
    /\ Blamed("outWeb", response.status = -1)
    /\ Blamed("inWeb", response.status = 500)
    /\ Blamed("outRemote", rpcResult = "failed")
    /\ Blamed("inRemote", rpcResult = "failed")
    /\ Blamed("outMsg", Billed(served) = {})
    /\ Blamed("inLink", dbResult = "failed")
    /\ Blamed("dbReq", dbResult = "failed")

\* Once there is a request, its answer is printed: all joins come to an end.
RequestAnswered == (pc["main"] = "send") ~> (pc["main"] = "read")

-------------------------------------------------------------------------------
\* What the caller of handle_request sees (RequestService).
phaseBar ==
  IF pc["main"] = "read" THEN "idle"
  ELSE IF pc["main"] \in {"finish", "reply"} THEN "answered"
  ELSE "asked"
answerBar == IF phaseBar = "answered" THEN response ELSE Answer(0, NoInput)
billsBar == [k \in 1..Len(queue) |-> queue[k].input]

Service == INSTANCE RequestService WITH
             phase <- phaseBar, order <- input, answer <- answerBar,
             bills <- billsBar, billed <- Billed(served) # {}

\* However the four threads interleave and whatever fails in them, the request
\* is one exchange with a service that bills what it transforms.
ImplementsService == Service!ServiceSpec
===============================================================================
