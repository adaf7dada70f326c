----------------------------- MODULE TracerAgent -----------------------------
(***************************************************************************)
(* The agent behind the functions of include/onesdk/onesdk_agent.h, as far *)
(* as the programs that call them can tell.  The agent is a binary library *)
(* outside the repository: this is what its header states of the calls the *)
(* sample makes.  A state of the agent is a record; every call is an       *)
(* operator from the state before to the state after, so that the modules  *)
(* of the callers compose several calls into one action.                   *)
(*                                                                         *)
(* A call the header forbids, for which the agent invokes the warning      *)
(* callback, has no effect here but to set misuse, for good.               *)
(***************************************************************************)
EXTENDS Naturals

CONSTANTS Threads,   \* threads of the process
          Tracers,   \* call sites that create tracers, one handle each
          Infos,     \* passive objects: database, web application, messaging
          NoTracer,  \* "no tracer is active on the thread"
          NoTag      \* the empty tag or in-process link

\* A tag, or an in-process link, names the operation it was taken from: the
\* tracer's site and the number of the request it traces.
Tags == (Tracers \X Nat) \union {NoTag}

\* "invalid" is ONESDK_INVALID_HANDLE; "ended" is a handle that was released.
Phases == {"absent", "invalid", "created", "started", "ended"}
InfoPhases == {"absent", "invalid", "live", "deleted"}

TracerState ==
  [phase : Phases, owner : Threads \union {"nobody"}, req : Nat,
   parent : Tracers \union {NoTracer}, tag : Tags, err : BOOLEAN]

AgentState ==
  [tr : [Tracers -> TracerState],
   top : [Threads -> Tracers \union {NoTracer}],
   info : [Infos -> InfoPhases],
   active : BOOLEAN, initialized : BOOLEAN, misuse : BOOLEAN]

Absent ==
  [phase |-> "absent", owner |-> "nobody", req |-> 0,
   parent |-> NoTracer, tag |-> NoTag, err |-> FALSE]

\* The states of the agent when the program has called onesdk_initialize: it
\* is found and active, temporarily inactive, or there is none.
Fresh(init, act) ==
  [tr |-> [s \in Tracers |-> Absent],
   top |-> [t \in Threads |-> NoTracer],
   info |-> [i \in Infos |-> "absent"],
   active |-> act, initialized |-> init, misuse |-> FALSE]

Live(a, s) == a.tr[s].phase \in {"created", "started"}
Forbidden(a) == [a EXCEPT !.misuse = TRUE]

-------------------------------------------------------------------------------
\* onesdk_*_create: thread t gets the handle of site s for request n.  A
\* handle that is overwritten before it was released is a leak.
NewTracer(a, t, s, n, ok) ==
  IF Live(a, s) THEN Forbidden(a)
  ELSE [a EXCEPT !.tr[s] =
         IF ok /\ a.active /\ a.initialized
         THEN [Absent EXCEPT !.phase = "created", !.owner = t, !.req = n]
         ELSE [Absent EXCEPT !.phase = "invalid"]]

Create(a, t, s, n) == NewTracer(a, t, s, n, TRUE)

\* Tracers of a database, a web application or a messaging system refer to
\* its info object.
CreateFor(a, t, s, n, i) ==
  IF a.info[i] \in {"live", "invalid"}
  THEN NewTracer(a, t, s, n, a.info[i] = "live")
  ELSE Forbidden(a)

\* onesdk_inprocesslinktracer_create: nothing is created for an empty link.
CreateLinked(a, t, s, n, link) ==
  LET b == NewTracer(a, t, s, n, link # NoTag)
  IN  [b EXCEPT !.tr[s].tag = link]

\* A call with an invalid handle does nothing and says nothing; one from a
\* thread other than the creator's, or in the wrong phase, is forbidden.
Call(a, t, s, allowed, b) ==
  IF a.tr[s].phase = "invalid" THEN a
  ELSE IF allowed /\ a.tr[s].owner = t THEN b
  ELSE Forbidden(a)

\* onesdk_tracer_set_incoming_dynatrace_string_tag: only before the start.
SetTag(a, t, s, tag) ==
  Call(a, t, s, a.tr[s].phase = "created", [a EXCEPT !.tr[s].tag = tag])

\* onesdk_tracer_start: the tracer becomes a child of the thread's active one.
Start(a, t, s) ==
  Call(a, t, s, a.tr[s].phase = "created",
       [a EXCEPT !.tr[s].phase = "started", !.tr[s].parent = a.top[t], !.top[t] = s])

\* onesdk_tracer_error: at most once for a tracer.
Error(a, t, s) ==
  Call(a, t, s, Live(a, s) /\ ~ a.tr[s].err, [a EXCEPT !.tr[s].err = TRUE])

\* Setters of a live tracer: row counts, status code, vendor message id.
Set(a, t, s) == Call(a, t, s, Live(a, s), a)

\* onesdk_tracer_end: only of the thread's active tracer, or of one that was
\* never started.
End(a, t, s) ==
  Call(a, t, s,
       \/ a.tr[s].phase = "created"
       \/ a.tr[s].phase = "started" /\ a.top[t] = s,
       [a EXCEPT !.tr[s].phase = "ended",
                 !.top[t] = IF a.tr[s].phase = "started" THEN a.tr[s].parent ELSE @])

\* onesdk_tracer_error, then onesdk_tracer_end: what every catch clause does.
Fail(a, t, s) == End(Error(a, t, s), t, s)

\* onesdk_tracer_get_outgoing_dynatrace_string_tag: empty if not started.
OutTag(a, t, s) ==
  IF a.tr[s].phase = "started" /\ a.tr[s].owner = t THEN <<s, a.tr[s].req>> ELSE NoTag

\* onesdk_inprocesslink_create: of the thread's innermost active tracer.
Link(a, t) == IF a.top[t] = NoTracer THEN NoTag ELSE <<a.top[t], a.tr[a.top[t]].req>>

-------------------------------------------------------------------------------
\* onesdk_*info_create succeeds also while the agent is inactive.
CreateInfo(a, i) ==
  IF a.info[i] = "live" THEN Forbidden(a)
  ELSE [a EXCEPT !.info[i] = IF a.initialized THEN "live" ELSE "invalid"]

\* onesdk_*info_delete: exactly once for each object.
DeleteInfo(a, i) ==
  IF a.info[i] = "invalid" THEN a
  ELSE IF a.info[i] = "live" THEN [a EXCEPT !.info[i] = "deleted"]
  ELSE Forbidden(a)

\* onesdk_shutdown of the last initialization.
ShutDown(a) == [a EXCEPT !.initialized = FALSE, !.active = FALSE]

\* The agent gives up or takes up capturing on its own.
Toggle(a) == [a EXCEPT !.active = ~ @]
===============================================================================
