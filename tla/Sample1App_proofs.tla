-------------------------- MODULE Sample1App_proofs --------------------------
(***************************************************************************)
(* For any texts and costs, any faults and an agent that moves whenever it *)
(* likes.  Of a request, the specification Spec: its four threads use the  *)
(* agent as its header demands, every tracer leads to its cause and        *)
(* carries its failure, and the request implements RequestService.  Of the *)
(* main loop around it, AppSpec: no billing message is lost, only what     *)
(* costs nothing stays unpaid, and the tracers of a cleanup are used,      *)
(* nested, marked and released as the header demands.  Four parts:         *)
(*   1. what the calls of the pipeline do to the agent: a lemma for each   *)
(*      call with a handle that is invalid, and with one that is not, and  *)
(*      one for each combination in which a step makes them;               *)
(*   2. the control of a request, without its tracers: where the threads   *)
(*      stand, what their results are and when the bill was written.       *)
(*      Control is inductive with TypeOK, and every step of the pipeline   *)
(*      is a step of RequestService or leaves what it shows alone;         *)
(*   3. the tracers: the inductive invariant IInv is TypeOK, Control, and  *)
(*      Tracing, TagsMatch, BillTags, Dated and Trails;                    *)
(*   4. the main loop.  While main is at the prompt or in a request, IInv  *)
(*      holds; in a cleanup, main has tracers of its own and the pipeline  *)
(*      rests.  AppIInv is the invariant of both.                          *)
(***************************************************************************)
EXTENDS Sample1App, SequenceTheorems, FiniteSetTheorems, TLAPS

-----------------------------------------------------------------------------
(* Part 1: the agent *)

\* Only the tracer s, and what is active on thread t, differ from a to b.
Touches(a, b, t, s) ==
  /\ b \in A!AgentState
  /\ b.info = a.info /\ b.misuse = a.misuse
  /\ b.initialized = a.initialized /\ b.active = a.active
  /\ \A x \in Tracers \ {s} : b.tr[x] = a.tr[x]
  /\ \A u \in Threads \ {t} : b.top[u] = a.top[u]

\* Thread t creates and starts s for request n, or gets an invalid handle.
Opens(a, b, t, s, n, tag) ==
  /\ Touches(a, b, t, s)
  /\ \/ b.tr[s].phase = "invalid" /\ b.top[t] = a.top[t]
     \/ /\ b.tr[s].phase = "started" /\ b.tr[s].owner = t /\ b.tr[s].req = n
        /\ b.tr[s].parent = a.top[t] /\ b.tr[s].tag = tag /\ b.tr[s].err = FALSE
        /\ b.top[t] = s

\* Thread t ends s, with or without an error, and what was active before it is
\* active again; an invalid handle stays as it is.
Closes(a, b, t, s, err) ==
  /\ Touches(a, b, t, s)
  /\ b.tr[s].req = a.tr[s].req
  /\ \/ a.tr[s].phase = "invalid" /\ b.tr[s] = a.tr[s] /\ b.top[t] = a.top[t]
     \/ /\ a.tr[s].phase = "started"
        /\ b.tr[s].phase = "ended" /\ b.tr[s].err = err
        /\ b.top[t] = a.tr[s].parent

\* A handle of thread t that is invalid, or of a tracer that is active on t.
Usable(a, t, s) ==
  \/ a.tr[s].phase = "invalid"
  \/ a.tr[s].phase = "started" /\ a.tr[s].owner = t /\ a.top[t] = s

-----------------------------------------------------------------------------
(* The calls *)

\* A call with an invalid handle changes nothing.
LEMMA InvalidCall ==
  ASSUME NEW a, NEW t, NEW s, NEW tag, a.tr[s].phase = "invalid"
  PROVE  /\ A!Start(a, t, s) = a /\ A!SetTag(a, t, s, tag) = a /\ A!Set(a, t, s) = a
         /\ A!Error(a, t, s) = a /\ A!End(a, t, s) = a
  BY DEF A!Start, A!SetTag, A!Set, A!Error, A!End, A!Call

\* A new state of one tracer, and of what is active on one thread.
Put(a, s, r, t, top) == [a EXCEPT !.tr[s] = r, !.top[t] = top]

LEMMA Replaced ==
  ASSUME NEW a \in A!AgentState, NEW t \in Threads, NEW s \in Tracers,
         NEW r \in A!TracerState, NEW top \in Tracers \cup {NoTracer},
         NEW b, b = Put(a, s, r, t, top)
  PROVE  Touches(a, b, t, s) /\ b.tr[s] = r /\ b.top[t] = top
<1> DEFINE f == [a.tr EXCEPT ![s] = r]
           g == [a.top EXCEPT ![t] = top]
<1>1. b = [a EXCEPT !.tr = f, !.top = g]
  BY DEF A!AgentState, Put
<1>2. a.tr \in [Tracers -> A!TracerState] /\ a.top \in [Threads -> Tracers \cup {NoTracer}]
  BY DEF A!AgentState
<1>3. /\ f \in [Tracers -> A!TracerState] /\ f[s] = r
      /\ \A x \in Tracers \ {s} : f[x] = a.tr[x]
      /\ g \in [Threads -> Tracers \cup {NoTracer}] /\ g[t] = top
      /\ \A x \in Threads \ {t} : g[x] = a.top[x]
  BY <1>2
<1> HIDE DEF f, g
<1>4. /\ b \in A!AgentState /\ b.tr = f /\ b.top = g
      /\ b.info = a.info /\ b.misuse = a.misuse
      /\ b.initialized = a.initialized /\ b.active = a.active
  BY <1>1, <1>3 DEF A!AgentState
<1> QED
  BY <1>3, <1>4 DEF Touches

LEMMA AbsentTyped ==
  ASSUME NEW t \in Threads, NEW n \in Nat
  PROVE  /\ [A!Absent EXCEPT !.phase = "created", !.owner = t, !.req = n] \in A!TracerState
         /\ [A!Absent EXCEPT !.phase = "invalid"] \in A!TracerState
  BY DEF A!Absent, A!TracerState, A!Phases, A!Tags, NoTag, NoTracer

\* The state of a tracer that was just created.
Created(r, t, n) ==
  /\ r.phase = "created" /\ r.owner = t /\ r.req = n
  /\ r.tag = NoTag /\ r.err = FALSE

LEMMA NewTracerCall ==
  ASSUME NEW a \in A!AgentState, NEW t \in Threads, NEW s \in Tracers, NEW n \in Nat,
         NEW ok \in BOOLEAN, ~A!Live(a, s), NEW b, b = A!NewTracer(a, t, s, n, ok)
  PROVE  /\ Touches(a, b, t, s) /\ b.top[t] = a.top[t]
         /\ b.tr[s].phase = "invalid" \/ Created(b.tr[s], t, n)
<1>1. CASE ok /\ a.active /\ a.initialized
  <2> DEFINE r == [A!Absent EXCEPT !.phase = "created", !.owner = t, !.req = n]
  <2>1. r \in A!TracerState /\ Created(r, t, n)
    BY AbsentTyped DEF A!Absent, Created
  <2>2. b = [a EXCEPT !.tr[s] = r]
    BY <1>1 DEF A!NewTracer
  <2> HIDE DEF r
  <2> QED
    BY <2>1, <2>2 DEF A!AgentState, Touches
<1>2. CASE ~(ok /\ a.active /\ a.initialized)
  <2> DEFINE r == [A!Absent EXCEPT !.phase = "invalid"]
  <2>1. r \in A!TracerState /\ r.phase = "invalid"
    BY AbsentTyped DEF A!Absent
  <2>2. b = [a EXCEPT !.tr[s] = r]
    BY <1>2 DEF A!NewTracer
  <2> HIDE DEF r
  <2> QED
    BY <2>1, <2>2 DEF A!AgentState, Touches
<1> QED
  BY <1>1, <1>2

LEMMA StartCall ==
  ASSUME NEW a \in A!AgentState, NEW t \in Threads, NEW s \in Tracers,
         a.tr[s].phase = "created", a.tr[s].owner = t, NEW b, b = A!Start(a, t, s)
  PROVE  /\ Touches(a, b, t, s) /\ b.top[t] = s
         /\ b.tr[s].phase = "started" /\ b.tr[s].parent = a.top[t]
         /\ b.tr[s].owner = a.tr[s].owner /\ b.tr[s].req = a.tr[s].req
         /\ b.tr[s].tag = a.tr[s].tag /\ b.tr[s].err = a.tr[s].err
<1> DEFINE r == [a.tr[s] EXCEPT !.phase = "started", !.parent = a.top[t]]
<1>1. r \in A!TracerState
  <2>1. a.tr[s] \in A!TracerState /\ a.top[t] \in Tracers \cup {NoTracer}
    BY DEF A!AgentState
  <2> QED
    BY <2>1 DEF A!TracerState, A!Phases
<1>2. /\ r.phase = "started" /\ r.parent = a.top[t] /\ r.owner = a.tr[s].owner
      /\ r.req = a.tr[s].req /\ r.tag = a.tr[s].tag /\ r.err = a.tr[s].err
  BY DEF A!AgentState, A!TracerState
<1>3. b = [a EXCEPT !.tr[s].phase = "started", !.tr[s].parent = a.top[t], !.top[t] = s]
  BY DEF A!Start, A!Call
<1>4. b = Put(a, s, r, t, s)
  <2>1. [a.tr EXCEPT ![s].phase = "started", ![s].parent = a.top[t]] = [a.tr EXCEPT ![s] = r]
    BY DEF A!AgentState, A!TracerState
  <2> HIDE DEF r
  <2> QED
    BY <1>3, <2>1 DEF A!AgentState, Put
<1> HIDE DEF r
<1>5. Touches(a, b, t, s) /\ b.tr[s] = r /\ b.top[t] = s
  BY <1>1, <1>4, Replaced
<1> QED
  BY <1>5, <1>2

LEMMA SetTagCall ==
  ASSUME NEW a \in A!AgentState, NEW t \in Threads, NEW s \in Tracers, NEW tag \in A!Tags,
         a.tr[s].phase = "created", a.tr[s].owner = t, NEW b, b = A!SetTag(a, t, s, tag)
  PROVE  /\ Touches(a, b, t, s) /\ b.top[t] = a.top[t]
         /\ b.tr[s] = [a.tr[s] EXCEPT !.tag = tag]
<1> DEFINE r == [a.tr[s] EXCEPT !.tag = tag]
<1>1. a.tr[s] \in A!TracerState /\ a.top[t] \in Tracers \cup {NoTracer}
  BY DEF A!AgentState
<1>2. r \in A!TracerState
  BY <1>1 DEF A!TracerState
<1>3. b = [a EXCEPT !.tr[s].tag = tag]
  BY DEF A!SetTag, A!Call
<1>4. b = Put(a, s, r, t, a.top[t])
  <2>1. [a.tr EXCEPT ![s].tag = tag] = [a.tr EXCEPT ![s] = r]
    BY DEF A!AgentState, A!TracerState
  <2>2. [a.top EXCEPT ![t] = a.top[t]] = a.top
    BY DEF A!AgentState
  <2> HIDE DEF r
  <2>3. b = [a EXCEPT !.tr = [a.tr EXCEPT ![s] = r]]
    BY <1>3, <2>1
  <2> QED
    BY <2>2, <2>3 DEF A!AgentState, Put
<1> HIDE DEF r
<1>5. Touches(a, b, t, s) /\ b.tr[s] = r /\ b.top[t] = a.top[t]
  BY <1>1, <1>2, <1>4, Replaced
<1> QED
  BY <1>5 DEF r

LEMMA ErrorCall ==
  ASSUME NEW a \in A!AgentState, NEW t \in Threads, NEW s \in Tracers,
         a.tr[s].phase = "started", a.tr[s].owner = t, ~a.tr[s].err,
         NEW b, b = A!Error(a, t, s)
  PROVE  /\ Touches(a, b, t, s) /\ b.top[t] = a.top[t]
         /\ b.tr[s] = [a.tr[s] EXCEPT !.err = TRUE]
<1> DEFINE r == [a.tr[s] EXCEPT !.err = TRUE]
<1>1. a.tr[s] \in A!TracerState /\ a.top[t] \in Tracers \cup {NoTracer}
  BY DEF A!AgentState
<1>2. r \in A!TracerState
  BY <1>1 DEF A!TracerState
<1>3. b = [a EXCEPT !.tr[s].err = TRUE]
  BY DEF A!Error, A!Call, A!Live
<1>4. b = Put(a, s, r, t, a.top[t])
  <2>1. [a.tr EXCEPT ![s].err = TRUE] = [a.tr EXCEPT ![s] = r]
    BY DEF A!AgentState, A!TracerState
  <2>2. [a.top EXCEPT ![t] = a.top[t]] = a.top
    BY DEF A!AgentState
  <2> HIDE DEF r
  <2>3. b = [a EXCEPT !.tr = [a.tr EXCEPT ![s] = r]]
    BY <1>3, <2>1
  <2> QED
    BY <2>2, <2>3 DEF A!AgentState, Put
<1> HIDE DEF r
<1>5. Touches(a, b, t, s) /\ b.tr[s] = r /\ b.top[t] = a.top[t]
  BY <1>1, <1>2, <1>4, Replaced
<1> QED
  BY <1>5 DEF r

\* Setters only look.
LEMMA SetCall ==
  ASSUME NEW a, NEW t, NEW s,
         a.tr[s].phase = "invalid" \/ (a.tr[s].phase = "started" /\ a.tr[s].owner = t)
  PROVE  A!Set(a, t, s) = a
  BY DEF A!Set, A!Call, A!Live

LEMMA EndCall ==
  ASSUME NEW a \in A!AgentState, NEW t \in Threads, NEW s \in Tracers,
         a.tr[s].phase = "started", a.tr[s].owner = t, a.top[t] = s,
         NEW b, b = A!End(a, t, s)
  PROVE  /\ Touches(a, b, t, s) /\ b.top[t] = a.tr[s].parent
         /\ b.tr[s] = [a.tr[s] EXCEPT !.phase = "ended"]
<1> DEFINE r == [a.tr[s] EXCEPT !.phase = "ended"]
<1>1. a.tr[s] \in A!TracerState /\ a.tr[s].parent \in Tracers \cup {NoTracer}
  BY DEF A!AgentState, A!TracerState
<1>2. r \in A!TracerState
  BY <1>1 DEF A!TracerState, A!Phases
<1>3. b = [a EXCEPT !.tr[s].phase = "ended", !.top[t] = a.tr[s].parent]
  BY DEF A!End, A!Call
<1>4. b = Put(a, s, r, t, a.tr[s].parent)
  BY <1>3 DEF A!AgentState, A!TracerState, Put
<1> HIDE DEF r
<1>5. Touches(a, b, t, s) /\ b.tr[s] = r /\ b.top[t] = a.tr[s].parent
  BY <1>1, <1>2, <1>4, Replaced
<1> QED
  BY <1>5 DEF r

-----------------------------------------------------------------------------
(* Combinations that open a tracer *)

LEMMA StartAfter ==
  ASSUME NEW a \in A!AgentState, NEW b, NEW c, NEW t \in Threads, NEW s \in Tracers,
         NEW n \in Nat, NEW tag \in A!Tags,
         Touches(a, b, t, s), b.top[t] = a.top[t],
         \/ b.tr[s].phase = "invalid"
         \/ /\ b.tr[s].phase = "created" /\ b.tr[s].owner = t /\ b.tr[s].req = n
            /\ b.tr[s].tag = tag /\ b.tr[s].err = FALSE,
         c = A!Start(b, t, s)
  PROVE  Opens(a, c, t, s, n, tag)
<1>1. b \in A!AgentState
  BY DEF Touches
<1>2. CASE b.tr[s].phase = "invalid"
  BY <1>2, InvalidCall DEF Opens
<1>3. CASE b.tr[s].phase = "created"
  <2>1. b.tr[s].owner = t
    BY <1>3
  <2>2. /\ Touches(b, c, t, s) /\ c.top[t] = s
        /\ c.tr[s].phase = "started" /\ c.tr[s].parent = b.top[t]
        /\ c.tr[s].owner = b.tr[s].owner /\ c.tr[s].req = b.tr[s].req
        /\ c.tr[s].tag = b.tr[s].tag /\ c.tr[s].err = b.tr[s].err
    BY <1>1, <1>3, <2>1, StartCall
  <2>3. /\ c.tr[s].phase = "started" /\ c.tr[s].owner = t /\ c.tr[s].req = n
        /\ c.tr[s].parent = a.top[t] /\ c.tr[s].tag = tag /\ c.tr[s].err = FALSE
    BY <1>3, <2>2
  <2> QED
    BY <2>2, <2>3 DEF Opens, Touches
<1> QED
  BY <1>2, <1>3

LEMMA NoTagTyped == NoTag \in A!Tags
  BY DEF A!Tags, NoTag

\* A tracer without a tag.
LEMMA OpenCreate ==
  ASSUME NEW a \in A!AgentState, NEW t \in Threads, NEW s \in Tracers, NEW n \in Nat,
         ~A!Live(a, s), NEW b, b = A!Start(A!Create(a, t, s, n), t, s)
  PROVE  Opens(a, b, t, s, n, NoTag)
<1> DEFINE c == A!NewTracer(a, t, s, n, TRUE)
<1>1. /\ Touches(a, c, t, s) /\ c.top[t] = a.top[t]
      /\ c.tr[s].phase = "invalid" \/ Created(c.tr[s], t, n)
  BY NewTracerCall
<1>2. b = A!Start(c, t, s)
  BY DEF A!Create
<1> HIDE DEF c
<1> QED
  BY <1>1, <1>2, StartAfter, NoTagTyped DEF Created

\* A tracer that refers to an info object.
LEMMA CreateForCall ==
  ASSUME NEW a \in A!AgentState, NEW t \in Threads, NEW s \in Tracers, NEW n \in Nat,
         NEW i, a.info[i] \in {"live", "invalid"}, ~A!Live(a, s),
         NEW b, b = A!CreateFor(a, t, s, n, i)
  PROVE  /\ Touches(a, b, t, s) /\ b.top[t] = a.top[t]
         /\ b.tr[s].phase = "invalid" \/ Created(b.tr[s], t, n)
<1> DEFINE ok == a.info[i] = "live"
<1>1. b = A!NewTracer(a, t, s, n, ok) /\ ok \in BOOLEAN
  BY DEF A!CreateFor
<1> HIDE DEF ok
<1> QED
  BY <1>1, NewTracerCall

LEMMA OpenFor ==
  ASSUME NEW a \in A!AgentState, NEW t \in Threads, NEW s \in Tracers, NEW n \in Nat,
         NEW i, a.info[i] \in {"live", "invalid"}, ~A!Live(a, s),
         NEW b, b = A!Start(A!CreateFor(a, t, s, n, i), t, s)
  PROVE  Opens(a, b, t, s, n, NoTag)
<1> DEFINE c == A!CreateFor(a, t, s, n, i)
<1>1. /\ Touches(a, c, t, s) /\ c.top[t] = a.top[t]
      /\ c.tr[s].phase = "invalid" \/ Created(c.tr[s], t, n)
  BY CreateForCall
<1>2. b = A!Start(c, t, s)
  OBVIOUS
<1> HIDE DEF c
<1> QED
  BY <1>1, <1>2, StartAfter, NoTagTyped DEF Created

\* A tag is set between the creation and the start.
LEMMA OpenTagged ==
  ASSUME NEW a \in A!AgentState, NEW b, NEW c, NEW t \in Threads, NEW s \in Tracers,
         NEW n \in Nat, NEW tag \in A!Tags,
         Touches(a, b, t, s), b.top[t] = a.top[t],
         b.tr[s].phase = "invalid" \/ Created(b.tr[s], t, n),
         c = A!Start(A!SetTag(b, t, s, tag), t, s)
  PROVE  Opens(a, c, t, s, n, tag)
<1>1. b \in A!AgentState
  BY DEF Touches
<1>2. CASE b.tr[s].phase = "invalid"
  <2>1. c = A!Start(b, t, s)
    BY <1>2, InvalidCall
  <2> QED
    BY <1>2, <2>1, StartAfter
<1>3. CASE Created(b.tr[s], t, n)
  <2> DEFINE d == A!SetTag(b, t, s, tag)
  <2>1. /\ Touches(b, d, t, s) /\ d.top[t] = b.top[t]
        /\ d.tr[s] = [b.tr[s] EXCEPT !.tag = tag]
    BY <1>1, <1>3, SetTagCall DEF Created
  <2>2. b.tr[s] \in A!TracerState
    BY <1>1 DEF A!AgentState
  <2>3. c = A!Start(d, t, s)
    OBVIOUS
  <2> HIDE DEF d
  <2>4. /\ d.tr[s].phase = "created" /\ d.tr[s].owner = t /\ d.tr[s].req = n
        /\ d.tr[s].tag = tag /\ d.tr[s].err = FALSE
    BY <1>3, <2>1, <2>2 DEF Created, A!TracerState
  <2>5. Touches(a, d, t, s) /\ d.top[t] = a.top[t]
    BY <2>1 DEF Touches
  <2> QED
    BY <2>3, <2>4, <2>5, StartAfter
<1> QED
  BY <1>2, <1>3

\* A tracer that continues an in-process link.
LEMMA OpenLinked ==
  ASSUME NEW a \in A!AgentState, NEW t \in Threads, NEW s \in Tracers, NEW n \in Nat,
         NEW tag \in A!Tags, ~A!Live(a, s),
         NEW b, b = A!Start(A!CreateLinked(a, t, s, n, tag), t, s)
  PROVE  Opens(a, b, t, s, n, tag)
<1> DEFINE ok == tag # NoTag
           c == A!NewTracer(a, t, s, n, ok)
           r == [c.tr[s] EXCEPT !.tag = tag]
           d == [c EXCEPT !.tr[s].tag = tag]
<1>1. ok \in BOOLEAN
  OBVIOUS
<1>2. b = A!Start(d, t, s)
  BY DEF A!CreateLinked
<1> HIDE DEF ok
<1>3. /\ Touches(a, c, t, s) /\ c.top[t] = a.top[t]
      /\ c.tr[s].phase = "invalid" \/ Created(c.tr[s], t, n)
  BY <1>1, NewTracerCall
<1> HIDE DEF c
<1>4. c \in A!AgentState /\ c.tr[s] \in A!TracerState /\ c.top[t] \in Tracers \cup {NoTracer}
  BY <1>3 DEF A!AgentState, Touches
<1>5. /\ r \in A!TracerState /\ r.tag = tag /\ r.phase = c.tr[s].phase
      /\ r.owner = c.tr[s].owner /\ r.req = c.tr[s].req /\ r.err = c.tr[s].err
  BY <1>4 DEF A!TracerState
<1>6. d = Put(c, s, r, t, c.top[t])
  BY <1>4 DEF A!AgentState, A!TracerState, Put
<1> HIDE DEF r, d
<1>7. Touches(c, d, t, s) /\ d.tr[s] = r /\ d.top[t] = c.top[t]
  BY <1>4, <1>5, <1>6, Replaced
<1>8. Touches(a, d, t, s) /\ d.top[t] = a.top[t]
  BY <1>3, <1>7 DEF Touches
<1>9. \/ d.tr[s].phase = "invalid"
      \/ /\ d.tr[s].phase = "created" /\ d.tr[s].owner = t /\ d.tr[s].req = n
         /\ d.tr[s].tag = tag /\ d.tr[s].err = FALSE
  BY <1>3, <1>5, <1>7 DEF Created
<1> QED
  BY <1>2, <1>8, <1>9, StartAfter

-----------------------------------------------------------------------------
(* Combinations that close a tracer *)

\* The err of s is set, and nothing else.
Marks(a, b, t, s) ==
  /\ Touches(a, b, t, s) /\ b.top[t] = a.top[t]
  /\ b.tr[s].phase = a.tr[s].phase /\ b.tr[s].owner = a.tr[s].owner
  /\ b.tr[s].req = a.tr[s].req /\ b.tr[s].parent = a.tr[s].parent
  /\ b.tr[s].tag = a.tr[s].tag
  /\ a.tr[s].phase = "started" => b.tr[s].err = TRUE
  /\ a.tr[s].phase = "invalid" => b.tr[s] = a.tr[s]

LEMMA Mark ==
  ASSUME NEW a \in A!AgentState, NEW t \in Threads, NEW s \in Tracers, Usable(a, t, s),
         a.tr[s].phase = "started" => ~a.tr[s].err, NEW b, b = A!Error(a, t, s)
  PROVE  Marks(a, b, t, s) /\ Usable(b, t, s)
<1>1. CASE a.tr[s].phase = "invalid"
  BY <1>1, InvalidCall DEF Marks, Touches
<1>2. CASE a.tr[s].phase = "started"
  <2>1. a.tr[s].owner = t /\ a.top[t] = s /\ ~a.tr[s].err
    BY <1>2 DEF Usable
  <2>2. /\ Touches(a, b, t, s) /\ b.top[t] = a.top[t]
        /\ b.tr[s] = [a.tr[s] EXCEPT !.err = TRUE]
    BY <1>2, <2>1, ErrorCall
  <2>3. a.tr[s] \in A!TracerState
    BY DEF A!AgentState
  <2>4. /\ b.tr[s].phase = a.tr[s].phase /\ b.tr[s].owner = a.tr[s].owner
        /\ b.tr[s].req = a.tr[s].req /\ b.tr[s].parent = a.tr[s].parent
        /\ b.tr[s].tag = a.tr[s].tag /\ b.tr[s].err = TRUE
    BY <2>2, <2>3 DEF A!TracerState
  <2> QED
    BY <1>2, <2>1, <2>2, <2>4 DEF Marks, Usable
<1> QED
  BY <1>1, <1>2 DEF Usable

LEMMA CloseEnd ==
  ASSUME NEW a \in A!AgentState, NEW t \in Threads, NEW s \in Tracers, Usable(a, t, s),
         NEW b, b = A!End(a, t, s)
  PROVE  Closes(a, b, t, s, a.tr[s].err)
<1>1. CASE a.tr[s].phase = "invalid"
  BY <1>1, InvalidCall DEF Closes, Touches
<1>2. CASE a.tr[s].phase = "started"
  <2>1. a.tr[s].owner = t /\ a.top[t] = s
    BY <1>2 DEF Usable
  <2>2. /\ Touches(a, b, t, s) /\ b.top[t] = a.tr[s].parent
        /\ b.tr[s] = [a.tr[s] EXCEPT !.phase = "ended"]
    BY <1>2, <2>1, EndCall
  <2>3. a.tr[s] \in A!TracerState
    BY DEF A!AgentState
  <2>4. b.tr[s].phase = "ended" /\ b.tr[s].req = a.tr[s].req /\ b.tr[s].err = a.tr[s].err
    BY <2>2, <2>3 DEF A!TracerState
  <2> QED
    BY <1>2, <2>2, <2>4 DEF Closes
<1> QED
  BY <1>1, <1>2 DEF Usable

LEMMA CloseSetEnd ==
  ASSUME NEW a \in A!AgentState, NEW t \in Threads, NEW s \in Tracers, Usable(a, t, s),
         NEW b, b = A!End(A!Set(a, t, s), t, s)
  PROVE  Closes(a, b, t, s, a.tr[s].err)
<1>1. A!Set(a, t, s) = a
  BY SetCall DEF Usable
<1> QED
  BY <1>1, CloseEnd

\* A tracer is marked with an error and ended.
LEMMA CloseMarked ==
  ASSUME NEW a \in A!AgentState, NEW b, NEW c, NEW t \in Threads, NEW s \in Tracers,
         Marks(a, b, t, s), Closes(b, c, t, s, b.tr[s].err)
  PROVE  Closes(a, c, t, s, TRUE)
<1>1. CASE b.tr[s].phase = "invalid"
  <2>1. c.tr[s].phase = "invalid" /\ a.tr[s].phase = "invalid"
    BY <1>1 DEF Marks, Closes
  <2> QED
    BY <1>1, <2>1 DEF Marks, Closes, Touches
<1>2. CASE b.tr[s].phase = "started"
  BY <1>2 DEF Marks, Closes, Touches
<1> QED
  BY <1>1, <1>2 DEF Closes

LEMMA CloseFail ==
  ASSUME NEW a \in A!AgentState, NEW t \in Threads, NEW s \in Tracers, Usable(a, t, s),
         a.tr[s].phase = "started" => ~a.tr[s].err, NEW b, b = A!Fail(a, t, s)
  PROVE  Closes(a, b, t, s, TRUE)
<1> DEFINE c == A!Error(a, t, s)
<1>1. Marks(a, c, t, s) /\ Usable(c, t, s)
  BY Mark
<1>2. b = A!End(c, t, s)
  BY DEF A!Fail
<1> HIDE DEF c
<1>3. c \in A!AgentState
  BY <1>1 DEF Marks, Touches
<1>4. Closes(c, b, t, s, c.tr[s].err)
  BY <1>1, <1>2, <1>3, CloseEnd
<1> QED
  BY <1>1, <1>4, CloseMarked

LEMMA CloseErrorSetEnd ==
  ASSUME NEW a \in A!AgentState, NEW t \in Threads, NEW s \in Tracers, Usable(a, t, s),
         a.tr[s].phase = "started" => ~a.tr[s].err,
         NEW b, b = A!End(A!Set(A!Error(a, t, s), t, s), t, s)
  PROVE  Closes(a, b, t, s, TRUE)
<1> DEFINE c == A!Error(a, t, s)
<1>1. Marks(a, c, t, s) /\ Usable(c, t, s)
  BY Mark
<1>2. b = A!End(A!Set(c, t, s), t, s)
  OBVIOUS
<1> HIDE DEF c
<1>3. c \in A!AgentState
  BY <1>1 DEF Marks, Touches
<1>4. Closes(c, b, t, s, c.tr[s].err)
  BY <1>1, <1>2, <1>3, CloseSetEnd
<1> QED
  BY <1>1, <1>4, CloseMarked

-----------------------------------------------------------------------------
(* Info objects, and the agent's own moves *)

\* Only the state of info object i differs.
Informs(a, b, i) ==
  /\ b \in A!AgentState
  /\ b.tr = a.tr /\ b.top = a.top /\ b.misuse = a.misuse
  /\ b.initialized = a.initialized /\ b.active = a.active
  /\ \A j \in Infos \ {i} : b.info[j] = a.info[j]

LEMMA CreateInfoCall ==
  ASSUME NEW a \in A!AgentState, NEW i \in Infos, a.info[i] # "live",
         NEW b, b = A!CreateInfo(a, i)
  PROVE  Informs(a, b, i) /\ b.info[i] \in {"live", "invalid"}
<1> DEFINE x == IF a.initialized THEN "live" ELSE "invalid"
<1>1. x \in {"live", "invalid"}
  OBVIOUS
<1>2. b = [a EXCEPT !.info[i] = x]
  BY DEF A!CreateInfo
<1> HIDE DEF x
<1> QED
  BY <1>1, <1>2 DEF A!AgentState, Informs, A!InfoPhases

LEMMA DeleteInfoCall ==
  ASSUME NEW a \in A!AgentState, NEW i \in Infos, a.info[i] \in {"live", "invalid"},
         NEW b, b = A!DeleteInfo(a, i)
  PROVE  Informs(a, b, i) /\ b.info[i] # "live"
<1>1. CASE a.info[i] = "invalid"
  BY <1>1 DEF A!DeleteInfo, Informs
<1>2. CASE a.info[i] = "live"
  <2>1. b = [a EXCEPT !.info[i] = "deleted"]
    BY <1>2 DEF A!DeleteInfo
  <2> QED
    BY <2>1 DEF A!AgentState, Informs, A!InfoPhases
<1> QED
  BY <1>1, <1>2

LEMMA ToggleMove ==
  ASSUME NEW a \in A!AgentState, NEW b, b = A!Toggle(a)
  PROVE  /\ b \in A!AgentState /\ b.tr = a.tr /\ b.top = a.top /\ b.info = a.info
         /\ b.misuse = a.misuse /\ b.initialized = a.initialized
  BY DEF A!AgentState, A!Toggle

-----------------------------------------------------------------------------
(* Part 2: the control *)

IsBilled == Billed(served) # {}

\* A thread exists exactly while the thread that started it waits for it, or,
\* for db, goes on in get_response_body.
Threading ==
  /\ pc["disp"] # "idle" <=> pc["server"] = "join"
  /\ pc["db"] # "idle" <=> pc["server"] \in {"call", "spawn", "join", "await", "unwind"}
  /\ pc["server"] # "idle" <=> pc["main"] = "join"
  /\ pc["main"] # "read" <=> client
  /\ pc["main"] # "read" => input \in Inputs

Bills ==
  /\ \A k \in 1..Len(queue) : queue[k].req <= served
  /\ \A j, k \in 1..Len(queue) : queue[j].req = queue[k].req => j = k
  /\ IsBilled => input \notin BadInputs

DbOutcome ==
  /\ pc["db"] \notin {"idle", "done"} => dbResult = "pending"
  /\ pc["db"] = "done" => dbResult \in {"ok", "failed"}

DispOutcome ==
  /\ pc["disp"] \in {"begin", "transform", "send", "throw"} => ~IsBilled
  /\ pc["disp"] \in {"send", "return"} => input \notin BadInputs
  /\ pc["disp"] = "return" => IsBilled
  /\ pc["disp"] = "done" => rpcResult = (IF IsBilled THEN "ok" ELSE "failed")

ServerOutcome ==
  /\ pc["server"] \in {"begin", "link", "async", "call", "spawn", "unwind"} => ~IsBilled
  /\ pc["server"] \in {"await", "ok"} => IsBilled /\ rpcResult = "ok"
  /\ pc["server"] = "unwind" => rpcResult = "failed"
  /\ pc["server"] = "ok" => dbResult = "ok"
  /\ pc["server"] = "fail" => ~IsBilled \/ dbResult = "failed"

\* The response that the server thread leaves behind, or nobody.
Settled ==
  \/ response = Unsent /\ ~IsBilled
  \/ response = Answer(500, ErrorBody) /\ (~IsBilled \/ dbResult = "failed")
  \/ /\ response = Answer(200, input) /\ IsBilled
     /\ dbResult = "ok" /\ rpcResult = "ok"

MainOutcome ==
  /\ pc["main"] \in {"send", "spawn"} => ~IsBilled
  /\ pc["server"] = "done" \/ pc["main"] \in {"finish", "reply"} => Settled

Control == Threading /\ Bills /\ DbOutcome /\ DispOutcome /\ ServerOutcome /\ MainOutcome

-----------------------------------------------------------------------------
(* The invariant *)

\* Only the queue and the number of the request decide what is billed.
LEMMA BilledFrame ==
  ASSUME UNCHANGED <<queue, served>>
  PROVE  IsBilled' <=> IsBilled
  BY DEF IsBilled, Billed

LEMMA BillsFrame ==
  ASSUME Bills, UNCHANGED <<queue, served, input>>
  PROVE  Bills'
  BY BilledFrame DEF Bills

LEMMA ControlInit == Init => Control
  BY DEF Init, Control, Threading, Bills, DbOutcome, DispOutcome, ServerOutcome, MainOutcome,
         IsBilled, Billed, Threads

\* A message is added for a request that is not billed.
LEMMA SendMessageBills ==
  ASSUME TypeOK, Control, SendMessage
  PROVE  Bills' /\ IsBilled'
<1> DEFINE m == [req |-> served, tag |-> A!OutTag(agent, "disp", "outMsg"), input |-> input]
<1>1. /\ pc["disp"] = "send" /\ queue' = Append(queue, m)
      /\ UNCHANGED <<served, input>>
  BY DEF SendMessage, Step, requestVars
<1>2. m.req = served
  OBVIOUS
<1> HIDE DEF m
<1>3. /\ Len(queue') = Len(queue) + 1 /\ Len(queue) \in Nat
      /\ \A k \in 1..Len(queue) : queue'[k] = queue[k]
      /\ queue'[Len(queue) + 1] = m
  <2>1. queue \in Seq(Messages \cup {m})
    BY SeqMonotonic DEF TypeOK
  <2> QED
    BY <1>1, <2>1, AppendProperties, LenProperties
<1>4. served \in Nat
  BY DEF TypeOK
<1>5. /\ ~IsBilled /\ input \notin BadInputs
      /\ \A k \in 1..Len(queue) : queue[k].req <= served
      /\ \A j, k \in 1..Len(queue) : queue[j].req = queue[k].req => j = k
  BY <1>1 DEF Control, DispOutcome, Bills
<1>6. \A k \in 1..Len(queue) : queue[k].req # served
  BY <1>5 DEF IsBilled, Billed
<1>7. \A k \in 1..Len(queue') : k \in 1..Len(queue) \/ k = Len(queue) + 1
  BY <1>3
<1>8. IsBilled'
  <2>1. Len(queue) + 1 \in Billed(served)'
    BY <1>1, <1>2, <1>3 DEF Billed
  <2> QED
    BY <2>1 DEF IsBilled
<1>9. \A k \in 1..Len(queue') : queue'[k].req <= served'
  BY <1>1, <1>2, <1>3, <1>4, <1>5, <1>7
<1>10. \A j, k \in 1..Len(queue') : queue'[j].req = queue'[k].req => j = k
  BY <1>2, <1>3, <1>5, <1>6, <1>7
<1> QED
  BY <1>1, <1>5, <1>8, <1>9, <1>10 DEF Bills

\* The next request has no bill yet.
LEMMA ReadRequestBills ==
  ASSUME TypeOK, Control, NEW i \in Inputs, ReadRequest(i)
  PROVE  Bills' /\ ~IsBilled'
<1>1. UNCHANGED queue /\ served' = served + 1
  BY DEF ReadRequest
<1>2. \A k \in 1..Len(queue) : queue[k] \in Messages
  BY ElementOfSeq DEF TypeOK
<1>3. \A k \in 1..Len(queue) : queue[k].req <= served /\ queue[k].req \in Nat
  BY <1>2 DEF Control, Bills, Messages
<1>4. served \in Nat
  BY DEF TypeOK
<1>5. \A k \in 1..Len(queue) : queue[k].req <= served + 1 /\ queue[k].req # served + 1
  BY <1>3, <1>4
<1>6. ~IsBilled'
  BY <1>1, <1>5 DEF IsBilled, Billed
<1> QED
  BY <1>1, <1>5, <1>6 DEF Control, Bills

LEMMA MainControl ==
  ASSUME TypeOK, Control, MainStep
  PROVE  Control'
<1> USE BilledFrame, BillsFrame
    DEF Control, Threading, DbOutcome, DispOutcome, ServerOutcome, MainOutcome, Settled,
              Threads, Labels, TypeOK, Step, Spawn, Join, Unsent, Answer, requestVars, resultVars
<1>1. CASE SendRequest
  BY <1>1 DEF SendRequest
<1>2. CASE SpawnServer
  BY <1>2 DEF SpawnServer
<1>3. CASE SpawnServerFails
  BY <1>3 DEF SpawnServerFails, GiveUp
<1>4. CASE JoinServer
  BY <1>4 DEF JoinServer, GiveUp
<1>5. CASE FinishRequest
  BY <1>5 DEF FinishRequest
<1>6. CASE Reply
  BY <1>6 DEF Reply
<1> QED
  BY <1>1, <1>2, <1>3, <1>4, <1>5, <1>6 DEF MainStep

LEMMA ServerControl ==
  ASSUME TypeOK, Control, ServerStep
  PROVE  Control'
<1> USE BilledFrame, BillsFrame
    DEF Control, Threading, DbOutcome, DispOutcome, ServerOutcome, MainOutcome, Settled,
              Threads, Labels, TypeOK, Step, Spawn, Join, Unsent, Answer, requestVars, resultVars
<1>1. CASE ServerTransportFails
  BY <1>1 DEF ServerTransportFails
<1>2. CASE ServerBegin
  BY <1>2 DEF ServerBegin
<1>3. CASE CaptureLink
  BY <1>3 DEF CaptureLink
<1>4. CASE StartAsync
  BY <1>4 DEF StartAsync
<1>5. CASE StartAsyncFails
  BY <1>5 DEF StartAsyncFails
<1>6. CASE CallRemote
  BY <1>6 DEF CallRemote
<1>7. CASE SpawnDispatcher
  BY <1>7 DEF SpawnDispatcher
<1>8. CASE SpawnDispatcherFails
  BY <1>8 DEF SpawnDispatcherFails
<1>9. CASE JoinDispatcher
  BY <1>9 DEF JoinDispatcher
<1>10. CASE AwaitFuture
  BY <1>10 DEF AwaitFuture
<1>11. CASE UnwindFuture
  BY <1>11 DEF UnwindFuture
<1>12. CASE ServerOk
  BY <1>12 DEF ServerOk
<1>13. CASE ServerFail
  BY <1>13 DEF ServerFail
<1> QED
  BY <1>1, <1>2, <1>3, <1>4, <1>5, <1>6, <1>7, <1>8, <1>9, <1>10, <1>11, <1>12, <1>13 DEF ServerStep

LEMMA DbControl ==
  ASSUME TypeOK, Control, DbStep
  PROVE  Control'
<1> USE BilledFrame, BillsFrame
    DEF Control, Threading, DbOutcome, DispOutcome, ServerOutcome, MainOutcome, Settled,
              Threads, Labels, TypeOK, Step, Spawn, Join, Unsent, Answer, requestVars, resultVars
<1>1. CASE DbBegin
  BY <1>1 DEF DbBegin
<1>2. CASE DbQuery
  BY <1>2 DEF DbQuery
<1>3. CASE DbQueryFails
  BY <1>3 DEF DbQueryFails
<1>4. CASE DbFetch
  BY <1>4 DEF DbFetch
<1>5. CASE DbFetchFails
  BY <1>5 DEF DbFetchFails
<1>6. CASE DbClose
  BY <1>6 DEF DbClose
<1>7. CASE DbThrow
  BY <1>7 DEF DbThrow
<1> QED
  BY <1>1, <1>2, <1>3, <1>4, <1>5, <1>6, <1>7 DEF DbStep

LEMMA DispControl ==
  ASSUME TypeOK, Control, DispStep
  PROVE  Control'
<1> USE BilledFrame, BillsFrame
    DEF Control, Threading, DbOutcome, DispOutcome, ServerOutcome, MainOutcome, Settled,
              Threads, Labels, TypeOK, Step, Spawn, Join, Unsent, Answer, requestVars, resultVars
<1>1. CASE DispBegin
  BY <1>1 DEF DispBegin
<1>2. CASE Transform
  BY <1>2 DEF Transform
<1>3. CASE TransformThrows
  BY <1>3 DEF TransformThrows
<1>4. CASE SendMessage
  BY <1>4, SendMessageBills DEF SendMessage
<1>5. CASE SendMessageThrows
  BY <1>5 DEF SendMessageThrows
<1>6. CASE DispReturn
  BY <1>6 DEF DispReturn
<1>7. CASE DispThrow
  BY <1>7 DEF DispThrow
<1> QED
  BY <1>1, <1>2, <1>3, <1>4, <1>5, <1>6, <1>7 DEF DispStep

LEMMA ControlStep ==
  ASSUME TypeOK, Control, [Next]_vars
  PROVE  Control'
<1>1. ASSUME NEW i \in Inputs, ReadRequest(i)
      PROVE  Control'
  <2>1. Bills' /\ ~IsBilled'
    BY <1>1, ReadRequestBills
  <2>2. /\ pc["main"] = "read" /\ pc'["main"] = "send" /\ client' /\ input' \in Inputs
        /\ \A t \in Threads \ {"main"} : pc'[t] = pc[t]
    BY <1>1 DEF ReadRequest, Step, TypeOK, Threads
  <2>3. pc["server"] = "idle" /\ pc["db"] = "idle" /\ pc["disp"] = "idle"
    BY <2>2 DEF Control, Threading
  <2>4. pc'["server"] = "idle" /\ pc'["db"] = "idle" /\ pc'["disp"] = "idle"
    BY <2>2, <2>3 DEF Threads
  <2> QED
    BY <2>1, <2>2, <2>4 DEF Control, Threading, DbOutcome, DispOutcome, ServerOutcome, MainOutcome
<1>2. CASE MainStep \/ ServerStep \/ DbStep \/ DispStep
  BY <1>2, MainControl, ServerControl, DbControl, DispControl
<1>3. CASE AgentToggle \/ Prompt \/ UNCHANGED vars
  <2>1. UNCHANGED <<pc, client, served, input, dbResult, rpcResult, response, queue>>
    BY <1>3 DEF AgentToggle, Prompt, vars, requestVars, resultVars
  <2>2. Bills' /\ (IsBilled' <=> IsBilled)
    BY <2>1, BillsFrame, BilledFrame DEF Control
  <2> QED
    BY <2>1, <2>2 DEF Control, Threading, DbOutcome, DispOutcome, ServerOutcome, MainOutcome, Settled
<1> QED
  BY <1>1, <1>2, <1>3 DEF Next

-----------------------------------------------------------------------------
(* The service *)

LEMMA ServiceInitial == Init => Service!ServiceInit
<1> SUFFICES ASSUME Init PROVE Service!ServiceInit
  OBVIOUS
<1>1. phaseBar = "idle" /\ input = NoInput /\ Billed(served) = {} /\ queue = << >>
  BY DEF Init, phaseBar, Billed, Threads
<1>2. answerBar = Answer(0, NoInput) /\ billsBar = << >>
  BY <1>1 DEF answerBar, billsBar
<1> QED
  BY <1>1, <1>2 DEF Service!ServiceInit, Service!NoAnswerYet, Service!Answered, Answer

\* Without another bill or request, only the phase and the answer can change.
LEMMA ServiceFrame ==
  ASSUME UNCHANGED <<queue, served, input>>
  PROVE  billsBar' = billsBar /\ (Billed(served) # {})' = (Billed(served) # {}) /\ input' = input
  BY DEF billsBar, Billed

LEMMA ServiceRead ==
  ASSUME TypeOK, Control, NEW i \in Inputs, ReadRequest(i)
  PROVE  Service!Ask(i)
<1>1. pc["main"] = "read" /\ pc'["main"] = "send" /\ UNCHANGED queue /\ input' = i
  BY DEF ReadRequest, Step, TypeOK, Threads
<1>2. phaseBar = "idle" /\ phaseBar' = "asked"
  BY <1>1 DEF phaseBar
<1>3. answerBar' = answerBar /\ billsBar' = billsBar
  BY <1>1, <1>2 DEF answerBar, billsBar
<1>4. (Billed(served) # {})' = FALSE
  BY ReadRequestBills DEF IsBilled
<1> QED
  BY <1>1, <1>2, <1>3, <1>4 DEF Service!Ask

\* The answer that send_request returns, or its failure.
LEMMA ServiceAnswer ==
  ASSUME TypeOK, Control, SpawnServerFails \/ JoinServer
  PROVE  Service!Serve \/ Service!Refuse
<1>1. pc["main"] \in {"spawn", "join"} /\ pc'["main"] = "finish"
  BY DEF SpawnServerFails, JoinServer, Step, Join, TypeOK, Threads
<1>2. phaseBar = "asked" /\ phaseBar' = "answered"
  BY <1>1 DEF phaseBar
<1>3. answerBar' = response'
  BY <1>2 DEF answerBar
<1>4. UNCHANGED <<queue, served, input>>
  BY DEF SpawnServerFails, JoinServer, requestVars
<1>5. billsBar' = billsBar /\ (Billed(served) # {})' = (Billed(served) # {}) /\ input' = input
  BY <1>4, ServiceFrame
<1>6. \/ response' \in {Answer(500, ErrorBody), Answer(-1, NoInput)}
      \/ response' = Answer(200, input) /\ Billed(served) # {}
  <2>1. CASE SpawnServerFails
    BY <2>1 DEF SpawnServerFails, GiveUp, Unsent
  <2>2. CASE JoinServer
    <3>1. Settled /\ response' \in {response, Unsent}
      BY <2>2 DEF JoinServer, Join, GiveUp, Control, MainOutcome
    <3>2. CASE response.status < 0
      <4>1. response' = Unsent
        BY <2>2, <3>2 DEF JoinServer, GiveUp
      <4> QED
        BY <4>1 DEF Unsent
    <3>3. CASE ~(response.status < 0)
      <4>1. response' = response
        BY <2>2, <3>3 DEF JoinServer
      <4> QED
        BY <3>1, <4>1 DEF Settled, IsBilled, Unsent
    <3> QED
      BY <3>2, <3>3
  <2> QED
    BY <2>1, <2>2
<1>7. CASE response' \in {Answer(500, ErrorBody), Answer(-1, NoInput)}
  BY <1>2, <1>3, <1>5, <1>7 DEF Service!Refuse, Service!Answered, Answer
<1>8. CASE response' = Answer(200, input) /\ Billed(served) # {}
  BY <1>2, <1>3, <1>5, <1>8 DEF Service!Serve, Service!Answered, Answer
<1> QED
  BY <1>6, <1>7, <1>8

LEMMA ServiceLeave ==
  ASSUME TypeOK, Reply
  PROVE  Service!Leave
<1>1. pc["main"] = "reply" /\ pc'["main"] = "read" /\ UNCHANGED <<queue, served, input>>
  BY DEF Reply, Step, TypeOK, Threads
<1>2. phaseBar = "answered" /\ phaseBar' = "idle"
  BY <1>1 DEF phaseBar
<1>3. answerBar' = Answer(0, NoInput)
  BY <1>2 DEF answerBar
<1>4. billsBar' = billsBar /\ (Billed(served) # {})' = (Billed(served) # {}) /\ input' = input
  BY <1>1, ServiceFrame
<1> QED
  BY <1>2, <1>3, <1>4 DEF Service!Leave, Service!NoAnswerYet, Service!Answered, Answer

LEMMA ServiceBill ==
  ASSUME TypeOK, Control, SendMessage
  PROVE  Service!Bill
<1> DEFINE m == [req |-> served, tag |-> A!OutTag(agent, "disp", "outMsg"), input |-> input]
<1>1. /\ pc["disp"] = "send" /\ pc'["main"] = pc["main"]
      /\ queue' = Append(queue, m) /\ UNCHANGED <<input, served>>
  BY DEF SendMessage, Step, requestVars, TypeOK, Threads
<1>2. pc["main"] = "join"
  BY <1>1 DEF Control, Threading
<1>3. phaseBar = "asked" /\ phaseBar' = "asked"
  BY <1>1, <1>2 DEF phaseBar
<1>4. answerBar' = answerBar
  BY <1>3 DEF answerBar
<1>5. ~IsBilled /\ IsBilled' /\ input \notin BadInputs
  BY <1>1, SendMessageBills DEF Control, DispOutcome
<1>6. billsBar' = Append(billsBar, input)
  <2>1. queue \in Seq(Messages \cup {m})
    BY SeqMonotonic DEF TypeOK
  <2>2. m.input = input
    OBVIOUS
  <2> HIDE DEF m
  <2>3. /\ Len(queue') = Len(queue) + 1 /\ Len(queue) \in Nat
        /\ \A k \in 1..Len(queue) : queue'[k] = queue[k]
        /\ queue'[Len(queue) + 1] = m
    BY <1>1, <2>1, AppendProperties, LenProperties
  <2>a. Len(queue) \in Nat
    BY <2>3
  <2>4. billsBar \in Seq({queue[k].input : k \in 1..Len(queue)}) /\ Len(billsBar) = Len(queue)
    BY <2>3 DEF billsBar
  <2> DEFINE both == Append(billsBar, input)
  <2>5. /\ DOMAIN both = 1..(Len(queue) + 1)
        /\ both = [k \in DOMAIN both |-> both[k]]
        /\ \A k \in 1..(Len(queue) + 1) :
             both[k] = IF k = Len(queue) + 1 THEN input ELSE billsBar[k]
    <3> DEFINE S == {queue[k].input : k \in 1..Len(queue)} \cup {input}
    <3>1. billsBar \in Seq(S)
      BY <2>4, SeqMonotonic
    <3> HIDE DEF S
    <3>2. input \in S
      BY DEF S
    <3>3. /\ both \in Seq(S) /\ Len(both) = Len(billsBar) + 1
          /\ \A k \in 1..Len(billsBar) : both[k] = billsBar[k]
          /\ both[Len(billsBar) + 1] = input
      BY <3>1, <3>2, AppendProperties
    <3> HIDE DEF both
    <3>4. both \in [1..(Len(queue) + 1) -> S]
      BY <2>4, <3>3, LenProperties
    <3> QED
      BY <2>a, <2>4, <3>3, <3>4
  <2>6. billsBar' = [k \in 1..(Len(queue) + 1) |-> queue'[k].input]
    BY <2>3 DEF billsBar
  <2>7. \A k \in 1..(Len(queue) + 1) :
          queue'[k].input = IF k = Len(queue) + 1 THEN input ELSE billsBar[k]
    BY <2>2, <2>3 DEF billsBar
  <2>8. billsBar' = both
    <3> HIDE DEF both, billsBar
    <3> QED
      BY <2>5, <2>6, <2>7
  <2> QED
    BY <2>8
<1> QED
  BY <1>1, <1>3, <1>4, <1>5, <1>6 DEF Service!Bill, IsBilled

\* All that the caller does not see.
LEMMA ServiceStutter ==
  ASSUME TypeOK, Control,
         \/ SendRequest \/ SpawnServer \/ FinishRequest
         \/ ServerStep \/ DbStep \/ (DispStep /\ ~SendMessage)
         \/ AgentToggle \/ Prompt \/ UNCHANGED vars
  PROVE  UNCHANGED Service!serviceVars
<1>1. UNCHANGED <<queue, served, input>>
  BY DEF SendRequest, SpawnServer, FinishRequest, ServerStep, DbStep, DispStep, AgentToggle, Prompt,
         ServerTransportFails, ServerBegin, CaptureLink, StartAsync, StartAsyncFails, CallRemote,
         SpawnDispatcher, SpawnDispatcherFails, JoinDispatcher, AwaitFuture, UnwindFuture, ServerOk,
         ServerFail, DbBegin, DbQuery, DbQueryFails, DbFetch, DbFetchFails, DbClose, DbThrow, DispBegin,
         Transform, TransformThrows, SendMessageThrows, DispReturn, DispThrow, vars, requestVars
<1>2. phaseBar' = phaseBar /\ (phaseBar = "answered" => response' = response)
  <2>1. CASE SendRequest \/ SpawnServer \/ FinishRequest
    BY <2>1 DEF SendRequest, SpawnServer, FinishRequest, Step, Spawn, phaseBar, resultVars, TypeOK, Threads
  <2>2. ASSUME NEW t \in Threads \ {"main"}, NEW u \in Threads \ {"main"}, NEW to, NEW begun,
               pc' = [pc EXCEPT ![t] = to] \/ pc' = [pc EXCEPT ![t] = to, ![u] = begun],
               pc[t] # "idle"
        PROVE  phaseBar' = phaseBar /\ phaseBar = "asked"
    <3>1. pc'["main"] = pc["main"]
      BY <2>2 DEF TypeOK, Threads
    <3>2. pc["main"] = "join"
      BY <2>2 DEF Control, Threading, Threads
    <3> QED
      BY <3>1, <3>2 DEF phaseBar
  <2>3. CASE ServerStep
    BY <2>2, <2>3 DEF ServerStep, ServerTransportFails, ServerBegin, CaptureLink, StartAsync, StartAsyncFails,
       CallRemote, SpawnDispatcher, SpawnDispatcherFails, JoinDispatcher, AwaitFuture, UnwindFuture,
       ServerOk, ServerFail, Step, Spawn, Join, Threads
  <2>4. CASE DbStep
    BY <2>2, <2>4 DEF DbStep, DbBegin, DbQuery, DbQueryFails, DbFetch, DbFetchFails, DbClose, DbThrow,
       Step, Threads
  <2>5. CASE DispStep
    BY <2>2, <2>5 DEF DispStep, DispBegin, Transform, TransformThrows, SendMessage, SendMessageThrows,
       DispReturn, DispThrow, Step, Threads
  <2>6. CASE AgentToggle \/ Prompt \/ UNCHANGED vars
    BY <2>6 DEF AgentToggle, Prompt, vars, resultVars, phaseBar
  <2> QED
    BY <2>1, <2>3, <2>4, <2>5, <2>6
<1>4. answerBar' = answerBar
  BY <1>2 DEF answerBar
<1> QED
  BY <1>1, <1>2, <1>4, ServiceFrame DEF Service!serviceVars

LEMMA ServiceStep ==
  ASSUME TypeOK, Control, [Next]_vars
  PROVE  [Service!ServiceNext]_(Service!serviceVars)
<1>1. ASSUME NEW i \in Inputs, ReadRequest(i)
      PROVE  Service!ServiceNext
  BY <1>1, ServiceRead DEF Service!ServiceNext
<1>2. CASE SpawnServerFails \/ JoinServer
  BY <1>2, ServiceAnswer DEF Service!ServiceNext
<1>3. CASE Reply
  BY <1>3, ServiceLeave DEF Service!ServiceNext
<1>4. CASE SendMessage
  BY <1>4, ServiceBill DEF Service!ServiceNext
<1>5. CASE \/ SendRequest \/ SpawnServer \/ FinishRequest
           \/ ServerStep \/ DbStep \/ (DispStep /\ ~SendMessage)
           \/ AgentToggle \/ Prompt \/ UNCHANGED vars
  BY <1>5, ServiceStutter
<1> QED
  BY <1>1, <1>2, <1>3, <1>4, <1>5 DEF Next, MainStep

-----------------------------------------------------------------------------
(* Part 3: the tracers *)

\* Thread t has at most two tracers: i, which is active while atI holds, in o,
\* which is active while atO holds; each of them may be invalid instead.  They
\* belong to request n; o is marked with an error exactly if errO holds.
Nested(a, n, t, o, i, atO, atI, errO) ==
  /\ atO => a.tr[o].phase \in {"invalid", "started"}
  /\ ~atO => ~A!Live(a, o)
  /\ atI => a.tr[i].phase \in {"invalid", "started"}
  /\ ~atI => ~A!Live(a, i)
  /\ a.tr[o].phase = "started" =>
       /\ a.tr[o].owner = t /\ a.tr[o].req = n
       /\ a.tr[o].parent = NoTracer /\ (a.tr[o].err <=> errO)
  /\ a.tr[i].phase = "started" =>
       /\ a.tr[i].owner = t /\ a.tr[i].req = n /\ ~a.tr[i].err
       /\ a.tr[i].parent = IF a.tr[o].phase = "started" THEN o ELSE NoTracer
  /\ a.top[t] = IF a.tr[i].phase = "started" THEN i
                ELSE IF a.tr[o].phase = "started" THEN o ELSE NoTracer

InBody == pc["server"] \in {"link", "async", "call", "spawn", "join", "await", "unwind", "ok", "fail"}
InCall == pc["server"] \in {"spawn", "join"}

MainTracers ==
  Nested(agent, served, "main", "outWeb", "custom", pc["main"] \in {"spawn", "join", "finish"}, FALSE,
         pc["main"] = "finish" /\ response.status = -1)
ServerTracers ==
  Nested(agent, served, "server", "inWeb", "outRemote", InBody, InCall, FALSE)
DbTracers ==
  Nested(agent, served, "db", "inLink", "dbReq", pc["db"] \in {"query", "fetch", "close", "throw"},
         pc["db"] = "fetch", FALSE)
DispTracers ==
  Nested(agent, served, "disp", "inRemote", "outMsg", pc["disp"] \in {"transform", "send", "return", "throw"},
         pc["disp"] = "send", FALSE)
NoOthers ==
  /\ ~A!Live(agent, "receive") /\ ~A!Live(agent, "process")
  /\ client => \A i \in RequestInfos : agent.info[i] \in {"live", "invalid"}
  /\ ~client => \A i \in RequestInfos : agent.info[i] # "live"
  /\ ~agent.misuse

Tracing == MainTracers /\ ServerTracers /\ DbTracers /\ DispTracers /\ NoOthers

\* The tags and links that are handed on are those of running tracers.
TagOf(s) == IF agent.tr[s].phase = "started" THEN <<s, served>> ELSE NoTag
TagsMatch ==
  /\ pc["main"] \in {"spawn", "join"} => hdrTag = TagOf("outWeb")
  /\ InBody /\ pc["server"] # "link" => link = TagOf("inWeb")
  /\ InCall => callTag = TagOf("outRemote")
  /\ agent.tr["inWeb"].phase = "started" => agent.tr["inWeb"].tag = hdrTag
  /\ agent.tr["inLink"].phase = "started" => agent.tr["inLink"].tag = link
  /\ agent.tr["inRemote"].phase = "started" => agent.tr["inRemote"].tag = callTag

\* The tag of a message is that of the request it bills.
BillTags ==
  \A k \in 1..Len(queue) : queue[k].tag \in {NoTag, <<"outMsg", queue[k].req>>}

\* Tracers are of this request or of earlier ones.
Dated == \A s \in Tracers : agent.tr[s].phase = "ended" => agent.tr[s].req <= served

\* A tracer that this request has ended was ended at the right place, with an
\* error if its operation failed.  This holds until the request is answered;
\* later, a cleanup takes its message out of the queue.
AfterMain == pc["main"] \in {"finish", "reply"}
AfterRpc == AfterMain \/ pc["server"] \in {"await", "unwind", "ok", "fail", "done"}
AfterDb == AfterMain \/ pc["server"] \in {"ok", "fail", "done"}
Trail(s, past, failed) ==
  Traced(s) /\ pc["main"] # "read" => past /\ (agent.tr[s].err <=> failed)
Trails ==
  /\ Trail("outWeb", pc["main"] = "reply", response.status = -1)
  /\ Trail("inWeb", AfterMain \/ pc["server"] = "done", response.status = 500)
  /\ Trail("outRemote", AfterRpc, rpcResult = "failed")
  /\ Trail("inRemote", AfterRpc \/ pc["disp"] = "done", rpcResult = "failed")
  /\ Trail("outMsg", AfterRpc \/ pc["disp"] \in {"return", "throw", "done"}, ~IsBilled)
  /\ Trail("inLink", AfterDb \/ pc["db"] = "done", dbResult = "failed")
  /\ Trail("dbReq", AfterDb \/ pc["db"] \in {"close", "throw", "done"},
           pc["db"] = "throw" \/ dbResult = "failed")

Traces == Tracing /\ TagsMatch /\ BillTags /\ Dated /\ Trails
IInv == TypeOK /\ Control /\ Traces

-----------------------------------------------------------------------------
(* Which handles the threads may use *)

\* The tracers that a request uses.
RequestTracers == {"outWeb", "inWeb", "inLink", "dbReq", "outRemote", "inRemote", "outMsg"}

LEMMA Typed ==
  ASSUME IInv
  PROVE  /\ agent \in A!AgentState /\ served \in Nat
         /\ hdrTag \in A!Tags /\ link \in A!Tags /\ callTag \in A!Tags
         /\ pc \in [Threads -> UNION {Labels[t] : t \in Threads}]
         /\ {"main", "server", "db", "disp"} = Threads
         /\ {"outWeb", "inWeb", "inLink", "dbReq", "outRemote", "inRemote", "outMsg"} = RequestTracers
         /\ {"outWeb", "inWeb", "inLink", "dbReq", "outRemote", "inRemote", "outMsg"} \subseteq Tracers
  BY DEF IInv, TypeOK, Threads, Tracers, RequestTracers

\* A handle that can be created, started, ended, marked with an error.
Vacant(s) == ~A!Live(agent, s)
Faultless(t, s) == Usable(agent, t, s) /\ (agent.tr[s].phase = "started" => ~agent.tr[s].err)

LEMMA MainReady ==
  ASSUME IInv
  PROVE  /\ pc["main"] = "send" => Vacant("outWeb")
         /\ pc["main"] \in {"spawn", "join"} => Faultless("main", "outWeb")
         /\ pc["main"] = "finish" => Usable(agent, "main", "outWeb")
  BY DEF IInv, Traces, Tracing, MainTracers, Nested, A!Live, Vacant, Faultless, Usable

LEMMA ServerReady ==
  ASSUME IInv
  PROVE  /\ pc["server"] = "begin" => Vacant("inWeb") /\ agent.info["webapp"] \in {"live", "invalid"}
         /\ pc["server"] = "call" => Vacant("outRemote")
         /\ pc["server"] \in {"spawn", "join"} => Faultless("server", "outRemote")
         /\ pc["server"] \in {"ok", "fail"} => Faultless("server", "inWeb")
  BY DEF IInv, Traces, Tracing, ServerTracers, Nested, NoOthers, InBody, InCall, A!Live,
         Vacant, Faultless, Usable, Control, Threading, RequestInfos

LEMMA DbReady ==
  ASSUME IInv
  PROVE  /\ pc["db"] = "begin" => Vacant("inLink")
         /\ pc["db"] = "query" => Vacant("dbReq") /\ agent.info["database"] \in {"live", "invalid"}
         /\ pc["db"] = "fetch" => Faultless("db", "dbReq")
         /\ pc["db"] \in {"close", "throw"} => Faultless("db", "inLink")
  BY DEF IInv, Traces, Tracing, DbTracers, Nested, NoOthers, A!Live,
         Vacant, Faultless, Usable, Control, Threading, RequestInfos

LEMMA DispReady ==
  ASSUME IInv
  PROVE  /\ pc["disp"] = "begin" => Vacant("inRemote")
         /\ pc["disp"] = "transform" => Vacant("outMsg") /\ agent.info["destination"] \in {"live", "invalid"}
         /\ pc["disp"] = "send" => Faultless("disp", "outMsg")
         /\ pc["disp"] \in {"return", "throw"} => Faultless("disp", "inRemote")
  BY DEF IInv, Traces, Tracing, DispTracers, Nested, NoOthers, A!Live,
         Vacant, Faultless, Usable, Control, Threading, RequestInfos

-----------------------------------------------------------------------------
(* What the steps do to the agent *)

LEMMA SendRequestEffect ==
  ASSUME IInv, SendRequest
  PROVE  /\ Opens(agent, agent', "main", "outWeb", served, NoTag)
         /\ hdrTag' = A!OutTag(agent', "main", "outWeb")
  BY Typed, MainReady, OpenCreate DEF SendRequest, Step, Vacant

\* Both failures of send_request.
LEMMA GiveUpEffect ==
  ASSUME IInv, pc["main"] \in {"spawn", "join"}, GiveUp
  PROVE  Marks(agent, agent', "main", "outWeb")
  BY Typed, MainReady, Mark DEF GiveUp, Faultless

LEMMA SpawnServerFailsEffect ==
  ASSUME IInv, SpawnServerFails
  PROVE  Marks(agent, agent', "main", "outWeb") /\ response' = Unsent
  BY GiveUpEffect DEF SpawnServerFails, Step, GiveUp

LEMMA JoinServerEffect ==
  ASSUME IInv, JoinServer
  PROVE  \/ response.status < 0 /\ response' = Unsent /\ Marks(agent, agent', "main", "outWeb")
         \/ ~(response.status < 0) /\ response' = response /\ agent' = agent
<1>1. pc["main"] = "join"
  BY DEF JoinServer, Join
<1>2. CASE response.status < 0
  BY <1>1, <1>2, GiveUpEffect DEF JoinServer, GiveUp
<1>3. CASE ~(response.status < 0)
  BY <1>1, <1>3, Typed, MainReady, SetCall DEF JoinServer, Faultless, Usable
<1> QED
  BY <1>2, <1>3

LEMMA FinishRequestEffect ==
  ASSUME IInv, FinishRequest
  PROVE  Closes(agent, agent', "main", "outWeb", agent.tr["outWeb"].err)
  BY Typed, MainReady, CloseEnd DEF FinishRequest, Step

\* Nothing but the info objects of the request differs.
SameTracers(a, b) ==
  /\ b \in A!AgentState
  /\ b.tr = a.tr /\ b.top = a.top /\ b.misuse = a.misuse
  /\ b.initialized = a.initialized /\ b.info["billing"] = a.info["billing"]

LEMMA ReadRequestEffect ==
  ASSUME IInv, NEW i \in Inputs, ReadRequest(i)
  PROVE  SameTracers(agent, agent') /\ \A k \in RequestInfos : agent'.info[k] \in {"live", "invalid"}
<1> DEFINE a1 == A!CreateInfo(agent, "database")
           a2 == A!CreateInfo(a1, "destination")
           a3 == A!CreateInfo(a2, "webapp")
<1>1. \A k \in RequestInfos : agent.info[k] # "live" /\ k \in Infos
  BY DEF ReadRequest, Step, IInv, Control, Threading, Traces, Tracing, NoOthers, Infos
<1>2. agent \in A!AgentState
  BY Typed
<1>3. Informs(agent, a1, "database") /\ a1.info["database"] \in {"live", "invalid"}
  BY <1>1, <1>2, CreateInfoCall DEF RequestInfos
<1>4. agent' = a3
  BY DEF ReadRequest
<1> HIDE DEF a1
<1>5. Informs(a1, a2, "destination") /\ a2.info["destination"] \in {"live", "invalid"}
  BY <1>1, <1>3, CreateInfoCall DEF RequestInfos, Informs
<1> HIDE DEF a2
<1>6. Informs(a2, a3, "webapp") /\ a3.info["webapp"] \in {"live", "invalid"}
  BY <1>1, <1>3, <1>5, CreateInfoCall DEF RequestInfos, Informs
<1> HIDE DEF a3
<1> QED
  BY <1>1, <1>3, <1>4, <1>5, <1>6 DEF RequestInfos, Infos, Informs, SameTracers

LEMMA ReplyEffect ==
  ASSUME IInv, Reply
  PROVE  SameTracers(agent, agent') /\ \A k \in RequestInfos : agent'.info[k] # "live"
<1> DEFINE a1 == A!DeleteInfo(agent, "webapp")
           a2 == A!DeleteInfo(a1, "destination")
           a3 == A!DeleteInfo(a2, "database")
<1>1. \A k \in RequestInfos : agent.info[k] \in {"live", "invalid"} /\ k \in Infos
  BY DEF Reply, Step, IInv, Control, Threading, Traces, Tracing, NoOthers, Infos
<1>2. agent \in A!AgentState
  BY Typed
<1>3. Informs(agent, a1, "webapp") /\ a1.info["webapp"] # "live"
  BY <1>1, <1>2, DeleteInfoCall DEF RequestInfos
<1>4. agent' = a3
  BY DEF Reply
<1> HIDE DEF a1
<1>5. Informs(a1, a2, "destination") /\ a2.info["destination"] # "live"
  BY <1>1, <1>3, DeleteInfoCall DEF RequestInfos, Informs
<1> HIDE DEF a2
<1>6. Informs(a2, a3, "database") /\ a3.info["database"] # "live"
  BY <1>1, <1>3, <1>5, DeleteInfoCall DEF RequestInfos, Informs
<1> HIDE DEF a3
<1> QED
  BY <1>1, <1>3, <1>4, <1>5, <1>6 DEF RequestInfos, Infos, Informs, SameTracers

LEMMA ServerBeginEffect ==
  ASSUME IInv, ServerBegin
  PROVE  Opens(agent, agent', "server", "inWeb", served, hdrTag)
<1> DEFINE a1 == A!CreateFor(agent, "server", "inWeb", served, "webapp")
           a2 == IF hdrTag # NoTag THEN A!SetTag(a1, "server", "inWeb", hdrTag) ELSE a1
<1>1. pc["server"] = "begin" /\ agent' = A!Start(a2, "server", "inWeb")
  BY DEF ServerBegin, Step
<1>2. /\ Touches(agent, a1, "server", "inWeb") /\ a1.top["server"] = agent.top["server"]
      /\ a1.tr["inWeb"].phase = "invalid" \/ Created(a1.tr["inWeb"], "server", served)
  BY <1>1, Typed, ServerReady, CreateForCall DEF Vacant
<1> HIDE DEF a1
<1>3. CASE hdrTag # NoTag
  BY <1>1, <1>2, <1>3, Typed, OpenTagged
<1>4. CASE hdrTag = NoTag
  BY <1>1, <1>2, <1>4, Typed, StartAfter DEF Created
<1> QED
  BY <1>3, <1>4

LEMMA CaptureLinkEffect ==
  ASSUME IInv, CaptureLink
  PROVE  link' = TagOf("inWeb")
  BY DEF IInv, Traces, Tracing, ServerTracers, Nested, InBody, InCall, CaptureLink, Step, TagOf,
         A!Link, A!Live, NoTracer

LEMMA CallRemoteEffect ==
  ASSUME IInv, CallRemote
  PROVE  /\ Opens(agent, agent', "server", "outRemote", served, NoTag)
         /\ callTag' = A!OutTag(agent', "server", "outRemote")
  BY Typed, ServerReady, OpenCreate DEF CallRemote, Step, Vacant

LEMMA SpawnDispatcherFailsEffect ==
  ASSUME IInv, SpawnDispatcherFails
  PROVE  Closes(agent, agent', "server", "outRemote", TRUE)
  BY Typed, ServerReady, CloseFail DEF SpawnDispatcherFails, Step, Faultless

LEMMA JoinDispatcherEffect ==
  ASSUME IInv, JoinDispatcher
  PROVE  \/ rpcResult = "ok" /\ Closes(agent, agent', "server", "outRemote", agent.tr["outRemote"].err)
         \/ rpcResult = "failed" /\ Closes(agent, agent', "server", "outRemote", TRUE)
<1>1. pc["server"] = "join"
  BY DEF JoinDispatcher, Join
<1>2. CASE rpcResult = "ok"
  BY <1>1, <1>2, Typed, ServerReady, CloseEnd DEF JoinDispatcher, Faultless
<1>3. CASE rpcResult = "failed"
  BY <1>1, <1>3, Typed, ServerReady, CloseFail DEF JoinDispatcher, Faultless
<1> QED
  BY <1>2, <1>3 DEF JoinDispatcher

LEMMA ServerOkEffect ==
  ASSUME IInv, ServerOk
  PROVE  Closes(agent, agent', "server", "inWeb", agent.tr["inWeb"].err)
  BY Typed, ServerReady, CloseSetEnd DEF ServerOk, Step, Faultless

LEMMA ServerFailEffect ==
  ASSUME IInv, ServerFail
  PROVE  Closes(agent, agent', "server", "inWeb", TRUE)
  BY Typed, ServerReady, CloseErrorSetEnd DEF ServerFail, Step, Faultless

LEMMA DbOpenEffect ==
  ASSUME IInv
  PROVE  /\ DbBegin => Opens(agent, agent', "db", "inLink", served, link)
         /\ DbQuery => Opens(agent, agent', "db", "dbReq", served, NoTag)
<1>1. ASSUME DbBegin PROVE Opens(agent, agent', "db", "inLink", served, link)
  BY <1>1, Typed, DbReady, OpenLinked DEF DbBegin, Step, Vacant
<1>2. ASSUME DbQuery PROVE Opens(agent, agent', "db", "dbReq", served, NoTag)
  BY <1>2, Typed, DbReady, OpenFor DEF DbQuery, Step, Vacant
<1> QED
  BY <1>1, <1>2

LEMMA DbCloseEffect ==
  ASSUME IInv
  PROVE  /\ DbFetch => Closes(agent, agent', "db", "dbReq", agent.tr["dbReq"].err)
         /\ DbFetchFails => Closes(agent, agent', "db", "dbReq", TRUE)
         /\ DbClose => Closes(agent, agent', "db", "inLink", agent.tr["inLink"].err)
         /\ DbThrow => Closes(agent, agent', "db", "inLink", TRUE)
<1>1. ASSUME DbFetch PROVE Closes(agent, agent', "db", "dbReq", agent.tr["dbReq"].err)
  BY <1>1, Typed, DbReady, CloseSetEnd DEF DbFetch, Step, Faultless
<1>2. ASSUME DbFetchFails PROVE Closes(agent, agent', "db", "dbReq", TRUE)
  BY <1>2, Typed, DbReady, CloseFail DEF DbFetchFails, Step, Faultless
<1>3. ASSUME DbClose PROVE Closes(agent, agent', "db", "inLink", agent.tr["inLink"].err)
  BY <1>3, Typed, DbReady, CloseEnd DEF DbClose, Step, Faultless
<1>4. ASSUME DbThrow PROVE Closes(agent, agent', "db", "inLink", TRUE)
  BY <1>4, Typed, DbReady, CloseFail DEF DbThrow, Step, Faultless
<1> QED
  BY <1>1, <1>2, <1>3, <1>4

LEMMA DispOpenEffect ==
  ASSUME IInv
  PROVE  /\ DispBegin => Opens(agent, agent', "disp", "inRemote", served, callTag)
         /\ Transform => Opens(agent, agent', "disp", "outMsg", served, NoTag)
<1>1. ASSUME DispBegin PROVE Opens(agent, agent', "disp", "inRemote", served, callTag)
  <2> DEFINE a1 == A!NewTracer(agent, "disp", "inRemote", served, TRUE)
  <2>1. /\ Touches(agent, a1, "disp", "inRemote") /\ a1.top["disp"] = agent.top["disp"]
        /\ a1.tr["inRemote"].phase = "invalid" \/ Created(a1.tr["inRemote"], "disp", served)
    BY <1>1, Typed, DispReady, NewTracerCall DEF DispBegin, Step, Vacant
  <2>2. agent' = A!Start(A!SetTag(a1, "disp", "inRemote", callTag), "disp", "inRemote")
    BY <1>1 DEF DispBegin, A!Create
  <2> HIDE DEF a1
  <2> QED
    BY <2>1, <2>2, Typed, OpenTagged
<1>2. ASSUME Transform PROVE Opens(agent, agent', "disp", "outMsg", served, NoTag)
  BY <1>2, Typed, DispReady, OpenFor DEF Transform, Step, Vacant
<1> QED
  BY <1>1, <1>2

LEMMA DispCloseEffect ==
  ASSUME IInv
  PROVE  /\ SendMessage => Closes(agent, agent', "disp", "outMsg", agent.tr["outMsg"].err)
         /\ SendMessageThrows => Closes(agent, agent', "disp", "outMsg", TRUE)
         /\ DispReturn => Closes(agent, agent', "disp", "inRemote", agent.tr["inRemote"].err)
         /\ DispThrow => Closes(agent, agent', "disp", "inRemote", TRUE)
<1>1. ASSUME SendMessage PROVE Closes(agent, agent', "disp", "outMsg", agent.tr["outMsg"].err)
  BY <1>1, Typed, DispReady, CloseSetEnd DEF SendMessage, Step, Faultless
<1>2. ASSUME SendMessageThrows PROVE Closes(agent, agent', "disp", "outMsg", TRUE)
  BY <1>2, Typed, DispReady, CloseFail DEF SendMessageThrows, Step, Faultless
<1>3. ASSUME DispReturn PROVE Closes(agent, agent', "disp", "inRemote", agent.tr["inRemote"].err)
  BY <1>3, Typed, DispReady, CloseEnd DEF DispReturn, Step, Faultless
<1>4. ASSUME DispThrow PROVE Closes(agent, agent', "disp", "inRemote", TRUE)
  BY <1>4, Typed, DispReady, CloseFail DEF DispThrow, Step, Faultless
<1> QED
  BY <1>1, <1>2, <1>3, <1>4

-----------------------------------------------------------------------------
(* The invariant *)

\* The agent is as initialized as before, and so is what main uses in a cleanup.
SparesCleanup ==
  /\ agent'.initialized = agent.initialized /\ agent'.info["billing"] = agent.info["billing"]
  /\ \A s \in {"custom", "receive", "process"} : agent'.tr[s] = agent.tr[s]

\* Request numbers only come from the request at hand.
LEMMA DatedStep ==
  ASSUME IInv, served' = served, NEW t \in Threads, NEW k \in RequestTracers, NEW e, NEW tag,
         \/ Opens(agent, agent', t, k, served, tag) \/ Marks(agent, agent', t, k)
         \/ Closes(agent, agent', t, k, e) \/ SameTracers(agent, agent')
  PROVE  Dated' /\ agent' \in A!AgentState /\ SparesCleanup
<1>1. agent.tr[k].phase = "started" => agent.tr[k].req = served
  BY DEF IInv, Traces, Tracing, MainTracers, ServerTracers, DbTracers, DispTracers, NoOthers, Nested,
     A!Live, RequestTracers
<1>2. Dated /\ served \in Nat
  BY Typed DEF IInv, Traces
<1>3. Dated' /\ agent' \in A!AgentState
  BY <1>1, <1>2 DEF Dated, Opens, Marks, Closes, Touches, SameTracers
<1>4. {"custom", "receive", "process"} \subseteq Tracers \ {k}
  BY DEF RequestTracers, Tracers
<1>5. SparesCleanup
  BY <1>4 DEF SparesCleanup, Opens, Marks, Closes, Touches, SameTracers
<1> QED
  BY <1>3, <1>5

\* What a step of thread t with tracer s leaves alone, one by one.
Elsewhere(a, b, t, s) ==
  /\ s # "outWeb" => b.tr["outWeb"] = a.tr["outWeb"]
  /\ s # "inWeb" => b.tr["inWeb"] = a.tr["inWeb"]
  /\ s # "inLink" => b.tr["inLink"] = a.tr["inLink"]
  /\ s # "dbReq" => b.tr["dbReq"] = a.tr["dbReq"]
  /\ s # "outRemote" => b.tr["outRemote"] = a.tr["outRemote"]
  /\ s # "inRemote" => b.tr["inRemote"] = a.tr["inRemote"]
  /\ s # "outMsg" => b.tr["outMsg"] = a.tr["outMsg"]
  /\ s # "custom" => b.tr["custom"] = a.tr["custom"]
  /\ s # "receive" => b.tr["receive"] = a.tr["receive"]
  /\ s # "process" => b.tr["process"] = a.tr["process"]
  /\ t # "main" => b.top["main"] = a.top["main"]
  /\ t # "server" => b.top["server"] = a.top["server"]
  /\ t # "db" => b.top["db"] = a.top["db"]
  /\ t # "disp" => b.top["disp"] = a.top["disp"]
  /\ b.info = a.info /\ b.misuse = a.misuse

LEMMA TouchesElsewhere ==
  ASSUME NEW a, NEW b, NEW t \in Threads, NEW s \in Tracers, Touches(a, b, t, s)
  PROVE  Elsewhere(a, b, t, s)
  BY DEF Touches, Elsewhere, Threads, Tracers

\* The tracers of a thread that does not move.
LEMMA MainElsewhere ==
  ASSUME MainTracers, UNCHANGED <<served, response>>, pc'["main"] = pc["main"],
         agent'.tr["outWeb"] = agent.tr["outWeb"], agent'.tr["custom"] = agent.tr["custom"],
         agent'.top["main"] = agent.top["main"]
  PROVE  MainTracers'
  BY DEF MainTracers, Nested, A!Live

LEMMA ServerElsewhere ==
  ASSUME ServerTracers, UNCHANGED served, pc'["server"] = pc["server"],
         agent'.tr["inWeb"] = agent.tr["inWeb"], agent'.tr["outRemote"] = agent.tr["outRemote"],
         agent'.top["server"] = agent.top["server"]
  PROVE  ServerTracers'
  BY DEF ServerTracers, Nested, A!Live, InBody, InCall

LEMMA DbElsewhere ==
  ASSUME DbTracers, UNCHANGED served, pc'["db"] = pc["db"],
         agent'.tr["inLink"] = agent.tr["inLink"], agent'.tr["dbReq"] = agent.tr["dbReq"],
         agent'.top["db"] = agent.top["db"]
  PROVE  DbTracers'
  BY DEF DbTracers, Nested, A!Live

LEMMA DispElsewhere ==
  ASSUME DispTracers, UNCHANGED served, pc'["disp"] = pc["disp"],
         agent'.tr["inRemote"] = agent.tr["inRemote"], agent'.tr["outMsg"] = agent.tr["outMsg"],
         agent'.top["disp"] = agent.top["disp"]
  PROVE  DispTracers'
  BY DEF DispTracers, Nested, A!Live

\* What SpawnServer and the like change: no tracer, only where threads stand.
LEMMA QuietTraces ==
  ASSUME IInv,
         \/ SpawnServer \/ ServerTransportFails \/ CaptureLink \/ StartAsync \/ StartAsyncFails
         \/ SpawnDispatcher \/ AwaitFuture \/ UnwindFuture \/ DbQueryFails \/ TransformThrows
  PROVE  Tracing' /\ TagsMatch' /\ Trails'
<1> USE DEF Step, Spawn, Join, requestVars, tagVars, resultVars, Threads
<1>1. pc \in [Threads -> UNION {Labels[t] : t \in Threads}] /\ Threading
  BY DEF IInv, TypeOK, Control
<1>2. Tracing'
  <2>1. Tracing
    BY DEF IInv, Traces
  <2>2. UNCHANGED <<agent, served, client>>
    BY DEF SpawnServer, ServerTransportFails, CaptureLink, StartAsync, StartAsyncFails, SpawnDispatcher,
       AwaitFuture, UnwindFuture, DbQueryFails, TransformThrows
  <2>3. NoOthers'
    BY <2>1, <2>2 DEF Tracing, NoOthers, A!Live
  <2>4. MainTracers'
    BY <1>1, <2>1, <2>2 DEF Tracing, MainTracers, Nested, A!Live, Threading, SpawnServer, ServerTransportFails,
       CaptureLink, StartAsync, StartAsyncFails, SpawnDispatcher, AwaitFuture, UnwindFuture, DbQueryFails,
       TransformThrows
  <2>5. ServerTracers'
    BY <1>1, <2>1, <2>2 DEF Tracing, ServerTracers, Nested, A!Live, InBody, InCall, Threading, SpawnServer,
       ServerTransportFails, CaptureLink, StartAsync, StartAsyncFails, SpawnDispatcher, AwaitFuture,
       UnwindFuture, DbQueryFails, TransformThrows
  <2>6. DbTracers'
    BY <1>1, <2>1, <2>2 DEF Tracing, DbTracers, Nested, A!Live, SpawnServer, ServerTransportFails,
       CaptureLink, StartAsync, StartAsyncFails, SpawnDispatcher, AwaitFuture, UnwindFuture, DbQueryFails,
       TransformThrows
  <2>7. DispTracers'
    BY <1>1, <2>1, <2>2 DEF Tracing, DispTracers, Nested, A!Live, SpawnServer, ServerTransportFails,
       CaptureLink, StartAsync, StartAsyncFails, SpawnDispatcher, AwaitFuture, UnwindFuture, DbQueryFails,
       TransformThrows
  <2> QED
    BY <2>3, <2>4, <2>5, <2>6, <2>7 DEF Tracing
<1>3. TagsMatch'
  <2>1. TagsMatch
    BY DEF IInv, Traces
  <2>2. CASE CaptureLink
    <3>1. DbTracers /\ (pc["db"] # "idle" => pc["server"] \in {"call", "spawn", "join", "await", "unwind"})
      BY <1>1 DEF IInv, Traces, Tracing, Threading
    <3> QED
      BY <1>1, <2>1, <2>2, <3>1, CaptureLinkEffect DEF CaptureLink, TagsMatch, TagOf, InBody, InCall,
         DbTracers, Nested, A!Live
  <2>3. CASE ~CaptureLink
    BY <1>1, <2>1, <2>3 DEF TagsMatch, TagOf, InBody, InCall, SpawnServer, ServerTransportFails, StartAsync,
       StartAsyncFails, SpawnDispatcher, AwaitFuture, UnwindFuture, DbQueryFails, TransformThrows
  <2> QED
    BY <2>2, <2>3
<1>4. Trails'
  <2>1. Trails /\ DbOutcome /\ ServerOutcome
    BY DEF IInv, Traces, Control
  <2> QED
    BY <1>1, <2>1, BilledFrame DEF Trails, Trail, Traced, AfterMain, AfterRpc, AfterDb, Threading, DbOutcome,
       ServerOutcome, SpawnServer, ServerTransportFails, CaptureLink, StartAsync, StartAsyncFails,
       SpawnDispatcher, AwaitFuture, UnwindFuture, DbQueryFails, TransformThrows
<1> QED
  BY <1>2, <1>3, <1>4

LEMMA MainTraces ==
  ASSUME IInv, MainStep
  PROVE  Tracing' /\ TagsMatch' /\ Trails'
<1>a. /\ pc \in [Threads -> UNION {Labels[t] : t \in Threads}]
      /\ Tracing /\ Threading
  BY DEF IInv, Traces, TypeOK, Control
<1>b. TagsMatch
  BY DEF IInv, Traces
<1>c. Trails /\ DbOutcome /\ DispOutcome /\ ServerOutcome /\ MainOutcome
  BY DEF IInv, Traces, Control
<1>1. CASE SendRequest
  <2>1. /\ pc["main"] = "send" /\ pc' = [pc EXCEPT !["main"] = "spawn"]
        /\ UNCHANGED <<client, served, input, link, callTag, dbResult, rpcResult, response, queue>>
    BY <1>1 DEF SendRequest, Step, requestVars, tagVars, resultVars
  <2>2. Opens(agent, agent', "main", "outWeb", served, NoTag) /\ hdrTag' = A!OutTag(agent', "main", "outWeb")
    BY <1>1, SendRequestEffect DEF SendRequest
  <2>a. Elsewhere(agent, agent', "main", "outWeb")
    BY <2>2, Typed, TouchesElsewhere DEF Opens
  <2>b. MainTracers' /\ NoOthers'
    BY <1>a, <2>1, <2>2, <2>a DEF Tracing, MainTracers, NoOthers, Nested, A!Live, Threads, Elsewhere,
       Opens, Threading, RequestInfos, Unsent, Answer
  <2>c. ServerTracers' /\ DbTracers' /\ DispTracers'
    BY <1>a, <2>1, <2>2, <2>a, ServerElsewhere, DbElsewhere, DispElsewhere DEF Tracing, Threads, Elsewhere
  <2>d. TagsMatch'
    BY <1>a, <1>b, <2>1, <2>2, <2>a DEF TagsMatch, TagOf, InBody, InCall, Threads, Elsewhere, Opens,
       A!OutTag, A!Live, Tracing, ServerTracers, Nested, Threading
  <2>e. Trails'
    BY <1>a, <1>c, <2>1, <2>2, <2>a, BilledFrame DEF Trails, Trail, Traced, AfterMain, AfterRpc, AfterDb, Threads,
       Elsewhere, Opens, Threading, DbOutcome, DispOutcome, ServerOutcome, MainOutcome, Settled, Unsent, Answer
  <2> QED
    BY <2>b, <2>c, <2>d, <2>e DEF Tracing
<1>2. CASE SpawnServerFails
  <2>1. /\ pc["main"] = "spawn" /\ pc' = [pc EXCEPT !["main"] = "finish"]
        /\ UNCHANGED <<client, served, input, hdrTag, link, callTag, dbResult, rpcResult, queue>>
    BY <1>2 DEF SpawnServerFails, Step, requestVars, tagVars, resultVars
  <2>2. Marks(agent, agent', "main", "outWeb") /\ response' = Unsent
    BY <1>2, SpawnServerFailsEffect DEF SpawnServerFails
  <2>a. Elsewhere(agent, agent', "main", "outWeb")
    BY <2>2, Typed, TouchesElsewhere DEF Marks
  <2>b. MainTracers' /\ NoOthers'
    BY <1>a, <2>1, <2>2, <2>a DEF Tracing, MainTracers, NoOthers, Nested, A!Live, Threads, Elsewhere,
       Marks, Threading, RequestInfos, Unsent, Answer
  <2>c. ServerTracers' /\ DbTracers' /\ DispTracers'
    BY <1>a, <2>1, <2>2, <2>a, ServerElsewhere, DbElsewhere, DispElsewhere DEF Tracing, Threads, Elsewhere
  <2>d. TagsMatch'
    BY <1>a, <1>b, <2>1, <2>2, <2>a DEF TagsMatch, TagOf, InBody, InCall, Threads, Elsewhere, Marks
  <2>e. Trails'
    BY <1>a, <1>c, <2>1, <2>2, <2>a, BilledFrame DEF Trails, Trail, Traced, AfterMain, AfterRpc, AfterDb, Threads,
       Elsewhere, Marks, Threading, DbOutcome, DispOutcome, ServerOutcome, MainOutcome, Settled, Unsent, Answer
  <2> QED
    BY <2>b, <2>c, <2>d, <2>e DEF Tracing
<1>3. CASE JoinServer
  <2>1. /\ pc["main"] = "join" /\ pc["server"] = "done"
        /\ pc' = [pc EXCEPT !["main"] = "finish", !["server"] = "idle"]
        /\ UNCHANGED <<client, served, input, hdrTag, link, callTag, dbResult, rpcResult, queue>>
    BY <1>3 DEF JoinServer, Join, requestVars, tagVars
  <2>2. /\ \/ /\ response.status < 0 /\ response' = Unsent
              /\ Marks(agent, agent', "main", "outWeb")
           \/ ~(response.status < 0) /\ response' = response /\ agent' = agent
    BY <1>3, JoinServerEffect
  <2>a. Elsewhere(agent, agent', "main", "outWeb")
    <3>1. CASE agent' = agent
      BY <3>1 DEF Elsewhere
    <3>2. CASE Marks(agent, agent', "main", "outWeb")
      BY <3>2, Typed, TouchesElsewhere DEF Marks
    <3> QED
      BY <2>2, <3>1, <3>2
  <2>b. MainTracers' /\ NoOthers'
    BY <1>a, <2>1, <2>2, <2>a DEF Tracing, MainTracers, NoOthers, Nested, A!Live, Threads, Elsewhere, Marks, Unsent, Answer
  <2>c. ServerTracers' /\ DbTracers' /\ DispTracers'
    <3>1. ServerTracers'
      BY <1>a, <2>1, <2>a DEF Tracing, ServerTracers, Nested, A!Live, InBody, InCall, Threads, Elsewhere
    <3> QED
      BY <1>a, <2>1, <2>a, <3>1, DbElsewhere, DispElsewhere DEF Tracing, Threads, Elsewhere
  <2>d. TagsMatch'
    BY <1>a, <1>b, <2>1, <2>2, <2>a DEF TagsMatch, TagOf, InBody, InCall, Threads, Elsewhere, Marks
  <2>e. Trails'
    BY <1>a, <1>c, <2>1, <2>2, <2>a, BilledFrame DEF Trails, Trail, Traced, AfterMain, AfterRpc, AfterDb, Threads,
       Elsewhere, Marks, Threading, DbOutcome, DispOutcome, ServerOutcome, MainOutcome, Settled, Unsent, Answer
  <2> QED
    BY <2>b, <2>c, <2>d, <2>e DEF Tracing
<1>4. CASE FinishRequest
  <2>1. /\ pc["main"] = "finish" /\ pc' = [pc EXCEPT !["main"] = "reply"]
        /\ UNCHANGED <<client, served, input, hdrTag, link, callTag, dbResult, rpcResult, response, queue>>
    BY <1>4 DEF FinishRequest, Step, requestVars, tagVars, resultVars
  <2>2. Closes(agent, agent', "main", "outWeb", agent.tr["outWeb"].err)
    BY <1>4, FinishRequestEffect DEF FinishRequest
  <2>a. Elsewhere(agent, agent', "main", "outWeb")
    BY <2>2, Typed, TouchesElsewhere DEF Closes
  <2>b. MainTracers' /\ NoOthers'
    BY <1>a, <2>1, <2>2, <2>a DEF Tracing, MainTracers, NoOthers, Nested, A!Live, Threads, Elsewhere,
       Closes, Threading, RequestInfos, Unsent, Answer
  <2>c. ServerTracers' /\ DbTracers' /\ DispTracers'
    BY <1>a, <2>1, <2>2, <2>a, ServerElsewhere, DbElsewhere, DispElsewhere DEF Tracing, Threads, Elsewhere
  <2>d. TagsMatch'
    BY <1>a, <1>b, <2>1, <2>2, <2>a DEF TagsMatch, TagOf, InBody, InCall, Threads, Elsewhere, Closes
  <2>e. Trails'
    BY <1>a, <1>c, <2>1, <2>2, <2>a, BilledFrame DEF Trails, Trail, Traced, AfterMain, AfterRpc, AfterDb, Threads,
       Elsewhere, Closes, Threading, DbOutcome, DispOutcome, ServerOutcome, MainOutcome, Settled, Unsent, Answer,
       Tracing, MainTracers, Nested, A!Live
  <2> QED
    BY <2>b, <2>c, <2>d, <2>e DEF Tracing
<1>5. CASE Reply
  <2>1. /\ pc["main"] = "reply" /\ pc' = [pc EXCEPT !["main"] = "read"] /\ client' = FALSE
        /\ UNCHANGED <<served, input, hdrTag, link, callTag, dbResult, rpcResult, response, queue>>
    BY <1>5 DEF Reply, Step, tagVars, resultVars
  <2>2. /\ agent'.tr = agent.tr /\ agent'.top = agent.top /\ agent'.misuse = agent.misuse
        /\ \A k \in RequestInfos : agent'.info[k] # "live"
    BY <1>5, ReplyEffect DEF SameTracers
  <2>b. MainTracers' /\ NoOthers'
    BY <1>a, <2>1, <2>2 DEF Tracing, MainTracers, NoOthers, Nested, A!Live, Threads
  <2>c. ServerTracers' /\ DbTracers' /\ DispTracers'
    BY <1>a, <2>1, <2>2, ServerElsewhere, DbElsewhere, DispElsewhere DEF Tracing, Threads
  <2>d. TagsMatch'
    BY <1>a, <1>b, <2>1, <2>2 DEF TagsMatch, TagOf, InBody, InCall, Threads
  <2>e. Trails'
    BY <1>a, <1>c, <2>1, <2>2, BilledFrame DEF Trails, Trail, Traced, AfterMain, AfterRpc, AfterDb, Threads
  <2> QED
    BY <2>b, <2>c, <2>d, <2>e DEF Tracing
<1> QED
  BY <1>1, <1>2, <1>3, <1>4, <1>5, QuietTraces DEF MainStep

LEMMA ServerTraces ==
  ASSUME IInv, ServerStep
  PROVE  Tracing' /\ TagsMatch' /\ Trails'
<1>a. /\ pc \in [Threads -> UNION {Labels[t] : t \in Threads}]
      /\ Tracing /\ Threading
  BY DEF IInv, Traces, TypeOK, Control
<1>b. TagsMatch
  BY DEF IInv, Traces
<1>c. Trails /\ DbOutcome /\ DispOutcome /\ ServerOutcome /\ MainOutcome
  BY DEF IInv, Traces, Control
<1>1. CASE ServerBegin
  <2>1. /\ pc["server"] = "begin" /\ pc' = [pc EXCEPT !["server"] = "link"]
        /\ UNCHANGED <<client, served, input, hdrTag, link, callTag, dbResult, rpcResult, response, queue>>
    BY <1>1 DEF ServerBegin, Step, requestVars, tagVars, resultVars
  <2>2. Opens(agent, agent', "server", "inWeb", served, hdrTag)
    BY <1>1, ServerBeginEffect DEF ServerBegin
  <2>a. Elsewhere(agent, agent', "server", "inWeb")
    BY <2>2, Typed, TouchesElsewhere DEF Opens
  <2>b. ServerTracers' /\ NoOthers'
    BY <1>a, <2>1, <2>2, <2>a DEF Tracing, ServerTracers, NoOthers, Nested, A!Live, InBody, InCall, Threads, Elsewhere,
       Opens, Threading, RequestInfos, Unsent, Answer
  <2>c. MainTracers' /\ DbTracers' /\ DispTracers'
    BY <1>a, <2>1, <2>2, <2>a, MainElsewhere, DbElsewhere, DispElsewhere DEF Tracing, Threads, Elsewhere
  <2>d. TagsMatch'
    BY <1>a, <1>b, <2>1, <2>2, <2>a DEF TagsMatch, TagOf, InBody, InCall, Threads, Elsewhere, Opens
  <2>e. Trails'
    BY <1>a, <1>c, <2>1, <2>2, <2>a, BilledFrame DEF Trails, Trail, Traced, AfterMain, AfterRpc, AfterDb, Threads,
       Elsewhere, Opens, Threading, DbOutcome, DispOutcome, ServerOutcome, MainOutcome, Settled, Unsent, Answer
  <2> QED
    BY <2>b, <2>c, <2>d, <2>e DEF Tracing
<1>2. CASE CallRemote
  <2>1. /\ pc["server"] = "call" /\ pc' = [pc EXCEPT !["server"] = "spawn"]
        /\ UNCHANGED <<client, served, input, hdrTag, link, dbResult, response, queue>>
    BY <1>2 DEF CallRemote, Step, requestVars, tagVars, resultVars
  <2>2. Opens(agent, agent', "server", "outRemote", served, NoTag) /\ callTag' = A!OutTag(agent', "server", "outRemote")
    BY <1>2, CallRemoteEffect DEF CallRemote
  <2>a. Elsewhere(agent, agent', "server", "outRemote")
    BY <2>2, Typed, TouchesElsewhere DEF Opens
  <2>b. ServerTracers' /\ NoOthers'
    BY <1>a, <2>1, <2>2, <2>a DEF Tracing, ServerTracers, NoOthers, Nested, A!Live, InBody, InCall, Threads, Elsewhere,
       Opens, Threading, RequestInfos, Unsent, Answer
  <2>c. MainTracers' /\ DbTracers' /\ DispTracers'
    BY <1>a, <2>1, <2>2, <2>a, MainElsewhere, DbElsewhere, DispElsewhere DEF Tracing, Threads, Elsewhere
  <2>d. TagsMatch'
    BY <1>a, <1>b, <2>1, <2>2, <2>a DEF TagsMatch, TagOf, InBody, InCall, Threads, Elsewhere, Opens,
       A!OutTag, A!Live, Tracing, DispTracers, Nested, Threading
  <2>e. Trails'
    BY <1>a, <1>c, <2>1, <2>2, <2>a, BilledFrame DEF Trails, Trail, Traced, AfterMain, AfterRpc, AfterDb, Threads,
       Elsewhere, Opens, Threading, DbOutcome, DispOutcome, ServerOutcome, MainOutcome, Settled, Unsent, Answer
  <2> QED
    BY <2>b, <2>c, <2>d, <2>e DEF Tracing
<1>3. CASE SpawnDispatcherFails
  <2>1. /\ pc["server"] = "spawn" /\ pc' = [pc EXCEPT !["server"] = "unwind"]
        /\ UNCHANGED <<client, served, input, hdrTag, link, callTag, dbResult, response, queue>>
    BY <1>3 DEF SpawnDispatcherFails, Step, requestVars, tagVars, resultVars
  <2>2. Closes(agent, agent', "server", "outRemote", TRUE) /\ rpcResult' = "failed"
    BY <1>3, SpawnDispatcherFailsEffect DEF SpawnDispatcherFails
  <2>a. Elsewhere(agent, agent', "server", "outRemote")
    BY <2>2, Typed, TouchesElsewhere DEF Closes
  <2>b. ServerTracers' /\ NoOthers'
    BY <1>a, <2>1, <2>2, <2>a DEF Tracing, ServerTracers, NoOthers, Nested, A!Live, InBody, InCall, Threads, Elsewhere,
       Closes, Threading, RequestInfos, Unsent, Answer
  <2>c. MainTracers' /\ DbTracers' /\ DispTracers'
    BY <1>a, <2>1, <2>2, <2>a, MainElsewhere, DbElsewhere, DispElsewhere DEF Tracing, Threads, Elsewhere
  <2>d. TagsMatch'
    BY <1>a, <1>b, <2>1, <2>2, <2>a DEF TagsMatch, TagOf, InBody, InCall, Threads, Elsewhere, Closes
  <2>e. Trails'
    BY <1>a, <1>c, <2>1, <2>2, <2>a, BilledFrame DEF Trails, Trail, Traced, AfterMain, AfterRpc, AfterDb, Threads,
       Elsewhere, Closes, Threading, DbOutcome, DispOutcome, ServerOutcome, MainOutcome, Settled, Unsent, Answer
  <2> QED
    BY <2>b, <2>c, <2>d, <2>e DEF Tracing
<1>4. CASE JoinDispatcher
  <2>1. CASE rpcResult = "ok"
    <3>1. /\ pc["server"] = "join" /\ pc["disp"] = "done"
          /\ pc' = [pc EXCEPT !["server"] = "await", !["disp"] = "idle"]
          /\ UNCHANGED <<client, served, input, hdrTag, link, callTag, dbResult, rpcResult, response, queue>>
      BY <1>4, <2>1 DEF JoinDispatcher, Join, requestVars, tagVars, resultVars
    <3>2. Closes(agent, agent', "server", "outRemote", agent.tr["outRemote"].err)
      BY <1>4, <2>1, JoinDispatcherEffect
    <3>a. Elsewhere(agent, agent', "server", "outRemote")
      BY <3>2, Typed, TouchesElsewhere DEF Closes
    <3>b. ServerTracers' /\ NoOthers'
      BY <1>a, <3>1, <3>2, <3>a DEF Tracing, ServerTracers, NoOthers, Nested, A!Live, InBody, InCall, Threads, Elsewhere,
         Closes
    <3>c. MainTracers' /\ DbTracers' /\ DispTracers'
      <4>1. DispTracers'
        BY <1>a, <3>1, <3>a DEF Tracing, DispTracers, Nested, A!Live, Threads, Elsewhere
      <4> QED
        BY <1>a, <3>1, <3>a, <4>1, MainElsewhere, DbElsewhere DEF Tracing, Threads, Elsewhere
    <3>d. TagsMatch'
      BY <1>a, <1>b, <3>1, <3>2, <3>a DEF TagsMatch, TagOf, InBody, InCall, Threads, Elsewhere, Closes
    <3>e. Trails'
      BY <1>a, <1>c, <2>1, <3>1, <3>2, <3>a, BilledFrame DEF Trails, Trail, Traced, AfterMain, AfterRpc, AfterDb, Threads,
         Elsewhere, Closes, Tracing, ServerTracers, Nested, Threading, DbOutcome, DispOutcome, ServerOutcome
    <3> QED
      BY <3>b, <3>c, <3>d, <3>e DEF Tracing
  <2>2. CASE rpcResult = "failed"
    <3>1. /\ pc["server"] = "join" /\ pc["disp"] = "done"
          /\ pc' = [pc EXCEPT !["server"] = "unwind", !["disp"] = "idle"]
          /\ UNCHANGED <<client, served, input, hdrTag, link, callTag, dbResult, rpcResult, response, queue>>
      BY <1>4, <2>2 DEF JoinDispatcher, Join, requestVars, tagVars, resultVars
    <3>2. Closes(agent, agent', "server", "outRemote", TRUE)
      BY <1>4, <2>2, JoinDispatcherEffect
    <3>a. Elsewhere(agent, agent', "server", "outRemote")
      BY <3>2, Typed, TouchesElsewhere DEF Closes
    <3>b. ServerTracers' /\ NoOthers'
      BY <1>a, <3>1, <3>2, <3>a DEF Tracing, ServerTracers, NoOthers, Nested, A!Live, InBody, InCall, Threads, Elsewhere,
         Closes
    <3>c. MainTracers' /\ DbTracers' /\ DispTracers'
      <4>1. DispTracers'
        BY <1>a, <3>1, <3>a DEF Tracing, DispTracers, Nested, A!Live, Threads, Elsewhere
      <4> QED
        BY <1>a, <3>1, <3>a, <4>1, MainElsewhere, DbElsewhere DEF Tracing, Threads, Elsewhere
    <3>d. TagsMatch'
      BY <1>a, <1>b, <3>1, <3>2, <3>a DEF TagsMatch, TagOf, InBody, InCall, Threads, Elsewhere, Closes
    <3>e. Trails'
      BY <1>a, <1>c, <2>2, <3>1, <3>2, <3>a, BilledFrame DEF Trails, Trail, Traced, AfterMain, AfterRpc, AfterDb, Threads,
         Elsewhere, Closes, Tracing, ServerTracers, Nested, Threading, DbOutcome, DispOutcome, ServerOutcome
    <3> QED
      BY <3>b, <3>c, <3>d, <3>e DEF Tracing
  <2> QED
    BY <1>4, <2>1, <2>2, JoinDispatcherEffect
<1>5. CASE ServerOk
  <2>1. /\ pc["server"] = "ok" /\ pc' = [pc EXCEPT !["server"] = "done"]
        /\ UNCHANGED <<client, served, input, hdrTag, link, callTag, dbResult, rpcResult, queue>>
    BY <1>5 DEF ServerOk, Step, requestVars, tagVars, resultVars
  <2>2. Closes(agent, agent', "server", "inWeb", agent.tr["inWeb"].err) /\ response' = Answer(200, input)
    BY <1>5, ServerOkEffect DEF ServerOk
  <2>a. Elsewhere(agent, agent', "server", "inWeb")
    BY <2>2, Typed, TouchesElsewhere DEF Closes
  <2>b. ServerTracers' /\ NoOthers'
    BY <1>a, <2>1, <2>2, <2>a DEF Tracing, ServerTracers, NoOthers, Nested, A!Live, InBody, InCall, Threads, Elsewhere,
       Closes, Threading, RequestInfos, Unsent, Answer
  <2>c. MainTracers' /\ DbTracers' /\ DispTracers'
    <3>1. MainTracers'
      BY <1>a, <2>1, <2>2, <2>a DEF Tracing, MainTracers, Nested, A!Live, Threading, Threads, Elsewhere
    <3> QED
      BY <1>a, <2>1, <2>2, <2>a, <3>1, DbElsewhere, DispElsewhere DEF Tracing, Threads, Elsewhere
  <2>d. TagsMatch'
    BY <1>a, <1>b, <2>1, <2>2, <2>a DEF TagsMatch, TagOf, InBody, InCall, Threads, Elsewhere, Closes
  <2>e. Trails'
    BY <1>a, <1>c, <2>1, <2>2, <2>a, BilledFrame DEF Trails, Trail, Traced, AfterMain, AfterRpc, AfterDb, Threads,
       Elsewhere, Closes, Threading, DbOutcome, DispOutcome, ServerOutcome, MainOutcome, Settled, Unsent, Answer,
       Tracing, ServerTracers, Nested, A!Live
  <2> QED
    BY <2>b, <2>c, <2>d, <2>e DEF Tracing
<1>6. CASE ServerFail
  <2>1. /\ pc["server"] = "fail" /\ pc' = [pc EXCEPT !["server"] = "done"]
        /\ UNCHANGED <<client, served, input, hdrTag, link, callTag, dbResult, rpcResult, queue>>
    BY <1>6 DEF ServerFail, Step, requestVars, tagVars, resultVars
  <2>2. Closes(agent, agent', "server", "inWeb", TRUE) /\ response' = Answer(500, ErrorBody)
    BY <1>6, ServerFailEffect DEF ServerFail
  <2>a. Elsewhere(agent, agent', "server", "inWeb")
    BY <2>2, Typed, TouchesElsewhere DEF Closes
  <2>b. ServerTracers' /\ NoOthers'
    BY <1>a, <2>1, <2>2, <2>a DEF Tracing, ServerTracers, NoOthers, Nested, A!Live, InBody, InCall, Threads, Elsewhere,
       Closes, Threading, RequestInfos, Unsent, Answer
  <2>c. MainTracers' /\ DbTracers' /\ DispTracers'
    <3>1. MainTracers'
      BY <1>a, <2>1, <2>2, <2>a DEF Tracing, MainTracers, Nested, A!Live, Threading, Threads, Elsewhere
    <3> QED
      BY <1>a, <2>1, <2>2, <2>a, <3>1, DbElsewhere, DispElsewhere DEF Tracing, Threads, Elsewhere
  <2>d. TagsMatch'
    BY <1>a, <1>b, <2>1, <2>2, <2>a DEF TagsMatch, TagOf, InBody, InCall, Threads, Elsewhere, Closes
  <2>e. Trails'
    BY <1>a, <1>c, <2>1, <2>2, <2>a, BilledFrame DEF Trails, Trail, Traced, AfterMain, AfterRpc, AfterDb, Threads,
       Elsewhere, Closes, Threading, DbOutcome, DispOutcome, ServerOutcome, MainOutcome, Settled, Unsent, Answer
  <2> QED
    BY <2>b, <2>c, <2>d, <2>e DEF Tracing
<1> QED
  BY <1>1, <1>2, <1>3, <1>4, <1>5, <1>6, QuietTraces DEF ServerStep

LEMMA DbTraces ==
  ASSUME IInv, DbStep
  PROVE  Tracing' /\ TagsMatch' /\ Trails'
<1>a. /\ pc \in [Threads -> UNION {Labels[t] : t \in Threads}]
      /\ Tracing /\ Threading
  BY DEF IInv, Traces, TypeOK, Control
<1>b. TagsMatch
  BY DEF IInv, Traces
<1>c. Trails /\ DbOutcome /\ DispOutcome /\ ServerOutcome /\ MainOutcome
  BY DEF IInv, Traces, Control
<1>1. CASE DbBegin
  <2>1. /\ pc["db"] = "begin" /\ pc' = [pc EXCEPT !["db"] = "query"]
        /\ UNCHANGED <<client, served, input, hdrTag, link, callTag, dbResult, rpcResult, response, queue>>
    BY <1>1 DEF DbBegin, Step, requestVars, tagVars, resultVars
  <2>2. Opens(agent, agent', "db", "inLink", served, link)
    BY <1>1, DbOpenEffect DEF DbBegin
  <2>a. Elsewhere(agent, agent', "db", "inLink")
    BY <2>2, Typed, TouchesElsewhere DEF Opens
  <2>b. DbTracers' /\ NoOthers'
    BY <1>a, <2>1, <2>2, <2>a DEF Tracing, DbTracers, NoOthers, Nested, A!Live, Threads, Elsewhere,
       Opens, Threading, RequestInfos, Unsent, Answer
  <2>c. MainTracers' /\ ServerTracers' /\ DispTracers'
    BY <1>a, <2>1, <2>2, <2>a, MainElsewhere, ServerElsewhere, DispElsewhere DEF Tracing, Threads, Elsewhere
  <2>d. TagsMatch'
    BY <1>a, <1>b, <2>1, <2>2, <2>a DEF TagsMatch, TagOf, InBody, InCall, Threads, Elsewhere, Opens
  <2>e. Trails'
    BY <1>a, <1>c, <2>1, <2>2, <2>a, BilledFrame DEF Trails, Trail, Traced, AfterMain, AfterRpc, AfterDb, Threads,
       Elsewhere, Opens, Threading, DbOutcome, DispOutcome, ServerOutcome, MainOutcome, Settled, Unsent, Answer
  <2> QED
    BY <2>b, <2>c, <2>d, <2>e DEF Tracing
<1>2. CASE DbQuery
  <2>1. /\ pc["db"] = "query" /\ pc' = [pc EXCEPT !["db"] = "fetch"]
        /\ UNCHANGED <<client, served, input, hdrTag, link, callTag, dbResult, rpcResult, response, queue>>
    BY <1>2 DEF DbQuery, Step, requestVars, tagVars, resultVars
  <2>2. Opens(agent, agent', "db", "dbReq", served, NoTag)
    BY <1>2, DbOpenEffect DEF DbQuery
  <2>a. Elsewhere(agent, agent', "db", "dbReq")
    BY <2>2, Typed, TouchesElsewhere DEF Opens
  <2>b. DbTracers' /\ NoOthers'
    BY <1>a, <2>1, <2>2, <2>a DEF Tracing, DbTracers, NoOthers, Nested, A!Live, Threads, Elsewhere,
       Opens, Threading, RequestInfos, Unsent, Answer
  <2>c. MainTracers' /\ ServerTracers' /\ DispTracers'
    BY <1>a, <2>1, <2>2, <2>a, MainElsewhere, ServerElsewhere, DispElsewhere DEF Tracing, Threads, Elsewhere
  <2>d. TagsMatch'
    BY <1>a, <1>b, <2>1, <2>2, <2>a DEF TagsMatch, TagOf, InBody, InCall, Threads, Elsewhere, Opens
  <2>e. Trails'
    BY <1>a, <1>c, <2>1, <2>2, <2>a, BilledFrame DEF Trails, Trail, Traced, AfterMain, AfterRpc, AfterDb, Threads,
       Elsewhere, Opens, Threading, DbOutcome, DispOutcome, ServerOutcome, MainOutcome, Settled, Unsent, Answer
  <2> QED
    BY <2>b, <2>c, <2>d, <2>e DEF Tracing
<1>3. CASE DbFetch
  <2>1. /\ pc["db"] = "fetch" /\ pc' = [pc EXCEPT !["db"] = "close"]
        /\ UNCHANGED <<client, served, input, hdrTag, link, callTag, dbResult, rpcResult, response, queue>>
    BY <1>3 DEF DbFetch, Step, requestVars, tagVars, resultVars
  <2>2. Closes(agent, agent', "db", "dbReq", agent.tr["dbReq"].err)
    BY <1>3, DbCloseEffect DEF DbFetch
  <2>a. Elsewhere(agent, agent', "db", "dbReq")
    BY <2>2, Typed, TouchesElsewhere DEF Closes
  <2>b. DbTracers' /\ NoOthers'
    BY <1>a, <2>1, <2>2, <2>a DEF Tracing, DbTracers, NoOthers, Nested, A!Live, Threads, Elsewhere,
       Closes, Threading, RequestInfos, Unsent, Answer
  <2>c. MainTracers' /\ ServerTracers' /\ DispTracers'
    BY <1>a, <2>1, <2>2, <2>a, MainElsewhere, ServerElsewhere, DispElsewhere DEF Tracing, Threads, Elsewhere
  <2>d. TagsMatch'
    BY <1>a, <1>b, <2>1, <2>2, <2>a DEF TagsMatch, TagOf, InBody, InCall, Threads, Elsewhere, Closes
  <2>e. Trails'
    BY <1>a, <1>c, <2>1, <2>2, <2>a, BilledFrame DEF Trails, Trail, Traced, AfterMain, AfterRpc, AfterDb, Threads,
       Elsewhere, Closes, Threading, DbOutcome, DispOutcome, ServerOutcome, MainOutcome, Settled, Unsent, Answer,
       Tracing, DbTracers, Nested, A!Live
  <2> QED
    BY <2>b, <2>c, <2>d, <2>e DEF Tracing
<1>4. CASE DbFetchFails
  <2>1. /\ pc["db"] = "fetch" /\ pc' = [pc EXCEPT !["db"] = "throw"]
        /\ UNCHANGED <<client, served, input, hdrTag, link, callTag, dbResult, rpcResult, response, queue>>
    BY <1>4 DEF DbFetchFails, Step, requestVars, tagVars, resultVars
  <2>2. Closes(agent, agent', "db", "dbReq", TRUE)
    BY <1>4, DbCloseEffect DEF DbFetchFails
  <2>a. Elsewhere(agent, agent', "db", "dbReq")
    BY <2>2, Typed, TouchesElsewhere DEF Closes
  <2>b. DbTracers' /\ NoOthers'
    BY <1>a, <2>1, <2>2, <2>a DEF Tracing, DbTracers, NoOthers, Nested, A!Live, Threads, Elsewhere,
       Closes, Threading, RequestInfos, Unsent, Answer
  <2>c. MainTracers' /\ ServerTracers' /\ DispTracers'
    BY <1>a, <2>1, <2>2, <2>a, MainElsewhere, ServerElsewhere, DispElsewhere DEF Tracing, Threads, Elsewhere
  <2>d. TagsMatch'
    BY <1>a, <1>b, <2>1, <2>2, <2>a DEF TagsMatch, TagOf, InBody, InCall, Threads, Elsewhere, Closes
  <2>e. Trails'
    BY <1>a, <1>c, <2>1, <2>2, <2>a, BilledFrame DEF Trails, Trail, Traced, AfterMain, AfterRpc, AfterDb, Threads,
       Elsewhere, Closes, Threading, DbOutcome, DispOutcome, ServerOutcome, MainOutcome, Settled, Unsent, Answer
  <2> QED
    BY <2>b, <2>c, <2>d, <2>e DEF Tracing
<1>5. CASE DbClose
  <2>1. /\ pc["db"] = "close" /\ pc' = [pc EXCEPT !["db"] = "done"]
        /\ UNCHANGED <<client, served, input, hdrTag, link, callTag, rpcResult, response, queue>>
    BY <1>5 DEF DbClose, Step, requestVars, tagVars, resultVars
  <2>2. Closes(agent, agent', "db", "inLink", agent.tr["inLink"].err) /\ dbResult' = "ok"
    BY <1>5, DbCloseEffect DEF DbClose
  <2>a. Elsewhere(agent, agent', "db", "inLink")
    BY <2>2, Typed, TouchesElsewhere DEF Closes
  <2>b. DbTracers' /\ NoOthers'
    BY <1>a, <2>1, <2>2, <2>a DEF Tracing, DbTracers, NoOthers, Nested, A!Live, Threads, Elsewhere,
       Closes, Threading, RequestInfos, Unsent, Answer
  <2>c. MainTracers' /\ ServerTracers' /\ DispTracers'
    BY <1>a, <2>1, <2>2, <2>a, MainElsewhere, ServerElsewhere, DispElsewhere DEF Tracing, Threads, Elsewhere
  <2>d. TagsMatch'
    BY <1>a, <1>b, <2>1, <2>2, <2>a DEF TagsMatch, TagOf, InBody, InCall, Threads, Elsewhere, Closes
  <2>e. Trails'
    BY <1>a, <1>c, <2>1, <2>2, <2>a, BilledFrame DEF Trails, Trail, Traced, AfterMain, AfterRpc, AfterDb, Threads,
       Elsewhere, Closes, Threading, DbOutcome, DispOutcome, ServerOutcome, MainOutcome, Settled, Unsent, Answer,
       Tracing, DbTracers, Nested, A!Live
  <2> QED
    BY <2>b, <2>c, <2>d, <2>e DEF Tracing
<1>6. CASE DbThrow
  <2>1. /\ pc["db"] = "throw" /\ pc' = [pc EXCEPT !["db"] = "done"]
        /\ UNCHANGED <<client, served, input, hdrTag, link, callTag, rpcResult, response, queue>>
    BY <1>6 DEF DbThrow, Step, requestVars, tagVars, resultVars
  <2>2. Closes(agent, agent', "db", "inLink", TRUE) /\ dbResult' = "failed"
    BY <1>6, DbCloseEffect DEF DbThrow
  <2>a. Elsewhere(agent, agent', "db", "inLink")
    BY <2>2, Typed, TouchesElsewhere DEF Closes
  <2>b. DbTracers' /\ NoOthers'
    BY <1>a, <2>1, <2>2, <2>a DEF Tracing, DbTracers, NoOthers, Nested, A!Live, Threads, Elsewhere,
       Closes, Threading, RequestInfos, Unsent, Answer
  <2>c. MainTracers' /\ ServerTracers' /\ DispTracers'
    BY <1>a, <2>1, <2>2, <2>a, MainElsewhere, ServerElsewhere, DispElsewhere DEF Tracing, Threads, Elsewhere
  <2>d. TagsMatch'
    BY <1>a, <1>b, <2>1, <2>2, <2>a DEF TagsMatch, TagOf, InBody, InCall, Threads, Elsewhere, Closes
  <2>e. Trails'
    BY <1>a, <1>c, <2>1, <2>2, <2>a, BilledFrame DEF Trails, Trail, Traced, AfterMain, AfterRpc, AfterDb, Threads,
       Elsewhere, Closes, Threading, DbOutcome, DispOutcome, ServerOutcome, MainOutcome, Settled, Unsent, Answer
  <2> QED
    BY <2>b, <2>c, <2>d, <2>e DEF Tracing
<1> QED
  BY <1>1, <1>2, <1>3, <1>4, <1>5, <1>6, QuietTraces DEF DbStep

LEMMA DispTraces ==
  ASSUME IInv, DispStep
  PROVE  Tracing' /\ TagsMatch' /\ Trails'
<1>a. /\ pc \in [Threads -> UNION {Labels[t] : t \in Threads}]
      /\ Tracing /\ Threading
  BY DEF IInv, Traces, TypeOK, Control
<1>b. TagsMatch
  BY DEF IInv, Traces
<1>c. Trails /\ DbOutcome /\ DispOutcome /\ ServerOutcome /\ MainOutcome
  BY DEF IInv, Traces, Control
<1>1. CASE DispBegin
  <2>1. /\ pc["disp"] = "begin" /\ pc' = [pc EXCEPT !["disp"] = "transform"]
        /\ UNCHANGED <<client, served, input, hdrTag, link, callTag, dbResult, rpcResult, response, queue>>
    BY <1>1 DEF DispBegin, Step, requestVars, tagVars, resultVars
  <2>2. Opens(agent, agent', "disp", "inRemote", served, callTag)
    BY <1>1, DispOpenEffect DEF DispBegin
  <2>a. Elsewhere(agent, agent', "disp", "inRemote")
    BY <2>2, Typed, TouchesElsewhere DEF Opens
  <2>b. DispTracers' /\ NoOthers'
    BY <1>a, <2>1, <2>2, <2>a DEF Tracing, DispTracers, NoOthers, Nested, A!Live, Threads, Elsewhere,
       Opens, Threading, RequestInfos, Unsent, Answer
  <2>c. MainTracers' /\ ServerTracers' /\ DbTracers'
    BY <1>a, <2>1, <2>2, <2>a, MainElsewhere, ServerElsewhere, DbElsewhere DEF Tracing, Threads, Elsewhere
  <2>d. TagsMatch'
    BY <1>a, <1>b, <2>1, <2>2, <2>a DEF TagsMatch, TagOf, InBody, InCall, Threads, Elsewhere, Opens
  <2>e. Trails'
    BY <1>a, <1>c, <2>1, <2>2, <2>a, BilledFrame DEF Trails, Trail, Traced, AfterMain, AfterRpc, AfterDb, Threads,
       Elsewhere, Opens, Threading, DbOutcome, DispOutcome, ServerOutcome, MainOutcome, Settled, Unsent, Answer
  <2> QED
    BY <2>b, <2>c, <2>d, <2>e DEF Tracing
<1>2. CASE Transform
  <2>1. /\ pc["disp"] = "transform" /\ pc' = [pc EXCEPT !["disp"] = "send"]
        /\ UNCHANGED <<client, served, input, hdrTag, link, callTag, dbResult, rpcResult, response, queue>>
    BY <1>2 DEF Transform, Step, requestVars, tagVars, resultVars
  <2>2. Opens(agent, agent', "disp", "outMsg", served, NoTag)
    BY <1>2, DispOpenEffect DEF Transform
  <2>a. Elsewhere(agent, agent', "disp", "outMsg")
    BY <2>2, Typed, TouchesElsewhere DEF Opens
  <2>b. DispTracers' /\ NoOthers'
    BY <1>a, <2>1, <2>2, <2>a DEF Tracing, DispTracers, NoOthers, Nested, A!Live, Threads, Elsewhere,
       Opens, Threading, RequestInfos, Unsent, Answer
  <2>c. MainTracers' /\ ServerTracers' /\ DbTracers'
    BY <1>a, <2>1, <2>2, <2>a, MainElsewhere, ServerElsewhere, DbElsewhere DEF Tracing, Threads, Elsewhere
  <2>d. TagsMatch'
    BY <1>a, <1>b, <2>1, <2>2, <2>a DEF TagsMatch, TagOf, InBody, InCall, Threads, Elsewhere, Opens
  <2>e. Trails'
    BY <1>a, <1>c, <2>1, <2>2, <2>a, BilledFrame DEF Trails, Trail, Traced, AfterMain, AfterRpc, AfterDb, Threads,
       Elsewhere, Opens, Threading, DbOutcome, DispOutcome, ServerOutcome, MainOutcome, Settled, Unsent, Answer
  <2> QED
    BY <2>b, <2>c, <2>d, <2>e DEF Tracing
<1>3. CASE SendMessage
  <2>1. /\ pc["disp"] = "send" /\ pc' = [pc EXCEPT !["disp"] = "return"]
        /\ UNCHANGED <<client, served, input, hdrTag, link, callTag, dbResult, rpcResult, response>>
    BY <1>3 DEF SendMessage, Step, requestVars, tagVars, resultVars
  <2>2. Closes(agent, agent', "disp", "outMsg", agent.tr["outMsg"].err) /\ IsBilled'
    BY <1>3, DispCloseEffect, SendMessageBills DEF SendMessage, IInv
  <2>a. Elsewhere(agent, agent', "disp", "outMsg")
    BY <2>2, Typed, TouchesElsewhere DEF Closes
  <2>b. DispTracers' /\ NoOthers'
    BY <1>a, <2>1, <2>2, <2>a DEF Tracing, DispTracers, NoOthers, Nested, A!Live, Threads, Elsewhere,
       Closes, Threading, RequestInfos, Unsent, Answer
  <2>c. MainTracers' /\ ServerTracers' /\ DbTracers'
    BY <1>a, <2>1, <2>2, <2>a, MainElsewhere, ServerElsewhere, DbElsewhere DEF Tracing, Threads, Elsewhere
  <2>d. TagsMatch'
    BY <1>a, <1>b, <2>1, <2>2, <2>a DEF TagsMatch, TagOf, InBody, InCall, Threads, Elsewhere, Closes
  <2>e. Trails'
    BY <1>a, <1>c, <2>1, <2>2, <2>a DEF Trails, Trail, Traced, AfterMain, AfterRpc, AfterDb, Threads,
       Elsewhere, Closes, Threading, DbOutcome, DispOutcome, ServerOutcome, MainOutcome, Settled, Unsent, Answer,
       Tracing, DispTracers, Nested, A!Live
  <2> QED
    BY <2>b, <2>c, <2>d, <2>e DEF Tracing
<1>4. CASE SendMessageThrows
  <2>1. /\ pc["disp"] = "send" /\ pc' = [pc EXCEPT !["disp"] = "throw"]
        /\ UNCHANGED <<client, served, input, hdrTag, link, callTag, dbResult, rpcResult, response, queue>>
    BY <1>4 DEF SendMessageThrows, Step, requestVars, tagVars, resultVars
  <2>2. Closes(agent, agent', "disp", "outMsg", TRUE)
    BY <1>4, DispCloseEffect DEF SendMessageThrows
  <2>a. Elsewhere(agent, agent', "disp", "outMsg")
    BY <2>2, Typed, TouchesElsewhere DEF Closes
  <2>b. DispTracers' /\ NoOthers'
    BY <1>a, <2>1, <2>2, <2>a DEF Tracing, DispTracers, NoOthers, Nested, A!Live, Threads, Elsewhere,
       Closes, Threading, RequestInfos, Unsent, Answer
  <2>c. MainTracers' /\ ServerTracers' /\ DbTracers'
    BY <1>a, <2>1, <2>2, <2>a, MainElsewhere, ServerElsewhere, DbElsewhere DEF Tracing, Threads, Elsewhere
  <2>d. TagsMatch'
    BY <1>a, <1>b, <2>1, <2>2, <2>a DEF TagsMatch, TagOf, InBody, InCall, Threads, Elsewhere, Closes
  <2>e. Trails'
    BY <1>a, <1>c, <2>1, <2>2, <2>a, BilledFrame DEF Trails, Trail, Traced, AfterMain, AfterRpc, AfterDb, Threads,
       Elsewhere, Closes, Threading, DbOutcome, DispOutcome, ServerOutcome, MainOutcome, Settled, Unsent, Answer
  <2> QED
    BY <2>b, <2>c, <2>d, <2>e DEF Tracing
<1>5. CASE DispReturn
  <2>1. /\ pc["disp"] = "return" /\ pc' = [pc EXCEPT !["disp"] = "done"]
        /\ UNCHANGED <<client, served, input, hdrTag, link, callTag, dbResult, response, queue>>
    BY <1>5 DEF DispReturn, Step, requestVars, tagVars, resultVars
  <2>2. Closes(agent, agent', "disp", "inRemote", agent.tr["inRemote"].err) /\ rpcResult' = "ok"
    BY <1>5, DispCloseEffect DEF DispReturn
  <2>a. Elsewhere(agent, agent', "disp", "inRemote")
    BY <2>2, Typed, TouchesElsewhere DEF Closes
  <2>b. DispTracers' /\ NoOthers'
    BY <1>a, <2>1, <2>2, <2>a DEF Tracing, DispTracers, NoOthers, Nested, A!Live, Threads, Elsewhere,
       Closes, Threading, RequestInfos, Unsent, Answer
  <2>c. MainTracers' /\ ServerTracers' /\ DbTracers'
    BY <1>a, <2>1, <2>2, <2>a, MainElsewhere, ServerElsewhere, DbElsewhere DEF Tracing, Threads, Elsewhere
  <2>d. TagsMatch'
    BY <1>a, <1>b, <2>1, <2>2, <2>a DEF TagsMatch, TagOf, InBody, InCall, Threads, Elsewhere, Closes
  <2>e. Trails'
    BY <1>a, <1>c, <2>1, <2>2, <2>a, BilledFrame DEF Trails, Trail, Traced, AfterMain, AfterRpc, AfterDb, Threads,
       Elsewhere, Closes, Threading, DbOutcome, DispOutcome, ServerOutcome, MainOutcome, Settled, Unsent, Answer,
       Tracing, DispTracers, Nested, A!Live
  <2> QED
    BY <2>b, <2>c, <2>d, <2>e DEF Tracing
<1>6. CASE DispThrow
  <2>1. /\ pc["disp"] = "throw" /\ pc' = [pc EXCEPT !["disp"] = "done"]
        /\ UNCHANGED <<client, served, input, hdrTag, link, callTag, dbResult, response, queue>>
    BY <1>6 DEF DispThrow, Step, requestVars, tagVars, resultVars
  <2>2. Closes(agent, agent', "disp", "inRemote", TRUE) /\ rpcResult' = "failed"
    BY <1>6, DispCloseEffect DEF DispThrow
  <2>a. Elsewhere(agent, agent', "disp", "inRemote")
    BY <2>2, Typed, TouchesElsewhere DEF Closes
  <2>b. DispTracers' /\ NoOthers'
    BY <1>a, <2>1, <2>2, <2>a DEF Tracing, DispTracers, NoOthers, Nested, A!Live, Threads, Elsewhere,
       Closes, Threading, RequestInfos, Unsent, Answer
  <2>c. MainTracers' /\ ServerTracers' /\ DbTracers'
    BY <1>a, <2>1, <2>2, <2>a, MainElsewhere, ServerElsewhere, DbElsewhere DEF Tracing, Threads, Elsewhere
  <2>d. TagsMatch'
    BY <1>a, <1>b, <2>1, <2>2, <2>a DEF TagsMatch, TagOf, InBody, InCall, Threads, Elsewhere, Closes
  <2>e. Trails'
    BY <1>a, <1>c, <2>1, <2>2, <2>a, BilledFrame DEF Trails, Trail, Traced, AfterMain, AfterRpc, AfterDb, Threads,
       Elsewhere, Closes, Threading, DbOutcome, DispOutcome, ServerOutcome, MainOutcome, Settled, Unsent, Answer
  <2> QED
    BY <2>b, <2>c, <2>d, <2>e DEF Tracing
<1> QED
  BY <1>1, <1>2, <1>3, <1>4, <1>5, <1>6, QuietTraces DEF DispStep

\* The agent stays one, and numbers its tracers.
LEMMA AgentStep ==
  ASSUME IInv, MainStep \/ ServerStep \/ DbStep \/ DispStep
  PROVE  Dated' /\ agent' \in A!AgentState /\ SparesCleanup
<1>1. served' = served
  BY DEF MainStep, ServerStep, DbStep, DispStep, SendRequest, SpawnServer, SpawnServerFails, JoinServer,
     FinishRequest, Reply, ServerTransportFails, ServerBegin, CaptureLink, StartAsync, StartAsyncFails,
     CallRemote, SpawnDispatcher, SpawnDispatcherFails, JoinDispatcher, AwaitFuture, UnwindFuture,
     ServerOk, ServerFail, DbBegin, DbQuery, DbQueryFails, DbFetch, DbFetchFails, DbClose, DbThrow,
     DispBegin, Transform, TransformThrows, SendMessage, SendMessageThrows, DispReturn, DispThrow,
     requestVars
<1>2. ASSUME agent' = agent
      PROVE  Dated' /\ agent' \in A!AgentState /\ SparesCleanup
  BY <1>1, <1>2, Typed DEF IInv, Traces, Dated, SparesCleanup
<1>3. CASE MainStep
  <2>1. CASE SendRequest
    BY <1>1, <2>1, SendRequestEffect, DatedStep, Typed
  <2>2. CASE SpawnServer
    BY <1>2, <2>2 DEF SpawnServer
  <2>3. CASE SpawnServerFails
    BY <1>1, <2>3, SpawnServerFailsEffect, DatedStep, Typed
  <2>4. CASE JoinServer
    BY <1>1, <1>2, <2>4, JoinServerEffect, DatedStep, Typed
  <2>5. CASE FinishRequest
    BY <1>1, <2>5, FinishRequestEffect, DatedStep, Typed
  <2>6. CASE Reply
    BY <1>1, <2>6, ReplyEffect, DatedStep, Typed
  <2> QED
    BY <1>3, <2>1, <2>2, <2>3, <2>4, <2>5, <2>6 DEF MainStep
<1>4. CASE ServerStep
  <2>1. CASE ServerBegin
    BY <1>1, <2>1, ServerBeginEffect, DatedStep, Typed
  <2>2. CASE CallRemote
    BY <1>1, <2>2, CallRemoteEffect, DatedStep, Typed
  <2>3. CASE SpawnDispatcherFails
    BY <1>1, <2>3, SpawnDispatcherFailsEffect, DatedStep, Typed
  <2>4. CASE JoinDispatcher
    BY <1>1, <2>4, JoinDispatcherEffect, DatedStep, Typed
  <2>5. CASE ServerOk
    BY <1>1, <2>5, ServerOkEffect, DatedStep, Typed
  <2>6. CASE ServerFail
    BY <1>1, <2>6, ServerFailEffect, DatedStep, Typed
  <2>7. CASE \/ ServerTransportFails \/ CaptureLink \/ StartAsync \/ StartAsyncFails
             \/ SpawnDispatcher \/ AwaitFuture \/ UnwindFuture
    BY <1>2, <2>7 DEF ServerTransportFails, CaptureLink, StartAsync, StartAsyncFails,
       SpawnDispatcher, AwaitFuture, UnwindFuture
  <2> QED
    BY <1>4, <2>1, <2>2, <2>3, <2>4, <2>5, <2>6, <2>7 DEF ServerStep
<1>5. CASE DbStep
  <2>1. CASE DbBegin \/ DbQuery
    BY <1>1, <2>1, DbOpenEffect, DatedStep, Typed
  <2>2. CASE DbFetch \/ DbFetchFails \/ DbClose \/ DbThrow
    BY <1>1, <2>2, DbCloseEffect, DatedStep, Typed
  <2>3. CASE DbQueryFails
    BY <1>2, <2>3 DEF DbQueryFails
  <2> QED
    BY <1>5, <2>1, <2>2, <2>3 DEF DbStep
<1>6. CASE DispStep
  <2>1. CASE DispBegin \/ Transform
    BY <1>1, <2>1, DispOpenEffect, DatedStep, Typed
  <2>2. CASE SendMessage \/ SendMessageThrows \/ DispReturn \/ DispThrow
    BY <1>1, <2>2, DispCloseEffect, DatedStep, Typed
  <2>3. CASE TransformThrows
    BY <1>2, <2>3 DEF TransformThrows
  <2> QED
    BY <1>6, <2>1, <2>2, <2>3 DEF DispStep
<1> QED
  BY <1>3, <1>4, <1>5, <1>6

\* Tags and links that can be taken are tags.
LEMMA TagsTyped ==
  ASSUME NEW a \in A!AgentState, NEW t \in Threads, NEW s \in Tracers
  PROVE  A!OutTag(a, t, s) \in A!Tags /\ A!Link(a, t) \in A!Tags
<1>1. a.tr[s].req \in Nat /\ a.top[t] \in Tracers \cup {NoTracer} /\ \A x \in Tracers : a.tr[x].req \in Nat
  BY DEF A!AgentState, A!TracerState
<1> QED
  BY <1>1 DEF A!OutTag, A!Link, A!Tags

\* The message carries the tag of the tracer that sent it.
LEMMA SendMessageTyped ==
  ASSUME IInv, SendMessage
  PROVE  queue' \in Seq(Messages) /\ BillTags'
<1> DEFINE m == [req |-> served, tag |-> A!OutTag(agent, "disp", "outMsg"), input |-> input]
<1>1. pc["disp"] = "send" /\ queue' = Append(queue, m)
  BY DEF SendMessage, Step
<1>2. m \in Messages
  BY <1>1, Typed, TagsTyped DEF IInv, Control, Threading, Messages
<1>3. m.tag \in {NoTag, <<"outMsg", m.req>>}
  BY <1>1 DEF IInv, Traces, Tracing, DispTracers, Nested, A!OutTag
<1> HIDE DEF m
<1>4. queue \in Seq(Messages) /\ \A k \in 1..Len(queue) : queue[k].tag \in {NoTag, <<"outMsg", queue[k].req>>}
  BY DEF IInv, TypeOK, Traces, BillTags
<1>5. /\ queue' \in Seq(Messages) /\ Len(queue') = Len(queue) + 1 /\ Len(queue) \in Nat
      /\ \A k \in 1..Len(queue) : queue'[k] = queue[k]
      /\ queue'[Len(queue) + 1] = m
  BY <1>1, <1>2, <1>4, AppendProperties, LenProperties
<1>6. \A k \in 1..Len(queue') : k \in 1..Len(queue) \/ k = Len(queue) + 1
  BY <1>5
<1>7. BillTags'
  BY <1>3, <1>4, <1>5, <1>6 DEF BillTags
<1> QED
  BY <1>5, <1>7

\* Only SendMessage adds to the queue.
LEMMA QueueFrame ==
  ASSUME MainStep \/ ServerStep \/ DbStep \/ DispStep, ~SendMessage
  PROVE  queue' = queue
  BY Zenon DEF MainStep, ServerStep, DbStep, DispStep, SendRequest, SpawnServer, SpawnServerFails, JoinServer,
     FinishRequest, Reply, ServerTransportFails, ServerBegin, CaptureLink, StartAsync, StartAsyncFails,
     CallRemote, SpawnDispatcher, SpawnDispatcherFails, JoinDispatcher, AwaitFuture, UnwindFuture,
     ServerOk, ServerFail, DbBegin, DbQuery, DbQueryFails, DbFetch, DbFetchFails, DbClose, DbThrow,
     DispBegin, Transform, TransformThrows, SendMessageThrows, DispReturn, DispThrow

LEMMA BillTagsStep ==
  ASSUME IInv, MainStep \/ ServerStep \/ DbStep \/ DispStep
  PROVE  queue' \in Seq(Messages) /\ BillTags'
<1>1. CASE SendMessage
  BY <1>1, SendMessageTyped
<1>2. CASE ~SendMessage
  <2>1. queue' = queue
    BY <1>2, QueueFrame
  <2> QED
    BY <2>1 DEF IInv, TypeOK, Traces, BillTags
<1> QED
  BY <1>1, <1>2

\* Labels, flags, tags and results.
Plain ==
  /\ pc \in [Threads -> UNION {Labels[t] : t \in Threads}]
  /\ \A t \in Threads : pc[t] \in Labels[t]
  /\ client \in BOOLEAN /\ served \in 0..MaxRequests /\ input \in Inputs \cup {NoInput}
  /\ hdrTag \in A!Tags /\ link \in A!Tags /\ callTag \in A!Tags
  /\ dbResult \in Outcomes /\ rpcResult \in Outcomes /\ response \in Responses

\* Every action moves threads to labels of theirs.
LEMMA LabelStep ==
  ASSUME Plain, MainStep \/ ServerStep \/ DbStep \/ DispStep
  PROVE  /\ pc' \in [Threads -> UNION {Labels[t] : t \in Threads}]
         /\ \A t \in Threads : pc'[t] \in Labels[t]
<1> DEFINE All == UNION {Labels[t] : t \in Threads}
<1>1. pc \in [Threads -> All] /\ \A t \in Threads : pc[t] \in Labels[t] /\ Labels[t] \subseteq All
  BY DEF Plain
<1> HIDE DEF All
<1>2. ASSUME NEW t \in Threads, NEW to \in Labels[t], pc' = [pc EXCEPT ![t] = to]
      PROVE  pc' \in [Threads -> All] /\ \A x \in Threads : pc'[x] \in Labels[x]
  BY <1>1, <1>2
<1>3. ASSUME NEW t \in Threads, NEW to \in Labels[t], NEW u \in Threads, NEW x \in Labels[u],
             pc' = [pc EXCEPT ![t] = to, ![u] = x]
      PROVE  pc' \in [Threads -> All] /\ \A y \in Threads : pc'[y] \in Labels[y]
  BY <1>1, <1>3
<1>4. CASE MainStep
  BY <1>2, <1>3, <1>4 DEF MainStep, SendRequest, SpawnServer, SpawnServerFails, JoinServer, FinishRequest, Reply,
     Step, Spawn, Join, Threads, Labels
<1>5. CASE ServerStep
  BY <1>2, <1>3, <1>5 DEF ServerStep, ServerTransportFails, ServerBegin, CaptureLink, StartAsync, StartAsyncFails, CallRemote, SpawnDispatcher, SpawnDispatcherFails, JoinDispatcher, AwaitFuture, UnwindFuture, ServerOk, ServerFail,
     Step, Spawn, Join, Threads, Labels
<1>6. CASE DbStep
  BY <1>2, <1>3, <1>6 DEF DbStep, DbBegin, DbQuery, DbQueryFails, DbFetch, DbFetchFails, DbClose, DbThrow,
     Step, Spawn, Join, Threads, Labels
<1>7. CASE DispStep
  <2>1. \E to \in Labels["disp"] : pc' = [pc EXCEPT !["disp"] = to]
    BY <1>7 DEF DispStep, DispBegin, Transform, TransformThrows, SendMessage, SendMessageThrows, DispReturn,
       DispThrow, Step, Labels
  <2> QED
    BY <1>2, <2>1 DEF Threads
<1> QED
  BY <1>4, <1>5, <1>6, <1>7 DEF All

LEMMA PlainStep ==
  ASSUME IInv, agent' \in A!AgentState, MainStep \/ ServerStep \/ DbStep \/ DispStep
  PROVE  Plain'
<1>1. Plain
  BY DEF IInv, TypeOK, Plain
<1>2. pc' \in [Threads -> UNION {Labels[t] : t \in Threads}] /\ \A t \in Threads : pc'[t] \in Labels[t]
  BY <1>1, LabelStep
<1>3. A!OutTag(agent', "main", "outWeb") \in A!Tags /\ A!OutTag(agent', "server", "outRemote") \in A!Tags
  BY TagsTyped DEF Threads, Tracers
<1>4. A!Link(agent, "server") \in A!Tags
  BY Typed, TagsTyped
<1>5. pc["main"] = "join" => input \in Inputs
  BY DEF IInv, Control, Threading
<1>6. pc["server"] = "ok" => pc["main"] = "join"
  BY DEF IInv, Control, Threading
<1> USE <1>1, <1>2 DEF Plain, requestVars, tagVars, resultVars, Outcomes, Responses
<1>7. CASE MainStep
  <2>1. CASE SendRequest
    BY <1>3, <2>1 DEF SendRequest
  <2>2. CASE SpawnServer
    BY <1>3, <2>2 DEF SpawnServer
  <2>3. CASE SpawnServerFails
    BY <1>3, <2>3 DEF SpawnServerFails, GiveUp
  <2>4. CASE JoinServer
    BY <1>3, <2>4 DEF JoinServer, GiveUp
  <2>5. CASE FinishRequest
    BY <1>3, <2>5 DEF FinishRequest
  <2>6. CASE Reply
    <3>1. /\ client' \in BOOLEAN
          /\ UNCHANGED <<served, input, hdrTag, link, callTag, dbResult, rpcResult, response>>
      BY <2>6 DEF Reply
    <3> QED
      BY <3>1
  <2> QED
    BY <1>7, <2>1, <2>2, <2>3, <2>4, <2>5, <2>6 DEF MainStep
<1>8. CASE ServerStep
  BY <1>3, <1>4, <1>5, <1>6, <1>8 DEF ServerStep, ServerTransportFails, ServerBegin, CaptureLink, StartAsync, StartAsyncFails, CallRemote, SpawnDispatcher, SpawnDispatcherFails, JoinDispatcher, AwaitFuture, UnwindFuture, ServerOk, ServerFail, Step
<1>9. CASE DbStep
  BY <1>9 DEF DbStep, DbBegin, DbQuery, DbQueryFails, DbFetch, DbFetchFails, DbClose, DbThrow
<1>10. CASE DispStep
  BY <1>10 DEF DispStep, DispBegin, Transform, TransformThrows, SendMessage, SendMessageThrows, DispReturn, DispThrow
<1> QED
  BY <1>7, <1>8, <1>9, <1>10

LEMMA ReadRequestStep ==
  ASSUME IInv, NEW i \in Inputs, ReadRequest(i)
  PROVE  TypeOK' /\ Traces'
<1>1. /\ pc["main"] = "read" /\ pc' = [pc EXCEPT !["main"] = "send"] /\ served < MaxRequests
      /\ client' = TRUE /\ served' = served + 1 /\ input' = i /\ response' = Unsent
      /\ UNCHANGED <<hdrTag, link, callTag, dbResult, rpcResult, queue>>
  BY DEF ReadRequest, Step, tagVars
<1>2. /\ agent' \in A!AgentState /\ agent'.tr = agent.tr /\ agent'.top = agent.top
      /\ agent'.misuse = agent.misuse /\ \A k \in RequestInfos : agent'.info[k] \in {"live", "invalid"}
  BY ReadRequestEffect DEF SameTracers
<1>3. pc["server"] = "idle" /\ pc["db"] = "idle" /\ pc["disp"] = "idle"
  BY <1>1 DEF IInv, Control, Threading
<1>4. pc \in [Threads -> UNION {Labels[t] : t \in Threads}]
  BY Typed
<1>5. /\ pc'["main"] = "send" /\ pc'["server"] = "idle" /\ pc'["db"] = "idle" /\ pc'["disp"] = "idle"
  BY <1>1, <1>3, <1>4 DEF Threads
<1>6. TypeOK'
  <2>1. pc' \in [Threads -> UNION {Labels[t] : t \in Threads}]
    BY <1>1, <1>4 DEF Threads, Labels
  <2>2. \A t \in Threads : pc'[t] \in Labels[t]
    BY <1>5 DEF Threads, Labels
  <2>3. served' \in 0..MaxRequests
    BY <1>1, BoundAssumption DEF IInv, TypeOK
  <2> QED
    BY <1>1, <1>2, <2>1, <2>2, <2>3 DEF IInv, TypeOK, Responses
<1>7. Tracing'
  BY <1>1, <1>2, <1>3, <1>5 DEF IInv, Traces, Tracing, MainTracers, ServerTracers, DbTracers, DispTracers,
     NoOthers, Nested, A!Live, InBody, InCall
<1>8. TagsMatch'
  BY <1>1, <1>2, <1>3, <1>5 DEF IInv, Traces, Tracing, ServerTracers, DbTracers, DispTracers, Nested, A!Live,
     TagsMatch, TagOf, InBody, InCall
<1>9. Dated' /\ \A s \in Tracers : ~Traced(s)'
  <2>1. \A s \in Tracers : agent.tr[s].req \in Nat
    BY Typed DEF A!AgentState, A!TracerState
  <2>2. \A s \in Tracers : agent.tr[s].phase = "ended" => agent.tr[s].req <= served
    BY DEF IInv, Traces, Dated
  <2>3. served \in Nat
    BY Typed
  <2> QED
    BY <1>1, <1>2, <2>1, <2>2, <2>3 DEF Dated, Traced
<1>10. BillTags'
  BY <1>1 DEF IInv, Traces, BillTags
<1>11. Trails'
  BY <1>9 DEF Trails, Trail, Tracers
<1> QED
  BY <1>6, <1>7, <1>8, <1>9, <1>10, <1>11 DEF Traces

\* The agent moves, or nothing does.
LEMMA OtherStep ==
  ASSUME IInv, AgentToggle \/ Prompt \/ UNCHANGED vars
  PROVE  TypeOK' /\ Traces'
<1>1. UNCHANGED <<pc, client, served, input, hdrTag, link, callTag, dbResult, rpcResult, response, queue>>
  BY DEF AgentToggle, Prompt, vars, requestVars, tagVars, resultVars
<1>2. /\ agent' \in A!AgentState /\ agent'.tr = agent.tr /\ agent'.top = agent.top
      /\ agent'.misuse = agent.misuse /\ agent'.info = agent.info
  <2>1. CASE AgentToggle
    BY <2>1, Typed, ToggleMove DEF AgentToggle
  <2>2. CASE Prompt \/ UNCHANGED vars
    BY <2>2, Typed DEF Prompt, vars
  <2> QED
    BY <2>1, <2>2
<1>3. TypeOK'
  BY <1>1, <1>2 DEF IInv, TypeOK
<1>4. Tracing'
  BY <1>1, <1>2 DEF IInv, Traces, Tracing, MainTracers, ServerTracers, DbTracers, DispTracers,
     NoOthers, Nested, A!Live, InBody, InCall
<1>5. TagsMatch' /\ BillTags' /\ Dated'
  BY <1>1, <1>2 DEF IInv, Traces, TagsMatch, TagOf, InBody, InCall, BillTags, Dated
<1>6. Trails'
  BY <1>1, <1>2, BilledFrame DEF IInv, Traces, Trails, Trail, Traced, AfterMain, AfterRpc, AfterDb
<1> QED
  BY <1>3, <1>4, <1>5, <1>6 DEF Traces

LEMMA Initial == Init => IInv
<1> SUFFICES ASSUME Init PROVE IInv
  OBVIOUS
<1>1. PICK init \in AgentFound, act \in BOOLEAN : agent = A!Fresh(init, act)
  BY DEF Init
<1>2. agent \in A!AgentState
  BY <1>1, FaultsAssumption DEF A!Fresh, A!AgentState, A!TracerState, A!Absent, A!Phases, A!InfoPhases,
     A!Tags, NoTag
<1>3. /\ \A s \in Tracers : agent.tr[s].phase = "absent" /\ agent.tr[s].req = 0
      /\ \A t \in Threads : agent.top[t] = NoTracer
      /\ \A i \in Infos : agent.info[i] = "absent"
      /\ ~agent.misuse
  BY <1>1 DEF A!Fresh, A!Absent
<1>4. TypeOK
  <2>1. pc \in [Threads -> UNION {Labels[t] : t \in Threads}] /\ \A t \in Threads : pc[t] \in Labels[t]
    BY DEF Init, Threads, Labels
  <2>2. queue \in Seq(Messages)
    BY DEF Init
  <2>3. served \in 0..MaxRequests
    BY BoundAssumption DEF Init
  <2> QED
    BY <1>2, <2>1, <2>2, <2>3, NoTagTyped DEF Init, TypeOK, Outcomes, Responses
<1>5. Tracing
  BY <1>3 DEF Init, Tracing, MainTracers, ServerTracers, DbTracers, DispTracers, NoOthers, Nested, A!Live,
     InBody, InCall, Threads, Tracers, Infos
<1>6. TagsMatch /\ BillTags /\ Dated /\ Trails
  BY <1>3 DEF Init, TagsMatch, InBody, InCall, Threads, Tracers, BillTags, Dated, Trails, Trail, Traced
<1> QED
  BY <1>4, <1>5, <1>6, ControlInit DEF IInv, Traces

LEMMA Inductive == IInv /\ [Next]_vars => IInv'
<1> SUFFICES ASSUME IInv, [Next]_vars PROVE IInv'
  OBVIOUS
<1>1. Control'
  BY ControlStep DEF IInv
<1>2. ASSUME NEW i \in Inputs, ReadRequest(i)
      PROVE  TypeOK' /\ Traces'
  BY <1>2, ReadRequestStep
<1>3. CASE MainStep \/ ServerStep \/ DbStep \/ DispStep
  <2>1. Dated' /\ agent' \in A!AgentState
    BY <1>3, AgentStep
  <2>2. queue' \in Seq(Messages) /\ BillTags'
    BY <1>3, BillTagsStep
  <2>3. Plain'
    BY <1>3, <2>1, PlainStep
  <2>4. TypeOK'
    BY <2>1, <2>2, <2>3 DEF TypeOK, Plain
  <2>5. Tracing' /\ TagsMatch' /\ Trails'
    BY <1>3, MainTraces, ServerTraces, DbTraces, DispTraces
  <2> QED
    BY <1>1, <2>1, <2>2, <2>4, <2>5 DEF Traces, IInv
<1>4. CASE AgentToggle \/ Prompt \/ UNCHANGED vars
  BY <1>1, <1>4, OtherStep DEF IInv
<1> QED
  BY <1>1, <1>2, <1>3, <1>4 DEF IInv, Next

-----------------------------------------------------------------------------
(* Theorems about a request *)

\* The inductive invariant holds in every reachable state.
THEOREM Invariance == Spec => []IInv
  BY Initial, Inductive, PTL DEF Spec

\* The variables of the pipeline and the agent keep their types, and every
\* thread stands at labels of its own code.
THEOREM TypeCorrect == Spec => []TypeOK
<1>1. IInv => TypeOK
  BY DEF IInv
<1> QED
  BY <1>1, Invariance, PTL

\* The threads of a request are nested: no thread outlives the one that waits
\* for it, whichever of them fails.
THEOREM ThreadsNested == Spec => []StructuredThreads
<1>1. IInv => StructuredThreads
  BY DEF IInv, Control, Threading, StructuredThreads
<1> QED
  BY <1>1, Invariance, PTL

\* No call to the agent is one that its header forbids.
THEOREM UsageCorrect == Spec => []NoUsageError
<1>1. IInv => NoUsageError
  BY DEF IInv, Traces, Tracing, NoOthers, NoUsageError
<1> QED
  BY <1>1, Invariance, PTL

\* Between requests, nothing of the last one is left.
THEOREM CleanAtPrompt == Spec => []QuiescentClean
<1>1. IInv => QuiescentClean
  <2> SUFFICES ASSUME IInv, pc["main"] = "read"
               PROVE  /\ ~client
                      /\ \A t \in Threads \ {"main"} : pc[t] = "idle"
                      /\ \A s \in Tracers : ~A!Live(agent, s)
                      /\ \A t \in Threads : agent.top[t] = NoTracer
                      /\ \A i \in RequestInfos : agent.info[i] # "live"
    BY DEF QuiescentClean
  <2>1. ~client /\ pc["server"] = "idle" /\ pc["db"] = "idle" /\ pc["disp"] = "idle"
    BY DEF IInv, Control, Threading
  <2>2. \A s \in Tracers : ~A!Live(agent, s)
    BY <2>1 DEF IInv, Traces, Tracing, MainTracers, ServerTracers, DbTracers, DispTracers, NoOthers, Nested,
       InBody, InCall, Tracers
  <2>3. \A t \in Threads : agent.top[t] = NoTracer
    BY <2>2 DEF IInv, Traces, Tracing, MainTracers, ServerTracers, DbTracers, DispTracers, Nested,
       A!Live, Threads, Tracers
  <2>4. \A i \in RequestInfos : agent.info[i] # "live"
    BY <2>1 DEF IInv, Traces, Tracing, NoOthers
  <2> QED
    BY <2>1, <2>2, <2>3, <2>4 DEF Threads
<1> QED
  BY <1>1, Invariance, PTL

\* Every tracer hangs below the one that caused it, in its thread or through a
\* tag or link of the same request; so do the messages in the queue.
THEOREM HopsLinked == Spec => []LinkedHops
<1>1. IInv => LinkedHops
  <2> SUFFICES ASSUME IInv PROVE LinkedHops
    OBVIOUS
  <2>1. Threading
    BY DEF IInv, Control
  <2>2. Tracing /\ TagsMatch /\ BillTags
    BY DEF IInv, Traces
  <2>3. \A s \in {"outWeb", "inWeb", "inLink", "dbReq", "outRemote", "inRemote", "outMsg"} :
          A!Live(agent, s) <=> agent.tr[s].phase = "started"
    BY <2>2 DEF Tracing, MainTracers, ServerTracers, DbTracers, DispTracers, Nested, A!Live
  <2>4. CausedBy("inWeb", "outWeb")
    <3>1. agent.tr["inWeb"].phase = "started" => agent.tr["inWeb"].tag = hdrTag /\ pc["main"] = "join"
      BY <2>1, <2>2 DEF Threading, TagsMatch, Tracing, ServerTracers, Nested, A!Live, InBody
    <3>2. pc["main"] = "join" => hdrTag = TagOf("outWeb")
      BY <2>2 DEF TagsMatch
    <3> QED
      BY <2>3, <3>1, <3>2 DEF CausedBy, TagOf
  <2>5. CausedBy("inLink", "inWeb")
    <3>1. /\ agent.tr["inLink"].phase = "started" => agent.tr["inLink"].tag = link
          /\ agent.tr["inLink"].phase = "started" => InBody /\ pc["server"] # "link"
      BY <2>1, <2>2 DEF Threading, TagsMatch, Tracing, DbTracers, Nested, A!Live, InBody
    <3>2. InBody /\ pc["server"] # "link" => link = TagOf("inWeb")
      BY <2>2 DEF TagsMatch
    <3> QED
      BY <2>3, <3>1, <3>2 DEF CausedBy, TagOf
  <2>6. CausedBy("inRemote", "outRemote")
    <3>1. /\ agent.tr["inRemote"].phase = "started" => agent.tr["inRemote"].tag = callTag
          /\ agent.tr["inRemote"].phase = "started" => InCall
      BY <2>1, <2>2 DEF Threading, TagsMatch, Tracing, DispTracers, Nested, A!Live, InCall
    <3>2. InCall => callTag = TagOf("outRemote")
      BY <2>2 DEF TagsMatch
    <3> QED
      BY <2>3, <3>1, <3>2 DEF CausedBy, TagOf
  <2>7. ChildOf("outRemote", "inWeb") /\ ChildOf("dbReq", "inLink") /\ ChildOf("outMsg", "inRemote")
    BY <2>2, <2>3 DEF ChildOf, Tracing, ServerTracers, DbTracers, DispTracers, Nested
  <2>8. \A s \in {"outWeb", "inWeb", "inLink", "inRemote"} : A!Live(agent, s) => agent.tr[s].parent = NoTracer
    BY <2>2, <2>3 DEF Tracing, MainTracers, ServerTracers, DbTracers, DispTracers, Nested
  <2> QED
    BY <2>2, <2>4, <2>5, <2>6, <2>7, <2>8 DEF LinkedHops, BillTags
<1> QED
  BY <1>1, Invariance, PTL

\* There is at most one bill for a request, none for a bad text, and an answer
\* without a bill or a bill without an answer only where the code says so.
THEOREM BillsCorrect == Spec => []BilledOnce
<1>1. IInv => BilledOnce
  BY DEF IInv, Control, Bills, MainOutcome, Settled, BilledOnce, IsBilled, Unsent, Answer
<1> QED
  BY <1>1, Invariance, PTL

\* What is answered was made of the results of both threads.
THEOREM AnswersWhole == Spec => []AnswerIsWhole
<1>1. IInv => AnswerIsWhole
  BY DEF IInv, Control, Bills, MainOutcome, Settled, AnswerIsWhole, Unsent, Answer
<1> QED
  BY <1>1, Invariance, PTL

\* A finished request has an error on the tracers of the operations that
\* failed, and on no other.
THEOREM ErrorsTraced == Spec => []ErrorTrail
<1>1. IInv => ErrorTrail
  <2> SUFFICES ASSUME IInv, pc["main"] = "reply"
               PROVE  /\ Blamed("outWeb", response.status = -1)
                      /\ Blamed("inWeb", response.status = 500)
                      /\ Blamed("outRemote", rpcResult = "failed")
                      /\ Blamed("inRemote", rpcResult = "failed")
                      /\ Blamed("outMsg", Billed(served) = {})
                      /\ Blamed("inLink", dbResult = "failed")
                      /\ Blamed("dbReq", dbResult = "failed")
    BY DEF ErrorTrail
  <2>1. pc["db"] = "idle"
    BY DEF IInv, Control, Threading
  <2> QED
    BY <2>1 DEF IInv, Traces, Trails, Trail, Blamed, IsBilled
<1> QED
  BY <1>1, Invariance, PTL

\* The request implements the service its caller sees: for any texts, number of
\* requests, faults and moves of the agent.
THEOREM Refinement == Spec => ImplementsService
<1>1. Init => Service!ServiceInit
  BY ServiceInitial
<1>2. IInv /\ [Next]_vars => [Service!ServiceNext]_(Service!serviceVars)
  BY ServiceStep DEF IInv
<1> QED
  BY <1>1, <1>2, Invariance, PTL DEF Spec, ImplementsService, Service!ServiceSpec

-----------------------------------------------------------------------------
(* Part 4: the main loop *)

Stages == {"startup", "prompt", "cleaning", "polling", "paying", "stopping", "exited"}
InCleanup == stage \in {"cleaning", "polling", "paying"}

AppTypes ==
  /\ stage \in Stages
  /\ current \in Seq(Messages) /\ Len(current) = IF stage = "paying" THEN 1 ELSE 0
  /\ ledger \in Seq([msg : Messages, paid : BOOLEAN])

\* What is active on main below the receive tracer, the process tracer and
\* the next one.
Started(a, s) == a.tr[s].phase = "started"
AtCustom(a) == IF Started(a, "custom") THEN "custom" ELSE NoTracer
AtReceive(a) == IF Started(a, "receive") THEN "receive" ELSE AtCustom(a)
AtProcess(a) == IF Started(a, "process") THEN "process" ELSE AtReceive(a)

\* Tracer s of main, a child of the one that is active above it, runs, or is
\* invalid, exactly while open holds.
Level(a, s, open, above) ==
  /\ open => a.tr[s].phase \in {"invalid", "started"}
  /\ ~open => ~A!Live(a, s)
  /\ Started(a, s) =>
       /\ a.tr[s].owner = "main" /\ a.tr[s].req <= served
       /\ a.tr[s].parent = above /\ ~a.tr[s].err

\* The tracers of a cleanup, nested in this order; the message in hand is that
\* of the innermost.
Levels(a, custom, receive, process) ==
  /\ Level(a, "custom", custom, NoTracer)
  /\ Level(a, "receive", receive, AtCustom(a))
  /\ Level(a, "process", process, AtReceive(a))

\* The pipeline between two requests; what is active on main belongs to a
\* cleanup.
Resting(a) ==
  /\ \A s \in RequestTracers : ~A!Live(a, s)
  /\ \A t \in Threads \ {"main"} : a.top[t] = NoTracer
  /\ a.top["main"] = AtProcess(a)
  /\ \A i \in RequestInfos : a.info[i] # "live"
  /\ ~a.misuse

Numbered(a) == \A s \in Tracers : a.tr[s].phase = "ended" => a.tr[s].req <= served

\* What holds of the agent in a cleanup, between any two calls.
Cleaning(a, custom, receive, process) ==
  /\ a \in A!AgentState /\ Resting(a) /\ Numbered(a)
  /\ Levels(a, custom, receive, process)

\* The handle that run_main_loop keeps for its cleanups.
BillingInfo ==
  /\ stage = "startup" => agent.info["billing"] # "live"
  /\ stage = "prompt" \/ InCleanup => agent.info["billing"] \in {"live", "invalid"}
  /\ stage \in {"stopping", "exited"} => agent.info["billing"] # "live"
  /\ stage = "exited" => ~agent.initialized

\* The processing at hand is that of the current message.
Processing ==
  stage = "paying" /\ Started(agent, "process") =>
    agent.tr["process"].tag = current[1].tag /\ agent.tr["process"].req = current[1].req

\* The last cleanup left both its tracers with an error or none.
BlamedAlike ==
  ~InCleanup /\ agent.tr["custom"].phase = "ended" /\ agent.tr["receive"].phase = "ended" =>
    (agent.tr["custom"].err <=> agent.tr["receive"].err)

\* The parts of the pipeline's invariant that a cleanup keeps.
Lasting == TypeOK /\ Control /\ BillTags /\ Dated

AppIInv ==
  /\ AppTypes /\ Lasting
  /\ stage = "prompt" => IInv
  /\ stage # "prompt" => pc["main"] = "read" /\ Resting(agent)
  /\ ~InCleanup => Levels(agent, FALSE, FALSE, FALSE)
  /\ stage = "cleaning" => Levels(agent, TRUE, FALSE, FALSE)
  /\ stage = "polling" => Levels(agent, TRUE, TRUE, FALSE)
  /\ stage = "paying" => Levels(agent, TRUE, TRUE, TRUE)
  /\ BillingInfo /\ Processing /\ BlamedAlike /\ OnlyZeroUnpaid

-----------------------------------------------------------------------------
(* The calls of a cleanup *)

CleanupTracers == {"custom", "receive", "process"}

\* A call for a tracer of a cleanup concerns no request and no other thread.
LEMMA CleanupCall ==
  ASSUME NEW a, NEW b, NEW s \in CleanupTracers, Resting(a), Touches(a, b, "main", s)
  PROVE  /\ \A x \in RequestTracers : b.tr[x] = a.tr[x] /\ ~A!Live(b, x)
         /\ \A t \in Threads \ {"main"} : b.top[t] = NoTracer
         /\ \A i \in RequestInfos : b.info[i] # "live"
         /\ ~b.misuse /\ b.info = a.info /\ b.initialized = a.initialized
         /\ \A x \in CleanupTracers \ {s} : b.tr[x] = a.tr[x]
<1>1. RequestTracers \subseteq Tracers \ {s} /\ CleanupTracers \ {s} \subseteq Tracers \ {s}
  BY DEF RequestTracers, CleanupTracers, Tracers
<1> QED
  BY <1>1 DEF Resting, Touches, A!Live

LEMMA CleanupNumbered ==
  ASSUME NEW a, NEW b, NEW s, Numbered(a), Touches(a, b, "main", s),
         b.tr[s].phase = "ended" => b.tr[s].req <= served
  PROVE  Numbered(b)
  BY DEF Numbered, Touches

\* Nothing but tracer s is opened, for request n.
OpensLevel(a, b, s, n, tag) ==
  /\ b.info = a.info /\ b.initialized = a.initialized
  /\ Started(b, s) => b.tr[s].tag = tag /\ b.tr[s].req = n

LEMMA OpenLevel ==
  ASSUME NEW a, NEW b, NEW s \in CleanupTracers, NEW n \in 0..served, NEW tag,
         Opens(a, b, "main", s, n, tag)
  PROVE  /\ Cleaning(a, FALSE, FALSE, FALSE) /\ s = "custom" => Cleaning(b, TRUE, FALSE, FALSE)
         /\ Cleaning(a, TRUE, FALSE, FALSE) /\ s = "receive" => Cleaning(b, TRUE, TRUE, FALSE)
         /\ Cleaning(a, TRUE, TRUE, FALSE) /\ s = "process" => Cleaning(b, TRUE, TRUE, TRUE)
         /\ OpensLevel(a, b, s, n, tag)
<1>1. /\ Touches(a, b, "main", s) /\ b \in A!AgentState
      /\ b.info = a.info /\ b.initialized = a.initialized
  BY DEF Opens, Touches
<1>2. OpensLevel(a, b, s, n, tag)
  BY <1>1 DEF Opens, OpensLevel, Started
<1>3. Numbered(a) => Numbered(b)
  BY <1>1, CleanupNumbered DEF Opens
<1>4. ASSUME Cleaning(a, FALSE, FALSE, FALSE), s = "custom"
      PROVE  Resting(b) /\ Levels(b, TRUE, FALSE, FALSE)
  BY <1>1, <1>4, CleanupCall DEF Cleaning, Levels, Level, Resting, Opens, CleanupTracers, Started, A!Live,
     AtCustom, AtReceive, AtProcess
<1>5. ASSUME Cleaning(a, TRUE, FALSE, FALSE), s = "receive"
      PROVE  Resting(b) /\ Levels(b, TRUE, TRUE, FALSE)
  BY <1>1, <1>5, CleanupCall DEF Cleaning, Levels, Level, Resting, Opens, CleanupTracers, Started, A!Live,
     AtCustom, AtReceive, AtProcess
<1>6. ASSUME Cleaning(a, TRUE, TRUE, FALSE), s = "process"
      PROVE  Resting(b) /\ Levels(b, TRUE, TRUE, TRUE)
  BY <1>1, <1>6, CleanupCall DEF Cleaning, Levels, Level, Resting, Opens, CleanupTracers, Started, A!Live,
     AtCustom, AtReceive, AtProcess
<1> QED
  BY <1>1, <1>2, <1>3, <1>4, <1>5, <1>6 DEF Cleaning

\* Nothing but tracer s is closed, with the error e.
ClosesLevel(a, b, s, e) ==
  /\ b.info = a.info /\ b.initialized = a.initialized
  /\ \A x \in CleanupTracers \ {s} : b.tr[x] = a.tr[x]
  /\ b.tr[s].phase = "ended" => b.tr[s].err = e

LEMMA CloseLevel ==
  ASSUME NEW a, NEW b, NEW s \in CleanupTracers, NEW e, Closes(a, b, "main", s, e)
  PROVE  /\ Cleaning(a, TRUE, TRUE, TRUE) /\ s = "process" => Cleaning(b, TRUE, TRUE, FALSE)
         /\ Cleaning(a, TRUE, TRUE, FALSE) /\ s = "receive" => Cleaning(b, TRUE, FALSE, FALSE)
         /\ Cleaning(a, TRUE, FALSE, FALSE) /\ s = "custom" => Cleaning(b, FALSE, FALSE, FALSE)
         /\ Resting(a) => ClosesLevel(a, b, s, e)
<1>1. /\ Touches(a, b, "main", s) /\ b \in A!AgentState
      /\ b.info = a.info /\ b.initialized = a.initialized
  BY DEF Closes, Touches
<1>2. Resting(a) => ClosesLevel(a, b, s, e)
  BY <1>1, CleanupCall DEF Closes, ClosesLevel
<1>3. ASSUME Cleaning(a, TRUE, TRUE, TRUE), s = "process"
      PROVE  Resting(b) /\ Levels(b, TRUE, TRUE, FALSE) /\ Numbered(b)
  <2>1. Numbered(b)
    BY <1>1, <1>3, CleanupNumbered DEF Closes, Cleaning, Levels, Level, Started
  <2> QED
    BY <1>1, <1>3, <2>1, CleanupCall DEF Cleaning, Levels, Level, Resting, Closes, CleanupTracers, Started, A!Live,
       AtCustom, AtReceive, AtProcess
<1>4. ASSUME Cleaning(a, TRUE, TRUE, FALSE), s = "receive"
      PROVE  Resting(b) /\ Levels(b, TRUE, FALSE, FALSE) /\ Numbered(b)
  <2>1. Numbered(b)
    BY <1>1, <1>4, CleanupNumbered DEF Closes, Cleaning, Levels, Level, Started
  <2> QED
    BY <1>1, <1>4, <2>1, CleanupCall DEF Cleaning, Levels, Level, Resting, Closes, CleanupTracers, Started, A!Live,
       AtCustom, AtReceive, AtProcess
<1>5. ASSUME Cleaning(a, TRUE, FALSE, FALSE), s = "custom"
      PROVE  Resting(b) /\ Levels(b, FALSE, FALSE, FALSE) /\ Numbered(b)
  <2>1. Numbered(b)
    BY <1>1, <1>5, CleanupNumbered DEF Closes, Cleaning, Levels, Level, Started
  <2> QED
    BY <1>1, <1>5, <2>1, CleanupCall DEF Cleaning, Levels, Level, Resting, Closes, CleanupTracers, Started, A!Live,
       AtCustom, AtReceive, AtProcess
<1> QED
  BY <1>1, <1>2, <1>3, <1>4, <1>5 DEF Cleaning

\* The innermost tracer of a cleanup can be ended, and marked before.
LEMMA LevelReady ==
  ASSUME NEW a
  PROVE  /\ Cleaning(a, TRUE, TRUE, TRUE) =>
              Usable(a, "main", "process") /\ (Started(a, "process") => ~a.tr["process"].err)
         /\ Cleaning(a, TRUE, TRUE, FALSE) =>
              Usable(a, "main", "receive") /\ (Started(a, "receive") => ~a.tr["receive"].err)
         /\ Cleaning(a, TRUE, FALSE, FALSE) =>
              Usable(a, "main", "custom") /\ (Started(a, "custom") => ~a.tr["custom"].err)
  BY DEF Cleaning, Levels, Level, Resting, Usable, Started, A!Live, AtCustom, AtReceive, AtProcess

\* main may end the innermost tracer, with the error it has ...
LEMMA EndLevel ==
  ASSUME NEW a, NEW b, NEW s \in CleanupTracers, b = A!End(a, "main", s),
         \/ Cleaning(a, TRUE, TRUE, TRUE) /\ s = "process"
         \/ Cleaning(a, TRUE, TRUE, FALSE) /\ s = "receive"
         \/ Cleaning(a, TRUE, FALSE, FALSE) /\ s = "custom"
  PROVE  Closes(a, b, "main", s, a.tr[s].err)
<1>1. Usable(a, "main", s) /\ a \in A!AgentState
  BY LevelReady DEF Cleaning
<1>2. s \in Tracers /\ "main" \in Threads
  BY DEF CleanupTracers, Tracers, Threads
<1> QED
  BY <1>1, <1>2, CloseEnd

\* ... or with a new one.
LEMMA FailLevel ==
  ASSUME NEW a, NEW b, NEW s \in CleanupTracers, b = A!Fail(a, "main", s),
         \/ Cleaning(a, TRUE, TRUE, TRUE) /\ s = "process"
         \/ Cleaning(a, TRUE, TRUE, FALSE) /\ s = "receive"
         \/ Cleaning(a, TRUE, FALSE, FALSE) /\ s = "custom"
  PROVE  Closes(a, b, "main", s, TRUE)
<1>1. Usable(a, "main", s) /\ (Started(a, s) => ~a.tr[s].err) /\ a \in A!AgentState
  BY LevelReady DEF Cleaning
<1>2. s \in Tracers /\ "main" \in Threads
  BY DEF CleanupTracers, Tracers, Threads
<1> QED
  BY <1>1, <1>2, CloseFail DEF Started

-----------------------------------------------------------------------------
(* The pipeline between requests *)

\* At the prompt, the agent is as before a cleanup.
LEMMA AtPrompt ==
  ASSUME IInv, pc["main"] = "read"
  PROVE  Cleaning(agent, FALSE, FALSE, FALSE) /\ Lasting
<1>1. ~client /\ pc["server"] = "idle" /\ pc["db"] = "idle" /\ pc["disp"] = "idle"
  BY DEF IInv, Control, Threading
<1>2. /\ \A s \in RequestTracers : ~A!Live(agent, s)
      /\ ~A!Live(agent, "custom") /\ ~A!Live(agent, "receive") /\ ~A!Live(agent, "process")
      /\ \A i \in RequestInfos : agent.info[i] # "live"
      /\ ~agent.misuse
  BY <1>1 DEF IInv, Traces, Tracing, MainTracers, ServerTracers, DbTracers, DispTracers, NoOthers, Nested,
     InBody, InCall, RequestTracers
<1>3. \A t \in Threads : agent.top[t] = NoTracer
  BY <1>2 DEF IInv, Traces, Tracing, MainTracers, ServerTracers, DbTracers, DispTracers, Nested,
     A!Live, Threads, RequestTracers
<1>4. Levels(agent, FALSE, FALSE, FALSE) /\ AtProcess(agent) = NoTracer
  BY <1>2 DEF Levels, Level, A!Live, Started, AtProcess, AtReceive, AtCustom
<1>5. Lasting /\ agent \in A!AgentState /\ Numbered(agent)
  BY DEF IInv, TypeOK, Traces, Dated, Numbered, Lasting
<1> QED
  BY <1>2, <1>3, <1>4, <1>5, Typed DEF Cleaning, Resting

\* When no tracer of a cleanup runs any more, the pipeline goes on.
LEMMA BackToPrompt ==
  ASSUME Lasting, pc["main"] = "read", Cleaning(agent, FALSE, FALSE, FALSE)
  PROVE  IInv
<1>1. ~client /\ pc["server"] = "idle" /\ pc["db"] = "idle" /\ pc["disp"] = "idle"
  BY DEF Lasting, Control, Threading
<1>2. /\ ~A!Live(agent, "custom") /\ ~A!Live(agent, "receive") /\ ~A!Live(agent, "process")
      /\ \A s \in RequestTracers : ~A!Live(agent, s)
  BY DEF Cleaning, Levels, Level, Resting
<1>3. \A t \in Threads : agent.top[t] = NoTracer
  BY <1>2 DEF Cleaning, Resting, AtProcess, AtReceive, AtCustom, Started, A!Live, Threads
<1>4. Tracing
  BY <1>1, <1>2, <1>3 DEF Cleaning, Resting, Tracing, MainTracers, ServerTracers, DbTracers, DispTracers,
     NoOthers, Nested, InBody, InCall, A!Live, RequestTracers, Threads
<1>5. TagsMatch /\ Trails
  BY <1>1, <1>2 DEF TagsMatch, Trails, Trail, InBody, InCall, A!Live, RequestTracers
<1> QED
  BY <1>4, <1>5 DEF IInv, Lasting, Traces

LEMMA PromptNext ==
  (Lasting /\ pc["main"] = "read" /\ Cleaning(agent, FALSE, FALSE, FALSE))' => IInv'
<1>1. Lasting /\ pc["main"] = "read" /\ Cleaning(agent, FALSE, FALSE, FALSE) => IInv
  BY BackToPrompt
<1> QED
  BY <1>1, PTL

\* A step of main outside a request keeps what does not depend on the agent,
\* whatever it takes from the head of the queue.
LEMMA RestingStep ==
  ASSUME Lasting, pc["main"] = "read", UNCHANGED <<pc, requestVars, tagVars, resultVars>>,
         agent' \in A!AgentState, Numbered(agent)',
         queue' = queue \/ (queue # <<>> /\ queue' = Tail(queue))
  PROVE  Lasting'
<1>1. UNCHANGED <<pc, client, served, input, hdrTag, link, callTag, dbResult, rpcResult, response>>
  BY DEF requestVars, tagVars, resultVars
<1>2. /\ queue' \in Seq(Messages)
      /\ \A k \in 1..Len(queue') : \E j \in 1..Len(queue) : queue'[k] = queue[j]
      /\ \A k, j \in 1..Len(queue') : queue'[k].req = queue'[j].req => k = j
  <2>a. queue \in Seq(Messages)
    BY DEF Lasting, TypeOK
  <2>1. /\ queue \in Seq(Messages) /\ Len(queue) \in Nat
        /\ \A k, j \in 1..Len(queue) : queue[k].req = queue[j].req => k = j
    BY <2>a, LenProperties DEF Lasting, Control, Bills
  <2>2. CASE queue' = queue
    BY <2>1, <2>2
  <2>3. CASE queue # <<>> /\ queue' = Tail(queue)
    <3>1. /\ queue' \in Seq(Messages) /\ Len(queue') = Len(queue) - 1
          /\ \A k \in 1..Len(queue') : queue'[k] = queue[k + 1]
      BY <2>1, <2>3, HeadTailProperties
    <3>2. \A k \in 1..Len(queue') : k \in Nat /\ k + 1 \in 1..Len(queue)
      BY <2>1, <3>1
    <3>3. ASSUME NEW k \in 1..Len(queue'), NEW j \in 1..Len(queue'), queue'[k].req = queue'[j].req
          PROVE  k = j
      <4>1. queue[k + 1].req = queue[j + 1].req
        BY <3>1, <3>3
      <4>2. k + 1 = j + 1
        BY <2>1, <3>2, <4>1
      <4> QED
        BY <3>2, <4>2
    <3> QED
      BY <3>1, <3>2, <3>3
  <2> QED
    BY <2>2, <2>3
<1>3. TypeOK'
  BY <1>1, <1>2 DEF Lasting, TypeOK
<1>4. BillTags' /\ Dated'
  BY <1>1, <1>2 DEF Lasting, BillTags, Dated, Numbered
<1>5. Bills'
  <2>1. IsBilled' => IsBilled
    BY <1>1, <1>2 DEF IsBilled, Billed
  <2> QED
    BY <1>1, <1>2, <2>1 DEF Lasting, Control, Bills
<1>6. Threading' /\ DbOutcome' /\ DispOutcome' /\ ServerOutcome' /\ MainOutcome'
  <2>1. pc["server"] = "idle" /\ pc["db"] = "idle" /\ pc["disp"] = "idle"
    BY DEF Lasting, Control, Threading
  <2> QED
    BY <1>1, <2>1 DEF Lasting, Control, Threading, DbOutcome, DispOutcome, ServerOutcome, MainOutcome
<1> QED
  BY <1>3, <1>4, <1>5, <1>6 DEF Lasting, Control

-----------------------------------------------------------------------------
(* The steps of main outside a request *)

\* The agent a belongs to the stage st, which is not in a request.
CleaningAt(a, st) ==
  /\ st \notin {"cleaning", "polling", "paying"} => Cleaning(a, FALSE, FALSE, FALSE)
  /\ st = "cleaning" => Cleaning(a, TRUE, FALSE, FALSE)
  /\ st = "polling" => Cleaning(a, TRUE, TRUE, FALSE)
  /\ st = "paying" => Cleaning(a, TRUE, TRUE, TRUE)

LEMMA Outside ==
  ASSUME AppIInv, pc["main"] = "read"
  PROVE  /\ CleaningAt(agent, stage)
         /\ Lasting /\ agent \in A!AgentState /\ served \in Nat
         /\ "main" \in Threads /\ CleanupTracers \subseteq Tracers /\ "billing" \in Infos
<1>1. Lasting /\ agent \in A!AgentState /\ served \in Nat
  BY DEF AppIInv, Lasting, TypeOK
<1>2. ASSUME stage = "prompt" PROVE CleaningAt(agent, stage)
  BY <1>2, AtPrompt DEF AppIInv, CleaningAt
<1>3. ASSUME stage # "prompt" PROVE CleaningAt(agent, stage)
  <2>1. Numbered(agent) /\ Resting(agent)
    BY <1>3 DEF AppIInv, Lasting, Dated, Numbered
  <2> QED
    BY <1>1, <2>1 DEF AppIInv, InCleanup, CleaningAt, Cleaning
<1>4. "main" \in Threads /\ CleanupTracers \subseteq Tracers /\ "billing" \in Infos
  BY DEF Threads, CleanupTracers, Tracers, Infos
<1> QED
  BY <1>1, <1>2, <1>3, <1>4

\* What such a step has to show.
LEMMA OutsideStep ==
  ASSUME AppIInv, pc["main"] = "read", UNCHANGED <<pc, requestVars, tagVars, resultVars>>,
         queue' = queue \/ (queue # <<>> /\ queue' = Tail(queue)),
         CleaningAt(agent', stage'),
         AppTypes', BillingInfo', Processing', BlamedAlike', OnlyZeroUnpaid'
  PROVE  AppIInv'
<1>1. served' = served /\ pc' = pc
  BY DEF requestVars
<1>2. CleaningAt(agent, stage)'
  BY <1>1 DEF CleaningAt, Cleaning, Resting, Numbered, Levels, Level
<1>3. agent' \in A!AgentState /\ Numbered(agent)' /\ Resting(agent)'
  BY <1>2 DEF CleaningAt, Cleaning
<1>4. Lasting'
  BY <1>3, Outside, RestingStep
<1>5. stage' = "prompt" => IInv'
  <2>1. stage' = "prompt" => Cleaning(agent, FALSE, FALSE, FALSE)'
    BY <1>2 DEF CleaningAt
  <2> QED
    BY <1>1, <1>4, <2>1, PromptNext
<1> QED
  BY <1>1, <1>2, <1>3, <1>4, <1>5 DEF AppIInv, InCleanup, CleaningAt, Cleaning

\* An agent that differs in nothing a cleanup depends on.
LEMMA CleaningFrame ==
  ASSUME NEW a, NEW b \in A!AgentState, NEW custom, NEW receive, NEW process,
         Cleaning(a, custom, receive, process),
         b.tr = a.tr, b.top = a.top, b.misuse = a.misuse,
         \A i \in RequestInfos : b.info[i] # "live"
  PROVE  Cleaning(b, custom, receive, process)
  BY DEF Cleaning, Resting, Numbered, Levels, Level, Started, AtCustom, AtReceive, AtProcess, A!Live

LEMMA BillingCalls ==
  ASSUME NEW a, NEW b, NEW custom, NEW receive, NEW process,
         Cleaning(a, custom, receive, process), Informs(a, b, "billing")
  PROVE  Cleaning(b, custom, receive, process)
<1>1. RequestInfos \subseteq Infos \ {"billing"}
  BY DEF RequestInfos, Infos
<1>2. /\ b \in A!AgentState /\ b.tr = a.tr /\ b.top = a.top /\ b.misuse = a.misuse
      /\ \A i \in RequestInfos : b.info[i] # "live"
  BY <1>1 DEF Informs, Cleaning, Resting
<1> QED
  BY <1>2, CleaningFrame

LEMMA EnterLoopStep == AppIInv /\ EnterLoop => AppIInv'
<1> SUFFICES ASSUME AppIInv, EnterLoop PROVE AppIInv'
  OBVIOUS
<1>1. /\ stage = "startup" /\ stage' = "prompt" /\ agent' = A!CreateInfo(agent, "billing")
      /\ UNCHANGED <<pc, requestVars, tagVars, resultVars, queue, current, ledger>>
  BY DEF EnterLoop, MainAt
<1>2. pc["main"] = "read" /\ agent.info["billing"] # "live"
  BY <1>1 DEF AppIInv, BillingInfo
<1>3. Informs(agent, agent', "billing") /\ agent'.info["billing"] \in {"live", "invalid"}
  BY <1>1, <1>2, Outside, CreateInfoCall
<1>4. ~InCleanup /\ ~InCleanup' /\ stage # "paying" /\ stage' # "paying"
  BY <1>1 DEF InCleanup
<1>5. CleaningAt(agent', stage')
  <2>1. Cleaning(agent, FALSE, FALSE, FALSE)
    BY <1>1, <1>2, Outside DEF CleaningAt
  <2>2. Cleaning(agent', FALSE, FALSE, FALSE)
    BY <1>3, <2>1, BillingCalls
  <2> QED
    BY <1>1, <2>2 DEF CleaningAt
<1>6. AppTypes' /\ BillingInfo' /\ Processing'
  BY <1>1, <1>3, <1>4 DEF AppIInv, AppTypes, Stages, BillingInfo, Processing, InCleanup
<1>7. BlamedAlike' /\ OnlyZeroUnpaid'
  BY <1>1, <1>3, <1>4 DEF AppIInv, BlamedAlike, OnlyZeroUnpaid, Informs
<1> QED
  BY <1>1, <1>2, <1>5, <1>6, <1>7, OutsideStep

LEMMA ExitStep == AppIInv /\ Exit => AppIInv'
<1> SUFFICES ASSUME AppIInv, Exit PROVE AppIInv'
  OBVIOUS
<1>1. /\ stage = "prompt" /\ stage' = "stopping" /\ agent' = A!DeleteInfo(agent, "billing")
      /\ pc["main"] = "read"
      /\ UNCHANGED <<pc, requestVars, tagVars, resultVars, queue, current, ledger>>
  BY DEF Exit, MainAt
<1>2. agent.info["billing"] \in {"live", "invalid"}
  BY <1>1 DEF AppIInv, BillingInfo
<1>3. Informs(agent, agent', "billing") /\ agent'.info["billing"] # "live"
  BY <1>1, <1>2, Outside, DeleteInfoCall
<1>4. ~InCleanup /\ ~InCleanup' /\ stage # "paying" /\ stage' # "paying"
  BY <1>1 DEF InCleanup
<1>5. CleaningAt(agent', stage')
  <2>1. Cleaning(agent, FALSE, FALSE, FALSE)
    BY <1>1, Outside DEF CleaningAt
  <2>2. Cleaning(agent', FALSE, FALSE, FALSE)
    BY <1>3, <2>1, BillingCalls
  <2> QED
    BY <1>1, <2>2 DEF CleaningAt
<1>6. AppTypes' /\ BillingInfo' /\ Processing'
  BY <1>1, <1>3, <1>4 DEF AppIInv, AppTypes, Stages, BillingInfo, Processing, InCleanup
<1>7. BlamedAlike' /\ OnlyZeroUnpaid'
  BY <1>1, <1>3, <1>4 DEF AppIInv, BlamedAlike, OnlyZeroUnpaid, Informs
<1> QED
  BY <1>1, <1>5, <1>6, <1>7, OutsideStep

LEMMA ShutdownStep == AppIInv /\ Shutdown => AppIInv'
<1> SUFFICES ASSUME AppIInv, Shutdown PROVE AppIInv'
  OBVIOUS
<1>1. /\ stage = "stopping" /\ stage' = "exited"
      /\ agent' = IF agent.initialized THEN A!ShutDown(agent) ELSE agent
      /\ UNCHANGED <<pc, requestVars, tagVars, resultVars, queue, current, ledger>>
  BY DEF Shutdown, MainAt
<1>2. pc["main"] = "read" /\ agent.info["billing"] # "live"
  BY <1>1 DEF AppIInv, BillingInfo
<1>3. /\ agent' \in A!AgentState /\ agent'.tr = agent.tr /\ agent'.top = agent.top
      /\ agent'.misuse = agent.misuse /\ agent'.info = agent.info /\ ~agent'.initialized
  BY <1>1, <1>2, Outside DEF A!ShutDown, A!AgentState
<1>4. ~InCleanup /\ ~InCleanup' /\ stage # "paying" /\ stage' # "paying"
  BY <1>1 DEF InCleanup
<1>5. CleaningAt(agent', stage')
  <2>1. Cleaning(agent, FALSE, FALSE, FALSE)
    BY <1>1, <1>2, Outside DEF CleaningAt
  <2>2. Cleaning(agent', FALSE, FALSE, FALSE)
    BY <1>3, <2>1, CleaningFrame DEF Cleaning, Resting
  <2> QED
    BY <1>1, <2>2 DEF CleaningAt
<1>6. AppTypes' /\ BillingInfo' /\ Processing'
  BY <1>1, <1>2, <1>3, <1>4 DEF AppIInv, AppTypes, Stages, BillingInfo, Processing, InCleanup
<1>7. BlamedAlike' /\ OnlyZeroUnpaid'
  BY <1>1, <1>3, <1>4 DEF AppIInv, BlamedAlike, OnlyZeroUnpaid
<1> QED
  BY <1>1, <1>2, <1>5, <1>6, <1>7, OutsideStep

LEMMA BeginCleanupStep == AppIInv /\ BeginCleanup => AppIInv'
<1> SUFFICES ASSUME AppIInv, BeginCleanup PROVE AppIInv'
  OBVIOUS
<1>1. /\ stage = "prompt" /\ stage' = "cleaning" /\ pc["main"] = "read"
      /\ agent' = A!Start(A!Create(agent, "main", "custom", served), "main", "custom")
      /\ UNCHANGED <<pc, requestVars, tagVars, resultVars, queue, current, ledger>>
  BY DEF BeginCleanup, MainAt
<1>2. ~InCleanup /\ InCleanup' /\ stage # "paying" /\ stage' # "paying"
  BY <1>1 DEF InCleanup
<1>3. Cleaning(agent, FALSE, FALSE, FALSE) /\ served \in 0..served
  <2>1. served \in Nat /\ CleaningAt(agent, stage)
    BY <1>1, Outside
  <2>2. Cleaning(agent, FALSE, FALSE, FALSE)
    BY <1>1, <2>1 DEF CleaningAt
  <2>3. served \in 0..served
    BY <2>1
  <2> QED
    BY <2>2, <2>3
<1>4. Opens(agent, agent', "main", "custom", served, NoTag)
  BY <1>1, <1>3, Outside, OpenCreate DEF Cleaning, Levels, Level, CleanupTracers
<1>5. Cleaning(agent', TRUE, FALSE, FALSE) /\ OpensLevel(agent, agent', "custom", served, NoTag)
  BY <1>3, <1>4, OpenLevel DEF CleanupTracers
<1>6. CleaningAt(agent', stage')
  BY <1>1, <1>5 DEF CleaningAt
<1>7. AppTypes' /\ BillingInfo' /\ Processing' /\ BlamedAlike'
  BY <1>1, <1>2, <1>5 DEF AppIInv, AppTypes, Stages, BillingInfo, Processing, BlamedAlike, OpensLevel
<1>8. OnlyZeroUnpaid'
  BY <1>1 DEF AppIInv, OnlyZeroUnpaid
<1> QED
  BY <1>1, <1>6, <1>7, <1>8, OutsideStep

LEMMA BeginPollingStep == AppIInv /\ BeginPolling => AppIInv'
<1> SUFFICES ASSUME AppIInv, BeginPolling PROVE AppIInv'
  OBVIOUS
<1>1. /\ stage = "cleaning" /\ stage' = "polling"
      /\ agent' = A!Start(A!CreateFor(agent, "main", "receive", served, "billing"), "main", "receive")
      /\ UNCHANGED <<pc, requestVars, tagVars, resultVars, queue, current, ledger>>
  BY DEF BeginPolling, MainAt
<1>2. /\ InCleanup /\ InCleanup' /\ stage # "paying" /\ stage' # "paying"
      /\ pc["main"] = "read" /\ agent.info["billing"] \in {"live", "invalid"}
  BY <1>1 DEF AppIInv, BillingInfo, InCleanup
<1>3. Cleaning(agent, TRUE, FALSE, FALSE) /\ served \in 0..served
  <2>1. served \in Nat /\ CleaningAt(agent, stage)
    BY <1>2, Outside
  <2>2. Cleaning(agent, TRUE, FALSE, FALSE)
    BY <1>1, <2>1 DEF CleaningAt
  <2>3. served \in 0..served
    BY <2>1
  <2> QED
    BY <2>2, <2>3
<1>4. agent \in A!AgentState /\ ~A!Live(agent, "receive")
  BY <1>3 DEF Cleaning, Levels, Level
<1>5. Opens(agent, agent', "main", "receive", served, NoTag)
  BY <1>1, <1>2, <1>4, Outside, OpenFor DEF CleanupTracers
<1>6. Cleaning(agent', TRUE, TRUE, FALSE) /\ OpensLevel(agent, agent', "receive", served, NoTag)
  BY <1>3, <1>5, OpenLevel DEF CleanupTracers
<1>7. CleaningAt(agent', stage')
  BY <1>1, <1>6 DEF CleaningAt
<1>8. AppTypes' /\ BillingInfo' /\ Processing' /\ BlamedAlike'
  BY <1>1, <1>2, <1>6 DEF AppIInv, AppTypes, Stages, BillingInfo, Processing, BlamedAlike, OpensLevel
<1>9. OnlyZeroUnpaid'
  BY <1>1 DEF AppIInv, OnlyZeroUnpaid
<1> QED
  BY <1>1, <1>2, <1>7, <1>8, <1>9, OutsideStep

\* The message at the head of the queue, and the rest.
LEMMA HeadOfQueue ==
  ASSUME Lasting, queue # <<>>
  PROVE  /\ Head(queue) \in Messages /\ Head(queue).req \in 0..served
         /\ Tail(queue) \in Seq(Messages)
<1>1. queue \in Seq(Messages) /\ served \in Nat
  BY DEF Lasting, TypeOK
<1>2. Head(queue) \in Messages /\ Tail(queue) \in Seq(Messages)
  BY <1>1, HeadTailProperties
<1>3. Head(queue) = queue[1] /\ 1 \in 1..Len(queue)
  BY <1>1
<1>4. \A k \in 1..Len(queue) : queue[k].req <= served
  BY DEF Lasting, Control, Bills
<1>5. Head(queue).req <= served /\ Head(queue).req \in Nat
  BY <1>2, <1>3, <1>4 DEF Messages
<1> QED
  BY <1>1, <1>2, <1>5

LEMMA PollMessageStep == AppIInv /\ PollMessage => AppIInv'
<1> SUFFICES ASSUME AppIInv, PollMessage PROVE AppIInv'
  OBVIOUS
<1> DEFINE m == Head(queue)
           a1 == A!CreateFor(agent, "main", "process", m.req, "billing")
           a2 == A!Start(A!SetTag(a1, "main", "process", m.tag), "main", "process")
<1>1. /\ stage = "polling" /\ stage' = "paying" /\ queue # <<>>
      /\ current' = <<m>> /\ queue' = Tail(queue) /\ agent' = A!Set(a2, "main", "process")
      /\ UNCHANGED <<pc, requestVars, tagVars, resultVars, ledger>>
  BY DEF PollMessage, MainAt
<1>2. pc["main"] = "read" /\ agent.info["billing"] \in {"live", "invalid"}
  BY <1>1 DEF AppIInv, BillingInfo, InCleanup
<1>3. Cleaning(agent, TRUE, TRUE, FALSE) /\ Lasting /\ agent \in A!AgentState
  BY <1>1, <1>2, Outside DEF CleaningAt
<1>4. m \in Messages /\ m.req \in 0..served /\ m.req \in Nat /\ m.tag \in A!Tags
  BY <1>1, <1>3, HeadOfQueue DEF Messages
<1> HIDE DEF m
<1>5. ~A!Live(agent, "process") /\ "process" \in Tracers /\ "main" \in Threads
  BY <1>3 DEF Cleaning, Levels, Level, Tracers, Threads
<1>6. /\ Touches(agent, a1, "main", "process") /\ a1.top["main"] = agent.top["main"]
      /\ a1.tr["process"].phase = "invalid" \/ Created(a1.tr["process"], "main", m.req)
  BY <1>2, <1>3, <1>4, <1>5, CreateForCall
<1> HIDE DEF a1
<1>7. Opens(agent, a2, "main", "process", m.req, m.tag)
  BY <1>3, <1>4, <1>5, <1>6, OpenTagged
<1> HIDE DEF a2
<1>8. agent' = a2
  BY <1>1, <1>7, SetCall DEF Opens
<1>9. Cleaning(agent', TRUE, TRUE, TRUE) /\ OpensLevel(agent, agent', "process", m.req, m.tag)
  BY <1>3, <1>4, <1>7, <1>8, OpenLevel DEF CleanupTracers
<1>10. CleaningAt(agent', stage')
  BY <1>1, <1>9 DEF CleaningAt
<1>11. AppTypes'
  BY <1>1, <1>4 DEF AppIInv, AppTypes, Stages
<1>12. BillingInfo' /\ BlamedAlike'
  BY <1>1, <1>2, <1>9 DEF BillingInfo, BlamedAlike, InCleanup, OpensLevel
<1>13. Processing' /\ OnlyZeroUnpaid'
  BY <1>1, <1>9 DEF AppIInv, Processing, OnlyZeroUnpaid, OpensLevel
<1> QED
  BY <1>1, <1>2, <1>10, <1>11, <1>12, <1>13, OutsideStep

LEMMA PollNothingStep == AppIInv /\ PollNothing => AppIInv'
<1> SUFFICES ASSUME AppIInv, PollNothing PROVE AppIInv'
  OBVIOUS
<1> DEFINE a1 == A!End(agent, "main", "receive")
<1>1. /\ stage = "polling" /\ stage' = "prompt" /\ agent' = A!End(a1, "main", "custom")
      /\ UNCHANGED <<pc, requestVars, tagVars, resultVars, queue, current, ledger>>
  BY DEF PollNothing, MainAt
<1>2. pc["main"] = "read" /\ agent.info["billing"] \in {"live", "invalid"}
  BY <1>1 DEF AppIInv, BillingInfo, InCleanup
<1>3. Cleaning(agent, TRUE, TRUE, FALSE)
  BY <1>1, <1>2, Outside DEF CleaningAt
<1>4. Closes(agent, a1, "main", "receive", agent.tr["receive"].err)
  BY <1>3, EndLevel DEF CleanupTracers
<1> HIDE DEF a1
<1>5. Cleaning(a1, TRUE, FALSE, FALSE) /\ ClosesLevel(agent, a1, "receive", agent.tr["receive"].err)
  BY <1>3, <1>4, CloseLevel DEF CleanupTracers, Cleaning
<1>6. Closes(a1, agent', "main", "custom", a1.tr["custom"].err)
  BY <1>1, <1>5, EndLevel DEF CleanupTracers
<1>7. Cleaning(agent', FALSE, FALSE, FALSE) /\ ClosesLevel(a1, agent', "custom", a1.tr["custom"].err)
  BY <1>5, <1>6, CloseLevel DEF CleanupTracers, Cleaning
<1>8. CleaningAt(agent', stage')
  BY <1>1, <1>7 DEF CleaningAt
<1>9. AppTypes' /\ BillingInfo' /\ Processing'
  BY <1>1, <1>2, <1>5, <1>7 DEF AppIInv, AppTypes, Stages, BillingInfo, Processing, InCleanup, ClosesLevel
<1>10. BlamedAlike'
  <2>1. a1.tr["receive"].phase = "ended" => ~a1.tr["receive"].err
    BY <1>3, <1>4, LevelReady DEF Closes, Started
  <2>2. agent'.tr["custom"].phase = "ended" => ~agent'.tr["custom"].err
    BY <1>5, <1>6, LevelReady DEF Closes, Started
  <2>3. agent'.tr["receive"] = a1.tr["receive"]
    BY <1>7 DEF ClosesLevel, CleanupTracers
  <2> QED
    BY <2>1, <2>2, <2>3 DEF BlamedAlike
<1>11. OnlyZeroUnpaid'
  BY <1>1 DEF AppIInv, OnlyZeroUnpaid
<1> QED
  BY <1>1, <1>2, <1>8, <1>9, <1>10, <1>11, OutsideStep

-----------------------------------------------------------------------------
(* What a message costs *)

\* A power of two is the number of subsets of a set.
LEMMA WrapPositive == 2^Width \in Nat \ {0}
<1> DEFINE S == 1..Width
<1>1. IsFiniteSet(S) /\ Cardinality(S) = Width
  BY CostAssumption, FS_Interval
<1> HIDE DEF S
<1>2. IsFiniteSet(SUBSET S) /\ Cardinality(SUBSET S) = 2^Width
  BY <1>1, FS_SUBSET
<1>3. SUBSET S # {}
  OBVIOUS
<1>4. Cardinality(SUBSET S) \in Nat /\ Cardinality(SUBSET S) # 0
  BY <1>2, <1>3, FS_EmptySet, FS_CardinalityType
<1> QED
  BY <1>2, <1>4

\* An unsigned that does not wrap is the number itself.
LEMMA UnsignedSmall ==
  ASSUME NEW n \in Nat, n < 2^Width
  PROVE  Unsigned(n) = n
<1> DEFINE w == 2^Width
<1>1. w \in Nat \ {0} /\ n < w
  BY WrapPositive
<1> HIDE DEF w
<1>2. n % w = n
  BY <1>1
<1> QED
  BY <1>2 DEF w, Unsigned

\* An empty text costs nothing; another one does so only if its cost wraps.
LEMMA CostOfText ==
  ASSUME NEW i \in Inputs
  PROVE  /\ Total[i] = 0 => i \in ZeroCost
         /\ i \in ZeroCost => Total[i] = 0 \/ 3 * Total[i] >= 2^Width
<1> DEFINE c == Changed[i]
           t == Total[i]
           w == 2^Width
<1>1. c \in Nat /\ t \in Nat /\ c <= t /\ w \in Nat \ {0}
  BY CostAssumption, WrapPositive
<1>2. Unsigned(0) = 0
  BY <1>1, UnsignedSmall
<1>3. ASSUME 3 * t < w PROVE Cost(i) = 2 * c + t
  <2>1. c \in Nat /\ t \in Nat /\ 2 * c + t \in Nat /\ c < w /\ t < w /\ 2 * c + t < w
    <3> HIDE DEF c, t, w
    <3> QED
      BY <1>1, <1>3
  <2>2. Unsigned(c) = c /\ Unsigned(t) = t /\ Unsigned(2 * c + t) = 2 * c + t
    <3>1. \A n \in Nat : n < w => Unsigned(n) = n
      BY UnsignedSmall
    <3> HIDE DEF c, t, w
    <3> QED
      BY <2>1, <3>1
  <2> QED
    BY <2>2 DEF Cost
<1>4. t = 0 => c = 0 /\ 3 * t < w
  <2> HIDE DEF c, t, w
  <2> QED
    BY <1>1
<1>5. t = 0 => Cost(i) = 0
  <2>1. t = 0 => Cost(i) = 2 * c + t
    BY <1>3, <1>4
  <2> HIDE DEF c, t, w
  <2> QED
    BY <1>4, <2>1
<1>6. Cost(i) = 0 => t = 0 \/ 3 * t >= w
  <2>1. 3 * t < w => Cost(i) = 2 * c + t
    BY <1>3
  <2> HIDE DEF c, t, w
  <2> QED
    BY <1>1, <2>1
<1> QED
  BY <1>5, <1>6 DEF ZeroCost

\* The message at hand, and the ledger with it.
LEMMA CurrentMessage ==
  ASSUME AppIInv, stage = "paying"
  PROVE  /\ current = <<current[1]>> /\ current[1] \in Messages /\ pc["main"] = "read"
         /\ agent.info["billing"] \in {"live", "invalid"}
         /\ Cleaning(agent, TRUE, TRUE, TRUE)
<1>1. current \in Seq(Messages) /\ Len(current) = 1
  BY DEF AppIInv, AppTypes
<1>2. pc["main"] = "read" /\ agent.info["billing"] \in {"live", "invalid"}
  BY DEF AppIInv, BillingInfo, InCleanup
<1>3. current = <<current[1]>> /\ current[1] \in Messages
  BY <1>1
<1>4. Cleaning(agent, TRUE, TRUE, TRUE)
  BY <1>2, Outside DEF CleaningAt
<1> QED
  BY <1>2, <1>3, <1>4

LEMMA LedgerStep ==
  ASSUME AppIInv, NEW m \in Messages, NEW ok \in BOOLEAN, ledger' = Append(ledger, Entry(m, ok)),
         ok <=> m.input \notin ZeroCost
  PROVE  ledger' \in Seq([msg : Messages, paid : BOOLEAN]) /\ OnlyZeroUnpaid'
<1> DEFINE e == Entry(m, ok)
<1>1. e \in [msg : Messages, paid : BOOLEAN] /\ e.msg = m /\ e.paid = ok
  BY DEF Entry
<1>2. ledger \in Seq([msg : Messages, paid : BOOLEAN])
  BY DEF AppIInv, AppTypes
<1>3. ledger' = Append(ledger, e)
  OBVIOUS
<1> HIDE DEF e
<1>4. /\ ledger' \in Seq([msg : Messages, paid : BOOLEAN])
      /\ Len(ledger') = Len(ledger) + 1 /\ Len(ledger) \in Nat
      /\ \A k \in 1..Len(ledger) : ledger'[k] = ledger[k]
      /\ ledger'[Len(ledger) + 1] = e
  BY <1>1, <1>2, <1>3, AppendProperties, LenProperties
<1>5. m.input \in Inputs
  BY DEF Messages
<1>6. /\ Total[m.input] = 0 => ~ok
      /\ ok \/ Total[m.input] = 0 \/ 3 * Total[m.input] >= 2^Width
  BY <1>5, CostOfText
<1>7. ASSUME NEW k \in 1..Len(ledger')
      PROVE  /\ Total[ledger'[k].msg.input] = 0 => ~ledger'[k].paid
             /\ \/ ledger'[k].paid \/ Total[ledger'[k].msg.input] = 0
                \/ 3 * Total[ledger'[k].msg.input] >= 2^Width
  <2>1. CASE k = Len(ledger) + 1
    BY <1>1, <1>4, <1>6, <2>1
  <2>2. CASE k # Len(ledger) + 1
    <3>1. k \in 1..Len(ledger) /\ ledger'[k] = ledger[k]
      BY <1>4, <2>2
    <3>2. OnlyZeroUnpaid
      BY DEF AppIInv
    <3> QED
      BY <3>1, <3>2 DEF OnlyZeroUnpaid
  <2> QED
    BY <2>1, <2>2
<1>8. OnlyZeroUnpaid'
  BY <1>7 DEF OnlyZeroUnpaid
<1> QED
  BY <1>4, <1>8

LEMMA PayStep == AppIInv /\ Pay => AppIInv'
<1> SUFFICES ASSUME AppIInv, Pay PROVE AppIInv'
  OBVIOUS
<1>1. /\ stage = "paying" /\ stage' = "polling" /\ agent' = A!End(agent, "main", "process")
      /\ current[1].input \notin ZeroCost
      /\ ledger' = Append(ledger, Entry(current[1], TRUE)) /\ current' = <<>>
      /\ UNCHANGED <<pc, requestVars, tagVars, resultVars, queue>>
  BY DEF Pay, MainAt
<1>2. Cleaning(agent, TRUE, TRUE, TRUE) /\ pc["main"] = "read" /\ current[1] \in Messages
      /\ agent.info["billing"] \in {"live", "invalid"}
  BY <1>1, CurrentMessage
<1>3. Closes(agent, agent', "main", "process", agent.tr["process"].err)
  BY <1>1, <1>2, EndLevel DEF CleanupTracers
<1>4. Cleaning(agent', TRUE, TRUE, FALSE) /\ agent'.info = agent.info
  <2>1. Resting(agent)
    BY <1>2 DEF Cleaning
  <2> QED
    BY <1>2, <1>3, <2>1, CloseLevel DEF CleanupTracers, ClosesLevel
<1>5. CleaningAt(agent', stage')
  BY <1>1, <1>4 DEF CleaningAt
<1>6. ledger' \in Seq([msg : Messages, paid : BOOLEAN]) /\ OnlyZeroUnpaid'
  BY <1>1, <1>2, LedgerStep
<1>7. AppTypes'
  BY <1>1, <1>6, EmptySeq DEF AppTypes, Stages
<1>8. BillingInfo' /\ Processing' /\ BlamedAlike'
  BY <1>1, <1>2, <1>4 DEF BillingInfo, Processing, BlamedAlike, InCleanup
<1> QED
  BY <1>1, <1>2, <1>5, <1>6, <1>7, <1>8, OutsideStep

LEMMA PayThrowsStep == AppIInv /\ PayThrows => AppIInv'
<1> SUFFICES ASSUME AppIInv, PayThrows PROVE AppIInv'
  OBVIOUS
<1> DEFINE a1 == A!Fail(agent, "main", "process")
           a2 == A!Fail(a1, "main", "receive")
<1>1. /\ stage = "paying" /\ stage' = "prompt" /\ agent' = A!Fail(a2, "main", "custom")
      /\ current[1].input \in ZeroCost
      /\ ledger' = Append(ledger, Entry(current[1], FALSE)) /\ current' = <<>>
      /\ UNCHANGED <<pc, requestVars, tagVars, resultVars, queue>>
  BY DEF PayThrows, MainAt
<1>2. Cleaning(agent, TRUE, TRUE, TRUE) /\ pc["main"] = "read" /\ current[1] \in Messages
      /\ agent.info["billing"] \in {"live", "invalid"}
  BY <1>1, CurrentMessage
<1>3. Closes(agent, a1, "main", "process", TRUE)
  BY <1>2, FailLevel DEF CleanupTracers
<1> HIDE DEF a1
<1>4. Cleaning(a1, TRUE, TRUE, FALSE) /\ a1.info = agent.info
  BY <1>2, <1>3, CloseLevel DEF CleanupTracers, Cleaning, ClosesLevel
<1>5. Closes(a1, a2, "main", "receive", TRUE)
  BY <1>4, FailLevel DEF CleanupTracers
<1> HIDE DEF a2
<1>6. Cleaning(a2, TRUE, FALSE, FALSE) /\ ClosesLevel(a1, a2, "receive", TRUE)
  BY <1>4, <1>5, CloseLevel DEF CleanupTracers, Cleaning
<1>7. Closes(a2, agent', "main", "custom", TRUE)
  BY <1>1, <1>6, FailLevel DEF CleanupTracers
<1>8. Cleaning(agent', FALSE, FALSE, FALSE) /\ ClosesLevel(a2, agent', "custom", TRUE)
  BY <1>6, <1>7, CloseLevel DEF CleanupTracers, Cleaning
<1>9. CleaningAt(agent', stage')
  BY <1>1, <1>8 DEF CleaningAt
<1>10. ledger' \in Seq([msg : Messages, paid : BOOLEAN]) /\ OnlyZeroUnpaid'
  BY <1>1, <1>2, LedgerStep
<1>11. AppTypes'
  BY <1>1, <1>10, EmptySeq DEF AppTypes, Stages
<1>12. BillingInfo' /\ Processing' /\ BlamedAlike'
  BY <1>1, <1>2, <1>4, <1>6, <1>8 DEF BillingInfo, Processing, BlamedAlike, InCleanup, ClosesLevel, CleanupTracers
<1> QED
  BY <1>1, <1>2, <1>9, <1>10, <1>11, <1>12, OutsideStep

-----------------------------------------------------------------------------
(* The steps of a request, and the agent's own *)

\* No step of a request touches what the cleanup uses.
LEMMA RequestSpares ==
  ASSUME IInv, \/ \E i \in Inputs : ReadRequest(i)
               \/ MainStep \/ ServerStep \/ DbStep \/ DispStep
  PROVE  SparesCleanup
<1>1. ASSUME NEW i \in Inputs, ReadRequest(i)
      PROVE  SparesCleanup
  BY <1>1, ReadRequestEffect DEF SameTracers, SparesCleanup
<1> QED
  BY <1>1, AgentStep

LEMMA ServeRequestStep == AppIInv /\ ServeRequest => AppIInv'
<1> SUFFICES ASSUME AppIInv, ServeRequest PROVE AppIInv'
  OBVIOUS
<1>1. /\ stage = "prompt" /\ stage' = "prompt" /\ UNCHANGED <<current, ledger>>
      /\ \/ \E i \in Inputs : ReadRequest(i)
         \/ MainStep \/ ServerStep \/ DbStep \/ DispStep
  BY DEF ServeRequest, appVars
<1>2. IInv
  BY <1>1 DEF AppIInv
<1>3. IInv' /\ SparesCleanup
  BY <1>1, <1>2, Inductive, RequestSpares DEF Next
<1>4. Lasting'
  BY <1>3 DEF IInv, Traces, Lasting
<1>5. /\ agent'.tr["custom"] = agent.tr["custom"] /\ agent'.tr["receive"] = agent.tr["receive"]
      /\ agent'.tr["process"] = agent.tr["process"]
  BY <1>3 DEF SparesCleanup
<1>6. Levels(agent, FALSE, FALSE, FALSE)'
  BY <1>1, <1>5 DEF AppIInv, InCleanup, Levels, Level, Started, A!Live
<1>7. AppTypes' /\ BillingInfo' /\ Processing' /\ BlamedAlike' /\ OnlyZeroUnpaid'
  BY <1>1, <1>3, <1>5 DEF AppIInv, AppTypes, BillingInfo, Processing, BlamedAlike, OnlyZeroUnpaid, InCleanup,
     SparesCleanup
<1> QED
  BY <1>1, <1>3, <1>4, <1>6, <1>7 DEF AppIInv, InCleanup

\* The agent moves, or nothing does.
LEMMA AgentMoveStep == AppIInv /\ (AgentToggle \/ UNCHANGED vars) /\ UNCHANGED appVars => AppIInv'
<1> SUFFICES ASSUME AppIInv, AgentToggle \/ UNCHANGED vars, UNCHANGED appVars PROVE AppIInv'
  OBVIOUS
<1>1. /\ UNCHANGED <<pc, client, served, input, hdrTag, link, callTag, dbResult, rpcResult, response, queue>>
      /\ UNCHANGED <<stage, current, ledger>>
      /\ agent' = A!Toggle(agent) \/ agent' = agent
  BY DEF AgentToggle, vars, appVars, requestVars, tagVars, resultVars
<1>2. agent \in A!AgentState
  BY DEF AppIInv, Lasting, TypeOK
<1>3. /\ agent' \in A!AgentState /\ agent'.tr = agent.tr /\ agent'.top = agent.top /\ agent'.info = agent.info
      /\ agent'.misuse = agent.misuse /\ agent'.initialized = agent.initialized
  BY <1>1, <1>2, ToggleMove
<1>4. stage' = "prompt" => IInv'
  <2>1. IInv => IInv'
    BY Inductive DEF Next
  <2> QED
    BY <1>1, <2>1 DEF AppIInv
<1>5. Lasting'
  <2>1. TypeOK' /\ BillTags' /\ Dated'
    BY <1>1, <1>3 DEF AppIInv, Lasting, TypeOK, BillTags, Dated
  <2>2. Control'
    BY <1>1, BilledFrame, BillsFrame DEF AppIInv, Lasting, Control, Threading, DbOutcome, DispOutcome,
       ServerOutcome, MainOutcome, Settled
  <2> QED
    BY <2>1, <2>2 DEF Lasting
<1>6. /\ stage # "prompt" => Resting(agent)'
      /\ ~InCleanup => Levels(agent, FALSE, FALSE, FALSE)'
      /\ stage = "cleaning" => Levels(agent, TRUE, FALSE, FALSE)'
      /\ stage = "polling" => Levels(agent, TRUE, TRUE, FALSE)'
      /\ stage = "paying" => Levels(agent, TRUE, TRUE, TRUE)'
  BY <1>1, <1>3 DEF AppIInv, Resting, Levels, Level, Started, A!Live, AtProcess, AtReceive, AtCustom
<1>7. AppTypes' /\ BillingInfo' /\ Processing' /\ BlamedAlike' /\ OnlyZeroUnpaid'
  BY <1>1, <1>3 DEF AppIInv, AppTypes, BillingInfo, Processing, BlamedAlike, OnlyZeroUnpaid, InCleanup, Started
<1> QED
  BY <1>1, <1>4, <1>5, <1>6, <1>7 DEF AppIInv, InCleanup

-----------------------------------------------------------------------------
(* From the send to the ledger *)

\* The messages in a ledger.
SettledMessages(l) == [k \in 1..Len(l) |-> l[k].msg]
Entries == [msg : Messages, paid : BOOLEAN]

LEMMA SettledTyped ==
  ASSUME NEW l \in Seq(Entries)
  PROVE  /\ SettledMessages(l) \in Seq(Messages) /\ Len(SettledMessages(l)) = Len(l)
         /\ \A k \in 1..Len(l) : SettledMessages(l)[k] = l[k].msg
<1>1. Len(l) \in Nat /\ \A k \in 1..Len(l) : l[k] \in Entries
  BY LenProperties, ElementOfSeq
<1>2. \A k \in 1..Len(l) : l[k].msg \in Messages
  BY <1>1 DEF Entries
<1> QED
  BY <1>1, <1>2 DEF SettledMessages

LEMMA SettledAppend ==
  ASSUME NEW l \in Seq(Entries), NEW m \in Messages, NEW ok \in BOOLEAN
  PROVE  SettledMessages(Append(l, Entry(m, ok))) = SettledMessages(l) \o <<m>>
<1> DEFINE e == Entry(m, ok)
           s == SettledMessages(Append(l, e))
           t == Append(SettledMessages(l), m)
<1>1. e \in Entries /\ e.msg = m
  BY DEF Entry, Entries
<1> HIDE DEF e
<1>2. /\ Append(l, e) \in Seq(Entries) /\ Len(Append(l, e)) = Len(l) + 1 /\ Len(l) \in Nat
      /\ \A k \in 1..Len(l) : Append(l, e)[k] = l[k]
      /\ Append(l, e)[Len(l) + 1] = e
  BY <1>1, AppendProperties, LenProperties
<1>3. /\ s \in Seq(Messages) /\ Len(s) = Len(l) + 1
      /\ \A k \in 1..(Len(l) + 1) : s[k] = Append(l, e)[k].msg
  BY <1>2, SettledTyped
<1>4. /\ SettledMessages(l) \in Seq(Messages) /\ Len(SettledMessages(l)) = Len(l)
      /\ \A k \in 1..Len(l) : SettledMessages(l)[k] = l[k].msg
  BY SettledTyped
<1>5. /\ t \in Seq(Messages) /\ Len(t) = Len(l) + 1
      /\ \A k \in 1..Len(l) : t[k] = SettledMessages(l)[k]
      /\ t[Len(l) + 1] = m
  BY <1>4, AppendProperties
<1> HIDE DEF s, t
<1>6. \A k \in 1..Len(s) : s[k] = t[k]
  <2> TAKE k \in 1..Len(s)
  <2>1. CASE k = Len(l) + 1
    BY <1>1, <1>2, <1>3, <1>5, <2>1
  <2>2. CASE k # Len(l) + 1
    <3>1. k \in 1..Len(l)
      BY <1>2, <1>3, <2>2
    <3> QED
      BY <1>2, <1>3, <1>4, <1>5, <3>1
  <2> QED
    BY <2>1, <2>2
<1>7. s = t
  BY <1>3, <1>5, <1>6, SeqEqual
<1> QED
  BY <1>4, <1>7, AppendIsConcat DEF s, t, e

LEMMA Extended ==
  ASSUME NEW s \in Seq(Messages), NEW t \in Seq(Messages)
  PROVE  Len(s \o t) >= Len(s) /\ SubSeq(s \o t, 1, Len(s)) = s
<1>1. Len(s \o t) = Len(s) + Len(t) /\ Len(s) \in Nat /\ Len(t) \in Nat
  BY ConcatProperties, LenProperties
<1>2. CASE s = <<>>
  BY <1>1, <1>2, SubSeqEmpty
<1>3. CASE s # <<>>
  <2>1. 1 \in 1..Len(s) /\ Len(s) \in 1..Len(s)
    BY <1>1, <1>3, EmptySeq
  <2>2. SubSeq(s \o t, 1, Len(s)) = SubSeq(s, 1, Len(s))
    BY <2>1, SubSeqOfConcat1
  <2> QED
    BY <1>1, <2>2, SubSeqFull
<1> QED
  BY <1>2, <1>3

LEMMA EverythingTyped ==
  ASSUME AppIInv
  PROVE  /\ ledger \in Seq(Entries) /\ SettledMessages(ledger) \in Seq(Messages)
         /\ current \in Seq(Messages) /\ queue \in Seq(Messages)
         /\ Everything = (SettledMessages(ledger) \o current) \o queue
         /\ Everything \in Seq(Messages)
         /\ stage # "paying" => current = <<>>
<1>1. /\ ledger \in Seq(Entries) /\ current \in Seq(Messages) /\ queue \in Seq(Messages)
      /\ Len(current) = IF stage = "paying" THEN 1 ELSE 0
  BY DEF AppIInv, AppTypes, Lasting, TypeOK, Entries
<1>2. SettledMessages(ledger) \in Seq(Messages)
  BY <1>1, SettledTyped
<1>3. Everything = (SettledMessages(ledger) \o current) \o queue
  BY DEF Everything, SettledMessages
<1>4. (SettledMessages(ledger) \o current) \o queue \in Seq(Messages)
  BY <1>1, <1>2, ConcatProperties
<1> QED
  BY <1>1, <1>2, <1>3, <1>4, EmptySeq

\* A step adds nothing, or one message at the end; it moves others along.
LEMMA Appended ==
  ASSUME AppIInv, [AppNext]_allVars
  PROVE  \E t \in Seq(Messages) : Everything' = Everything \o t
<1> DEFINE s == SettledMessages(ledger)
<1>1. /\ ledger \in Seq(Entries) /\ s \in Seq(Messages)
      /\ current \in Seq(Messages) /\ queue \in Seq(Messages)
      /\ Everything = (s \o current) \o queue
      /\ Everything \in Seq(Messages)
      /\ stage # "paying" => current = <<>>
  BY EverythingTyped
<1>2. ASSUME Everything' = Everything
      PROVE  \E t \in Seq(Messages) : Everything' = Everything \o t
  BY <1>1, <1>2, ConcatEmptySeq, EmptySeq
<1>3. Everything' = (SettledMessages(ledger') \o current') \o queue'
  BY DEF Everything, SettledMessages
<1>4. CASE UNCHANGED <<ledger, current, queue>>
  BY <1>2, <1>4 DEF Everything
<1>5. ASSUME UNCHANGED <<ledger, current>>, SendMessage
      PROVE  \E t \in Seq(Messages) : Everything' = Everything \o t
  <2> DEFINE m == [req |-> served, tag |-> A!OutTag(agent, "disp", "outMsg"), input |-> input]
  <2>1. queue' = Append(queue, m)
    BY <1>5 DEF SendMessage
  <2>2. m \in Messages
    <3>1. TypeOK /\ pc["disp"] = "send" /\ Threading
      BY <1>5 DEF AppIInv, Lasting, SendMessage, Step, Control
    <3>2. served \in Nat /\ agent \in A!AgentState /\ input \in Inputs
      BY <3>1 DEF TypeOK, Threading
    <3> QED
      BY <3>2, TagsTyped DEF Messages, Threads, Tracers
  <2> HIDE DEF m
  <2>3. queue' = queue \o <<m>>
    BY <1>1, <2>1, <2>2, AppendIsConcat
  <2>4. s \o current \in Seq(Messages) /\ <<m>> \in Seq(Messages)
    BY <1>1, <2>2, ConcatProperties
  <2>5. (s \o current) \o (queue \o <<m>>) = ((s \o current) \o queue) \o <<m>>
    BY <1>1, <2>4, ConcatAssociative
  <2>6. Everything' = Everything \o <<m>>
    BY <1>1, <1>3, <1>5, <2>3, <2>5
  <2> QED
    BY <2>4, <2>6
<1>6. CASE PollMessage
  <2>1. /\ queue # <<>> /\ current = <<>> /\ current' = <<Head(queue)>> /\ queue' = Tail(queue) /\ ledger' = ledger
    BY <1>1, <1>6 DEF PollMessage, MainAt
  <2>2. queue = <<Head(queue)>> \o Tail(queue) /\ Head(queue) \in Messages /\ Tail(queue) \in Seq(Messages)
    BY <1>1, <2>1, HeadTailProperties
  <2>3. (s \o <<Head(queue)>>) \o Tail(queue) = s \o (<<Head(queue)>> \o Tail(queue))
    BY <1>1, <2>2, ConcatAssociative
  <2>4. s \o <<>> = s
    BY <1>1, ConcatEmptySeq
  <2>5. Everything' = Everything
    BY <1>1, <1>3, <2>1, <2>2, <2>3, <2>4
  <2> QED
    BY <1>2, <2>5
<1>7. CASE Pay \/ PayThrows
  <2>1. PICK ok \in BOOLEAN : ledger' = Append(ledger, Entry(current[1], ok))
    BY <1>7 DEF Pay, PayThrows
  <2>2. stage = "paying" /\ current' = <<>> /\ queue' = queue
    BY <1>7 DEF Pay, PayThrows
  <2>3. current = <<current[1]>> /\ current[1] \in Messages
    BY <2>2, CurrentMessage
  <2>4. SettledMessages(ledger') = s \o current
    BY <1>1, <2>1, <2>3, SettledAppend
  <2>5. (s \o current) \o <<>> = s \o current
    <3>1. s \o current \in Seq(Messages)
      BY <1>1, ConcatProperties
    <3> QED
      BY <3>1, ConcatEmptySeq
  <2>6. Everything' = Everything
    BY <1>1, <1>3, <2>2, <2>4, <2>5
  <2> QED
    BY <1>2, <2>6
<1>8. CASE ServeRequest
  <2>1. UNCHANGED <<ledger, current>>
    BY <1>8 DEF ServeRequest, appVars
  <2>2. CASE SendMessage
    BY <1>5, <2>1, <2>2
  <2>3. CASE ~SendMessage
    <3>1. queue' = queue
      BY <1>8, <2>3, QueueFrame DEF ServeRequest, ReadRequest
    <3> QED
      BY <1>4, <2>1, <3>1
  <2> QED
    BY <2>2, <2>3
<1>9. CASE \/ EnterLoop \/ BeginCleanup \/ BeginPolling \/ PollNothing \/ Exit \/ Shutdown \/ Exited
           \/ (AgentToggle /\ UNCHANGED appVars) \/ UNCHANGED allVars
  <2>1. UNCHANGED <<ledger, current, queue>>
    BY <1>9 DEF EnterLoop, BeginCleanup, BeginPolling, PollNothing, Exit, Shutdown, Exited, AgentToggle,
       appVars, allVars, vars
  <2> QED
    BY <1>4, <2>1
<1> QED
  BY <1>6, <1>7, <1>8, <1>9 DEF AppNext, Cleanup

-----------------------------------------------------------------------------
(* Theorems about the main loop *)

LEMMA AppInitial == AppInit => AppIInv
<1> SUFFICES ASSUME AppInit PROVE AppIInv
  OBVIOUS
<1>1. IInv /\ stage = "startup" /\ current = <<>> /\ ledger = <<>> /\ pc["main"] = "read"
  BY Initial DEF AppInit, Init, Threads
<1>2. Cleaning(agent, FALSE, FALSE, FALSE) /\ Lasting
  BY <1>1, AtPrompt
<1>3. PICK init \in AgentFound, act \in BOOLEAN : agent = A!Fresh(init, act)
  BY DEF AppInit, Init
<1>4. /\ agent.tr["custom"].phase = "absent" /\ agent.tr["receive"].phase = "absent"
      /\ agent.info["billing"] = "absent"
  BY <1>3 DEF A!Fresh, A!Absent, Tracers, Infos
<1>5. AppTypes
  BY <1>1, EmptySeq DEF AppTypes, Stages
<1>6. BillingInfo /\ Processing /\ BlamedAlike /\ OnlyZeroUnpaid
  BY <1>1, <1>4 DEF BillingInfo, Processing, BlamedAlike, OnlyZeroUnpaid, InCleanup
<1> QED
  BY <1>1, <1>2, <1>5, <1>6 DEF AppIInv, InCleanup, Cleaning

LEMMA AppInductive == AppIInv /\ [AppNext]_allVars => AppIInv'
<1> SUFFICES ASSUME AppIInv, [AppNext]_allVars PROVE AppIInv'
  OBVIOUS
<1>1. CASE EnterLoop \/ ServeRequest \/ BeginCleanup \/ Exit \/ Shutdown
  BY <1>1, EnterLoopStep, ServeRequestStep, BeginCleanupStep, ExitStep, ShutdownStep
<1>2. CASE Cleanup
  BY <1>2, BeginPollingStep, PollMessageStep, PayStep, PayThrowsStep, PollNothingStep DEF Cleanup
<1>3. CASE AgentToggle /\ UNCHANGED appVars
  BY <1>3, AgentMoveStep
<1>4. CASE UNCHANGED allVars
  BY <1>4, AgentMoveStep DEF allVars
<1> QED
  BY <1>1, <1>2, <1>3, <1>4 DEF AppNext, Exited

\* The inductive invariant holds in every reachable state.
THEOREM AppInvariance == AppSpec => []AppIInv
  BY AppInitial, AppInductive, PTL DEF AppSpec

\* Nothing stays unpaid but what costs nothing: an empty text, or one so long
\* that its cost can wrap; and an empty text is never paid.
THEOREM UnpaidForNothing == AppSpec => []OnlyZeroUnpaid
<1>1. AppIInv => OnlyZeroUnpaid
  BY DEF AppIInv
<1> QED
  BY <1>1, AppInvariance, PTL

\* An error that ends a cleanup marks all its tracers, not some of them.
THEOREM CleanupsBlamed == AppSpec => []CleanupBlamed
<1>1. AppIInv => CleanupBlamed
  <2> SUFFICES ASSUME AppIInv, stage = "prompt", NEW s \in {"custom", "receive"}, NEW t \in {"custom", "receive"},
                      agent.tr[s].phase = "ended", agent.tr[t].phase = "ended"
               PROVE  agent.tr[s].err <=> agent.tr[t].err
    BY DEF CleanupBlamed
  <2> QED
    BY DEF AppIInv, BlamedAlike, InCleanup
<1> QED
  BY <1>1, AppInvariance, PTL

\* From start to shutdown, no call to the agent is one that its header forbids.
THEOREM AppUsageCorrect == AppSpec => []NoUsageError
<1>1. AppIInv => NoUsageError
  BY DEF AppIInv, Resting, IInv, Traces, Tracing, NoOthers, NoUsageError
<1> QED
  BY <1>1, AppInvariance, PTL

\* A message is processed below the receive tracer of its cleanup and leads, by
\* its tag, to the request that sent it.
THEOREM ProcessesTraced == AppSpec => []ProcessTraced
<1>1. AppIInv => ProcessTraced
  <2> SUFFICES ASSUME AppIInv PROVE ProcessTraced
    OBVIOUS
  <2>1. CASE ~InCleanup
    <3>1. ~A!Live(agent, "process") /\ ~A!Live(agent, "receive")
      BY <2>1 DEF AppIInv, Levels, Level
    <3> QED
      BY <3>1 DEF ProcessTraced, ChildOf
  <2>2. CASE InCleanup
    <3>1. /\ \A s \in CleanupTracers : A!Live(agent, s) <=> Started(agent, s)
          /\ Started(agent, "receive") => agent.tr["receive"].parent = AtCustom(agent)
          /\ Started(agent, "process") => agent.tr["process"].parent = AtReceive(agent) /\ stage = "paying"
      BY <2>2 DEF AppIInv, InCleanup, Levels, Level, A!Live, Started, CleanupTracers
    <3>2. Processing
      BY DEF AppIInv
    <3> QED
      BY <3>1, <3>2 DEF ProcessTraced, ChildOf, Processing, AtCustom, AtReceive, CleanupTracers
  <2> QED
    BY <2>1, <2>2
<1> QED
  BY <1>1, AppInvariance, PTL

\* When the SDK is shut down, every tracer has ended and every info object is
\* released.
THEOREM AllReleased == AppSpec => []ReleasedAtExit
<1>1. AppIInv => ReleasedAtExit
  <2> SUFFICES ASSUME AppIInv, stage = "exited"
               PROVE  /\ ~agent.initialized
                      /\ \A i \in Infos : agent.info[i] # "live"
                      /\ \A s \in Tracers : ~A!Live(agent, s)
    BY DEF ReleasedAtExit
  <2>1. Resting(agent) /\ Levels(agent, FALSE, FALSE, FALSE) /\ BillingInfo
    BY DEF AppIInv, InCleanup
  <2>2. ~agent.initialized /\ agent.info["billing"] # "live"
    BY <2>1 DEF BillingInfo
  <2>3. \A s \in Tracers : s \in RequestTracers \/ s \in {"custom", "receive", "process"}
    BY DEF Tracers, RequestTracers
  <2>4. \A s \in Tracers : ~A!Live(agent, s)
    BY <2>1, <2>3 DEF Resting, Levels, Level
  <2>5. \A i \in Infos : agent.info[i] # "live"
    BY <2>1, <2>2 DEF Resting, Infos
  <2> QED
    BY <2>2, <2>4, <2>5
<1> QED
  BY <1>1, AppInvariance, PTL

\* From the send to the ledger no message is lost, doubled or overtaken.
THEOREM NoMessageLost == AppSpec => NothingLost
<1>1. AppIInv /\ [AppNext]_allVars
        => [/\ Len(Everything') >= Len(Everything)
            /\ SubSeq(Everything', 1, Len(Everything)) = Everything]_allVars
  <2> SUFFICES ASSUME AppIInv, [AppNext]_allVars
               PROVE  /\ Len(Everything') >= Len(Everything)
                      /\ SubSeq(Everything', 1, Len(Everything)) = Everything
    OBVIOUS
  <2>1. PICK t \in Seq(Messages) : Everything' = Everything \o t
    BY Appended
  <2> QED
    BY <2>1, EverythingTyped, Extended
<1> QED
  BY <1>1, AppInvariance, PTL DEF AppSpec, NothingLost

===============================================================================
