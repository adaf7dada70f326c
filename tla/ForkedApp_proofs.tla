-------------------------- MODULE ForkedApp_proofs --------------------------
(***************************************************************************)
(* Theorems about ForkedApp, for any number of requests.                   *)
(***************************************************************************)
EXTENDS ForkedApp, SequenceTheorems, TLAPS

\* Until it exits the original stays in the state the SDK is forkable in,
\* whatever it calls: that is what a child inherits.
OriginalForkable ==
  /\ at[Original] \in {"startup", "prompt", "exited"}
  /\ at[Original] # "exited" => sdk[Original] = "parentInit"

\* A child comes to the loop only by the fork, behind the prompt, and has sent
\* nothing before it has handled its request.
ChildrenApart ==
  \A c \in Children :
    /\ at[c] \in {"absent", "handling", "leaving", "exited"}
    /\ at[c] \in {"absent", "handling"} => pending[c] = <<>> /\ c \notin answered

IInv == TypeOK /\ OriginalForkable /\ ChildrenApart /\ ChildrenTraced /\ MessagesStay

USE ChildrenAssumption

LEMMA InitInv == Init => IInv
<1> SUFFICES ASSUME Init PROVE IInv
  OBVIOUS
<1> USE DEF Init, Processes
<1>1. TypeOK
  <2>1. <<>> \in Seq(Children)
    OBVIOUS
  <2>2. pending \in [Processes -> Seq(Children)]
    BY <2>1
  <2>3. at \in [Processes -> Places] /\ sdk \in [Processes -> ForkStates]
    BY DEF Places, ForkStates
  <2> QED
    BY <2>2, <2>3 DEF TypeOK
<1>2. OriginalForkable
  BY DEF OriginalForkable
<1>3. ChildrenApart /\ ChildrenTraced /\ MessagesStay
  BY DEF ChildrenApart, ChildrenTraced, MessagesStay
<1> QED
  BY <1>1, <1>2, <1>3 DEF IInv

LEMMA NextInv ==
  ASSUME IInv, [Next]_vars
  PROVE  IInv'
<1> USE DEF IInv, TypeOK, Processes, Places, ForkStates,
            OriginalForkable, ChildrenApart, ChildrenTraced, MessagesStay
<1>1. CASE EnterLoop
  BY <1>1 DEF EnterLoop, Move, UseSdk
<1>2. CASE Cleanup
  <2>1. pending[Original] = <<>> /\ Len(pending[Original]) = 0
    OBVIOUS
  <2>2. paid' = {} /\ pending' = pending
    BY <1>2, <2>1 DEF Cleanup
  <2> QED
    BY <1>2, <2>2 DEF Cleanup, UseSdk
<1>3. CASE ExitOriginal
  BY <1>3 DEF ExitOriginal, Move
<1>4. CASE Done
  BY <1>4 DEF Done, vars
<1>5. ASSUME NEW c \in Children, Fork(c)
      PROVE  IInv'
  BY <1>5 DEF Fork
<1>6. ASSUME NEW c \in Children, ForkFails(c)
      PROVE  IInv'
  BY <1>6 DEF ForkFails
<1>7. ASSUME NEW c \in Children, HandleRequest(c)
      PROVE  IInv'
  <2>1. /\ at[c] = "handling" /\ pending[c] = <<>> /\ c \notin answered
        /\ sdk[c] = "preInit"
    BY <1>7 DEF HandleRequest, Move
  <2>2. Append(pending[c], c) = <<c>>
    BY <2>1
  <2>3. /\ at' = [at EXCEPT ![c] = "leaving"]
        /\ sdk' = [sdk EXCEPT ![c] = "fullInit"]
        /\ refused' = refused
        /\ paid' = paid
    BY <1>7, <2>1 DEF HandleRequest, Move, UseSdk
  <2>4. \/ answered' = answered /\ pending' = pending
        \/ answered' = answered /\ pending' = [pending EXCEPT ![c] = <<c>>]
        \/ answered' = answered \cup {c} /\ pending' = [pending EXCEPT ![c] = <<c>>]
    BY <1>7, <2>2 DEF HandleRequest
  <2>5. <<c>> \in Seq(Children)
    OBVIOUS
  <2>6. TypeOK'
    <3>1. pending' \in [Processes -> Seq(Children)]
      BY <2>4, <2>5
    <3>2. at' \in [Processes -> Places] /\ sdk' \in [Processes -> ForkStates]
      BY <2>3
    <3>3. answered' \subseteq Children /\ paid' \subseteq Children /\ refused' \in BOOLEAN
      BY <2>3, <2>4
    <3> QED
      BY <3>1, <3>2, <3>3
  <2>7. (OriginalForkable /\ ChildrenApart /\ ChildrenTraced)'
    BY <2>1, <2>3, <2>4
  <2>8. MessagesStay'
    BY <2>1, <2>3, <2>4
  <2> QED
    BY <2>6, <2>7, <2>8
<1>8. ASSUME NEW c \in Children, Leave(c)
      PROVE  IInv'
  BY <1>8 DEF Leave, Move
<1>9. CASE UNCHANGED vars
  BY <1>9 DEF vars
<1> QED
  BY <1>1, <1>2, <1>3, <1>4, <1>5, <1>6, <1>7, <1>8, <1>9 DEF Next

-----------------------------------------------------------------------------
(* Theorems *)

\* The inductive invariant holds in every behavior.
THEOREM Invariance == Spec => []IInv
BY InitInv, NextInv, PTL DEF Spec

\* Every variable keeps its type.
THEOREM TypeCorrect == Spec => []TypeOK
<1>1. IInv => TypeOK
  BY DEF IInv
<1> QED
  BY <1>1, Invariance, PTL

\* No child ever reads a line meant for the original process.
THEOREM OneReader == Spec => []OnePrompt
<1>1. IInv => OnePrompt
  BY DEF IInv, OnePrompt, ChildrenApart, Processes
<1> QED
  BY <1>1, Invariance, PTL

\* Every child can use the SDK, whatever the original called before the fork.
THEOREM Traced == Spec => []ChildrenTraced
<1>1. IInv => ChildrenTraced
  BY DEF IInv
<1> QED
  BY <1>1, Invariance, PTL

\* No message crosses from one process to another.
THEOREM Apart == Spec => []MessagesStay
<1>1. IInv => MessagesStay
  BY DEF IInv
<1> QED
  BY <1>1, Invariance, PTL

\* What hint 2 of the program promises fails for every answered request: with
\* --fork no cleanup ever pays for anything.
THEOREM NothingPaid == Spec => [](paid = {})
<1>1. IInv => paid = {}
  BY DEF IInv, MessagesStay
<1> QED
  BY <1>1, Invariance, PTL
=============================================================================
