--------------------------- MODULE RequestService ---------------------------
(***************************************************************************)
(* What handle_request (samples/sample1/main.cpp) promises to whoever      *)
(* types the text: one answer for every request, either the transformed    *)
(* text, for which there is a bill, or a failure.  A failure can be        *)
(* answered before or after the bill was written.                          *)
(***************************************************************************)
EXTENDS Integers, Sequences

CONSTANTS Inputs, BadInputs, NoInput, ErrorBody

VARIABLES phase,   \* "idle", "asked" or "answered"
          order,   \* the text of the request
          billed,  \* is there a bill for the request?
          answer,  \* status and body
          bills    \* the texts on the bills, in the order of the bills

serviceVars == <<phase, order, billed, answer, bills>>

Answered(status, body) == [status |-> status, body |-> body]
NoAnswerYet == Answered(0, NoInput)

ServiceInit ==
  /\ phase = "idle" /\ order = NoInput /\ billed = FALSE
  /\ answer = NoAnswerYet /\ bills = <<>>

Ask(i) ==
  /\ phase = "idle"
  /\ phase' = "asked" /\ order' = i /\ billed' = FALSE
  /\ UNCHANGED <<answer, bills>>

Bill ==
  /\ phase = "asked" /\ ~ billed /\ order \notin BadInputs
  /\ bills' = Append(bills, order) /\ billed' = TRUE
  /\ UNCHANGED <<phase, order, answer>>

\* The transformed text is only given away for a bill.
Serve ==
  /\ phase = "asked" /\ billed
  /\ phase' = "answered" /\ answer' = Answered(200, order)
  /\ UNCHANGED <<order, billed, bills>>

Refuse ==
  /\ phase = "asked"
  /\ phase' = "answered" /\ answer' \in {Answered(500, ErrorBody), Answered(-1, NoInput)}
  /\ UNCHANGED <<order, billed, bills>>

Leave ==
  /\ phase = "answered"
  /\ phase' = "idle" /\ answer' = NoAnswerYet
  /\ UNCHANGED <<order, billed, bills>>

ServiceNext == (\E i \in Inputs : Ask(i)) \/ Bill \/ Serve \/ Refuse \/ Leave

ServiceSpec == ServiceInit /\ [][ServiceNext]_serviceVars
===============================================================================
