----------------------------- MODULE MCSearchBox -----------------------------
(* Two sections of one page each; the second lacks the page of most texts. *)
EXTENDS SearchBox

Row(name) == [name |-> name, kids |-> 0]
MCIndex == << << [char |-> "c", rows |-> << Row(<<"c", " ", "r">>), Row(<<"c", "c">>) >>] >>,
              << [char |-> "o", rows |-> << Row(<<"o">>) >>] >> >>
MCEscaped == [c \in {" ", "_"} |-> IF c = " " THEN 32 ELSE 95]

MCLabel == <<"S">>
MCTexts == {<<>>, MCLabel, <<"c">>, <<"c", "r">>, <<"c", " ", "r">>}
=============================================================================
