--------------------------- MODULE MCSearchResults ---------------------------
(* A section with two pages and one with one: names with spaces and underscores, *)
(* rows with one and with several matches, a filtered row between two displayed. *)
EXTENDS SearchResults

Row(name, kids) == [name |-> name, kids |-> kids]
Page(char, rows) == [char |-> char, rows |-> rows]

MCIndex == <<
  << Page("b", << Row(<<"b", "_", "l">>, 0) >>),
     Page("c", << Row(<<"c", "a", "t">>, 2), Row(<<"c", "_", "t">>, 2), Row(<<"c", "a">>, 0),
                  Row(<<"c", " ", "r">>, 0) >>) >>,
  << Page("c", << Row(<<"c", "c">>, 3) >>) >> >>
MCEscaped == [c \in {" ", "_"} |-> IF c = " " THEN 32 ELSE 95]

MCTexts == {<<>>, <<"b">>, <<" ", "c">>, <<"c", " ">>, <<"c", " ", "r">>,
            <<"c", "_">>, <<"c", "_", "2">>, <<"c", "a">>, <<"x">>}
=============================================================================
