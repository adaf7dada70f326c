---------------------------- MODULE SearchIndex ----------------------------
(***************************************************************************)
(* The search index of the generated reference documentation and the pure  *)
(* functions over it: which results page a search asks for, and which rows *)
(* of that page it shows.  docs/search/searchdata.js lists the sections    *)
(* and, for each, the first characters that have a page; the pages and     *)
(* their rows are docs/search/<section>_<number>.{html,js}.                *)
(*                                                                         *)
(* A text is a sequence of characters.  Upper and lower case are left out: *)
(* both sides are put into lower case before they are compared.            *)
(***************************************************************************)
EXTENDS Integers, SequencesExt

CONSTANTS
  Index,    \* the sections, each a sequence of pages [char, rows]; a row is
            \* [name, kids], kids the number of its matches if there are several
  Escaped   \* the characters convertToId escapes, with their character codes

Space == " "
Text == Seq(STRING)

\* The sections are numbered from zero, as in searchdata.js.
Sections == 0 .. Len(Index) - 1
Pages(s) == Index[s + 1]

\* What doxygen guarantees of the files it writes: a section has pages, each
\* for one first character and with the names that begin with it.
ASSUME IndexAssumption ==
  /\ Index \in Seq(Seq([char : STRING, rows : Seq([name : Text, kids : Nat])]))
  /\ Index # <<>>
  /\ \A s \in Sections :
       /\ Pages(s) # <<>>
       /\ \A p \in DOMAIN Pages(s) :
            /\ Pages(s)[p].rows # <<>>
            /\ \A r \in DOMAIN Pages(s)[p].rows :
                 /\ Pages(s)[p].rows[r].name # <<>>
                 /\ Head(Pages(s)[p].rows[r].name) = Pages(s)[p].char
       /\ \A p, q \in DOMAIN Pages(s) : Pages(s)[p].char = Pages(s)[q].char => p = q

\* Only letters, digits and the characters from 128 on are left as they are: the
\* underscore is escaped.  No two characters have the same code.
ASSUME EscapedAssumption ==
  /\ "_" \in DOMAIN Escaped
  /\ \A c \in DOMAIN Escaped : Escaped[c] \in 0 .. 255
  /\ \A c, d \in DOMAIN Escaped : Escaped[c] = Escaped[d] => c = d

-----------------------------------------------------------------------------
(* Texts *)

\* replace(/ +/g, "")
Squeeze(text) == SelectSeq(text, LAMBDA c : c # Space)

\* replace(/^ +/, "")
StripLeading(text) ==
  LET visible == {i \in DOMAIN text : text[i] # Space}
  IN  IF visible = {} THEN <<>> ELSE SubSeq(text, Min(visible), Len(text))

\* replace(/ +$/, "")
StripTrailing(text) ==
  LET visible == {i \in DOMAIN text : text[i] # Space}
  IN  IF visible = {} THEN <<>> ELSE SubSeq(text, 1, Max(visible))

Trim(text) == StripTrailing(StripLeading(text))

HexDigit == <<"0", "1", "2", "3", "4", "5", "6", "7",
              "8", "9", "a", "b", "c", "d", "e", "f">>

\* Mutant: an underscore is taken for a character of a word.
CharIdWord(c) == IF c = Space THEN <<"_", "2", "0">> ELSE <<c>>

\* An underscore and two hexadecimal digits stand for an escaped character.
CharId(c) ==
  IF c \in DOMAIN Escaped
  THEN <<"_", HexDigit[(Escaped[c] \div 16) + 1], HexDigit[(Escaped[c] % 16) + 1]>>
  ELSE <<c>>

\* The id of the first n characters, and so of the text.
ConvertToId(text) ==
  LET id[n \in 0 .. Len(text)] ==
        IF n = 0 THEN <<>> ELSE id[n - 1] \o CharId(text[n])
  IN  id[Len(text)]

-----------------------------------------------------------------------------
(* Pages *)

\* The address given to the frame: a page of a section with the text in its
\* query, or nomatches.html; before any search the frame is empty.
Address == [section : Sections, page : Nat, text : Text]
NoMatchesPage == [section |-> 0, page |-> 0, text |-> <<>>]
EmptyFrame == [section |-> -1, page |-> 0, text |-> <<>>]

\* The page of the text's first character.  The empty string is found at
\* position zero of any string: an empty search gets the section's first page.
PageOf(s, text) ==
  IF text = <<>>
  THEN {1}
  ELSE {p \in DOMAIN Pages(s) : Pages(s)[p].char = Head(text)}

AddressOf(s, text) ==
  IF PageOf(s, text) = {}
  THEN NoMatchesPage
  ELSE [section |-> s, page |-> CHOOSE p \in PageOf(s, text) : TRUE, text |-> text]

\* The rows createResults makes.
Rows(a) == IF a.page = 0 THEN <<>> ELSE Pages(a.section)[a.page].rows

\* The rows Search displays: those whose id begins with the id of the text.
Displayed(a) ==
  {r \in DOMAIN Rows(a) : IsPrefix(ConvertToId(Trim(a.text)), ConvertToId(Rows(a)[r].name))}
=============================================================================
