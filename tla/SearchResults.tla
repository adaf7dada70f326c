--------------------------- MODULE SearchResults ---------------------------
(***************************************************************************)
(* The page in the frame of the search panel (docs/search/search.js, class *)
(* SearchResults): a list of rows of which a search displays some, links   *)
(* in the rows, of which a row with several matches has one for each in a  *)
(* block that can be unfolded, and the keys that move the focus.           *)
(*                                                                         *)
(* A page is loaded with the text in its address.  Rows and matches are    *)
(* numbered from one here and from zero in the code.  The focus is on      *)
(* <<r>>, the link of row r, on <<r, c>>, the link of its match c, or in   *)
(* the field of the panel.                                                 *)
(***************************************************************************)
EXTENDS SearchIndex

CONSTANTS Texts  \* the texts searched for

ASSUME TextsAssumption == Texts \subseteq Text

VARIABLES
  address,   \* of the page in the frame
  unfolded,  \* the rows whose block of matches is displayed
  focus,
  lastKey,   \* SearchResults.lastKey
  repeatOn,  \* SearchResults.repeatOn
  key        \* the key that is held down

vars == <<address, unfolded, focus, lastKey, repeatOn, key>>

Field == <<>>
None == "none"
Keys == {"up", "down", "left", "right", "escape", "enter"}

Kids(r) == Rows(address)[r].kids
Shown == Displayed(address)
\* The links of a row, and those a user can see.
Links(r) == {<<r>>} \cup {<<r, c>> : c \in 1 .. Kids(r)}
VisibleLinks ==
  {<<r>> : r \in Shown} \cup UNION {Links(r) : r \in Shown \cap unfolded}

\* The pages with rows that SearchBox.Search asks for.
Addresses ==
  {a \in {AddressOf(s, StripLeading(t)) : s \in Sections, t \in Texts} : a.page # 0}

TypeOK ==
  /\ address \in Addresses
  /\ unfolded \subseteq {r \in DOMAIN Rows(address) : Kids(r) > 0}
  /\ focus \in {Field} \cup UNION {Links(r) : r \in DOMAIN Rows(address)}
  /\ lastKey \in (Keys \ {"enter"}) \cup {None}
  /\ repeatOn \in BOOLEAN
  /\ key \in Keys \cup {None}

-----------------------------------------------------------------------------
(* Operations of the page *)

\* A page is made by createResults, with every block folded, and filtered by
\* Search; the focus of a page that is left behind is lost.
Fresh(a) ==
  /\ address' = a
  /\ unfolded' = {}
  /\ focus' = Field
  /\ lastKey' = None
  /\ repeatOn' = FALSE

Init ==
  /\ address \in Addresses
  /\ unfolded = {}
  /\ focus = Field
  /\ lastKey = None
  /\ repeatOn = FALSE
  /\ key = None

\* The browser only moves the focus to a link that is visible.
FocusOn(link) == focus' = IF link \in VisibleLinks THEN link ELSE focus

Least(S) == IF S = {} THEN 0 ELSE Min(S)
Greatest(S) == IF S = {} THEN 0 ELSE Max(S)

\* The first row from r on, or up to r, that is displayed; zero if none is.
NavNext(r) == Least({x \in Shown : x >= r})
NavPrev(r) == Greatest({x \in Shown : x <= r})

Unfold(r) == unfolded' = IF Kids(r) > 0 THEN unfolded \cup {r} ELSE unfolded
Fold(r) == unfolded' = unfolded \ {r}
\* The link of a row with several matches.
Toggle(r) == IF r \in unfolded THEN Fold(r) ELSE Unfold(r)

\* A key acts when it goes down.  The first keypress after that is ignored, the
\* following ones are repetitions and act; nothing acts when the key comes up.
ProcessKeys(type, k) ==
  /\ lastKey' = CASE type = "keydown" -> k
                  [] type = "keypress" -> lastKey
                  [] type = "keyup" -> None
  /\ repeatOn' = CASE type = "keypress" -> repeatOn \/ lastKey # None
                   [] OTHER -> FALSE

\* What ProcessKeys returns.
Acts(type) == type = "keydown" \/ (type = "keypress" /\ repeatOn /\ lastKey # None)

\* Mutant: the last match of a row that is not unfolded.
UpFolded(r) ==
  LET above == NavPrev(r - 1)
  IN  IF above = 0 THEN focus' = Field
      ELSE FocusOn(IF Kids(above) > 0 THEN <<above, Kids(above)>> ELSE <<above>>)
\* Up on the link of row r: the last match of the row above if that is
\* unfolded.  The matches are counted in row r - 1, which need not be the row
\* that is displayed above.
Up(r) ==
  LET above == NavPrev(r - 1)
      last == IF above \in unfolded THEN Kids(r - 1) ELSE 0
  IN  IF above = 0 THEN focus' = Field
      ELSE FocusOn(IF last > 0 THEN <<r - 1, last>> ELSE <<above>>)

\* Mutant: the matches of an unfolded row are passed over.
DownPast(r) ==
  IF NavNext(r + 1) > 0 THEN FocusOn(<<NavNext(r + 1)>>) ELSE UNCHANGED focus
Down(r) ==
  IF r \in unfolded THEN FocusOn(<<r, 1>>)
  ELSE IF NavNext(r + 1) > 0 THEN FocusOn(<<NavNext(r + 1)>>)
  ELSE UNCHANGED focus

\* What a key does on the link of row r, once ProcessKeys lets it.
NavKey(r, k) ==
  CASE k = "up" -> Up(r) /\ UNCHANGED unfolded
    [] k = "down" -> Down(r) /\ UNCHANGED unfolded
    [] k = "right" -> Unfold(r) /\ UNCHANGED focus
    [] k = "left" -> Fold(r) /\ UNCHANGED focus
    [] k = "escape" -> focus' = Field /\ UNCHANGED unfolded

\* The link focused by a key on the link of match c of row r.
NavChildFocus(r, c, k) ==
  CASE k = "up" -> FocusOn(IF c > 1 THEN <<r, c - 1>> ELSE <<r>>)
    [] k = "down" /\ c < Kids(r) -> FocusOn(<<r, c + 1>>)
    [] k = "down" /\ c = Kids(r) /\ NavNext(r + 1) > 0 -> FocusOn(<<NavNext(r + 1)>>)
    [] k = "escape" -> focus' = Field
    [] OTHER -> UNCHANGED focus

\* Mutant: Left folds the block the focus is in.
NavChildKeyFold(r, c, k) ==
  NavChildFocus(r, c, k) /\ IF k = "left" THEN Fold(r) ELSE UNCHANGED unfolded
NavChildKey(r, c, k) == NavChildFocus(r, c, k) /\ UNCHANGED unfolded

\* Nav and NavChild.  Enter is left to the browser, which follows the link: that
\* of a row with several matches calls Toggle, the others leave the page.
Handle(type, k) ==
  IF k = "enter"
  THEN /\ IF type = "keydown" /\ Len(focus) = 1 THEN Toggle(focus[1]) ELSE UNCHANGED unfolded
       /\ UNCHANGED <<focus, lastKey, repeatOn>>
  ELSE /\ ProcessKeys(type, k)
       /\ IF ~Acts(type) THEN UNCHANGED <<focus, unfolded>>
          ELSE IF Len(focus) = 1 THEN NavKey(focus[1], lastKey')
          ELSE NavChildKey(focus[1], focus[2], lastKey')

-----------------------------------------------------------------------------
(* Events *)

\* A key goes down, on whatever has the focus.
Press(k) ==
  /\ key = None /\ focus # Field
  /\ key' = k
  /\ Handle("keydown", k)
  /\ UNCHANGED address

\* The keypress event that follows, again for each repetition in the browsers
\* that repeat it; the others repeat keydown.
KeyPress ==
  /\ key # None /\ focus # Field
  /\ \E type \in {"keydown", "keypress"} : Handle(type, key)
  /\ UNCHANGED <<address, key>>

\* The key comes up: the event goes to what has the focus by then.
Release ==
  /\ key # None
  /\ key' = None
  /\ IF focus = Field THEN UNCHANGED <<unfolded, focus, lastKey, repeatOn>>
                      ELSE Handle("keyup", key)
  /\ UNCHANGED address

\* Down or Enter released in the field: OnSearchFieldChange focuses NavNext(0).
EnterList ==
  /\ key = None /\ focus = Field
  /\ NavNext(1) > 0
  /\ FocusOn(<<NavNext(1)>>)
  /\ UNCHANGED <<address, unfolded, lastKey, repeatOn, key>>

\* A click on the link of a row with several matches.
Click(r) ==
  /\ key = None
  /\ <<r>> \in VisibleLinks /\ Kids(r) > 0
  /\ focus' = <<r>>
  /\ Toggle(r)
  /\ UNCHANGED <<address, lastKey, repeatOn, key>>

\* A search gives the frame a new address, at any time.
Load(a) == Fresh(a) /\ UNCHANGED key

Next ==
  \/ \E k \in Keys : Press(k)
  \/ KeyPress
  \/ Release
  \/ EnterList
  \/ \E r \in DOMAIN Rows(address) : Click(r)
  \/ \E a \in Addresses : Load(a)

Spec == Init /\ [][Next]_vars

-----------------------------------------------------------------------------
(* Properties *)

\* The rows displayed are the names of the section that begin with the text: the
\* page asked for has all of them, and comparing ids is comparing names.  (Not
\* for an empty text, which shows the section's first page.)
SearchSound ==
  address.text # <<>> =>
    \A p \in DOMAIN Pages(address.section) :
      {r \in DOMAIN Pages(address.section)[p].rows :
         IsPrefix(Trim(address.text), Pages(address.section)[p].rows[r].name)}
        = IF p = address.page THEN Shown ELSE {}

\* The focus never stays on a link that is filtered out or folded away.
FocusVisible == focus = Field \/ focus \in VisibleLinks

\* The order of the links on the page.
Before(e, f) ==
  \/ e[1] < f[1]
  \/ e[1] = f[1] /\ Len(e) < Len(f)
  \/ e[1] = f[1] /\ Len(e) = 2 /\ Len(f) = 2 /\ e[2] < f[2]
Below(e) == {f \in VisibleLinks : Before(e, f)}
Above(e) == {f \in VisibleLinks : Before(f, e)}
First(S) == {f \in S : \A g \in S \ {f} : Before(f, g)}
Final(S) == {f \in S : \A g \in S \ {f} : Before(g, f)}

\* A step of the key k, from a link: the key goes down, or repeats and moves.
StepOf(k) ==
  /\ focus # Field /\ key' = k /\ lastKey' = k
  /\ key = None \/ focus' # focus

\* Down goes to the next visible link in the order of the page, over rows that
\* are filtered out and into blocks that are unfolded, and stays on the last.
DownIsNext ==
  [][StepOf("down") =>
       IF Below(focus) = {} THEN focus' = focus ELSE focus' \in First(Below(focus))]_vars

\* An unfolded row is displayed above row r with filtered rows in between.
Skewed(r) == NavPrev(r - 1) # r - 1 /\ NavPrev(r - 1) \in unfolded

\* Up goes to the previous visible link, and from the first to the field, except
\* where the matches of the row above are looked for in the wrong row.
UpIsPrevious ==
  [][StepOf("up") /\ (Len(focus) = 1 => ~Skewed(focus[1])) =>
       IF Above(focus) = {} THEN focus' = Field ELSE focus' \in Final(Above(focus))]_vars
=============================================================================
