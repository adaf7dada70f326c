----------------------------- MODULE SearchBox -----------------------------
(***************************************************************************)
(* The search panel of the generated reference documentation               *)
(* (docs/search/search.js, class SearchBox; its handlers are wired in      *)
(* docs/menu.js and in every page): a field, a window to select the        *)
(* section to search, a results window with a frame, and two timers.       *)
(*                                                                         *)
(* The record box holds the object's members and what its methods write in *)
(* the document.  A method is an operator from one such record to the      *)
(* next, so that a handler with all its calls is one expression and one    *)
(* step.  What happens in the frame is SearchResults' matter: here its     *)
(* list of results may keep the focus or give it back.                     *)
(***************************************************************************)
EXTENDS SearchIndex

CONSTANTS
  Label,     \* searchLabel, shown in the field of an inactive panel
  Texts,     \* what the field can hold, the label and the empty text included
  MaxTimers  \* bound: key timers pending at a time

ASSUME TextsAssumption == /\ Label \in Texts /\ <<>> \in Texts /\ Squeeze(Label) # <<>>
                          /\ Texts \subseteq Text
ASSUME TimersAssumption == MaxTimers \in Nat \ {0}

VARIABLES
  box,         \* the panel
  focus,       \* the field, an item of the selection window, a result, or elsewhere
  key,         \* the key that is held down
  pointer,     \* on the icon that opens the selection window, on that window, or away
  hideTimers,  \* timers of closeSelectionTimeout that are pending
  frame        \* the address of the page loaded in the frame

vars == <<box, focus, key, pointer, hideTimers, frame>>

None == "none"
Keys == {"char", "down", "up", "enter", "escape", "shiftDown"}
Places == {"field", "select", "results", "elsewhere"}
Pointers == {"icon", "window", "away"}

Box == [field : Texts,             \* value of MSearchField
        active : BOOLEAN,          \* className of MSearchBox
        searchActive : BOOLEAN,
        results : BOOLEAN,         \* MSearchResultsWindow and MSearchClose are displayed
        last : Text,               \* lastSearchValue
        index : Nat,               \* searchIndex
        keyTimers : 0 .. MaxTimers,\* timers of keyTimeoutLength pending, oldest first
        keyTimeout : BOOLEAN,      \* keyTimeout names the youngest of them; else it is 0
        select : BOOLEAN,          \* MSearchSelectWindow is displayed
        location : Address \cup {EmptyFrame},  \* address last given to the frame
        loading : BOOLEAN]         \* and not loaded yet

TypeOK ==
  /\ box \in Box
  /\ box.index \in 0 .. Len(Index)
  /\ focus \in Places
  /\ key \in Keys \cup {None}
  /\ pointer \in Pointers
  /\ hideTimers \in 0 .. 1
  /\ frame \in Address \cup {EmptyFrame}

\* The page in the frame has a result to focus.
HasResults(a) == Displayed(a) # {}

-----------------------------------------------------------------------------
(* Methods *)

\* Mutant: a panel that is closed keeps its last search.
ActivateKeepLast(b, isActive) ==
  IF isActive \/ b.results
  THEN IF b.field = Label
       THEN [b EXCEPT !.active = TRUE, !.field = <<>>, !.searchActive = TRUE]
       ELSE [b EXCEPT !.active = TRUE]
  ELSE [b EXCEPT !.active = FALSE, !.field = Label, !.searchActive = FALSE]
\* Mutant: a panel that is closed still searches when a section is selected.
ActivateKeepSearching(b, isActive) ==
  IF isActive \/ b.results
  THEN IF b.field = Label
       THEN [b EXCEPT !.active = TRUE, !.field = <<>>, !.searchActive = TRUE]
       ELSE [b EXCEPT !.active = TRUE]
  ELSE [b EXCEPT !.active = FALSE, !.field = Label, !.last = <<>>]
Activate(b, isActive) ==
  IF isActive \/ b.results
  THEN IF b.field = Label
       THEN [b EXCEPT !.active = TRUE, !.field = <<>>, !.searchActive = TRUE]
       ELSE [b EXCEPT !.active = TRUE]
  ELSE [b EXCEPT !.active = FALSE, !.field = Label, !.searchActive = FALSE, !.last = <<>>]

CloseResultsWindow(b) == Activate([b EXCEPT !.results = FALSE], FALSE)

\* A section that is not there ends the method with a TypeError, after it has
\* forgotten the timer.
Search(b) ==
  IF b.index \notin Sections THEN [b EXCEPT !.keyTimeout = FALSE]
  ELSE LET text == StripLeading(b.field)
       IN  [b EXCEPT !.keyTimeout = FALSE, !.location = AddressOf(b.index, text),
                     !.loading = TRUE, !.results = TRUE, !.last = text]

OnSelectItem(b, id) ==
  LET c == [b EXCEPT !.index = id]
  IN  IF Squeeze(c.field) # <<>> /\ c.searchActive THEN Search(c) ELSE c

\* OnSelectItem ends with the TypeError of Search, and its caller with it.
SelectThrows == box.index \notin Sections /\ Squeeze(box.field) # <<>> /\ box.searchActive

KillKeyTimer(b) ==
  IF b.keyTimeout THEN [b EXCEPT !.keyTimers = @ - 1, !.keyTimeout = FALSE] ELSE b

\* The end of OnSearchFieldChange: a text that differs from the last one starts
\* the timer, an empty one closes the results.
FieldChanged(b) ==
  IF Squeeze(b.field) = b.last THEN b
  ELSE IF Squeeze(b.field) # <<>> THEN [b EXCEPT !.keyTimers = @ + 1, !.keyTimeout = TRUE]
  ELSE [b EXCEPT !.results = FALSE, !.last = <<>>]

\* Mutant: the blur is taken to close the results.
EscapeFieldBlur(b) == Activate([b EXCEPT !.last = <<>>], FALSE)
\* Escape: the blur deactivates first, unless results are displayed.
EscapeField(b) ==
  Activate([Activate(b, FALSE) EXCEPT !.results = FALSE, !.last = <<>>], FALSE)

-----------------------------------------------------------------------------
(* Steps.  Focus moves blur what had it; a blur of the field deactivates. *)

\* init_search selects the first section in an inactive panel.
Init ==
  /\ box = [field |-> Label, active |-> FALSE, searchActive |-> FALSE, results |-> FALSE,
            last |-> <<>>, index |-> 0, keyTimers |-> 0, keyTimeout |-> FALSE,
            select |-> FALSE, location |-> EmptyFrame, loading |-> FALSE]
  /\ focus = "elsewhere"
  /\ key = None
  /\ pointer = "away"
  /\ hideTimers = 0
  /\ frame = EmptyFrame

Blur(b) == IF focus = "field" THEN Activate(b, FALSE) ELSE b

\* OnSearchSelectShow stops the hide timer that was started last.
\* Mutant: it stops none.
ShowTimersKept == UNCHANGED hideTimers
ShowTimers == hideTimers' = IF hideTimers > 0 THEN hideTimers - 1 ELSE 0

-----------------------------------------------------------------------------
(* Keys *)

\* A character is typed, or deleted, when its key goes down.
TypeChar ==
  /\ focus = "field" /\ key = None
  /\ key' = "char"
  /\ \E t \in Texts \ {box.field} : box' = [box EXCEPT !.field = t]
  /\ UNCHANGED <<focus, pointer, hideTimers, frame>>

\* Another key goes down in the field: nothing happens before it comes up.
PressInField(k) ==
  /\ focus = "field" /\ key = None
  /\ key' = k
  /\ UNCHANGED <<box, focus, pointer, hideTimers, frame>>

\* OnSearchFieldChange, when the key comes up in the field.
ReleaseInField ==
  LET b == KillKeyTimer(box) IN
  /\ focus = "field" /\ key # None
  /\ b.keyTimers < MaxTimers
  /\ key' = None
  /\ \/ \* Shift and Down: to the items of the selection window
        /\ key = "shiftDown"
        /\ box' = Activate([b EXCEPT !.select = TRUE], FALSE)
        /\ focus' = "select"
        /\ ShowTimers
     \/ \* Down and Enter: to the results of the page that is loaded, if any
        /\ key \in {"down", "enter"}
        /\ LET jump == b.results /\ HasResults(frame)
               c == FieldChanged(IF jump THEN Activate(b, FALSE) ELSE b)
           IN  /\ box' = c
               /\ focus' = IF ~jump THEN "field" ELSE IF c.results THEN "results" ELSE "elsewhere"
        /\ UNCHANGED hideTimers
     \/ /\ key = "escape"
        /\ box' = EscapeField(b)
        /\ focus' = "elsewhere"
        /\ UNCHANGED hideTimers
     \/ /\ key \in {"char", "up"}
        /\ box' = FieldChanged(b)
        /\ UNCHANGED <<focus, hideTimers>>
  /\ UNCHANGED <<pointer, frame>>

\* searchIndex<SelectItemCount(): true for the last item as well.
AnotherItem == box.index < Len(Index)

\* OnSearchSelectKey, when a key goes down in the selection window.
PressInSelect(k) ==
  /\ focus = "select" /\ key = None
  /\ key' = k
  /\ \/ /\ k \in {"down", "shiftDown"} /\ AnotherItem
        /\ box' = OnSelectItem(box, box.index + 1) /\ UNCHANGED focus
     \/ /\ k = "up" /\ box.index > 0
        /\ box' = OnSelectItem(box, box.index - 1) /\ UNCHANGED focus
     \/ /\ k \in {"enter", "escape"} /\ SelectThrows
        /\ box' = OnSelectItem(box, box.index) /\ UNCHANGED focus
     \/ /\ k \in {"enter", "escape"} /\ ~SelectThrows
        /\ box' = Activate([OnSelectItem(box, box.index) EXCEPT !.select = FALSE], TRUE)
        /\ focus' = "field"
     \/ /\ (k \in {"down", "shiftDown"} /\ ~AnotherItem) \/ (k = "up" /\ box.index = 0)
        /\ UNCHANGED <<box, focus>>
  /\ UNCHANGED <<pointer, hideTimers, frame>>

\* SearchResults.Nav and NavChild: Up may leave the list for the field, Escape
\* closes the results and goes to the field, the other keys stay in the list.
PressInResults(k) ==
  /\ focus = "results" /\ key = None
  /\ key' = k
  /\ \/ /\ k = "escape"
        /\ box' = Activate(CloseResultsWindow(box), TRUE)
        /\ focus' = "field"
     \/ /\ k = "up"
        /\ box' = Activate(box, TRUE)
        /\ focus' = "field"
     \/ /\ k # "escape"
        /\ UNCHANGED <<box, focus>>
  /\ UNCHANGED <<pointer, hideTimers, frame>>

\* A key comes up elsewhere: no handler of the panel sees it.
ReleaseElsewhere ==
  /\ focus # "field" /\ key # None
  /\ key' = None
  /\ UNCHANGED <<box, focus, pointer, hideTimers, frame>>

-----------------------------------------------------------------------------
(* The pointer; it is not used while a key is held *)

ClickField ==
  /\ key = None /\ focus # "field"
  /\ box' = Activate(box, TRUE)
  /\ focus' = "field"
  /\ UNCHANGED <<key, pointer, hideTimers, frame>>

\* On the page, which only takes the focus away, or on a result.
ClickElsewhere(place) ==
  /\ key = None /\ focus # place
  /\ place = "results" => box.results /\ HasResults(frame)
  /\ box' = Blur(box)
  /\ focus' = place
  /\ UNCHANGED <<key, pointer, hideTimers, frame>>

ClickItem(id) ==
  /\ key = None /\ box.select /\ pointer = "window"
  /\ box' = OnSelectItem(Blur(box), id)
  /\ focus' = "select"
  /\ UNCHANGED <<key, pointer, hideTimers, frame>>

ClickClose ==
  /\ key = None /\ box.results
  /\ box' = CloseResultsWindow(Blur(box))
  /\ focus' = "elsewhere"
  /\ UNCHANGED <<key, pointer, hideTimers, frame>>

\* The pointer leaves the icon or the window, which starts the hide timer, and
\* comes to the other one, which stops it and shows the window, or to neither.
MovePointer(place) ==
  /\ pointer # place
  /\ place = "window" => box.select
  /\ pointer' = place
  /\ IF place = "away"
     THEN hideTimers' = hideTimers + 1 /\ UNCHANGED box
     ELSE ShowTimers /\ box' = [box EXCEPT !.select = TRUE]
  /\ UNCHANGED <<focus, key, frame>>

-----------------------------------------------------------------------------
(* The browser *)

KeyTimerFires ==
  /\ box.keyTimers > 0
  /\ box' = Search([box EXCEPT !.keyTimers = @ - 1])
  /\ UNCHANGED <<focus, key, pointer, hideTimers, frame>>

\* CloseSelectionWindow; what had the focus in the window loses it.
HideTimerFires ==
  /\ hideTimers > 0
  /\ hideTimers' = hideTimers - 1
  /\ box' = [box EXCEPT !.select = FALSE]
  /\ focus' = IF focus = "select" THEN "elsewhere" ELSE focus
  /\ UNCHANGED <<key, pointer, frame>>

\* The frame shows the page it was last sent to; a result of the page before it
\* loses the focus.
PageLoads ==
  /\ box.loading
  /\ box' = [box EXCEPT !.loading = FALSE]
  /\ frame' = box.location
  /\ focus' = IF focus = "results" THEN "elsewhere" ELSE focus
  /\ UNCHANGED <<key, pointer, hideTimers>>

UserNext ==
  \/ TypeChar
  \/ \E k \in Keys \ {"char"} : PressInField(k) \/ PressInSelect(k) \/ PressInResults(k)
  \/ ReleaseInField
  \/ ReleaseElsewhere
  \/ ClickField
  \/ \E place \in {"elsewhere", "results"} : ClickElsewhere(place)
  \/ \E id \in Sections : ClickItem(id)
  \/ ClickClose
  \/ \E place \in Pointers : MovePointer(place)

BrowserNext == KeyTimerFires \/ HideTimerFires \/ PageLoads

Next == UserNext \/ BrowserNext

Spec == Init /\ [][Next]_vars

\* Timers fire and pages load; the user may do nothing.
Fairness == WF_vars(KeyTimerFires) /\ WF_vars(HideTimerFires) /\ WF_vars(PageLoads)
FairSpec == Spec /\ Fairness

-----------------------------------------------------------------------------
(* Properties *)

\* An inactive panel shows its label and will not search when a section is
\* selected, an active one will; the field has the focus only in an active one.
PanelState ==
  /\ box.active = box.searchActive
  /\ ~box.active => box.field = Label /\ focus # "field"

\* keyTimeout never names a timer that has fired: a timer it names can be killed.
TimerNamed == box.keyTimeout => box.keyTimers > 0

\* The selection window is never closed under the pointer, but by a key.
SelectionStays ==
  [][box.select /\ ~box'.select => pointer = "away" \/ key' # key]_vars

\* Escape, pressed in the field, in the selection window or in the list of
\* results, leaves a panel that is inactive and shows no results when it is
\* released, whatever fires in between.  There is one exception: pressed in the
\* window, with the item past the last selected and a text to search for,
\* OnSelectItem throws, the focus does not come to the field and the field never
\* sees the key.
EscapeClears ==
  [][key = "escape" /\ key' = None =>
       \/ ~box'.active /\ ~box'.results
       \/ SelectThrows /\ focus # "field"]_vars

\* An inactive panel only comes to show results when a key timer fires late: no
\* blur, Escape or closing of the results kills the timer of a text that is not
\* searched yet, and Search then searches the label the panel shows.  Nothing
\* else opens them there: no key, no click, and no section selected.
OpensLate ==
  [][box'.results /\ ~box'.active /\ (box.active \/ ~box.results)
       => ~box.active /\ box'.keyTimers < box.keyTimers /\ key' = key]_vars

\* The frame shows the search for the text, in the section selected.
Answered(text) == /\ box.results /\ ~box.loading
                  /\ frame = AddressOf(box.index, StripLeading(text))

\* The user stops at some time, and has done neither of two things before.  To go
\* from the field to the selection window by Shift and Down kills the timer of a
\* text that is not searched yet, and nothing starts it again.  To type the label
\* makes Activate take the text for its own and clear it, but not the last search.
UserStops ==
  /\ <>[][BrowserNext]_vars
  /\ [](focus = "field" => key # "shiftDown")
  /\ [](key = "char" => box.field # Label)

\* There is a text to search.
Searching == /\ key = None /\ box.active /\ box.index \in Sections
             /\ Squeeze(box.field) # <<>>

\* Then, with a text in an active panel, the results are those of that text up to
\* its spaces, in the section selected.
Converges ==
  UserStops =>
    <>[](Searching => Squeeze(box.last) = Squeeze(box.field) /\ Answered(box.last))
=============================================================================
