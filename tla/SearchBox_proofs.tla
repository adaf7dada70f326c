-------------------------- MODULE SearchBox_proofs --------------------------
(***************************************************************************)
(* Theorems about SearchBox, for any index, texts and bound of the timers. *)
(***************************************************************************)
EXTENDS SearchBox, SequenceTheorems, WellFoundedInduction, TLAPS

USE TextsAssumption, TimersAssumption

-----------------------------------------------------------------------------
(* Texts and addresses *)

LEMMA NatOrder == IsWellFoundedOn({ss \in Nat \X Nat : ss[1] < ss[2]}, Nat)
BY NatLessThanWellFounded DEF OpToRel

LEMMA MinExists ==
  ASSUME NEW S \in SUBSET Nat, S # {}
  PROVE  Min(S) \in S
<1> DEFINE R == {ss \in Nat \X Nat : ss[1] < ss[2]}
<1>1. IsWellFoundedOn(R, Nat)
  BY NatOrder
<1> HIDE DEF R
<1>2. PICK x \in S : \A y \in S : <<y, x>> \notin R
  BY <1>1, WFMin
<1>3. \A y \in S : x <= y
  <2> TAKE y \in S
  <2> DEFINE pair == <<y, x>>
  <2>1. pair \in Nat \X Nat /\ pair[1] = y /\ pair[2] = x
    OBVIOUS
  <2>2. pair \notin R
    BY <1>2
  <2> HIDE DEF pair
  <2>3. ~(y < x)
    BY <2>1, <2>2 DEF R
  <2> QED
    BY <2>3
<1> QED
  BY <1>3 DEF Min

LEMMA StripLeadingType ==
  ASSUME NEW text \in Text
  PROVE  StripLeading(text) \in Text
<1> DEFINE visible == {i \in DOMAIN text : text[i] # Space}
<1>1. DOMAIN text = 1 .. Len(text) /\ Len(text) \in Nat
  BY DEF Text
<1>2. CASE visible = {}
  BY <1>2 DEF StripLeading, Text
<1>3. CASE visible # {}
  <2>1. visible \in SUBSET Nat
    BY <1>1
  <2> HIDE DEF visible
  <2>2. Min(visible) \in visible
    BY <1>3, <2>1, MinExists
  <2>3. Min(visible) \in 1 .. Len(text)
    BY <1>1, <2>2 DEF visible
  <2>4. SubSeq(text, Min(visible), Len(text)) \in Seq(STRING)
    BY <1>1, <2>3, SubSeqProperties DEF Text
  <2> QED
    BY <1>3, <2>4 DEF StripLeading, visible, Text
<1> QED
  BY <1>2, <1>3

LEMMA IndexFacts ==
  /\ Len(Index) \in Nat \ {0}
  /\ 0 \in Sections
  /\ \A s \in Sections : Pages(s) \in Seq([char : STRING, rows : Seq([name : Text, kids : Nat])])
<1>1. Index \in Seq(Seq([char : STRING, rows : Seq([name : Text, kids : Nat])])) /\ Index # <<>>
  BY IndexAssumption
<1>2. Len(Index) \in Nat \ {0} /\ DOMAIN Index = 1 .. Len(Index)
  BY <1>1
<1> QED
  BY <1>1, <1>2 DEF Sections, Pages

LEMMA AddressType ==
  ASSUME NEW s \in Sections, NEW text \in Text
  PROVE  AddressOf(s, text) \in Address
<1>1. NoMatchesPage \in Address
  BY IndexFacts DEF NoMatchesPage, Address, Text
<1>2. ASSUME PageOf(s, text) # {}
      PROVE  (CHOOSE p \in PageOf(s, text) : TRUE) \in Nat
  <2>1. (CHOOSE p \in PageOf(s, text) : TRUE) \in PageOf(s, text)
    BY <1>2
  <2>2. PageOf(s, text) \subseteq Nat
    BY IndexFacts DEF PageOf
  <2> QED
    BY <2>1, <2>2
<1> QED
  BY <1>1, <1>2 DEF AddressOf, Address

-----------------------------------------------------------------------------
(* Methods *)

\* What every method keeps: the object's members agree with each other.
Sound(b) ==
  /\ b \in Box /\ b.index \in 0 .. Len(Index)
  /\ b.active = b.searchActive
  /\ ~b.active => b.field = Label
  /\ b.keyTimeout => b.keyTimers > 0

\* The members Activate leaves alone.
SameRest(b, c) ==
  /\ c.results = b.results /\ c.index = b.index /\ c.select = b.select
  /\ c.keyTimers = b.keyTimers /\ c.keyTimeout = b.keyTimeout

LEMMA ActivateSound ==
  ASSUME NEW b, Sound(b), NEW isActive \in BOOLEAN
  PROVE  LET c == Activate(b, isActive)
         IN  Sound(c) /\ SameRest(b, c) /\ (c.active <=> isActive \/ b.results)
<1> DEFINE c == Activate(b, isActive)
<1>1. CASE (isActive \/ b.results) /\ b.field = Label
  <2>1. c = [b EXCEPT !.active = TRUE, !.field = <<>>, !.searchActive = TRUE]
    BY <1>1 DEF Activate
  <2> QED
    BY Zenon, <1>1, <2>1 DEF Sound, SameRest, Box
<1>2. CASE (isActive \/ b.results) /\ b.field # Label
  <2>1. c = [b EXCEPT !.active = TRUE]
    BY <1>2 DEF Activate
  <2> QED
    BY <1>2, <2>1 DEF Sound, SameRest, Box
<1>3. CASE ~(isActive \/ b.results)
  <2>1. c = [b EXCEPT !.active = FALSE, !.field = Label, !.searchActive = FALSE, !.last = <<>>]
    BY <1>3 DEF Activate
  <2>2. <<>> \in Text
    BY DEF Text
  <2> QED
    BY Zenon, <1>3, <2>1, <2>2 DEF Sound, SameRest, Box
<1> QED
  BY <1>1, <1>2, <1>3

\* Hiding or showing one of the windows does not matter.
LEMMA WindowsSound ==
  ASSUME NEW b, Sound(b), NEW v \in BOOLEAN
  PROVE  /\ Sound([b EXCEPT !.results = v]) /\ Sound([b EXCEPT !.select = v])
         /\ [b EXCEPT !.results = v].results = v
         /\ [b EXCEPT !.results = v].active = b.active
         /\ [b EXCEPT !.results = v].select = b.select
         /\ [b EXCEPT !.results = v].index = b.index
         /\ [b EXCEPT !.results = v].keyTimers = b.keyTimers
         /\ [b EXCEPT !.select = v].results = b.results
         /\ [b EXCEPT !.select = v].active = b.active
         /\ [b EXCEPT !.select = v].index = b.index
         /\ [b EXCEPT !.select = v].keyTimers = b.keyTimers
BY DEF Sound, Box

LEMMA CloseSound ==
  ASSUME NEW b, Sound(b)
  PROVE  LET c == CloseResultsWindow(b)
         IN  /\ Sound(c) /\ ~c.active /\ ~c.results
             /\ c.select = b.select /\ c.index = b.index
<1> DEFINE d == [b EXCEPT !.results = FALSE]
<1>1. Sound(d) /\ d.results = FALSE /\ d.select = b.select /\ d.index = b.index
  BY WindowsSound
<1>2. CloseResultsWindow(b) = Activate(d, FALSE)
  BY DEF CloseResultsWindow
<1> HIDE DEF d
<1> QED
  BY <1>1, <1>2, ActivateSound DEF SameRest

LEMMA SearchSound ==
  ASSUME NEW b, Sound([b EXCEPT !.keyTimeout = FALSE]), b \in Box
  PROVE  LET c == Search(b)
         IN  /\ Sound(c)
             /\ c.active = b.active /\ c.select = b.select /\ c.index = b.index
             /\ c.keyTimers = b.keyTimers /\ c.field = b.field
<1> DEFINE c == Search(b)
           text == StripLeading(b.field)
<1>1. CASE b.index \notin Sections
  BY <1>1 DEF Search, Sound, Box
<1>2. CASE b.index \in Sections
  <2>1. c = [b EXCEPT !.keyTimeout = FALSE, !.location = AddressOf(b.index, text),
                      !.loading = TRUE, !.results = TRUE, !.last = text]
    BY <1>2 DEF Search
  <2>2. text \in Text
    BY StripLeadingType DEF Box
  <2>3. AddressOf(b.index, text) \in Address
    BY <1>2, <2>2, AddressType
  <2> HIDE DEF text
  <2> QED
    BY Zenon, <2>1, <2>2, <2>3 DEF Sound, Box
<1> QED
  BY <1>1, <1>2

LEMMA SelectSound ==
  ASSUME NEW b, Sound(b), NEW id \in 0 .. Len(Index)
  PROVE  LET c == OnSelectItem(b, id)
         IN  /\ Sound(c)
             /\ c.active = b.active /\ c.select = b.select /\ c.index = id
             /\ c.keyTimers = b.keyTimers /\ c.field = b.field
             /\ c.results => b.results \/ b.active
<1> DEFINE d == [b EXCEPT !.index = id]
<1>1. /\ Sound(d) /\ d \in Box
      /\ d.active = b.active /\ d.select = b.select /\ d.index = id
      /\ d.keyTimers = b.keyTimers /\ d.results = b.results /\ d.searchActive = b.active
      /\ d.field = b.field
  BY DEF Sound, Box
<1>2. OnSelectItem(b, id) = IF Squeeze(d.field) # <<>> /\ d.searchActive THEN Search(d) ELSE d
  BY DEF OnSelectItem
<1> HIDE DEF d
<1>3. Sound([d EXCEPT !.keyTimeout = FALSE])
  BY <1>1 DEF Sound, Box
<1> QED
  BY <1>1, <1>2, <1>3, SearchSound

LEMMA KillSound ==
  ASSUME NEW b, Sound(b)
  PROVE  LET c == KillKeyTimer(b)
         IN  /\ Sound(c)
             /\ c.active = b.active /\ c.results = b.results /\ c.select = b.select
             /\ c.index = b.index
<1>1. CASE b.keyTimeout
  <2>1. KillKeyTimer(b) = [b EXCEPT !.keyTimers = b.keyTimers - 1, !.keyTimeout = FALSE]
    BY <1>1 DEF KillKeyTimer
  <2>2. b.keyTimers \in 0 .. MaxTimers /\ b.keyTimers > 0
    BY <1>1 DEF Sound, Box
  <2>3. b.keyTimers - 1 \in 0 .. MaxTimers
    BY <2>2
  <2> QED
    BY <2>1, <2>3 DEF Sound, Box
<1>2. CASE ~b.keyTimeout
  BY <1>2 DEF KillKeyTimer
<1> QED
  BY <1>1, <1>2

LEMMA ChangedSound ==
  ASSUME NEW b, Sound(b), b.keyTimers < MaxTimers
  PROVE  LET c == FieldChanged(b)
         IN  /\ Sound(c)
             /\ c.active = b.active /\ c.select = b.select /\ c.index = b.index
             /\ c.results => b.results
<1>1. CASE Squeeze(b.field) = b.last
  BY <1>1 DEF FieldChanged
<1>2. CASE Squeeze(b.field) # b.last /\ Squeeze(b.field) # <<>>
  <2>1. FieldChanged(b) = [b EXCEPT !.keyTimers = b.keyTimers + 1, !.keyTimeout = TRUE]
    BY <1>2 DEF FieldChanged
  <2>2. b.keyTimers \in 0 .. MaxTimers
    BY DEF Sound, Box
  <2>3. b.keyTimers + 1 \in 0 .. MaxTimers /\ b.keyTimers + 1 > 0
    BY <2>2
  <2> QED
    BY <2>1, <2>3 DEF Sound, Box
<1>3. CASE Squeeze(b.field) # b.last /\ Squeeze(b.field) = <<>>
  <2>1. FieldChanged(b) = [b EXCEPT !.results = FALSE, !.last = <<>>]
    BY <1>3 DEF FieldChanged
  <2>2. <<>> \in Text
    BY DEF Text
  <2> QED
    BY <2>1, <2>2 DEF Sound, Box
<1> QED
  BY <1>1, <1>2, <1>3

LEMMA EscapeSound ==
  ASSUME NEW b, Sound(b)
  PROVE  LET c == EscapeField(b)
         IN  /\ Sound(c) /\ ~c.active /\ ~c.results
             /\ c.select = b.select /\ c.index = b.index
<1> DEFINE d == Activate(b, FALSE)
           e == [d EXCEPT !.results = FALSE, !.last = <<>>]
<1>1. Sound(d) /\ d.select = b.select /\ d.index = b.index
  BY ActivateSound DEF SameRest
<1>2. EscapeField(b) = Activate(e, FALSE)
  BY DEF EscapeField
<1> HIDE DEF d
<1>3. Sound(e) /\ e.results = FALSE /\ e.select = b.select /\ e.index = b.index
  <2>1. <<>> \in Text
    BY DEF Text
  <2> QED
    BY <1>1, <2>1 DEF Sound, Box
<1> HIDE DEF e
<1> QED
  BY <1>2, <1>3, ActivateSound DEF SameRest

LEMMA BlurSound ==
  ASSUME Sound(box), focus = "field" => box.active
  PROVE  LET c == Blur(box)
         IN  Sound(c) /\ SameRest(box, c) /\ (c.active => box.active)
             /\ (focus = "field" => (c.active <=> box.results))
             /\ (focus # "field" => c = box)
<1>1. CASE focus = "field"
  BY <1>1, ActivateSound DEF Blur
<1>2. CASE focus # "field"
  BY <1>2 DEF Blur, SameRest
<1> QED
  BY <1>1, <1>2

-----------------------------------------------------------------------------
(* The inductive invariant *)

Types ==
  /\ focus \in Places /\ key \in Keys \cup {None} /\ pointer \in Pointers
  /\ hideTimers \in 0 .. 1 /\ frame \in Address \cup {EmptyFrame}

\* Where the pointer is on the icon or the window no hide timer is pending.
Hovering == pointer # "away" => hideTimers = 0

\* While Escape is held down the field has the focus, unless OnSelectItem threw
\* when it went down; it then still would, as nothing it looks at changes.
EscapeHeld == key = "escape" => focus = "field" \/ SelectThrows

FieldActive == focus = "field" => box.active

IInv == Types /\ Sound(box) /\ FieldActive /\ Hovering /\ EscapeHeld

\* The steps the three action properties allow.
Stays == box.select /\ ~box'.select => pointer = "away" \/ key' # key
Clears ==
  key = "escape" /\ key' = None =>
    \/ ~box'.active /\ ~box'.results
    \/ SelectThrows /\ focus # "field"
Late ==
  box'.results /\ ~box'.active /\ (box.active \/ ~box.results)
    => ~box.active /\ box'.keyTimers < box.keyTimers /\ key' = key
Good == IInv' /\ Stays /\ Clears /\ Late

\* OnSelectItem looks at the section, the field and whether the panel is active.
LEMMA ThrowsKept ==
  ASSUME Sound(box), Sound(box'),
         box'.index = box.index, box'.field = box.field, box'.active = box.active
  PROVE  SelectThrows' <=> SelectThrows
BY DEF SelectThrows, Sound

LEMMA InitInv == Init => IInv
<1> SUFFICES ASSUME Init PROVE IInv
  OBVIOUS
<1>1. <<>> \in Text /\ 0 \in 0 .. Len(Index)
  BY IndexFacts DEF Text
<1>2. Sound(box)
  BY <1>1 DEF Init, Sound, Box
<1> QED
  BY <1>2 DEF Init, IInv, Types, FieldActive, Hovering, EscapeHeld, Places, Pointers, None

LEMMA TypeCharGood == ASSUME IInv, TypeChar PROVE Good
<1> USE DEF IInv
<1>1. PICK t \in Texts : box' = [box EXCEPT !.field = t]
  BY DEF TypeChar
<1>2. box.active /\ focus = "field" /\ key' = "char"
  BY DEF TypeChar, FieldActive
<1>3. /\ Sound(box') /\ box'.active = box.active /\ box'.select = box.select
      /\ box'.results = box.results
  BY <1>1, <1>2 DEF Sound, Box
<1> QED
  BY <1>2, <1>3 DEF TypeChar, Types, Keys, FieldActive, Hovering, EscapeHeld, Good, Stays, Clears, Late, None

LEMMA PressInFieldGood == ASSUME IInv, NEW k \in Keys, PressInField(k) PROVE Good
BY DEF IInv, PressInField, Types, FieldActive, Hovering, EscapeHeld, Good, Stays, Clears, Late, None

LEMMA ReleaseInFieldGood == ASSUME IInv, ReleaseInField PROVE Good
<1> USE DEF IInv
<1> DEFINE b == KillKeyTimer(box)
<1>1. /\ Sound(b) /\ b.keyTimers < MaxTimers
      /\ b.active /\ b.results = box.results /\ b.select = box.select /\ b.index = box.index
      /\ box.active
  BY KillSound DEF ReleaseInField, FieldActive
<1>2. /\ focus = "field" /\ key # None /\ key' = None
      /\ pointer' = pointer /\ frame' = frame
  BY DEF ReleaseInField
<1>3. CASE /\ key = "shiftDown"
           /\ box' = Activate([b EXCEPT !.select = TRUE], FALSE)
           /\ focus' = "select"
           /\ ShowTimers
  <2> DEFINE d == [b EXCEPT !.select = TRUE]
  <2>1. Sound(d) /\ d.results = b.results
    BY <1>1, WindowsSound
  <2> HIDE DEF d
  <2>2. Sound(box') /\ (box'.active <=> box'.results)
    BY <1>3, <2>1, ActivateSound DEF d, SameRest
  <2>3. hideTimers' \in 0 .. 1 /\ (pointer # "away" => hideTimers' = 0)
    BY <1>3 DEF ShowTimers, Types, Hovering
  <2> QED
    BY <1>2, <1>3, <2>2, <2>3 DEF Types, Places, FieldActive, Hovering, EscapeHeld, Good, Stays, Clears, Late, None
<1>4. CASE /\ key \in {"down", "enter"}
           /\ LET jump == b.results /\ HasResults(frame)
                  c == FieldChanged(IF jump THEN Activate(b, FALSE) ELSE b)
              IN  /\ box' = c
                  /\ focus' = IF ~jump THEN "field" ELSE IF c.results THEN "results" ELSE "elsewhere"
           /\ UNCHANGED hideTimers
  <2> DEFINE jump == b.results /\ HasResults(frame)
             d == IF jump THEN Activate(b, FALSE) ELSE b
  <2>1. Sound(d) /\ d.active /\ d.keyTimers < MaxTimers
    BY <1>1, ActivateSound DEF SameRest
  <2>2. box' = FieldChanged(d) /\ focus' \in Places
    BY <1>4 DEF Places
  <2> HIDE DEF d
  <2>3. Sound(box') /\ box'.active
    BY <2>1, <2>2, ChangedSound
  <2> QED
    BY <1>2, <1>4, <2>2, <2>3 DEF Types, FieldActive, Hovering, EscapeHeld, Good, Stays, Clears, Late, None
<1>5. CASE key = "escape" /\ box' = EscapeField(b) /\ focus' = "elsewhere" /\ UNCHANGED hideTimers
  <2>1. Sound(box') /\ ~box'.active /\ ~box'.results
    BY <1>1, <1>5, EscapeSound
  <2> QED
    BY <1>2, <1>5, <2>1 DEF Types, Places, FieldActive, Hovering, EscapeHeld, Good, Stays, Clears, Late, None
<1>6. CASE key \in {"char", "up"} /\ box' = FieldChanged(b) /\ UNCHANGED <<focus, hideTimers>>
  <2>1. Sound(box') /\ box'.active
    BY <1>1, <1>6, ChangedSound
  <2> QED
    BY <1>2, <1>6, <2>1 DEF Types, FieldActive, Hovering, EscapeHeld, Good, Stays, Clears, Late, None
<1> QED
  BY <1>3, <1>4, <1>5, <1>6 DEF ReleaseInField

LEMMA PressInSelectGood ==
  ASSUME IInv, NEW k \in Keys \ {"char"}, PressInSelect(k)
  PROVE  Good
<1> USE DEF IInv
<1>1. /\ focus = "select" /\ key = None /\ key' = k /\ key' # key
      /\ pointer' = pointer /\ hideTimers' = hideTimers /\ frame' = frame
  BY DEF PressInSelect, Keys, None
<1>2. box.index \in 0 .. Len(Index) /\ Len(Index) \in Nat /\ Sections = 0 .. Len(Index) - 1
  BY IndexFacts DEF Sound, Sections
<1>3. ASSUME NEW id \in 0 .. Len(Index), box' = OnSelectItem(box, id), UNCHANGED focus,
             k = "escape" => id = box.index /\ SelectThrows
      PROVE  Good
  <2>1. /\ Sound(box') /\ box'.active = box.active /\ box'.index = id
        /\ (box'.results => box.results \/ box.active) /\ box'.field = box.field
    BY <1>3, SelectSound
  <2>2. k = "escape" => SelectThrows'
    BY <1>3, <2>1, ThrowsKept
  <2> QED
    BY <1>1, <1>3, <2>1, <2>2 DEF Types, FieldActive, Hovering, EscapeHeld, Good, Stays, Clears, Late, None
<1>4. CASE k \in {"down", "shiftDown"} /\ AnotherItem
           /\ box' = OnSelectItem(box, box.index + 1) /\ UNCHANGED focus
  <2>1. box.index + 1 \in 0 .. Len(Index)
    BY <1>2, <1>4 DEF AnotherItem
  <2> QED
    BY <1>3, <1>4, <2>1
<1>5. CASE k = "up" /\ box.index > 0 /\ box' = OnSelectItem(box, box.index - 1) /\ UNCHANGED focus
  <2>1. box.index - 1 \in 0 .. Len(Index)
    BY <1>2, <1>5
  <2> QED
    BY <1>3, <1>5, <2>1
<1>6. CASE k \in {"enter", "escape"} /\ SelectThrows
           /\ box' = OnSelectItem(box, box.index) /\ UNCHANGED focus
  BY <1>2, <1>3, <1>6
<1>7. CASE k \in {"enter", "escape"}
           /\ box' = Activate([OnSelectItem(box, box.index) EXCEPT !.select = FALSE], TRUE)
           /\ focus' = "field"
  <2> DEFINE c == OnSelectItem(box, box.index)
             d == [c EXCEPT !.select = FALSE]
  <2>1. Sound(c)
    BY <1>2, SelectSound
  <2> HIDE DEF c
  <2>2. Sound(d)
    BY <2>1, WindowsSound
  <2>3. box' = Activate(d, TRUE)
    BY <1>7 DEF c
  <2> HIDE DEF d
  <2>4. Sound(box') /\ box'.active
    BY <2>2, <2>3, ActivateSound
  <2> QED
    BY <1>1, <1>7, <2>4 DEF Types, Places, FieldActive, Hovering, EscapeHeld, Good, Stays, Clears, Late, None
<1>8. CASE /\ (k \in {"down", "shiftDown"} /\ ~AnotherItem) \/ (k = "up" /\ box.index = 0)
           /\ UNCHANGED <<box, focus>>
  BY <1>1, <1>8 DEF Types, FieldActive, Hovering, EscapeHeld, Good, Stays, Clears, Late, None
<1> QED
  BY <1>4, <1>5, <1>6, <1>7, <1>8 DEF PressInSelect

LEMMA PressInResultsGood ==
  ASSUME IInv, NEW k \in Keys \ {"char"}, PressInResults(k)
  PROVE  Good
<1> USE DEF IInv
<1>1. /\ focus = "results" /\ key = None /\ key' = k /\ key' # key
      /\ pointer' = pointer /\ hideTimers' = hideTimers /\ frame' = frame
  BY DEF PressInResults, Keys, None
<1>2. CASE k = "escape" /\ box' = Activate(CloseResultsWindow(box), TRUE) /\ focus' = "field"
  <2>1. Sound(CloseResultsWindow(box))
    BY CloseSound
  <2>2. Sound(box') /\ box'.active
    BY <1>2, <2>1, ActivateSound
  <2> QED
    BY <1>1, <1>2, <2>2 DEF Types, Places, FieldActive, Hovering, EscapeHeld, Good, Stays, Clears, Late, None
<1>3. CASE k = "up" /\ box' = Activate(box, TRUE) /\ focus' = "field"
  <2>1. Sound(box') /\ box'.active
    BY <1>3, ActivateSound
  <2> QED
    BY <1>1, <1>3, <2>1 DEF Types, Places, FieldActive, Hovering, EscapeHeld, Good, Stays, Clears, Late, None
<1>4. CASE k # "escape" /\ UNCHANGED <<box, focus>>
  BY <1>1, <1>4 DEF Types, FieldActive, Hovering, EscapeHeld, Good, Stays, Clears, Late, None
<1> QED
  BY <1>2, <1>3, <1>4 DEF PressInResults

LEMMA ReleaseElsewhereGood == ASSUME IInv, ReleaseElsewhere PROVE Good
BY DEF IInv, ReleaseElsewhere, Types, FieldActive, Hovering, EscapeHeld, Good, Stays, Clears, Late, None

LEMMA ClickFieldGood == ASSUME IInv, ClickField PROVE Good
<1> USE DEF IInv
<1>1. Sound(box') /\ box'.active /\ SameRest(box, box')
  BY ActivateSound DEF ClickField
<1> QED
  BY <1>1 DEF ClickField, SameRest, Types, Places, FieldActive, Hovering, EscapeHeld, Good, Stays, Clears, Late, None

LEMMA ClickElsewhereGood ==
  ASSUME IInv, NEW place \in {"elsewhere", "results"}, ClickElsewhere(place)
  PROVE  Good
<1> USE DEF IInv
<1>1. /\ Sound(box') /\ SameRest(box, box')
      /\ (focus = "field" => (box'.active <=> box.results))
      /\ (focus # "field" => box' = box)
  BY BlurSound DEF ClickElsewhere, FieldActive
<1> QED
  BY <1>1 DEF ClickElsewhere, SameRest, Types, Places, FieldActive, Hovering, EscapeHeld, Good, Stays, Clears, Late, None

LEMMA ClickItemGood == ASSUME IInv, NEW id \in Sections, ClickItem(id) PROVE Good
<1> USE DEF IInv
<1> DEFINE d == Blur(box)
<1>1. /\ Sound(d) /\ SameRest(box, d)
      /\ (focus = "field" => (d.active <=> box.results))
      /\ (focus # "field" => d = box)
  BY BlurSound DEF FieldActive
<1>2. box' = OnSelectItem(d, id) /\ id \in 0 .. Len(Index)
  BY IndexFacts DEF ClickItem, Sections
<1> HIDE DEF d
<1>3. /\ Sound(box') /\ box'.active = d.active /\ box'.select = d.select
      /\ (box'.results => d.results \/ d.active)
  BY <1>1, <1>2, SelectSound
<1> QED
  BY <1>1, <1>3 DEF ClickItem, SameRest, Types, Places, FieldActive, Hovering, EscapeHeld, Good, Stays, Clears, Late, None

LEMMA ClickCloseGood == ASSUME IInv, ClickClose PROVE Good
<1> USE DEF IInv
<1> DEFINE d == Blur(box)
<1>1. Sound(d) /\ SameRest(box, d)
  BY BlurSound DEF FieldActive
<1>2. box' = CloseResultsWindow(d)
  BY DEF ClickClose
<1> HIDE DEF d
<1>3. Sound(box') /\ ~box'.active /\ ~box'.results /\ box'.select = box.select
  BY <1>1, <1>2, CloseSound DEF SameRest
<1> QED
  BY <1>3 DEF ClickClose, Types, Places, FieldActive, Hovering, EscapeHeld, Good, Stays, Clears, Late, None

LEMMA MovePointerGood == ASSUME IInv, NEW place \in Pointers, MovePointer(place) PROVE Good
<1> USE DEF IInv
<1>1. /\ pointer # place /\ pointer' = place
      /\ focus' = focus /\ key' = key /\ frame' = frame
  BY DEF MovePointer
<1>2. CASE place = "away"
  <2>1. box' = box /\ hideTimers' = 1
    BY <1>1, <1>2 DEF MovePointer, Hovering
  <2>2. SelectThrows' <=> SelectThrows
    BY <2>1 DEF SelectThrows
  <2> QED
    BY <1>1, <1>2, <2>1, <2>2 DEF Types, FieldActive, Hovering, EscapeHeld, Good, Stays, Clears, Late, None
<1>3. CASE place # "away"
  <2>1. box' = [box EXCEPT !.select = TRUE] /\ hideTimers' = 0
    BY <1>3 DEF MovePointer, ShowTimers, Types
  <2>2. /\ Sound(box') /\ box'.select = TRUE /\ box'.active = box.active
        /\ box'.results = box.results /\ box'.index = box.index /\ box'.field = box.field
    BY Zenon, <2>1, WindowsSound DEF Sound, Box
  <2>3. SelectThrows' <=> SelectThrows
    BY <2>2, ThrowsKept
  <2> QED
    BY <1>1, <2>1, <2>2, <2>3 DEF Types, FieldActive, Hovering, EscapeHeld, Good, Stays, Clears, Late, None
<1> QED
  BY <1>2, <1>3

LEMMA KeyTimerFiresGood == ASSUME IInv, KeyTimerFires PROVE Good
<1> USE DEF IInv
<1> DEFINE d == [box EXCEPT !.keyTimers = box.keyTimers - 1]
<1>1. box' = Search(d) /\ box.keyTimers > 0 /\ box.keyTimers \in 0 .. MaxTimers
  BY DEF KeyTimerFires, Sound, Box
<1>2. box.keyTimers - 1 \in 0 .. MaxTimers
  BY <1>1
<1>3. /\ Sound([d EXCEPT !.keyTimeout = FALSE]) /\ d \in Box
      /\ d.active = box.active /\ d.select = box.select /\ d.index = box.index
      /\ d.keyTimers = box.keyTimers - 1 /\ d.field = box.field
  BY <1>2 DEF Sound, Box
<1> HIDE DEF d
<1>4. /\ Sound(box') /\ box'.active = box.active /\ box'.select = box.select
      /\ box'.index = box.index /\ box'.keyTimers = box.keyTimers - 1
      /\ box'.field = box.field
  BY <1>1, <1>3, SearchSound
<1>5. box'.keyTimers < box.keyTimers
  BY <1>1, <1>4
<1>6. SelectThrows' <=> SelectThrows
  BY <1>4, ThrowsKept
<1> QED
  BY <1>4, <1>5, <1>6 DEF KeyTimerFires, Types, FieldActive, Hovering, EscapeHeld, Good, Stays, Clears, Late, None

LEMMA HideTimerFiresGood == ASSUME IInv, HideTimerFires PROVE Good
<1> USE DEF IInv
<1>1. box' = [box EXCEPT !.select = FALSE] /\ hideTimers > 0
  BY DEF HideTimerFires
<1>2. pointer = "away" /\ hideTimers' \in 0 .. 1
  BY <1>1 DEF HideTimerFires, Hovering, Types
<1>3. /\ Sound(box') /\ box'.active = box.active
      /\ box'.results = box.results /\ box'.index = box.index /\ box'.field = box.field
  BY Zenon, <1>1, WindowsSound DEF Sound, Box
<1>4. SelectThrows' <=> SelectThrows
  BY <1>3, ThrowsKept
<1> QED
  BY <1>2, <1>3, <1>4 DEF HideTimerFires, Types, Places, FieldActive, Hovering, EscapeHeld, Good, Stays, Clears, Late, None

LEMMA PageLoadsGood == ASSUME IInv, PageLoads PROVE Good
<1> USE DEF IInv
<1>1. box' = [box EXCEPT !.loading = FALSE]
  BY DEF PageLoads
<1>2. /\ Sound(box') /\ box'.active = box.active /\ box'.select = box.select
      /\ box'.results = box.results /\ box'.index = box.index /\ box'.field = box.field
  BY <1>1 DEF Sound, Box
<1>3. box.location \in Address \cup {EmptyFrame}
  BY DEF Sound, Box
<1>4. SelectThrows' <=> SelectThrows
  BY <1>2, ThrowsKept
<1> QED
  BY <1>2, <1>3, <1>4 DEF PageLoads, Types, Places, FieldActive, Hovering, EscapeHeld, Good, Stays, Clears, Late, None

LEMMA NextGood == ASSUME IInv, [Next]_vars PROVE Good
<1>1. ASSUME NEW k \in Keys \ {"char"}, PressInField(k) \/ PressInSelect(k) \/ PressInResults(k)
      PROVE  Good
  BY <1>1, PressInFieldGood, PressInSelectGood, PressInResultsGood
<1>2. ASSUME NEW place \in {"elsewhere", "results"}, ClickElsewhere(place)
      PROVE  Good
  BY <1>2, ClickElsewhereGood
<1>3. ASSUME NEW id \in Sections, ClickItem(id)
      PROVE  Good
  BY <1>3, ClickItemGood
<1>4. ASSUME NEW place \in Pointers, MovePointer(place)
      PROVE  Good
  BY <1>4, MovePointerGood
<1>5. CASE TypeChar \/ ReleaseInField \/ ReleaseElsewhere \/ ClickField \/ ClickClose
  BY <1>5, TypeCharGood, ReleaseInFieldGood, ReleaseElsewhereGood, ClickFieldGood, ClickCloseGood
<1>6. CASE BrowserNext
  BY <1>6, KeyTimerFiresGood, HideTimerFiresGood, PageLoadsGood DEF BrowserNext
<1>7. CASE UNCHANGED vars
  BY <1>7 DEF vars, IInv, Types, FieldActive, Hovering, EscapeHeld, SelectThrows, Good, Stays, Clears, Late, None
<1> QED
  BY <1>1, <1>2, <1>3, <1>4, <1>5, <1>6, <1>7 DEF Next, UserNext

-----------------------------------------------------------------------------
(* Theorems *)

\* The inductive invariant holds in every behavior.
THEOREM Invariance == Spec => []IInv
<1>1. IInv /\ [Next]_vars => IInv'
  BY NextGood DEF Good
<1> QED
  BY <1>1, InitInv, PTL DEF Spec

\* Every variable keeps its type: no handler starts more timers than it stops,
\* and no selected section is further than one behind the last.
THEOREM TypeCorrect == Spec => []TypeOK
<1>1. IInv => TypeOK
  BY DEF IInv, Types, Sound, TypeOK
<1> QED
  BY <1>1, Invariance, PTL

\* The panel's class, its field and its flag agree, whatever closes or opens it.
THEOREM PanelAgrees == Spec => []PanelState
<1>1. IInv => PanelState
  BY DEF IInv, Sound, FieldActive, PanelState
<1> QED
  BY <1>1, Invariance, PTL

\* keyTimeout never names a timer that has fired.
THEOREM NamesLive == Spec => []TimerNamed
<1>1. IInv => TimerNamed
  BY DEF IInv, Sound, TimerNamed
<1> QED
  BY <1>1, Invariance, PTL

\* The selection window is never closed under the pointer, but by a key.
THEOREM Selection == Spec => SelectionStays
<1>1. IInv /\ [Next]_vars => Stays
  BY NextGood DEF Good
<1> QED
  BY <1>1, Invariance, PTL DEF Spec, SelectionStays, Stays

\* Escape leaves an inactive panel without results when it is released, whichever
\* section is selected and wherever it was pressed, but for the one case in which
\* OnSelectItem threw when it was pressed in the selection window.
THEOREM Escape == Spec => EscapeClears
<1>1. IInv /\ [Next]_vars => Clears
  BY NextGood DEF Good
<1> QED
  BY <1>1, Invariance, PTL DEF Spec, EscapeClears, Clears

\* Only a key timer that fires late opens the results of an inactive panel.
THEOREM Opening == Spec => OpensLate
<1>1. IInv /\ [Next]_vars => Late
  BY NextGood DEF Good
<1> QED
  BY <1>1, Invariance, PTL DEF Spec, OpensLate, Late
=============================================================================
