---------------------------- MODULE DynSections ----------------------------
(***************************************************************************)
(* The parts of a page of the reference documentation that open and close  *)
(* (docs/dynsections.js): the table of files and directories with its      *)
(* folders, detail levels and stripes, the sections of a page and the      *)
(* lists of inherited members.                                             *)
(*                                                                         *)
(* A row of the table is named by its path, <<0, 2>> for row_0_2_: split   *)
(* at the underscores that id has one part more than the path has numbers, *)
(* the last of them empty.                                                 *)
(***************************************************************************)
EXTENDS Integers, Sequences, FiniteSets

CONSTANTS
  Table,     \* the rows, a sequence of paths in the order of the page
  Folders,   \* the rows with a folder icon and an arrow
  Sections,  \* the dynamic sections, with a head, a summary and a content
  Lists      \* the lists of inherited members, with a head and rows

VARIABLES
  shown,     \* the rows that are visible
  open,      \* the folders whose icon has the class iconfopen
  down,      \* the folders whose arrow points down
  even,      \* the rows with the class even
  content,   \* the sections and lists whose content or rows are visible
  summary,   \* the sections whose summary is visible
  image      \* the ending of the source of the image of a section or list

table == <<shown, open, down, even>>
parts == <<content, summary, image>>
vars == <<table, parts>>

Parts == Sections \cup Lists
Rows == {Table[i] : i \in DOMAIN Table}
Depth(r) == Len(r)
Below(r) == {x \in Rows : Len(x) > Len(r) /\ \A i \in 1 .. Len(r) : x[i] = r[i]}
\* One sub only: the path and one number more.
Children(r) == {x \in Below(r) : Len(x) = Len(r) + 1}
Index(r) == CHOOSE i \in DOMAIN Table : Table[i] = r

\* doxygen writes each row once, the rows of a directory after its own, the first
\* of them right after it, and a folder for each directory; a directory that is
\* empty has no row.
ASSUME PartsAssumption == Sections \cap Lists = {}
ASSUME TableAssumption ==
  /\ Table \in Seq(Seq(Nat)) /\ Table # <<>>
  /\ \A i, j \in DOMAIN Table : Table[i] = Table[j] => i = j
  /\ \A r \in Rows :
       /\ Len(r) > 0
       /\ Len(r) > 1 => \E p \in Rows : r \in Children(p) /\ Index(p) < Index(r)
  /\ Folders = {r \in Rows : Children(r) # {}}
  /\ \A r \in Folders : Index(r) + 1 \in DOMAIN Table /\ Table[Index(r) + 1] \in Children(r)

Endings == {"open", "closed", "garbled"}

TypeOK ==
  /\ shown \subseteq Rows /\ even \subseteq Rows
  /\ open \subseteq Folders /\ down \subseteq Folders
  /\ content \subseteq Parts /\ summary \subseteq Sections
  /\ image \in [Parts -> Endings]

-----------------------------------------------------------------------------
(* The table *)

\* updateStripes: every second visible row, from the first.
Stripes(rows) == {r \in rows : Cardinality({x \in rows : Index(x) <= Index(r)}) % 2 = 1}

\* The folders above a level are open, those of the level closed, and those
\* below, which are hidden, stay as they were.
LevelIcons(level, folders) ==
  {r \in Folders : Depth(r) < level \/ (Depth(r) > level /\ r \in folders)}

toggleLevel(level) ==
  /\ shown' = {r \in Rows : Depth(r) <= level}
  /\ open' = LevelIcons(level, open)
  /\ down' = LevelIcons(level, down)
  /\ even' = Stripes(shown')
  /\ UNCHANGED parts

\* A folder is open if the first row in it is visible.
FirstChild(r) == CHOOSE x \in Children(r) : \A y \in Children(r) : Index(x) <= Index(y)

\* Mutant: the rows of the folder are hidden, those further down are not.
HideChildren(r) ==
  /\ open' = open \ {r}
  /\ down' = down \ {r}
  /\ shown' = shown \ Children(r)
\* Everything in the folder is hidden; the icons in there stay as they are.
Hide(r) ==
  /\ open' = open \ {r}
  /\ down' = down \ {r}
  /\ shown' = shown \ Below(r)

\* Mutant: the folders that appear keep the icons they had.
ShowAsBefore(r) ==
  /\ open' = open \cup {r}
  /\ down' = down \cup {r}
  /\ shown' = shown \cup Children(r)
\* The rows of the folder appear, with the folders among them closed.
Show(r) ==
  /\ open' = (open \ Children(r)) \cup {r}
  /\ down' = (down \ Children(r)) \cup {r}
  /\ shown' = shown \cup Children(r)

\* A click on the icon or the arrow of a visible row.
toggleFolder(r) ==
  /\ r \in shown
  /\ IF FirstChild(r) \in shown THEN Hide(r) ELSE Show(r)
  /\ even' = Stripes(shown')
  /\ UNCHANGED parts

-----------------------------------------------------------------------------
(* Sections and inherited members *)

\* Mutant: the length of the ending cut off is that of the new one.
CutSwapped(ending, length, new) ==
  IF length = (IF ending = "open" THEN 10 ELSE 8) THEN new ELSE "garbled"
\* src.substring(0, src.length - length) + new: the old ending is cut off if it
\* is that long, which is 8 for open.png and 10 for closed.png.
Cut(ending, length, new) ==
  IF length = (CASE ending = "open" -> 8 [] ending = "closed" -> 10 [] OTHER -> -1)
  THEN new ELSE "garbled"

\* A click on the head of a section.
toggleVisibility(p) ==
  /\ IF p \in content
     THEN /\ content' = content \ {p}
          /\ summary' = summary \cup {p}
          /\ image' = [image EXCEPT ![p] = Cut(@, 8, "closed")]
     ELSE /\ content' = content \cup {p}
          /\ summary' = summary \ {p}
          /\ image' = [image EXCEPT ![p] = Cut(@, 10, "open")]
  /\ UNCHANGED table

\* A click on the head of a list of inherited members, which has no summary.
toggleInherit(p) ==
  /\ IF p \in content
     THEN content' = content \ {p} /\ image' = [image EXCEPT ![p] = Cut(@, 8, "closed")]
     ELSE content' = content \cup {p} /\ image' = [image EXCEPT ![p] = Cut(@, 10, "open")]
  /\ UNCHANGED <<summary, table>>

-----------------------------------------------------------------------------

\* The table comes with everything visible and every folder open.  A part comes
\* open or closed; the sections that are closed, and only they, show a summary.
Init ==
  /\ shown = Rows
  /\ open = Folders /\ down = Folders
  /\ even = Stripes(Rows)
  /\ content \in SUBSET Parts
  /\ image = [p \in Parts |-> IF p \in content THEN "open" ELSE "closed"]
  /\ summary = Sections \ content

\* The page offers the levels down to the deepest row.
Levels == {Depth(r) : r \in Rows}

Next ==
  \/ \E level \in Levels : toggleLevel(level)
  \/ \E r \in Folders : toggleFolder(r)
  \/ \E p \in Sections : toggleVisibility(p)
  \/ \E p \in Lists : toggleInherit(p)

Spec == Init /\ [][Next]_vars

-----------------------------------------------------------------------------
(* Properties *)

\* No row is visible without its directory: the directory is visible and open,
\* whatever was hidden and kept its icon in between.
RowsReached ==
  \A p \in Rows : \A r \in Children(p) : r \in shown => p \in shown /\ p \in open

\* The icon and the arrow of a visible folder tell whether the rows in it are
\* visible: all of them are, or none, with nothing of what is further down.
FoldersTold ==
  \A r \in Folders \cap shown :
    /\ r \in open => Children(r) \subseteq shown
    /\ r \notin open => Below(r) \cap shown = {}
    /\ r \in open <=> r \in down

\* Of two visible rows that follow each other one has the stripe, and the first
\* visible row has it.
StripesAlternate ==
  \A x, y \in shown :
    ~(\E z \in shown : Index(x) < Index(z) /\ Index(z) < Index(y)) =>
      /\ Index(x) < Index(y) => (x \in even <=> y \notin even)
      /\ (\A z \in shown : Index(x) <= Index(z)) => x \in even

\* The image of a section or list tells whether it is open, however often it was
\* clicked, though each click makes the source from the length of the last one;
\* a section shows either its summary or its content.
ImagesTold ==
  /\ \A p \in Parts : image[p] = IF p \in content THEN "open" ELSE "closed"
  /\ summary = Sections \ content
=============================================================================
