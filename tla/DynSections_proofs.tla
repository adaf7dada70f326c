------------------------- MODULE DynSections_proofs -------------------------
(***************************************************************************)
(* Theorems about DynSections, for any table, sections and lists.          *)
(***************************************************************************)
EXTENDS DynSections, FiniteSetTheorems, TLAPS

-----------------------------------------------------------------------------
(* The table as a tree *)

LEMMA RowType ==
  ASSUME NEW r \in Rows
  PROVE  r \in Seq(Nat) /\ Len(r) \in Nat \ {0} /\ Depth(r) = Len(r)
<1>1. r \in Seq(Nat)
  BY TableAssumption DEF Rows
<1>2. Len(r) > 0
  BY TableAssumption
<1> QED
  BY <1>1, <1>2 DEF Depth

LEMMA BelowFacts ==
  ASSUME NEW r, NEW x \in Below(r)
  PROVE  x \in Rows /\ Len(x) > Len(r)
BY DEF Below

LEMMA ChildFacts ==
  ASSUME NEW r, NEW x \in Children(r)
  PROVE  x \in Below(r) /\ x \in Rows /\ Len(x) = Len(r) + 1
BY DEF Children, Below

LEMMA BelowTransitive ==
  ASSUME NEW r \in Rows, NEW x \in Below(r), NEW y \in Below(x)
  PROVE  y \in Below(r)
<1>1. x \in Rows /\ y \in Rows
  BY BelowFacts
<1>2. Len(r) \in Nat /\ Len(x) \in Nat /\ Len(y) \in Nat
  BY <1>1, RowType
<1> QED
  BY <1>1, <1>2 DEF Below

\* What is below a row and a child of another is a child of a row below it, or
\* of itself.
LEMMA ParentBelow ==
  ASSUME NEW p \in Rows, NEW r \in Rows, NEW x \in Children(p), x \in Below(r)
  PROVE  p = r \/ p \in Below(r)
<1>1. x \in Below(p) /\ x \in Rows /\ Len(x) = Len(p) + 1
  BY ChildFacts
<1>2. p \in Seq(Nat) /\ r \in Seq(Nat) /\ Len(p) \in Nat /\ Len(r) \in Nat /\ Len(x) \in Nat
  BY <1>1, RowType
<1>3. Len(r) < Len(x) /\ (\A i \in 1 .. Len(r) : x[i] = r[i]) /\ (\A i \in 1 .. Len(p) : x[i] = p[i])
  BY <1>1 DEF Below
<1>4. Len(r) <= Len(p)
  BY <1>1, <1>2, <1>3
<1>5. \A i \in 1 .. Len(r) : p[i] = r[i]
  BY <1>2, <1>3, <1>4
<1>6. CASE Len(r) = Len(p)
  BY <1>2, <1>5, <1>6
<1>7. CASE Len(r) < Len(p)
  BY <1>5, <1>7 DEF Below
<1> QED
  BY <1>2, <1>4, <1>6, <1>7

LEMMA OneParent ==
  ASSUME NEW p \in Rows, NEW r \in Rows, NEW x \in Children(p), x \in Children(r)
  PROVE  p = r
<1>1. x \in Below(r) /\ Len(x) = Len(p) + 1 /\ Len(x) = Len(r) + 1
  BY ChildFacts
<1>2. Len(p) \in Nat /\ Len(r) \in Nat
  BY RowType
<1>3. p \notin Below(r)
  BY <1>1, <1>2 DEF Below
<1> QED
  BY <1>1, <1>3, ParentBelow

LEMMA FolderFacts ==
  ASSUME NEW p \in Rows
  PROVE  /\ p \in Folders <=> Children(p) # {}
         /\ Children(p) \subseteq Rows
BY TableAssumption, ChildFacts

LEMMA IndexFacts ==
  ASSUME NEW r \in Rows
  PROVE  Index(r) \in DOMAIN Table /\ Table[Index(r)] = r /\ Index(r) \in Nat
<1>1. \E i \in DOMAIN Table : Table[i] = r
  BY DEF Rows
<1>2. Index(r) \in DOMAIN Table /\ Table[Index(r)] = r
  BY <1>1 DEF Index
<1>3. DOMAIN Table \subseteq Nat
  BY TableAssumption
<1> QED
  BY <1>2, <1>3

\* A folder has a first row.
LEMMA FirstChildExists ==
  ASSUME NEW r \in Folders
  PROVE  FirstChild(r) \in Children(r)
<1> DEFINE next == Table[Index(r) + 1]
<1>1. r \in Rows /\ Index(r) + 1 \in DOMAIN Table /\ next \in Children(r)
  BY TableAssumption
<1>2. next \in Rows
  BY <1>1, FolderFacts
<1>3. Index(next) = Index(r) + 1
  BY <1>1, <1>2, IndexFacts, TableAssumption
<1>4. \A y \in Children(r) : Index(next) <= Index(y)
  <2> TAKE y \in Children(r)
  <2>1. y \in Rows /\ Len(y) = Len(r) + 1 /\ Len(r) \in Nat \ {0}
    BY <1>1, ChildFacts, RowType
  <2>2. PICK p \in Rows : y \in Children(p) /\ Index(p) < Index(y)
    BY <2>1, TableAssumption
  <2>3. p = r
    BY <1>1, <2>2, OneParent
  <2> QED
    BY <1>1, <1>3, <2>1, <2>2, <2>3, IndexFacts
<1> QED
  BY <1>1, <1>4 DEF FirstChild

-----------------------------------------------------------------------------
(* Stripes *)

\* No row is another's place, so that counting places is counting rows.
LEMMA IndexInjective ==
  ASSUME NEW x \in Rows, NEW y \in Rows, Index(x) = Index(y)
  PROVE  x = y
BY IndexFacts

LEMMA RowsFinite == IsFiniteSet(Rows)
<1> DEFINE place == [r \in Rows |-> Index(r)]
<1>1. DOMAIN Table = 1 .. Len(Table) /\ Len(Table) \in Nat
  BY TableAssumption
<1>2. IsFiniteSet(DOMAIN Table)
  BY <1>1, FS_Interval
<1>3. place \in Injection(Rows, DOMAIN Table)
  BY IndexFacts, IndexInjective DEF Injection, IsInjective
<1> QED
  BY <1>2, <1>3, FS_Injection

LEMMA StripesAlternateIn ==
  ASSUME NEW S \in SUBSET Rows, NEW x \in S, NEW y \in S,
         ~(\E z \in S : Index(x) < Index(z) /\ Index(z) < Index(y))
  PROVE  /\ Index(x) < Index(y) => (x \in Stripes(S) <=> y \notin Stripes(S))
         /\ (\A z \in S : Index(x) <= Index(z)) => x \in Stripes(S)
<1> DEFINE Upto(r) == {z \in S : Index(z) <= Index(r)}
<1>1. \A r \in S : IsFiniteSet(Upto(r))
  BY RowsFinite, FS_Subset
<1>2. \A r \in S : Cardinality(Upto(r)) \in Nat
  BY <1>1, FS_CardinalityType
<1>3. \A r \in S : Index(r) \in Nat
  BY IndexFacts
<1>4. ASSUME Index(x) < Index(y)
      PROVE  x \in Stripes(S) <=> y \notin Stripes(S)
  <2>1. Upto(y) = Upto(x) \cup {y}
    BY <1>3, <1>4, IndexInjective
  <2>2. y \notin Upto(x)
    BY <1>3, <1>4
  <2>3. Cardinality(Upto(y)) = Cardinality(Upto(x)) + 1
    BY <1>1, <2>1, <2>2, FS_AddElement
  <2> QED
    BY <1>2, <2>3 DEF Stripes
<1>5. ASSUME \A z \in S : Index(x) <= Index(z)
      PROVE  x \in Stripes(S)
  <2>1. Upto(x) = {x}
    BY <1>3, <1>5, IndexInjective
  <2>2. Cardinality(Upto(x)) = 1
    BY <2>1, FS_Singleton
  <2> QED
    BY <2>2 DEF Stripes
<1> QED
  BY <1>4, <1>5

-----------------------------------------------------------------------------
(* The inductive invariant *)

\* Icons and arrows agree on hidden folders too, and the stripes are those of
\* the last update.
Agree == down = open /\ even = Stripes(shown)

IInv == TypeOK /\ RowsReached /\ FoldersTold /\ Agree /\ ImagesTold

LEMMA StripesType ==
  ASSUME NEW S \in SUBSET Rows
  PROVE  Stripes(S) \subseteq Rows
BY DEF Stripes

LEMMA InitInv == Init => IInv
<1> SUFFICES ASSUME Init PROVE IInv
  OBVIOUS
<1>1. TypeOK
  <2>1. Folders \subseteq Rows
    BY TableAssumption
  <2>2. image \in [Parts -> Endings]
    BY DEF Init, Endings
  <2> QED
    BY <2>1, <2>2, StripesType DEF TypeOK, Init, Parts
<1>2. RowsReached
  BY TableAssumption DEF RowsReached, Init
<1>3. FoldersTold
  BY TableAssumption, FolderFacts DEF FoldersTold, Init
<1>4. Agree
  BY DEF Agree, Init
<1>5. ImagesTold
  BY DEF ImagesTold, Init
<1> QED
  BY <1>1, <1>2, <1>3, <1>4, <1>5 DEF IInv

LEMMA LevelInv ==
  ASSUME IInv, NEW level \in Levels, toggleLevel(level)
  PROVE  IInv'
<1> USE DEF IInv
<1>1. level \in Nat
  BY RowType DEF Levels
<1>2. shown' = {r \in Rows : Len(r) <= level} /\ shown' \subseteq Rows
  BY RowType DEF toggleLevel
<1>3. /\ open' = {r \in Folders : Len(r) < level \/ (Len(r) > level /\ r \in open)}
      /\ down' = open'
  <2>1. Folders \subseteq Rows
    BY TableAssumption
  <2> QED
    BY <2>1, RowType DEF toggleLevel, LevelIcons, Agree
<1>4. TypeOK'
  BY <1>2, <1>3, StripesType DEF TypeOK, toggleLevel, parts
<1>5. RowsReached'
  <2> SUFFICES ASSUME NEW p \in Rows, NEW r \in Children(p), r \in shown'
               PROVE  p \in shown' /\ p \in open'
    BY DEF RowsReached
  <2>1. Len(r) = Len(p) + 1 /\ Len(p) \in Nat /\ p \in Folders
    BY ChildFacts, RowType, FolderFacts
  <2> QED
    BY <1>1, <1>2, <1>3, <2>1
<1>6. FoldersTold'
  <2> SUFFICES ASSUME NEW r \in Folders \cap shown'
               PROVE  /\ r \in open' => Children(r) \subseteq shown'
                      /\ r \notin open' => Below(r) \cap shown' = {}
                      /\ r \in open' <=> r \in down'
    BY DEF FoldersTold
  <2>1. r \in Rows /\ Len(r) \in Nat /\ Len(r) <= level
    BY <1>2, RowType
  <2>2. ASSUME r \in open', NEW x \in Children(r)
        PROVE  x \in shown'
    BY <1>1, <1>2, <1>3, <2>1, <2>2, ChildFacts
  <2>3. ASSUME r \notin open', NEW x \in Below(r)
        PROVE  x \notin shown'
    <3>1. Len(x) \in Nat /\ Len(x) > Len(r)
      BY <2>1, BelowFacts, RowType
    <3> QED
      BY <1>1, <1>2, <1>3, <2>1, <2>3, <3>1
  <2> QED
    BY <1>3, <2>2, <2>3
<1>7. Agree'
  BY <1>3 DEF Agree, toggleLevel
<1>8. ImagesTold'
  BY DEF ImagesTold, toggleLevel, parts
<1> QED
  BY <1>4, <1>5, <1>6, <1>7, <1>8

LEMMA HideInv ==
  ASSUME IInv, NEW f \in Folders, toggleFolder(f), Hide(f)
  PROVE  IInv'
<1> USE DEF IInv
<1>1. f \in Rows /\ f \in shown /\ shown \subseteq Rows
  BY TableAssumption DEF toggleFolder, TypeOK
<1>2. shown' = shown \ Below(f) /\ open' = open \ {f} /\ down' = open'
  BY DEF Hide, Agree
<1>3. TypeOK'
  BY <1>2, StripesType DEF TypeOK, toggleFolder, parts
<1>4. RowsReached'
  <2> SUFFICES ASSUME NEW p \in Rows, NEW r \in Children(p), r \in shown'
               PROVE  p \in shown' /\ p \in open'
    BY DEF RowsReached
  <2>1. p \in shown /\ p \in open
    BY <1>2 DEF RowsReached
  <2>2. p # f
    BY <1>2, ChildFacts
  <2>3. p \notin Below(f)
    BY <1>1, <1>2, ChildFacts, BelowTransitive
  <2> QED
    BY <1>2, <2>1, <2>2, <2>3
<1>5. FoldersTold'
  <2> SUFFICES ASSUME NEW r \in Folders \cap shown'
               PROVE  /\ r \in open' => Children(r) \subseteq shown'
                      /\ r \notin open' => Below(r) \cap shown' = {}
                      /\ r \in open' <=> r \in down'
    BY DEF FoldersTold
  <2>1. r \in Rows /\ r \in shown /\ r \notin Below(f)
    BY <1>1, <1>2
  <2>2. ASSUME r \in open', NEW x \in Children(r)
        PROVE  x \in shown'
    <3>1. x \in shown /\ r # f
      BY <1>2, <2>1, <2>2 DEF FoldersTold
    <3>2. x \notin Below(f)
      BY <1>1, <2>1, <3>1, ParentBelow
    <3> QED
      BY <1>2, <3>1, <3>2
  <2>3. ASSUME r \notin open'
        PROVE  Below(r) \cap shown' = {}
    BY <1>2, <2>1, <2>3 DEF FoldersTold
  <2> QED
    BY <1>2, <2>2, <2>3
<1>6. Agree'
  BY <1>2 DEF Agree, toggleFolder
<1>7. ImagesTold'
  BY DEF ImagesTold, toggleFolder, parts
<1> QED
  BY <1>3, <1>4, <1>5, <1>6, <1>7

LEMMA ShowInv ==
  ASSUME IInv, NEW f \in Folders, toggleFolder(f), FirstChild(f) \notin shown, Show(f)
  PROVE  IInv'
<1> USE DEF IInv
<1>1. f \in Rows /\ f \in shown /\ shown \subseteq Rows /\ Children(f) \subseteq Rows
  BY TableAssumption, FolderFacts DEF toggleFolder, TypeOK
<1>2. /\ shown' = shown \cup Children(f)
      /\ open' = (open \ Children(f)) \cup {f}
      /\ down' = open'
  BY DEF Show, Agree
<1>3. f \notin open /\ Below(f) \cap shown = {}
  BY <1>1, FirstChildExists DEF FoldersTold
<1>4. TypeOK'
  BY <1>1, <1>2, StripesType DEF TypeOK, toggleFolder, parts
<1>5. RowsReached'
  <2> SUFFICES ASSUME NEW p \in Rows, NEW r \in Children(p), r \in shown'
               PROVE  p \in shown' /\ p \in open'
    BY DEF RowsReached
  <2>1. CASE r \in shown
    <3>1. p \in shown /\ p \in open
      BY <2>1 DEF RowsReached
    <3>2. p \notin Children(f)
      BY <1>3, <3>1, ChildFacts
    <3> QED
      BY <1>2, <3>1, <3>2
  <2>2. CASE r \in Children(f)
    BY <1>1, <1>2, <2>2, OneParent
  <2> QED
    BY <1>2, <2>1, <2>2
<1>6. FoldersTold'
  <2> SUFFICES ASSUME NEW r \in Folders \cap shown'
               PROVE  /\ r \in open' => Children(r) \subseteq shown'
                      /\ r \notin open' => Below(r) \cap shown' = {}
                      /\ r \in open' <=> r \in down'
    BY DEF FoldersTold
  <2>1. CASE r = f
    BY <1>2, <2>1
  <2>2. CASE r \in shown /\ r # f
    <3>1. r \in Rows /\ r \notin Children(f) /\ (r \in open' <=> r \in open)
      BY <1>1, <1>2, <1>3, <2>2, ChildFacts
    <3>2. ASSUME r \in open' PROVE Children(r) \subseteq shown'
      BY <1>2, <2>2, <3>1, <3>2 DEF FoldersTold
    <3>3. ASSUME r \notin open', NEW x \in Below(r) PROVE x \notin shown'
      <4>1. Below(r) \cap shown = {}
        BY <2>2, <3>1, <3>3 DEF FoldersTold
      <4>2. x \notin Children(f)
        BY <1>1, <2>2, <3>1, <4>1, ParentBelow
      <4> QED
        BY <1>2, <4>1, <4>2
    <3> QED
      BY <1>2, <3>2, <3>3
  <2>3. CASE r \in Children(f)
    <3>1. r \in Rows /\ r \in Below(f) /\ Len(r) = Len(f) + 1 /\ Len(f) \in Nat
      BY <1>1, <2>3, ChildFacts, RowType
    <3>2. r \notin open'
      BY <1>2, <2>3, <3>1
    <3>3. ASSUME NEW x \in Below(r) PROVE x \notin shown'
      <4>1. x \in Below(f)
        BY <1>1, <3>1, BelowTransitive
      <4>2. x \notin Children(f)
        BY <3>1, BelowFacts, ChildFacts, RowType
      <4> QED
        BY <1>2, <1>3, <4>1, <4>2
    <3> QED
      BY <1>2, <3>2, <3>3
  <2> QED
    BY <1>2, <2>1, <2>2, <2>3
<1>7. Agree'
  BY <1>2 DEF Agree, toggleFolder
<1>8. ImagesTold'
  BY DEF ImagesTold, toggleFolder, parts
<1> QED
  BY <1>4, <1>5, <1>6, <1>7, <1>8

LEMMA FolderInv ==
  ASSUME IInv, NEW r \in Folders, toggleFolder(r)
  PROVE  IInv'
BY HideInv, ShowInv DEF toggleFolder

\* The table is left alone by what happens to sections and lists.
LEMMA TableInv ==
  ASSUME IInv, UNCHANGED table, ImagesTold', (content \subseteq Parts)',
         (summary \subseteq Sections)', (image \in [Parts -> Endings])'
  PROVE  IInv'
BY DEF IInv, TypeOK, RowsReached, FoldersTold, Agree, table

LEMMA VisibilityInv ==
  ASSUME IInv, NEW p \in Sections, toggleVisibility(p)
  PROVE  IInv'
<1>1. /\ content \subseteq Parts /\ summary = Sections \ content /\ p \in Parts
      /\ image \in [Parts -> Endings]
      /\ \A q \in Parts : image[q] = IF q \in content THEN "open" ELSE "closed"
  BY DEF IInv, TypeOK, ImagesTold, Parts
<1>2. CASE p \in content
  <2>1. /\ content' = content \ {p} /\ summary' = summary \cup {p}
        /\ image' = [image EXCEPT ![p] = Cut("open", 8, "closed")]
    BY <1>1, <1>2 DEF toggleVisibility
  <2>2. image' = [image EXCEPT ![p] = "closed"]
    BY <2>1 DEF Cut
  <2> QED
    BY <1>1, <1>2, <2>1, <2>2, TableInv DEF toggleVisibility, ImagesTold, Endings
<1>3. CASE p \notin content
  <2>1. /\ content' = content \cup {p} /\ summary' = summary \ {p}
        /\ image' = [image EXCEPT ![p] = Cut("closed", 10, "open")]
    BY <1>1, <1>3 DEF toggleVisibility
  <2>2. image' = [image EXCEPT ![p] = "open"]
    BY <2>1 DEF Cut
  <2> QED
    BY <1>1, <1>3, <2>1, <2>2, TableInv DEF toggleVisibility, ImagesTold, Endings
<1> QED
  BY <1>2, <1>3

LEMMA InheritInv ==
  ASSUME IInv, NEW p \in Lists, toggleInherit(p)
  PROVE  IInv'
<1>1. /\ content \subseteq Parts /\ summary = Sections \ content /\ p \in Parts /\ p \notin Sections
      /\ image \in [Parts -> Endings]
      /\ \A q \in Parts : image[q] = IF q \in content THEN "open" ELSE "closed"
  BY PartsAssumption DEF IInv, TypeOK, ImagesTold, Parts
<1>2. CASE p \in content
  <2>1. /\ content' = content \ {p} /\ summary' = summary
        /\ image' = [image EXCEPT ![p] = Cut("open", 8, "closed")]
    BY <1>1, <1>2 DEF toggleInherit
  <2>2. image' = [image EXCEPT ![p] = "closed"]
    BY <2>1 DEF Cut
  <2> QED
    BY <1>1, <1>2, <2>1, <2>2, TableInv DEF toggleInherit, ImagesTold, Endings
<1>3. CASE p \notin content
  <2>1. /\ content' = content \cup {p} /\ summary' = summary
        /\ image' = [image EXCEPT ![p] = Cut("closed", 10, "open")]
    BY <1>1, <1>3 DEF toggleInherit
  <2>2. image' = [image EXCEPT ![p] = "open"]
    BY <2>1 DEF Cut
  <2> QED
    BY <1>1, <1>3, <2>1, <2>2, TableInv DEF toggleInherit, ImagesTold, Endings
<1> QED
  BY <1>2, <1>3

LEMMA NextInv ==
  ASSUME IInv, [Next]_vars
  PROVE  IInv'
<1>1. ASSUME NEW level \in Levels, toggleLevel(level) PROVE IInv'
  BY <1>1, LevelInv
<1>2. ASSUME NEW r \in Folders, toggleFolder(r) PROVE IInv'
  BY <1>2, FolderInv
<1>3. ASSUME NEW p \in Sections, toggleVisibility(p) PROVE IInv'
  BY <1>3, VisibilityInv
<1>4. ASSUME NEW p \in Lists, toggleInherit(p) PROVE IInv'
  BY <1>4, InheritInv
<1>5. CASE UNCHANGED vars
  BY <1>5, TableInv DEF vars, parts, table, IInv, TypeOK, ImagesTold
<1> QED
  BY <1>1, <1>2, <1>3, <1>4, <1>5 DEF Next

-----------------------------------------------------------------------------
(* Theorems *)

\* The inductive invariant holds in every behavior.
THEOREM Invariance == Spec => []IInv
BY InitInv, NextInv, PTL DEF Spec

\* Every variable keeps its type.
THEOREM TypeCorrect == Spec => []TypeOK
<1>1. IInv => TypeOK
  BY DEF IInv
<1> QED
  BY <1>1, Invariance, PTL

\* Whatever is opened and closed, no row is visible without its directory.
THEOREM Reached == Spec => []RowsReached
<1>1. IInv => RowsReached
  BY DEF IInv
<1> QED
  BY <1>1, Invariance, PTL

\* The icon and the arrow of a visible folder are those of what is visible in it.
THEOREM Told == Spec => []FoldersTold
<1>1. IInv => FoldersTold
  BY DEF IInv
<1> QED
  BY <1>1, Invariance, PTL

\* The stripes of the visible rows alternate.
THEOREM Striped == Spec => []StripesAlternate
<1>1. IInv => StripesAlternate
  BY StripesAlternateIn DEF IInv, Agree, TypeOK, StripesAlternate
<1> QED
  BY <1>1, Invariance, PTL

\* The image of a section or list is that of its state, after any clicks.
THEOREM Images == Spec => []ImagesTold
<1>1. IInv => ImagesTold
  BY DEF IInv
<1> QED
  BY <1>1, Invariance, PTL
=============================================================================
