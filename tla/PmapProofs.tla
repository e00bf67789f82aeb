----------------------------- MODULE PmapProofs -----------------------------
(***************************************************************************)
(* Proofs about Pmap, for every number of pages and every size of the page *)
(* tables: what each routine of kern/pmap.c does to the reference counts,  *)
(* the free list and the tree of directories and tables.                   *)
(***************************************************************************)
EXTENDS Pmap, FiniteSetTheorems, TLAPS

\* The entries of a directory below UTOP, and of a table, that are present.
PresentPdx(m, d) == {i \in UserPdx : m.ent[d][i].p}
PresentPtx(m, t) == {j \in UserPtx : m.ent[t][j].p}

\* Pushing adds one member, and keeps the list without repetition when the
\* member is new: page_free.
LEMMA Push ==
    ASSUME NEW S, NEW f \in Seq(S), NEW e \in S
    PROVE  /\ <<e>> \o f \in Seq(S)
           /\ <<e>> \o f # <<>>
           /\ Head(<<e>> \o f) = e
           /\ Tail(<<e>> \o f) = f
           /\ Range(<<e>> \o f) = {e} \cup Range(f)
           /\ IsInjective(f) /\ e \notin Range(f) => IsInjective(<<e>> \o f)
<1> DEFINE g == <<e>> \o f
<1>1. g \in Seq(S) /\ Len(g) = Len(f) + 1 /\ g[1] = e
  OBVIOUS
<1>2. \A i \in 2 .. Len(f) + 1 : g[i] = f[i - 1]
  OBVIOUS
<1>3. DOMAIN g = 1 .. Len(f) + 1 /\ DOMAIN f = 1 .. Len(f) /\ Len(f) \in Nat
  BY <1>1
<1>4. \A i \in DOMAIN f : i + 1 \in DOMAIN g /\ g[i + 1] = f[i]
  BY <1>2, <1>3
<1>5. \A i \in DOMAIN g : i = 1 \/ (i - 1 \in DOMAIN f /\ g[i] = f[i - 1])
  BY <1>2, <1>3
<1>6. g # <<>> /\ Head(g) = e /\ Tail(g) = f
  OBVIOUS
<1> HIDE DEF g
<1>7. Range(g) = {e} \cup Range(f)
  <2>1. 1 \in DOMAIN g
    BY <1>3
  <2> QED
    BY SMTT(40), <1>1, <1>4, <1>5, <2>1 DEF Range
<1>8. ASSUME IsInjective(f), e \notin Range(f) PROVE IsInjective(g)
  BY <1>8, <1>1, <1>3, <1>5 DEF IsInjective, Range
<1> QED
  BY <1>1, <1>6, <1>7, <1>8 DEF g

\* Popping removes the head and nothing else: page_alloc.
LEMMA Pop ==
    ASSUME NEW S, NEW f \in Seq(S), f # <<>>, IsInjective(f)
    PROVE  /\ Head(f) \in Range(f) /\ Head(f) \in S
           /\ Tail(f) \in Seq(S)
           /\ Range(Tail(f)) = Range(f) \ {Head(f)}
           /\ IsInjective(Tail(f))
<1> DEFINE g == Tail(f)
<1>1. /\ g \in Seq(S) /\ Len(g) = Len(f) - 1
      /\ f[1] = Head(f) /\ 1 \in DOMAIN f /\ Head(f) \in S
  OBVIOUS
<1>2. /\ DOMAIN g = 1 .. Len(f) - 1 /\ DOMAIN f = 1 .. Len(f)
      /\ Len(f) \in Nat \ {0}
  BY <1>1
<1>3. \A i \in DOMAIN g : i + 1 \in DOMAIN f /\ g[i] = f[i + 1] /\ i \in Nat
  BY <1>2
<1>4. \A i \in DOMAIN f : i = 1 \/ (i - 1 \in DOMAIN g /\ f[i] = g[i - 1])
  BY <1>2
<1> HIDE DEF g
<1>5. Range(g) = Range(f) \ {Head(f)}
  <2>1. \A i \in DOMAIN g : g[i] \in Range(f) \ {Head(f)}
    BY <1>1, <1>2, <1>3 DEF Range, IsInjective
  <2>2. \A x \in Range(f) \ {Head(f)} : x \in Range(g)
    BY <1>1, <1>2, <1>4 DEF Range
  <2> QED
    BY <2>1, <2>2 DEF Range
<1>6. IsInjective(g)
  BY <1>2, <1>3 DEF IsInjective
<1> QED
  BY <1>1, <1>5, <1>6 DEF g, Range

MemType(m, E) ==
    m \in [ref : [Page -> 0 .. RefMod - 1], free : Seq(Page),
           ent : [Page -> [Idx -> Entry]], dirty : SUBSET Page,
           pgdir : [E -> Page \cup {NoPage}]]

\* The number of references to q.
RefCount(m, q) == Cardinality(EntRefs(m, q)) + Cardinality(DirRefs(m, q))
                  + IF q = 0 THEN 1 ELSE 0

Counts(m) == \A q \in Page : m.ref[q] = RefCount(m, q)

\* The free list, when the pages of H are in nobody's hands but the kernel's:
\* allocated and not yet mapped, or lost to a panic.
Listed(m, H) ==
    /\ IsInjective(m.free)
    /\ H \subseteq Page
    /\ H \cap OnList(m) = {}
    /\ \A q \in Page : m.ref[q] = 0 <=> q \in OnList(m) \cup H

\* The tree: an entry that is not present is clear, a directory belongs to one
\* environment, the present entries are in directories and tables, none names a
\* directory, and a table is named by one entry.
Clear(m) == \A q \in Page, k \in Idx : ~m.ent[q][k].p => m.ent[q][k] = Absent
OwnDir(m) ==
    \A e, f \in DOMAIN m.pgdir :
        m.pgdir[e] = m.pgdir[f] /\ m.pgdir[e] # NoPage => e = f
Placed(m) ==
    \A q \in Page, k \in Idx : m.ent[q][k].p =>
        /\ \/ q \in Dirs(m) /\ k \in UserPdx
           \/ q \in Tables(m) /\ k \in UserPtx
        /\ m.ent[q][k].pp \notin Dirs(m)
OneEntry(m) ==
    \A q, r \in Page, k, l \in Idx :
        /\ m.ent[q][k].p /\ m.ent[r][l].p
        /\ m.ent[q][k].pp = m.ent[r][l].pp
        /\ m.ent[q][k].pp \in Tables(m)
        => q = r /\ k = l
Unwritten(m) == m.dirty \cap (Dirs(m) \cup Tables(m)) = {}

Shape(m) == Clear(m) /\ OwnDir(m) /\ Placed(m) /\ OneEntry(m) /\ Unwritten(m)

MemInv(m, E, H) == MemType(m, E) /\ Shape(m) /\ Counts(m) /\ Listed(m, H)

-----------------------------------------------------------------------------
(* Sets of pages, and what a count says.                                   *)

LEMMA TypeFacts ==
    ASSUME NEW m, NEW E, MemType(m, E)
    PROVE  /\ m.ref \in [Page -> 0 .. RefMod - 1] /\ m.free \in Seq(Page)
           /\ m.ent \in [Page -> [Idx -> Entry]] /\ m.dirty \subseteq Page
           /\ m.pgdir \in [E -> Page \cup {NoPage}] /\ DOMAIN m.pgdir = E
           /\ \A q \in Page, k \in Idx :
                 /\ m.ent[q][k].p \in BOOLEAN /\ m.ent[q][k].pp \in Page
                 /\ m.ent[q][k].w \in BOOLEAN
BY DEF MemType, Entry

LEMMA DirFacts ==
    ASSUME NEW m, NEW E, MemType(m, E)
    PROVE  /\ Dirs(m) \subseteq Page
           /\ \A q : q \in Dirs(m) <=> q # NoPage /\ \E e \in E : m.pgdir[e] = q
BY TypeFacts DEF Dirs

LEMMA TableFacts ==
    ASSUME NEW m, NEW E, MemType(m, E)
    PROVE  /\ Tables(m) \subseteq Page
           /\ \A q : q \in Tables(m) <=> \E d \in Dirs(m), i \in UserPdx :
                                            m.ent[d][i].p /\ m.ent[d][i].pp = q
<1>1. UserPdx \subseteq Idx /\ Dirs(m) \subseteq Page
  BY DirFacts DEF Idx
<1>2. ASSUME NEW q \in Tables(m)
      PROVE  \E d \in Dirs(m), i \in UserPdx : m.ent[d][i].p /\ m.ent[d][i].pp = q
  BY DEF Tables
<1>3. ASSUME NEW d \in Dirs(m), NEW i \in UserPdx, m.ent[d][i].p
      PROVE  m.ent[d][i].pp \in Tables(m)
  <2>1. <<d, i>> \in {y \in Dirs(m) \X UserPdx : m.ent[y[1]][y[2]].p}
    BY <1>3
  <2> QED
    BY <2>1 DEF Tables
<1> QED
  BY <1>1, <1>2, <1>3, TypeFacts

LEMMA FinitePages == IsFiniteSet(Page \X Idx)
<1>1. IsFiniteSet(Page) /\ IsFiniteSet(UserPdx) /\ IsFiniteSet(UserPtx)
  BY FS_Interval, NPAGESAssumption, UTOPXAssumption, NPTENTRIESAssumption
     DEF Page, UserPdx, UserPtx
<1> QED
  BY <1>1, FS_Union, FS_Product DEF Idx

LEMMA RefsFinite ==
    ASSUME NEW m, NEW E, MemType(m, E), IsFiniteSet(E), NEW q
    PROVE  /\ IsFiniteSet(EntRefs(m, q)) /\ Cardinality(EntRefs(m, q)) \in Nat
           /\ IsFiniteSet(DirRefs(m, q)) /\ Cardinality(DirRefs(m, q)) \in Nat
<1>1. EntRefs(m, q) \in SUBSET (Page \X Idx) /\ DirRefs(m, q) \in SUBSET E
  BY TypeFacts DEF EntRefs, DirRefs
<1>2. IsFiniteSet(EntRefs(m, q)) /\ IsFiniteSet(DirRefs(m, q))
  BY <1>1, FinitePages, FS_Subset
<1> QED
  BY <1>2, FS_CardinalityType

\* A page whose count is zero is named by no entry and is no directory; the
\* count of page 0 is never zero.
LEMMA ZeroCount ==
    ASSUME NEW m, NEW E, MemType(m, E), IsFiniteSet(E), NEW q \in Page
    PROVE  RefCount(m, q) = 0 <=>
              /\ q # 0 /\ q \notin Dirs(m)
              /\ \A r \in Page, k \in Idx : m.ent[r][k].p => m.ent[r][k].pp # q
<1>1. RefCount(m, q) = 0 <=> q # 0 /\ EntRefs(m, q) = {} /\ DirRefs(m, q) = {}
  BY RefsFinite, FS_EmptySet DEF RefCount
<1>2. DirRefs(m, q) = {} <=> q \notin Dirs(m)
  BY DirFacts, TypeFacts, NPAGESAssumption DEF DirRefs, Page, NoPage
<1>3. EntRefs(m, q) = {}
      <=> \A r \in Page, k \in Idx : m.ent[r][k].p => m.ent[r][k].pp # q
  <2>1. ASSUME NEW r \in Page, NEW k \in Idx, m.ent[r][k].p, m.ent[r][k].pp = q
        PROVE  <<r, k>> \in EntRefs(m, q)
    BY <2>1 DEF EntRefs
  <2>2. ASSUME NEW x \in EntRefs(m, q)
        PROVE  \E r \in Page, k \in Idx : m.ent[r][k].p /\ m.ent[r][k].pp = q
    BY DEF EntRefs
  <2> QED
    BY <2>1, <2>2
<1> QED
  BY <1>1, <1>2, <1>3

\* Adding, or removing, at most one element.
LEMMA CardUpdate ==
    ASSUME NEW S, IsFiniteSet(S), NEW T, NEW x, NEW b \in BOOLEAN
    PROVE  /\ x \notin S /\ T = S \cup (IF b THEN {x} ELSE {})
              => Cardinality(T) = Cardinality(S) + IF b THEN 1 ELSE 0
           /\ (x \in S <=> b) /\ T = S \ {x}
              => Cardinality(T) = Cardinality(S) - IF b THEN 1 ELSE 0
<1>1. Cardinality(S) \in Nat
  BY FS_CardinalityType
<1>2. CASE b
  BY <1>1, <1>2, FS_AddElement, FS_RemoveElement
<1>3. CASE ~b
  BY <1>1, <1>3, FS_RemoveElement
<1> QED
  BY <1>2, <1>3

\* n is m with one entry changed.
EntrySet(m, n, t, k, x) ==
    /\ n.pgdir = m.pgdir
    /\ \A q \in Page, j \in Idx :
          n.ent[q][j] = IF q = t /\ j = k THEN x ELSE m.ent[q][j]

\* A new entry counts for the page it names, and for no other.
LEMMA CountLink ==
    ASSUME NEW m, NEW n, NEW E, MemType(m, E), IsFiniteSet(E),
           NEW t \in Page, NEW k \in Idx, NEW pp \in Page, NEW w,
           ~m.ent[t][k].p, EntrySet(m, n, t, k, Present(pp, w))
    PROVE  \A q \in Page : RefCount(n, q) = RefCount(m, q)
                                            + IF q = pp THEN 1 ELSE 0
<1> SUFFICES ASSUME NEW q \in Page
             PROVE  RefCount(n, q) = RefCount(m, q) + IF q = pp THEN 1 ELSE 0
  OBVIOUS
<1>1. DirRefs(n, q) = DirRefs(m, q)
  BY DEF EntrySet, DirRefs
<1>2. EntRefs(n, q) = EntRefs(m, q) \cup (IF q = pp THEN {<<t, k>>} ELSE {})
  <2>1. ASSUME NEW x \in Page \X Idx
        PROVE  x \in EntRefs(n, q)
               <=> x \in EntRefs(m, q) \/ (q = pp /\ x = <<t, k>>)
    <3>1. n.ent[x[1]][x[2]] = IF x = <<t, k>> THEN Present(pp, w)
                              ELSE m.ent[x[1]][x[2]]
      BY DEF EntrySet
    <3> QED
      BY <3>1 DEF EntRefs, Present
  <2>2. EntRefs(n, q) \subseteq Page \X Idx /\ EntRefs(m, q) \subseteq Page \X Idx
        /\ <<t, k>> \in Page \X Idx
    BY DEF EntRefs
  <2> QED
    BY <2>1, <2>2
<1>3. <<t, k>> \notin EntRefs(m, q)
  BY DEF EntRefs
<1>4. Cardinality(EntRefs(n, q)) = Cardinality(EntRefs(m, q))
                                   + IF q = pp THEN 1 ELSE 0
  BY <1>2, <1>3, RefsFinite, CardUpdate
<1> QED
  BY <1>1, <1>4, RefsFinite DEF RefCount

\* An entry that is cleared counted for the page it named.
LEMMA CountUnlink ==
    ASSUME NEW m, NEW n, NEW E, MemType(m, E), IsFiniteSet(E),
           NEW t \in Page, NEW k \in Idx,
           m.ent[t][k].p, EntrySet(m, n, t, k, Absent)
    PROVE  \A q \in Page : RefCount(n, q) = RefCount(m, q)
                                - IF q = m.ent[t][k].pp THEN 1 ELSE 0
<1> SUFFICES ASSUME NEW q \in Page
             PROVE  RefCount(n, q) = RefCount(m, q)
                                     - IF q = m.ent[t][k].pp THEN 1 ELSE 0
  OBVIOUS
<1>1. DirRefs(n, q) = DirRefs(m, q)
  BY DEF EntrySet, DirRefs
<1>2. EntRefs(n, q) = EntRefs(m, q) \ {<<t, k>>}
  <2>1. ASSUME NEW x \in Page \X Idx
        PROVE  x \in EntRefs(n, q) <=> x \in EntRefs(m, q) /\ x # <<t, k>>
    <3>1. n.ent[x[1]][x[2]] = IF x = <<t, k>> THEN Absent
                              ELSE m.ent[x[1]][x[2]]
      BY DEF EntrySet
    <3> QED
      BY <3>1 DEF EntRefs, Absent
  <2>2. EntRefs(n, q) \subseteq Page \X Idx /\ EntRefs(m, q) \subseteq Page \X Idx
    BY DEF EntRefs
  <2> QED
    BY <2>1, <2>2
<1>3. <<t, k>> \in EntRefs(m, q) <=> q = m.ent[t][k].pp
  BY DEF EntRefs
<1>4. Cardinality(EntRefs(n, q)) = Cardinality(EntRefs(m, q))
                                   - IF q = m.ent[t][k].pp THEN 1 ELSE 0
  <2> DEFINE b == q = m.ent[t][k].pp
  <2>1. b \in BOOLEAN /\ (<<t, k>> \in EntRefs(m, q) <=> b)
    BY <1>3
  <2> HIDE DEF b
  <2>2. Cardinality(EntRefs(n, q)) = Cardinality(EntRefs(m, q)) - IF b THEN 1 ELSE 0
    BY <1>2, <2>1, RefsFinite, CardUpdate
  <2> QED
    BY <2>2 DEF b
<1> QED
  BY <1>1, <1>4, RefsFinite DEF RefCount

\* n is m with another directory, or none, for environment e.
DirSet(m, n, e, d) == n.ent = m.ent /\ n.pgdir = [m.pgdir EXCEPT ![e] = d]

\* A directory given to an environment, and taken from it.
LEMMA CountSetup ==
    ASSUME NEW m, NEW n, NEW E, MemType(m, E), IsFiniteSet(E),
           NEW e \in E, NEW d \in Page, m.pgdir[e] = NoPage, DirSet(m, n, e, d)
    PROVE  \A q \in Page : RefCount(n, q) = RefCount(m, q)
                                            + IF q = d THEN 1 ELSE 0
<1> SUFFICES ASSUME NEW q \in Page
             PROVE  RefCount(n, q) = RefCount(m, q) + IF q = d THEN 1 ELSE 0
  OBVIOUS
<1>1. m.pgdir \in [E -> Page \cup {NoPage}] /\ NoPage \notin Page
  BY TypeFacts, NPAGESAssumption DEF Page, NoPage
<1>2. EntRefs(n, q) = EntRefs(m, q)
  BY DEF EntRefs, DirSet
<1>3. DirRefs(n, q) = DirRefs(m, q) \cup (IF q = d THEN {e} ELSE {})
      /\ e \notin DirRefs(m, q)
  BY <1>1 DEF DirRefs, DirSet
<1>4. Cardinality(DirRefs(n, q)) = Cardinality(DirRefs(m, q))
                                   + IF q = d THEN 1 ELSE 0
  BY <1>3, RefsFinite, CardUpdate
<1> QED
  BY <1>2, <1>4, RefsFinite DEF RefCount

LEMMA CountTeardown ==
    ASSUME NEW m, NEW n, NEW E, MemType(m, E), IsFiniteSet(E),
           NEW e \in E, NEW d \in Page, m.pgdir[e] = d, DirSet(m, n, e, NoPage)
    PROVE  \A q \in Page : RefCount(n, q) = RefCount(m, q)
                                            - IF q = d THEN 1 ELSE 0
<1> SUFFICES ASSUME NEW q \in Page
             PROVE  RefCount(n, q) = RefCount(m, q) - IF q = d THEN 1 ELSE 0
  OBVIOUS
<1>1. m.pgdir \in [E -> Page \cup {NoPage}] /\ NoPage \notin Page
  BY TypeFacts, NPAGESAssumption DEF Page, NoPage
<1>2. EntRefs(n, q) = EntRefs(m, q)
  BY DEF EntRefs, DirSet
<1>3. DirRefs(n, q) = DirRefs(m, q) \ {e} /\ (e \in DirRefs(m, q) <=> q = d)
  BY <1>1 DEF DirRefs, DirSet
<1>4. Cardinality(DirRefs(n, q)) = Cardinality(DirRefs(m, q))
                                   - IF q = d THEN 1 ELSE 0
  BY <1>3, RefsFinite, CardUpdate
<1> QED
  BY <1>2, <1>4, RefsFinite DEF RefCount

-----------------------------------------------------------------------------
(* The tree under the changes the routines make to it.                     *)

\* Where the directories and tables are.
InTree(m) ==
    /\ Dirs(m) \subseteq Page /\ Tables(m) \subseteq Page
    /\ \A d \in Dirs(m), i \in UserPdx : m.ent[d][i].p => m.ent[d][i].pp \in Tables(m)
    /\ \A t \in Tables(m) : \E d \in Dirs(m), i \in UserPdx :
                               m.ent[d][i].p /\ m.ent[d][i].pp = t

LEMMA TypeInTree ==
    ASSUME NEW m, NEW E, MemType(m, E)
    PROVE  InTree(m)
BY DirFacts, TableFacts DEF InTree

\* A table is not a directory, and a page mapped by a table is neither.
LEMMA KindsApart ==
    ASSUME NEW m, NEW E, MemType(m, E), Shape(m)
    PROVE  /\ Dirs(m) \cap Tables(m) = {}
           /\ \A t \in Tables(m), k \in UserPtx : m.ent[t][k].p
                 => m.ent[t][k].pp \notin Dirs(m) \cup Tables(m)
<1>0. InTree(m) /\ UserPdx \subseteq Idx /\ UserPtx \subseteq Idx
  BY TypeInTree DEF Idx
<1>1. \A t \in Tables(m) : t \notin Dirs(m)
  BY <1>0 DEF Shape, Placed, InTree
<1>2. ASSUME NEW t \in Tables(m), NEW k \in UserPtx, m.ent[t][k].p,
             m.ent[t][k].pp \in Tables(m)
      PROVE  FALSE
  <2>1. PICK d \in Dirs(m), i \in UserPdx :
               m.ent[d][i].p /\ m.ent[d][i].pp = m.ent[t][k].pp
    BY <1>0, <1>2 DEF InTree
  <2>2. d = t
    BY <1>0, <1>2, <2>1 DEF Shape, OneEntry, InTree
  <2> QED
    BY <2>2, <1>1
<1>3. ASSUME NEW t \in Tables(m), NEW k \in UserPtx, m.ent[t][k].p
      PROVE  m.ent[t][k].pp \notin Dirs(m)
  BY <1>0, <1>3 DEF Shape, Placed, InTree
<1> QED
  BY <1>1, <1>2, <1>3

\* A page becomes mapped in a table.
LEMMA ShapeMap ==
    ASSUME NEW m, NEW n, NEW E, MemType(m, E), MemType(n, E), Shape(m),
           NEW t \in Tables(m), NEW k \in UserPtx, NEW w,
           NEW pp \in Page \ (Dirs(m) \cup Tables(m)),
           ~m.ent[t][k].p, EntrySet(m, n, t, k, Present(pp, w)),
           n.dirty \subseteq m.dirty
    PROVE  Shape(n) /\ Dirs(n) = Dirs(m) /\ Tables(n) = Tables(m)
<1>0. /\ InTree(m) /\ InTree(n)
      /\ UserPdx \subseteq Idx /\ UserPtx \subseteq Idx
  BY TypeInTree DEF Idx
<1>1. Dirs(n) = Dirs(m) /\ t \notin Dirs(m)
  BY <1>0, KindsApart DEF Dirs, EntrySet, InTree
<1>2. \A q \in Page, j \in Idx :
         n.ent[q][j] = IF q = t /\ j = k THEN Present(pp, w) ELSE m.ent[q][j]
  BY DEF EntrySet
<1>3. \A q : q \in Tables(n) <=> q \in Tables(m)
  BY <1>0, <1>1, <1>2 DEF InTree
<1>4. Clear(n)
  BY <1>0, <1>2 DEF InTree, Shape, Clear, Present
<1>5. OwnDir(n)
  BY DEF Shape, OwnDir, EntrySet
<1>6. Placed(n)
  BY <1>0, <1>1, <1>2, <1>3 DEF InTree, Shape, Placed, Present
<1>7. OneEntry(n)
  <2> SUFFICES ASSUME NEW q \in Page, NEW r \in Page, NEW x \in Idx, NEW y \in Idx,
                      n.ent[q][x].p, n.ent[r][y].p,
                      n.ent[q][x].pp = n.ent[r][y].pp, n.ent[q][x].pp \in Tables(n)
               PROVE  q = r /\ x = y
    BY DEF OneEntry
  <2>1. n.ent[q][x] = m.ent[q][x] /\ n.ent[r][y] = m.ent[r][y]
    BY <1>2, <1>3 DEF Present
  <2> QED
    BY <2>1, <1>3 DEF Shape, OneEntry
<1>8. Unwritten(n)
  BY <1>0, <1>1, <1>3 DEF InTree, Shape, Unwritten
<1> QED
  BY <1>1, <1>3, <1>4, <1>5, <1>6, <1>7, <1>8 DEF Shape

\* A mapping is cleared.
LEMMA ShapeUnmap ==
    ASSUME NEW m, NEW n, NEW E, MemType(m, E), MemType(n, E), Shape(m),
           NEW t \in Tables(m), NEW k \in UserPtx,
           EntrySet(m, n, t, k, Absent), n.dirty \subseteq m.dirty
    PROVE  Shape(n) /\ Dirs(n) = Dirs(m) /\ Tables(n) = Tables(m)
<1>0. /\ InTree(m) /\ InTree(n)
      /\ UserPdx \subseteq Idx /\ UserPtx \subseteq Idx
  BY TypeInTree DEF Idx
<1>1. Dirs(n) = Dirs(m) /\ t \notin Dirs(m)
  BY <1>0, KindsApart DEF Dirs, EntrySet, InTree
<1>2. \A q \in Page, j \in Idx :
         n.ent[q][j] = IF q = t /\ j = k THEN Absent ELSE m.ent[q][j]
  BY DEF EntrySet
<1>3. \A q : q \in Tables(n) <=> q \in Tables(m)
  BY <1>0, <1>1, <1>2 DEF InTree
<1>4. Clear(n)
  BY <1>0, <1>2 DEF InTree, Shape, Clear
<1>5. OwnDir(n)
  BY DEF Shape, OwnDir, EntrySet
<1>6. Placed(n)
  BY <1>0, <1>1, <1>2, <1>3 DEF InTree, Shape, Placed, Absent
<1>7. OneEntry(n)
  <2> SUFFICES ASSUME NEW q \in Page, NEW r \in Page, NEW x \in Idx, NEW y \in Idx,
                      n.ent[q][x].p, n.ent[r][y].p,
                      n.ent[q][x].pp = n.ent[r][y].pp, n.ent[q][x].pp \in Tables(n)
               PROVE  q = r /\ x = y
    BY DEF OneEntry
  <2>1. n.ent[q][x] = m.ent[q][x] /\ n.ent[r][y] = m.ent[r][y]
    BY <1>2, <1>3 DEF Absent
  <2> QED
    BY <2>1, <1>3 DEF Shape, OneEntry
<1>8. Unwritten(n)
  BY <1>0, <1>1, <1>3 DEF InTree, Shape, Unwritten
<1> QED
  BY <1>1, <1>3, <1>4, <1>5, <1>6, <1>7, <1>8 DEF Shape

\* A page nobody names.
Unnamed(m, t) ==
    t \notin Dirs(m)
    /\ \A q \in Page, k \in Idx : m.ent[q][k].p => m.ent[q][k].pp # t

\* A directory gets a new table.
LEMMA ShapeGrow ==
    ASSUME NEW m, NEW n, NEW E, MemType(m, E), MemType(n, E), Shape(m),
           NEW d \in Dirs(m), NEW i \in UserPdx, NEW w,
           NEW t \in Page, Unnamed(m, t),
           ~m.ent[d][i].p, EntrySet(m, n, d, i, Present(t, w)),
           n.dirty \subseteq m.dirty \ {t}
    PROVE  Shape(n) /\ Dirs(n) = Dirs(m) /\ Tables(n) = Tables(m) \cup {t}
<1>0. /\ InTree(m) /\ InTree(n)
      /\ UserPdx \subseteq Idx /\ UserPtx \subseteq Idx
  BY TypeInTree DEF Idx
<1>1. Dirs(n) = Dirs(m) /\ d \notin Tables(m)
  BY <1>0, KindsApart DEF Dirs, EntrySet, InTree
<1>2. \A q \in Page, j \in Idx :
         n.ent[q][j] = IF q = d /\ j = i THEN Present(t, w) ELSE m.ent[q][j]
  BY DEF EntrySet
<1>3. \A q : q \in Tables(n) <=> q \in Tables(m) \/ q = t
  <2>1. ASSUME NEW q \in Tables(n) PROVE q \in Tables(m) \/ q = t
    BY <1>0, <1>1, <1>2 DEF Present, InTree
  <2>2. t \in Tables(n)
    BY <1>0, <1>1, <1>2 DEF Present, InTree
  <2>3. ASSUME NEW q \in Tables(m) PROVE q \in Tables(n)
    BY <1>0, <1>1, <1>2 DEF Present, InTree
  <2> QED
    BY <2>1, <2>2, <2>3
<1>4. Clear(n)
  BY <1>0, <1>2 DEF InTree, Shape, Clear, Present
<1>5. OwnDir(n)
  BY DEF Shape, OwnDir, EntrySet
<1>6. Placed(n)
  BY <1>0, <1>1, <1>2, <1>3 DEF InTree, Shape, Placed, Present, Unnamed
<1>7. OneEntry(n)
  <2> SUFFICES ASSUME NEW q \in Page, NEW r \in Page, NEW x \in Idx, NEW y \in Idx,
                      n.ent[q][x].p, n.ent[r][y].p,
                      n.ent[q][x].pp = n.ent[r][y].pp, n.ent[q][x].pp \in Tables(n)
               PROVE  q = r /\ x = y
    BY DEF OneEntry
  <2>1. CASE n.ent[q][x].pp = t
    <3>1. q = d /\ x = i
      BY <1>2, <2>1 DEF Unnamed
    <3>2. r = d /\ y = i
      <4>1. n.ent[r][y].p /\ n.ent[r][y].pp = t
        BY <2>1
      <4> QED
        BY <1>2, <4>1 DEF Unnamed
    <3> QED
      BY <3>1, <3>2
  <2>2. CASE n.ent[q][x].pp # t
    <3>1. n.ent[q][x] = m.ent[q][x] /\ n.ent[r][y] = m.ent[r][y]
      BY <1>2, <2>2 DEF Present
    <3> QED
      BY <3>1, <2>2, <1>3 DEF Shape, OneEntry
  <2> QED
    BY <2>1, <2>2
<1>8. Unwritten(n)
  BY <1>0, <1>1, <1>3 DEF InTree, Shape, Unwritten
<1> QED
  BY <1>1, <1>3, <1>4, <1>5, <1>6, <1>7, <1>8 DEF Shape

\* A directory loses an empty table.
LEMMA ShapePrune ==
    ASSUME NEW m, NEW n, NEW E, MemType(m, E), MemType(n, E), Shape(m),
           NEW d \in Dirs(m), NEW i \in UserPdx, m.ent[d][i].p,
           \A k \in UserPtx : ~m.ent[m.ent[d][i].pp][k].p,
           EntrySet(m, n, d, i, Absent), n.dirty \subseteq m.dirty
    PROVE  Shape(n) /\ Dirs(n) = Dirs(m) /\ Tables(n) = Tables(m) \ {m.ent[d][i].pp}
<1> DEFINE t == m.ent[d][i].pp
<1>0. /\ InTree(m) /\ InTree(n)
      /\ UserPdx \subseteq Idx /\ UserPtx \subseteq Idx
  BY TypeInTree DEF Idx
<1>1. Dirs(n) = Dirs(m) /\ d \notin Tables(m) /\ t \in Tables(m)
  BY <1>0, KindsApart DEF Dirs, EntrySet, InTree
<1>2. \A q \in Page, j \in Idx :
         n.ent[q][j] = IF q = d /\ j = i THEN Absent ELSE m.ent[q][j]
  BY DEF EntrySet
<1>3. \A q : q \in Tables(n) <=> q \in Tables(m) /\ q # t
  <2>1. ASSUME NEW q \in Tables(n) PROVE q \in Tables(m) /\ q # t
    <3>1. PICK c \in Dirs(n), j \in UserPdx : n.ent[c][j].p /\ n.ent[c][j].pp = q
      BY <1>0 DEF InTree
    <3>2. c \in Dirs(m) /\ ~(c = d /\ j = i) /\ m.ent[c][j].p /\ m.ent[c][j].pp = q
      BY <3>1, <1>0, <1>1, <1>2 DEF Absent, InTree
    <3> QED
      BY <3>2, <1>0, <1>1 DEF Shape, OneEntry, InTree
  <2>2. ASSUME NEW q \in Tables(m), q # t PROVE q \in Tables(n)
    BY <1>0, <1>1, <1>2, <2>2 DEF InTree
  <2> QED
    BY <2>1, <2>2
<1>4. Clear(n)
  BY <1>0, <1>2 DEF InTree, Shape, Clear
<1>5. OwnDir(n)
  BY DEF Shape, OwnDir, EntrySet
<1>9. \A q \in Page, j \in Idx : n.ent[q][j].p =>
         m.ent[q][j].p /\ n.ent[q][j] = m.ent[q][j] /\ ~(q = t /\ j \in UserPtx)
  BY <1>2 DEF Absent
<1> HIDE DEF t
<1>6. Placed(n)
  BY <1>0, <1>1, <1>9, <1>3, KindsApart DEF InTree, Shape, Placed
<1>7. OneEntry(n)
  <2> SUFFICES ASSUME NEW q \in Page, NEW r \in Page, NEW x \in Idx, NEW y \in Idx,
                      n.ent[q][x].p, n.ent[r][y].p,
                      n.ent[q][x].pp = n.ent[r][y].pp, n.ent[q][x].pp \in Tables(n)
               PROVE  q = r /\ x = y
    BY DEF OneEntry
  <2> QED
    BY <1>9, <1>3, SMTT(40) DEF Shape, OneEntry
<1>8. Unwritten(n)
  BY <1>0, <1>1, <1>3 DEF InTree, Shape, Unwritten
<1> QED
  BY <1>1, <1>3, <1>4, <1>5, <1>6, <1>7, <1>8 DEF Shape, t

\* An environment gets a page as its directory.
LEMMA ShapeSetup ==
    ASSUME NEW m, NEW n, NEW E, MemType(m, E), MemType(n, E), Shape(m),
           NEW e \in E, NEW d \in Page, Unnamed(m, d),
           m.pgdir[e] = NoPage, DirSet(m, n, e, d),
           n.dirty \subseteq m.dirty \ {d}
    PROVE  Shape(n) /\ Dirs(n) = Dirs(m) \cup {d} /\ Tables(n) = Tables(m)
<1>0. InTree(m) /\ InTree(n) /\ UserPdx \subseteq Idx /\ UserPtx \subseteq Idx
  BY TypeInTree DEF Idx
<1>1. m.pgdir \in [E -> Page \cup {NoPage}] /\ NoPage \notin Page /\ n.ent = m.ent
      /\ n.pgdir = [m.pgdir EXCEPT ![e] = d]
  BY TypeFacts, NPAGESAssumption DEF Page, NoPage, DirSet
<1>2. \A q : q \in Dirs(n) <=> q \in Dirs(m) \/ q = d
  BY <1>1, DirFacts
<1>3. d \notin Tables(m) /\ \A k \in Idx : ~m.ent[d][k].p
  BY <1>0 DEF Unnamed, InTree, Shape, Placed
<1>4. \A q : q \in Tables(n) <=> q \in Tables(m)
  BY <1>0, <1>1, <1>2, <1>3 DEF InTree
<1>5. Clear(n)
  BY <1>1 DEF Shape, Clear
<1>6. OwnDir(n)
  <2>1. \A f \in E : m.pgdir[f] # d
    BY <1>1, DirFacts DEF Unnamed
  <2> QED
    BY <1>1, <2>1 DEF Shape, OwnDir
<1>7. Placed(n)
  BY <1>1, <1>2, <1>4 DEF Shape, Placed, Unnamed
<1>8. OneEntry(n)
  BY <1>1, <1>4 DEF Shape, OneEntry
<1>9. Unwritten(n)
  BY <1>1, <1>2, <1>4 DEF Shape, Unwritten
<1> QED
  BY <1>2, <1>4, <1>5, <1>6, <1>7, <1>8, <1>9 DEF Shape

\* An environment loses its directory, which is empty by then.
LEMMA ShapeTeardown ==
    ASSUME NEW m, NEW n, NEW E, MemType(m, E), MemType(n, E), Shape(m),
           NEW e \in E, m.pgdir[e] # NoPage, PresentPdx(m, m.pgdir[e]) = {},
           DirSet(m, n, e, NoPage), n.dirty \subseteq m.dirty
    PROVE  Shape(n) /\ Dirs(n) = Dirs(m) \ {m.pgdir[e]} /\ Tables(n) = Tables(m)
<1>0. InTree(m) /\ InTree(n) /\ UserPdx \subseteq Idx /\ UserPtx \subseteq Idx
  BY TypeInTree DEF Idx
<1> DEFINE d == m.pgdir[e]
<1>1. m.pgdir \in [E -> Page \cup {NoPage}] /\ NoPage \notin Page /\ n.ent = m.ent
      /\ n.pgdir = [m.pgdir EXCEPT ![e] = NoPage]
  BY TypeFacts, NPAGESAssumption DEF Page, NoPage, DirSet
<1>2. \A q : q \in Dirs(n) <=> q \in Dirs(m) /\ q # d
  BY <1>1, DirFacts DEF Shape, OwnDir
<1>3. d \in Dirs(m) /\ \A k \in Idx : ~m.ent[d][k].p
  <2>1. d \in Dirs(m) /\ d \notin Tables(m) /\ d \in Page
    BY <1>1, DirFacts, KindsApart
  <2> QED
    BY <2>1 DEF Shape, Placed, PresentPdx
<1> HIDE DEF d
<1>4. \A q : q \in Tables(n) <=> q \in Tables(m)
  BY <1>0, <1>1, <1>2, <1>3 DEF InTree
<1>5. Clear(n)
  BY <1>1 DEF Shape, Clear
<1>6. OwnDir(n)
  BY <1>1 DEF Shape, OwnDir
<1>7. Placed(n)
  BY <1>1, <1>2, <1>3, <1>4 DEF Shape, Placed
<1>8. OneEntry(n)
  BY <1>1, <1>4 DEF Shape, OneEntry
<1>9. Unwritten(n)
  BY <1>1, <1>2, <1>4 DEF Shape, Unwritten
<1> QED
  BY <1>2, <1>4, <1>5, <1>6, <1>7, <1>8, <1>9 DEF Shape, d

-----------------------------------------------------------------------------
(* The free list.                                                          *)

\* A page in the kernel's hands, or on the list, is named by nobody and holds
\* nothing: page_alloc has no entries to clear.
LEMMA FreeFacts ==
    ASSUME NEW m, NEW E, NEW H, MemInv(m, E, H), IsFiniteSet(E),
           NEW q \in OnList(m) \cup H
    PROVE  /\ q \in Page /\ m.ref[q] = 0 /\ q # 0
           /\ Unnamed(m, q) /\ q \notin Tables(m)
           /\ m.ent[q] = ZeroedPage
<1>1. q \in Page
  <2>1. m.free \in Seq(Page)
    BY TypeFacts DEF MemInv
  <2>2. OnList(m) \subseteq Page
    BY <2>1 DEF OnList, Range
  <2> QED
    BY <2>2 DEF MemInv, Listed
<1>2. m.ref[q] = 0 /\ RefCount(m, q) = 0
  BY <1>1 DEF MemInv, Listed, Counts
<1>3. q # 0 /\ Unnamed(m, q)
  BY <1>1, <1>2, ZeroCount DEF MemInv, Unnamed
<1>4. q \notin Tables(m)
  <2>1. InTree(m)
    BY TypeInTree DEF MemInv
  <2> QED
    BY <1>3, <2>1 DEF Unnamed, InTree, Idx
<1>5. m.ent[q] = ZeroedPage
  <2>1. \A k \in Idx : m.ent[q][k] = Absent
    BY <1>1, <1>3, <1>4 DEF MemInv, Shape, Placed, Clear, Unnamed
  <2>2. m.ent[q] \in [Idx -> Entry]
    BY <1>1, TypeFacts DEF MemInv
  <2> QED
    BY <2>1, <2>2 DEF ZeroedPage
<1> QED
  BY <1>1, <1>2, <1>3, <1>4, <1>5

\* page_alloc takes the head of the list and changes nothing else.
LEMMA AllocKeeps ==
    ASSUME NEW m, NEW E, NEW H, MemInv(m, E, H), IsFiniteSet(E), m.free # <<>>,
           NEW n \in {page_alloc_raw(m), page_alloc(m)}
    PROVE  /\ MemInv(n, E, H \cup {Head(m.free)})
           /\ Head(m.free) \in OnList(m)
           /\ n.ref = m.ref /\ n.ent = m.ent /\ n.pgdir = m.pgdir
           /\ n.free = Tail(m.free) /\ n.dirty \subseteq m.dirty
           /\ n = page_alloc(m) => n.dirty = m.dirty \ {Head(m.free)}
<1> DEFINE pp == Head(m.free)
<1>1. /\ m.free \in Seq(Page) /\ IsInjective(m.free)
      /\ m.ent \in [Page -> [Idx -> Entry]]
  BY TypeFacts DEF MemInv, Listed
<1>2. /\ pp \in OnList(m) /\ pp \in Page /\ Tail(m.free) \in Seq(Page)
      /\ Range(Tail(m.free)) = OnList(m) \ {pp}
      /\ IsInjective(Tail(m.free))
  BY <1>1, Pop DEF OnList
<1>3. m.ent[pp] = ZeroedPage
  BY <1>2, FreeFacts
<1> HIDE DEF pp
<1>4. [m.ent EXCEPT ![pp] = ZeroedPage] = m.ent
  BY <1>1, <1>2, <1>3
<1>5. /\ MemType(n, E) /\ n.ref = m.ref /\ n.ent = m.ent /\ n.pgdir = m.pgdir
      /\ n.free = Tail(m.free) /\ n.dirty \subseteq m.dirty
      /\ n = page_alloc(m) => n.dirty = m.dirty \ {pp}
  <2>1. MemType(m, E)
    BY DEF MemInv
  <2>2. CASE n = page_alloc(m)
    <3>1. n = [m EXCEPT !.free = Tail(@), !.ent = [@ EXCEPT ![pp] = ZeroedPage],
                        !.dirty = @ \ {pp}]
      BY <2>1, <2>2 DEF page_alloc, page_alloc_raw, MemType, pp
    <3> QED
      BY <3>1, <2>1, <1>2, <1>4 DEF MemType
  <2>3. CASE n = page_alloc_raw(m) /\ n # page_alloc(m)
    BY <2>1, <2>3, <1>2 DEF page_alloc_raw, MemType
  <2> QED
    BY <2>2, <2>3
<1>6. Dirs(n) = Dirs(m) /\ Tables(n) = Tables(m)
  BY <1>5 DEF Dirs, Tables
<1>7. Shape(n)
  BY <1>5, <1>6 DEF MemInv, Shape, Clear, OwnDir, Placed, OneEntry, Unwritten
<1>8. Counts(n)
  <2>1. \A q \in Page : EntRefs(n, q) = EntRefs(m, q) /\ DirRefs(n, q) = DirRefs(m, q)
    BY <1>5 DEF EntRefs, DirRefs
  <2> QED
    BY <1>5, <2>1 DEF MemInv, Counts, RefCount
<1>9. Listed(n, H \cup {pp})
  BY <1>2, <1>5 DEF MemInv, Listed, OnList
<1> QED
  BY <1>2, <1>5, <1>7, <1>8, <1>9 DEF MemInv, pp

\* page_free of a page in hand.
LEMMA FreeKeeps ==
    ASSUME NEW m, NEW E, NEW H, MemInv(m, E, H), NEW pp \in H
    PROVE  MemInv(page_free(m, pp), E, H \ {pp})
<1> DEFINE n == page_free(m, pp)
<1>1. m.free \in Seq(Page) /\ IsInjective(m.free) /\ pp \in Page /\ pp \notin Range(m.free)
  BY TypeFacts DEF MemInv, Listed, OnList
<1>2. /\ <<pp>> \o m.free \in Seq(Page)
      /\ Range(<<pp>> \o m.free) = {pp} \cup OnList(m)
      /\ IsInjective(<<pp>> \o m.free)
  BY <1>1, Push DEF OnList
<1>3. /\ MemType(n, E) /\ n.ref = m.ref /\ n.ent = m.ent /\ n.pgdir = m.pgdir
      /\ n.free = <<pp>> \o m.free /\ n.dirty = m.dirty
  BY <1>2 DEF page_free, MemInv, MemType
<1> HIDE DEF n
<1>4. Dirs(n) = Dirs(m) /\ Tables(n) = Tables(m)
  BY <1>3 DEF Dirs, Tables
<1>5. Shape(n)
  BY <1>3, <1>4 DEF MemInv, Shape, Clear, OwnDir, Placed, OneEntry, Unwritten
<1>6. Counts(n)
  <2>1. \A q \in Page : EntRefs(n, q) = EntRefs(m, q) /\ DirRefs(n, q) = DirRefs(m, q)
    BY <1>3 DEF EntRefs, DirRefs
  <2> QED
    BY <1>3, <2>1 DEF MemInv, Counts, RefCount
<1>7. Listed(n, H \ {pp})
  BY <1>1, <1>2, <1>3 DEF MemInv, Listed, OnList
<1> QED
  BY <1>3, <1>5, <1>6, <1>7 DEF MemInv, n

-----------------------------------------------------------------------------
(* Counting and listing together.                                          *)

\* n is m with one reference to pp more, or less, and pp listed if it was the
\* last one.
OneMore(m, n, pp) ==
    /\ n.free = m.free
    /\ n.ref = [m.ref EXCEPT ![pp] = Inc(@)]
    /\ \A q \in Page : RefCount(n, q) = RefCount(m, q) + IF q = pp THEN 1 ELSE 0

OneLess(m, n, pp) ==
    /\ n.ref = [m.ref EXCEPT ![pp] = Dec(@)]
    /\ n.free = IF n.ref[pp] = 0 THEN <<pp>> \o m.free ELSE m.free
    /\ \A q \in Page : RefCount(n, q) = RefCount(m, q) - IF q = pp THEN 1 ELSE 0

\* A reference more: pp is not on the list, and not in hand any longer.
LEMMA IncKeeps ==
    ASSUME NEW m, NEW n, NEW E, NEW H, MemInv(m, E, H), IsFiniteSet(E),
           MemType(n, E), Shape(n), NEW pp \in Page \ OnList(m),
           OneMore(m, n, pp), RefCount(n, pp) < RefMod
    PROVE  MemInv(n, E, H \ {pp})
<1>1. m.ref \in [Page -> 0 .. RefMod - 1] /\ \A q \in Page : m.ref[q] = RefCount(m, q)
  BY TypeFacts DEF MemInv, Counts
<1>2. /\ n.ref[pp] = m.ref[pp] + 1
      /\ \A q \in Page : q # pp => n.ref[q] = m.ref[q]
  BY <1>1, RefModAssumption DEF Inc, OneMore
<1>3. Counts(n)
  BY <1>1, <1>2 DEF Counts, OneMore
<1>4. Listed(n, H \ {pp})
  BY <1>1, <1>2 DEF MemInv, Listed, OnList, OneMore
<1> QED
  BY <1>3, <1>4 DEF MemInv

\* A reference less: pp is listed when it was the last one.
LEMMA DecKeeps ==
    ASSUME NEW m, NEW n, NEW E, NEW H, MemInv(m, E, H), IsFiniteSet(E),
           MemType(n, E), Shape(n), NEW pp \in Page, m.ref[pp] # 0,
           OneLess(m, n, pp)
    PROVE  MemInv(n, E, H)
<1>1. m.ref \in [Page -> 0 .. RefMod - 1] /\ \A q \in Page : m.ref[q] = RefCount(m, q)
  BY TypeFacts DEF MemInv, Counts
<1>2. /\ n.ref[pp] = m.ref[pp] - 1
      /\ \A q \in Page : q # pp => n.ref[q] = m.ref[q]
  BY <1>1 DEF Dec, OneLess
<1>3. Counts(n)
  BY <1>1, <1>2 DEF Counts, OneLess
<1>4. Listed(n, H)
  <2>1. CASE n.ref[pp] # 0
    BY <1>1, <1>2, <2>1 DEF MemInv, Listed, OnList, OneLess
  <2>2. CASE n.ref[pp] = 0
    <3>1. /\ m.free \in Seq(Page) /\ IsInjective(m.free)
          /\ pp \notin Range(m.free) /\ pp \notin H
      BY TypeFacts DEF MemInv, Listed, OnList
    <3>2. IsInjective(n.free) /\ Range(n.free) = {pp} \cup Range(m.free)
      BY <2>2, <3>1, Push DEF OneLess
    <3> QED
      BY <1>1, <1>2, <2>2, <3>1, <3>2 DEF MemInv, Listed, OnList, OneLess
  <2> QED
    BY <2>1, <2>2
<1> QED
  BY <1>3, <1>4 DEF MemInv

\* Changing one field of the record.
LEMMA SetField ==
    ASSUME NEW m, NEW E, MemType(m, E)
    PROVE  /\ \A f \in [Page -> 0 .. RefMod - 1] :
                 LET n == [m EXCEPT !.ref = f]
                 IN  /\ MemType(n, E) /\ n.ref = f /\ n.free = m.free
                     /\ n.ent = m.ent /\ n.dirty = m.dirty /\ n.pgdir = m.pgdir
           /\ \A f \in [Page -> [Idx -> Entry]] :
                 LET n == [m EXCEPT !.ent = f]
                 IN  /\ MemType(n, E) /\ n.ent = f /\ n.free = m.free
                     /\ n.ref = m.ref /\ n.dirty = m.dirty /\ n.pgdir = m.pgdir
<1>1. ASSUME NEW f \in [Page -> 0 .. RefMod - 1]
      PROVE  LET n == [m EXCEPT !.ref = f]
             IN  /\ MemType(n, E) /\ n.ref = f /\ n.free = m.free
                 /\ n.ent = m.ent /\ n.dirty = m.dirty /\ n.pgdir = m.pgdir
  BY DEF MemType
<1>2. ASSUME NEW f \in [Page -> [Idx -> Entry]]
      PROVE  LET n == [m EXCEPT !.ent = f]
             IN  /\ MemType(n, E) /\ n.ent = f /\ n.free = m.free
                 /\ n.ref = m.ref /\ n.dirty = m.dirty /\ n.pgdir = m.pgdir
  BY DEF MemType
<1> QED
  BY <1>1, <1>2

\* The fields of the results of the routines that count.
LEMMA IncrefFields ==
    ASSUME NEW m, NEW E, MemType(m, E), NEW pp \in Page
    PROVE  LET n == page_incref(m, pp)
           IN  /\ MemType(n, E) /\ n.ref = [m.ref EXCEPT ![pp] = Inc(@)]
               /\ n.free = m.free /\ n.ent = m.ent /\ n.dirty = m.dirty
               /\ n.pgdir = m.pgdir
<1>1. m.ref[pp] \in 0 .. RefMod - 1
  BY TypeFacts
<1>2. Inc(m.ref[pp]) \in 0 .. RefMod - 1
  BY <1>1, RefModAssumption DEF Inc
<1> DEFINE f == [m.ref EXCEPT ![pp] = Inc(m.ref[pp])]
<1>3. f \in [Page -> 0 .. RefMod - 1]
  BY <1>2, TypeFacts
<1> DEFINE n == [m EXCEPT !.ref = f]
<1>4. page_incref(m, pp) = n
  BY DEF page_incref
<1> HIDE DEF f
<1>5. /\ MemType(n, E) /\ n.ref = f
      /\ n.free = m.free /\ n.ent = m.ent /\ n.dirty = m.dirty /\ n.pgdir = m.pgdir
  BY <1>3, SetField
<1> HIDE DEF n
<1> QED
  BY <1>4, <1>5 DEF f

LEMMA DecrefFields ==
    ASSUME NEW m, NEW E, MemType(m, E), NEW pp \in Page
    PROVE  LET n == page_decref(m, pp)
           IN  /\ MemType(n, E) /\ n.ref = [m.ref EXCEPT ![pp] = Dec(@)]
               /\ n.free = IF n.ref[pp] = 0 THEN <<pp>> \o m.free ELSE m.free
               /\ n.ent = m.ent /\ n.dirty = m.dirty /\ n.pgdir = m.pgdir
<1>1. m.ref[pp] \in 0 .. RefMod - 1 /\ <<pp>> \o m.free \in Seq(Page)
  BY TypeFacts, Push
<1>2. Dec(m.ref[pp]) \in 0 .. RefMod - 1
  BY <1>1, RefModAssumption DEF Dec
<1> DEFINE f == [m.ref EXCEPT ![pp] = Dec(m.ref[pp])]
           l == [m EXCEPT !.ref = f]
<1>3. f \in [Page -> 0 .. RefMod - 1]
  BY <1>2, TypeFacts
<1> HIDE DEF f
<1>4. /\ MemType(l, E) /\ l.ref = f
      /\ l.free = m.free /\ l.ent = m.ent /\ l.dirty = m.dirty /\ l.pgdir = m.pgdir
  BY <1>3, SetField
<1>5. page_decref(m, pp) = IF l.ref[pp] = 0 THEN page_free(l, pp) ELSE l
  BY DEF page_decref, f
<1> HIDE DEF l
<1>6. LET n == page_free(l, pp)
      IN  /\ MemType(n, E) /\ n.ref = l.ref /\ n.free = <<pp>> \o m.free
          /\ n.ent = m.ent /\ n.dirty = m.dirty /\ n.pgdir = m.pgdir
  BY <1>1, <1>4 DEF page_free, MemType
<1>7. CASE l.ref[pp] = 0
  BY <1>4, <1>5, <1>6, <1>7 DEF f
<1>8. CASE l.ref[pp] # 0
  BY <1>4, <1>5, <1>8 DEF f
<1> QED
  BY <1>7, <1>8

LEMMA SetEntryFields ==
    ASSUME NEW m, NEW E, MemType(m, E), NEW t \in Page, NEW k \in Idx,
           NEW x \in Entry
    PROVE  LET n == SetEntry(m, t, k, x)
           IN  /\ MemType(n, E) /\ EntrySet(m, n, t, k, x)
               /\ n.ref = m.ref /\ n.free = m.free /\ n.dirty = m.dirty
               /\ \A q \in Page : q # t => n.ent[q] = m.ent[q]
<1>1. m.ent \in [Page -> [Idx -> Entry]]
  BY TypeFacts
<1> DEFINE ent == [m.ent EXCEPT ![t] = [m.ent[t] EXCEPT ![k] = x]]
<1>2. /\ ent \in [Page -> [Idx -> Entry]]
      /\ \A q \in Page, j \in Idx :
            ent[q][j] = IF q = t /\ j = k THEN x ELSE m.ent[q][j]
      /\ \A q \in Page : q # t => ent[q] = m.ent[q]
  BY <1>1
<1>3. SetEntry(m, t, k, x) = [m EXCEPT !.ent = ent]
  BY DEF SetEntry
<1> HIDE DEF ent
<1> QED
  BY <1>2, <1>3, SetField DEF EntrySet

LEMMA Entries ==
    /\ Absent \in Entry
    /\ \A pp \in Page, w \in BOOLEAN : Present(pp, w) \in Entry
BY NPAGESAssumption DEF Absent, Present, Entry, Page

\* Counts see the entries and the directories only.
LEMMA SameCounts ==
    ASSUME NEW m, NEW n, n.ent = m.ent, n.pgdir = m.pgdir
    PROVE  /\ \A q : RefCount(n, q) = RefCount(m, q)
           /\ Dirs(n) = Dirs(m) /\ Tables(n) = Tables(m)
BY DEF RefCount, EntRefs, DirRefs, Dirs, Tables

-----------------------------------------------------------------------------
(* The routines.  d is a directory, and the free list is not empty where a *)
(* page is taken.                                                          *)

\* The table that translates va, when there is one.
LEMMA WalkFinds ==
    ASSUME NEW m, NEW E, MemType(m, E), NEW d \in Dirs(m), NEW va \in VA,
           HasTable(m, d, va)
    PROVE  /\ d \in Page /\ PDX(va) \in UserPdx /\ PTX(va) \in UserPtx
           /\ TableOf(m, d, va) \in Tables(m) /\ TableOf(m, d, va) \in Page
<1>1. InTree(m) /\ PDX(va) \in UserPdx /\ PTX(va) \in UserPtx
  BY TypeInTree DEF VA, PDX, PTX
<1> QED
  BY <1>1 DEF InTree, HasTable, TableOf

\* page_remove of a mapped address clears its entry, and frees the page whose
\* last reference it was.
LEMMA RemoveKeeps ==
    ASSUME NEW m, NEW E, NEW H, MemInv(m, E, H), IsFiniteSet(E),
           NEW d \in Dirs(m), NEW va \in VA, IsMapped(m, d, va),
           NEW n, n = page_remove(m, d, va), NEW t, t = TableOf(m, d, va),
           NEW k, k = PTX(va), NEW pp, pp = PteOf(m, d, va).pp
    PROVE  /\ MemInv(n, E, H)
           /\ EntrySet(m, n, t, k, Absent)
           /\ \A q \in Page : q # t => n.ent[q] = m.ent[q]
           /\ n.dirty = m.dirty
           /\ Dirs(n) = Dirs(m) /\ Tables(n) = Tables(m)
           /\ n.free = m.free \/ n.free = <<pp>> \o m.free
           /\ m.ref[pp] # 0 /\ pp \in Page /\ pp \notin Dirs(m) \cup Tables(m)
<1> DEFINE l == page_decref(m, pp)
<1>1. MemType(m, E) /\ Shape(m)
  BY DEF MemInv
<1>2. t \in Tables(m) /\ t \in Page /\ k \in UserPtx /\ k \in Idx
  BY <1>1, WalkFinds DEF IsMapped, Idx
<1>3. m.ent[t][k].p /\ pp = m.ent[t][k].pp
  BY DEF IsMapped, PteOf
<1>4. pp \in Page /\ pp \notin Dirs(m) /\ pp \notin Tables(m)
  BY <1>1, <1>2, <1>3, TypeFacts, KindsApart
<1>5. m.ref[pp] # 0
  <2>1. RefCount(m, pp) # 0
    BY <1>1, <1>2, <1>3, <1>4, ZeroCount
  <2> QED
    BY <2>1, <1>4 DEF MemInv, Counts
<1>6. n = SetEntry(l, t, k, Absent)
  <2>1. page_lookup(m, d, va) = pp /\ pp # NoPage
    BY <1>4, NPAGESAssumption DEF page_lookup, IsMapped, Page, NoPage
  <2> QED
    BY <2>1 DEF page_remove
<1>7. /\ MemType(l, E) /\ l.ref = [m.ref EXCEPT ![pp] = Dec(@)]
      /\ l.free = IF l.ref[pp] = 0 THEN <<pp>> \o m.free ELSE m.free
      /\ l.ent = m.ent /\ l.dirty = m.dirty /\ l.pgdir = m.pgdir
  BY <1>1, <1>4, DecrefFields
<1> HIDE DEF l
<1>8. /\ MemType(n, E) /\ EntrySet(l, n, t, k, Absent)
      /\ n.ref = l.ref /\ n.free = l.free /\ n.dirty = l.dirty
      /\ \A q \in Page : q # t => n.ent[q] = l.ent[q]
  BY <1>2, <1>6, <1>7, SetEntryFields, Entries
<1>9. EntrySet(m, n, t, k, Absent) /\ n.dirty = m.dirty
  BY <1>7, <1>8 DEF EntrySet
<1>10. Shape(n) /\ Dirs(n) = Dirs(m) /\ Tables(n) = Tables(m)
  BY <1>1, <1>2, <1>8, <1>9, ShapeUnmap
<1>11. \A q \in Page : RefCount(n, q) = RefCount(m, q) - IF q = pp THEN 1 ELSE 0
  BY <1>1, <1>2, <1>3, <1>9, CountUnlink
<1>12. MemInv(n, E, H)
  <2>1. OneLess(m, n, pp)
    BY <1>7, <1>8, <1>11 DEF OneLess
  <2> QED
    BY <1>4, <1>5, <1>8, <1>10, <2>1, DecKeeps
<1> QED
  BY <1>4, <1>5, <1>7, <1>8, <1>9, <1>10, <1>12

\* n is m without the entry k of table t.
Removed(m, n, t, k) ==
    /\ EntrySet(m, n, t, k, Absent)
    /\ \A q \in Page : q # t => n.ent[q] = m.ent[q]
    /\ Dirs(n) = Dirs(m) /\ Tables(n) = Tables(m)

LEMMA RemoveUnmaps ==
    ASSUME NEW m, NEW E, NEW H, MemInv(m, E, H), IsFiniteSet(E),
           NEW d \in Dirs(m), NEW va \in VA, IsMapped(m, d, va)
    PROVE  /\ MemInv(page_remove(m, d, va), E, H)
           /\ Removed(m, page_remove(m, d, va), TableOf(m, d, va), PTX(va))
<1> DEFINE l == page_remove(m, d, va)
           t == TableOf(m, d, va)
           k == PTX(va)
           x == PteOf(m, d, va).pp
<1>1. /\ MemInv(l, E, H) /\ EntrySet(m, l, t, k, Absent)
      /\ \A q \in Page : q # t => l.ent[q] = m.ent[q]
      /\ l.dirty = m.dirty /\ Dirs(l) = Dirs(m) /\ Tables(l) = Tables(m)
      /\ l.free = m.free \/ l.free = <<x>> \o m.free
      /\ x \in Page
  BY RemoveKeeps
<1> HIDE DEF l, t, k
<1>2. Removed(m, l, t, k)
  BY <1>1 DEF Removed
<1> QED
  BY <1>1, <1>2 DEF l, t, k

\* pgdir_walk makes a page of the list the table of a directory entry.
LEMMA WalkKeeps ==
    ASSUME NEW m, NEW E, NEW H, MemInv(m, E, H), IsFiniteSet(E),
           NEW d \in Dirs(m), NEW va \in VA, ~HasTable(m, d, va), m.free # <<>>
    PROVE  LET n == pgdir_walk(m, d, va)
               t == Head(m.free)
           IN  /\ MemInv(n, E, H)
               /\ EntrySet(m, n, d, PDX(va), Present(t, TRUE))
               /\ \A q \in Page : q # d => n.ent[q] = m.ent[q]
               /\ n.dirty \subseteq m.dirty
               /\ n.free = Tail(m.free)
               /\ t \in OnList(m)
               /\ Dirs(n) = Dirs(m) /\ Tables(n) = Tables(m) \cup {t}
<1> DEFINE n == pgdir_walk(m, d, va)
           t == Head(m.free)
           i == PDX(va)
           a == page_alloc(m)
           b == page_incref(a, t)
           w == TRUE
<1>1. MemType(m, E) /\ Shape(m) /\ d \in Page
  BY DirFacts DEF MemInv
<1>2. i \in UserPdx /\ i \in Idx /\ ~m.ent[d][i].p
  BY DEF VA, PDX, Idx, HasTable
<1>3. n = SetEntry(b, d, i, Present(t, w))
  BY DEF pgdir_walk
<1> HIDE DEF n, t, i
<1>0. w \in BOOLEAN
  OBVIOUS
<1> HIDE DEF w
<1>4. /\ MemInv(a, E, H \cup {t}) /\ t \in OnList(m)
      /\ a.ref = m.ref /\ a.ent = m.ent /\ a.pgdir = m.pgdir
      /\ a.free = Tail(m.free) /\ a.dirty = m.dirty \ {t}
  BY AllocKeeps DEF t
<1>5. t \in Page /\ m.ref[t] = 0 /\ Unnamed(m, t) /\ t \notin H /\ t \notin OnList(a)
      /\ RefCount(m, t) = 0
  <2>1. t \in Page /\ m.ref[t] = 0 /\ Unnamed(m, t)
    BY <1>4, FreeFacts
  <2> QED
    BY <1>4, <2>1 DEF MemInv, Listed, Counts
<1> HIDE DEF a
<1>6. /\ MemType(b, E) /\ b.ref = [a.ref EXCEPT ![t] = Inc(@)]
      /\ b.free = a.free /\ b.ent = a.ent /\ b.dirty = a.dirty
      /\ b.pgdir = a.pgdir
  BY <1>4, <1>5, IncrefFields DEF MemInv
<1> HIDE DEF b
<1>7. /\ MemType(n, E) /\ EntrySet(b, n, d, i, Present(t, w))
      /\ n.ref = b.ref /\ n.free = b.free /\ n.dirty = b.dirty
      /\ \A q \in Page : q # d => n.ent[q] = b.ent[q]
  <2>1. Present(t, w) \in Entry
    BY <1>0, <1>5, Entries
  <2> QED
    BY <1>1, <1>2, <1>3, <1>6, <2>1, SetEntryFields
<1>8. /\ EntrySet(m, n, d, i, Present(t, w)) /\ EntrySet(a, n, d, i, Present(t, w))
      /\ n.dirty \subseteq m.dirty \ {t} /\ n.dirty \subseteq m.dirty
  BY <1>4, <1>6, <1>7 DEF EntrySet
<1>9. Shape(n) /\ Dirs(n) = Dirs(m) /\ Tables(n) = Tables(m) \cup {t}
  BY <1>1, <1>2, <1>5, <1>7, <1>8, ShapeGrow
<1>10. \A q \in Page : RefCount(n, q) = RefCount(a, q) + IF q = t THEN 1 ELSE 0
  BY <1>1, <1>2, <1>4, <1>5, <1>8, CountLink DEF MemInv
<1>11. RefCount(n, t) < RefMod
  <2>1. RefCount(a, t) = 0
    BY <1>4, <1>5, SameCounts
  <2> QED
    BY <2>1, <1>5, <1>10, RefModAssumption
<1>12. MemInv(n, E, (H \cup {t}) \ {t})
  <2>1. OneMore(a, n, t)
    BY <1>6, <1>7, <1>10 DEF OneMore
  <2> QED
    BY <1>4, <1>5, <1>7, <1>9, <1>11, <2>1, IncKeeps
<1>13. (H \cup {t}) \ {t} = H
  BY <1>5
<1> QED
  BY <1>4, <1>6, <1>7, <1>8, <1>9, <1>12, <1>13 DEF n, t, i, w

\* The mappings of n are mappings of m.
KeepsEntries(m, n) ==
    \A t \in Tables(n), k \in UserPtx :
        n.ent[t][k].p => t \in Tables(m) /\ n.ent[t][k] = m.ent[t][k]

\* The state between MakeRoom and the new entry: n has a table for va, with a
\* clear entry, which is a table d had or a page that was free; no other page's
\* entries have changed.
RoomMade(m, n, d, pp, va) ==
    /\ HasTable(n, d, va) /\ ~IsMapped(n, d, va)
    /\ pp \notin OnList(n) /\ pp \notin Tables(n)
    /\ n.pgdir = m.pgdir /\ n.dirty \subseteq m.dirty
    /\ Dirs(n) = Dirs(m) /\ KeepsEntries(m, n)
    /\ \A q \in Page : q # d /\ q # TableOf(n, d, va) => n.ent[q] = m.ent[q]
    /\ \/ HasTable(m, d, va) /\ TableOf(n, d, va) = TableOf(m, d, va)
          /\ n.ent[d] = m.ent[d]
       \/ TableOf(n, d, va) \in OnList(m)

LEMMA RoomByRemove ==
    ASSUME NEW m, NEW E, NEW H, MemInv(m, E, H), IsFiniteSet(E),
           NEW d \in Dirs(m), NEW va \in VA, IsMapped(m, d, va),
           NEW pp \in Page \ (OnList(m) \cup Dirs(m) \cup Tables(m))
    PROVE  LET n == MakeRoom(m, d, pp, va)
           IN  /\ RoomMade(m, n, d, pp, va)
               /\ MemInv(n, E, H) \/ MemInv(n, E, H \cup {pp})
<1> DEFINE l == page_remove(m, d, va)
           t == TableOf(m, d, va)
           k == PTX(va)
           x == PteOf(m, d, va).pp
           n == Unlist(l, pp)
<1>1. MakeRoom(m, d, pp, va) = n
  BY DEF MakeRoom, IsMapped
<1>2. MemType(m, E) /\ Shape(m) /\ m.free \in Seq(Page) /\ d \in Page
      /\ PDX(va) \in Idx
  BY TypeFacts, DirFacts DEF MemInv, VA, PDX, Idx
<1>3. t \in Tables(m) /\ t \in Page /\ k \in UserPtx /\ k \in Idx /\ t # d
  BY <1>2, WalkFinds, KindsApart DEF IsMapped, Idx
<1>4. /\ MemInv(l, E, H) /\ EntrySet(m, l, t, k, Absent)
      /\ \A q \in Page : q # t => l.ent[q] = m.ent[q]
      /\ l.dirty = m.dirty /\ Dirs(l) = Dirs(m) /\ Tables(l) = Tables(m)
      /\ l.free = m.free \/ l.free = <<x>> \o m.free
      /\ x \in Page
  BY RemoveKeeps
<1> HIDE DEF l
<1>5. /\ n.ent = l.ent /\ n.pgdir = l.pgdir /\ n.dirty \subseteq l.dirty
      /\ pp \notin OnList(n)
      /\ MemInv(n, E, H) \/ MemInv(n, E, H \cup {pp})
  <2>1. CASE l.free # <<>> /\ Head(l.free) = pp
    <3>1. n = page_alloc_raw(l)
      BY <2>1 DEF Unlist, page_alloc_raw
    <3>2. /\ MemInv(page_alloc_raw(l), E, H \cup {Head(l.free)})
          /\ page_alloc_raw(l).ent = l.ent /\ page_alloc_raw(l).pgdir = l.pgdir
          /\ page_alloc_raw(l).dirty \subseteq l.dirty
      BY <1>4, <2>1, AllocKeeps
    <3> QED
      BY <2>1, <3>1, <3>2 DEF MemInv, Listed
  <2>2. CASE ~(l.free # <<>> /\ Head(l.free) = pp)
    <3>1. n = l
      BY <2>2 DEF Unlist
    <3>2. pp \notin OnList(l)
      <4>1. CASE l.free = m.free
        BY <4>1 DEF OnList
      <4>2. CASE l.free = <<x>> \o m.free
        <5>1. l.free # <<>> /\ Head(l.free) = x /\ OnList(l) = {x} \cup OnList(m)
          BY <1>2, <1>4, <4>2, Push DEF OnList
        <5> QED
          BY <2>2, <5>1
      <4> QED
        BY <1>4, <4>1, <4>2
    <3> QED
      BY <1>4, <3>1, <3>2
  <2> QED
    BY <2>1, <2>2
<1> HIDE DEF n
<1>6. Dirs(n) = Dirs(m) /\ Tables(n) = Tables(m)
  BY <1>4, <1>5, SameCounts
<1>7. n.ent[d] = m.ent[d] /\ HasTable(n, d, va) /\ TableOf(n, d, va) = t
  BY <1>2, <1>3, <1>4, <1>5 DEF HasTable, TableOf, IsMapped
<1>8. ~IsMapped(n, d, va)
  BY <1>3, <1>4, <1>5, <1>7 DEF IsMapped, PteOf, EntrySet, Absent
<1>9. KeepsEntries(m, n)
  <2>1. Tables(m) \subseteq Page /\ UserPtx \subseteq Idx
    BY <1>2, TableFacts DEF Idx
  <2> QED
    BY <1>4, <1>5, <1>6, <2>1 DEF KeepsEntries, EntrySet, Absent
<1>10. RoomMade(m, n, d, pp, va)
  BY <1>4, <1>5, <1>6, <1>7, <1>8, <1>9 DEF RoomMade, IsMapped, EntrySet
<1> QED
  BY <1>1, <1>5, <1>10

LEMMA RoomByWalk ==
    ASSUME NEW m, NEW E, NEW H, MemInv(m, E, H), IsFiniteSet(E),
           NEW d \in Dirs(m), NEW va \in VA, ~HasTable(m, d, va), m.free # <<>>,
           NEW pp \in Page \ (OnList(m) \cup Dirs(m) \cup Tables(m))
    PROVE  LET n == MakeRoom(m, d, pp, va)
           IN  RoomMade(m, n, d, pp, va) /\ MemInv(n, E, H)
<1> DEFINE n == pgdir_walk(m, d, va)
           t == Head(m.free)
           i == PDX(va)
<1>1. MakeRoom(m, d, pp, va) = n
  BY DEF MakeRoom
<1>2. /\ MemType(m, E) /\ Shape(m) /\ d \in Page
      /\ i \in UserPdx /\ i \in Idx /\ PTX(va) \in Idx
  BY DirFacts DEF MemInv, VA, PDX, PTX, Idx
<1>3. /\ MemInv(n, E, H) /\ EntrySet(m, n, d, i, Present(t, TRUE))
      /\ \A q \in Page : q # d => n.ent[q] = m.ent[q]
      /\ n.dirty \subseteq m.dirty /\ n.free = Tail(m.free)
      /\ t \in OnList(m)
      /\ Dirs(n) = Dirs(m) /\ Tables(n) = Tables(m) \cup {t}
  BY ZenonT(60), WalkKeeps
<1> HIDE DEF n
<1>4. t \in Page /\ t # d /\ m.ent[t] = ZeroedPage /\ t \notin Tables(m)
  BY <1>3, FreeFacts DEF Unnamed
<1>5. HasTable(n, d, va) /\ TableOf(n, d, va) = t
  BY <1>2, <1>3 DEF HasTable, TableOf, EntrySet, Present
<1>6. n.ent[t] = ZeroedPage
  BY <1>3, <1>4
<1>7. ~IsMapped(n, d, va)
  BY <1>2, <1>5, <1>6 DEF IsMapped, PteOf, ZeroedPage, Absent
<1>8. pp \notin OnList(n) /\ pp \notin Tables(n)
  <2>1. OnList(n) \subseteq OnList(m)
    BY <1>3, Pop, TypeFacts DEF OnList, MemInv, Listed
  <2> QED
    BY <1>3, <2>1
<1>9. KeepsEntries(m, n)
  <2>1. Tables(m) \subseteq Page /\ UserPtx \subseteq Idx /\ d \notin Tables(m)
    BY <1>2, TableFacts, KindsApart DEF Idx
  <2> QED
    BY <1>3, <1>4, <1>6, <2>1 DEF KeepsEntries, ZeroedPage, Absent
<1>10. RoomMade(m, n, d, pp, va)
  BY <1>3, <1>5, <1>7, <1>8, <1>9 DEF RoomMade, EntrySet
<1> QED
  BY <1>1, <1>3, <1>10

LEMMA RoomKeeps ==
    ASSUME NEW m, NEW E, NEW H, MemInv(m, E, H), IsFiniteSet(E),
           NEW d \in Dirs(m), NEW va \in VA, ~InsertFails(m, d, va),
           NEW pp \in Page \ (OnList(m) \cup Dirs(m) \cup Tables(m))
    PROVE  LET n == MakeRoom(m, d, pp, va)
           IN  /\ RoomMade(m, n, d, pp, va)
               /\ MemInv(n, E, H) \/ MemInv(n, E, H \cup {pp})
<1>1. CASE IsMapped(m, d, va)
  BY <1>1, RoomByRemove
<1>2. CASE ~HasTable(m, d, va)
  BY <1>2, RoomByWalk DEF InsertFails
<1>3. CASE HasTable(m, d, va) /\ ~IsMapped(m, d, va)
  <2>1. m.free = <<>> \/ Head(m.free) # pp
    BY Pop, TypeFacts DEF MemInv, Listed, OnList
  <2>2. MakeRoom(m, d, pp, va) = m
    BY <1>3, <2>1 DEF MakeRoom, Unlist
  <2>3. RoomMade(m, m, d, pp, va)
    BY <1>3 DEF RoomMade, KeepsEntries
  <2> QED
    BY <2>2, <2>3
<1> QED
  BY <1>1, <1>2, <1>3 DEF IsMapped

\* No directory but d, nor a table of another directory, is touched.
Apart(m, n, d) ==
    \A c \in Dirs(m) \ {d} :
        /\ n.ent[c] = m.ent[c]
        /\ \A i \in UserPdx : m.ent[c][i].p
              => n.ent[m.ent[c][i].pp] = m.ent[m.ent[c][i].pp]

\* Changes in d and in one page that is a table of d or nobody's are such.
LEMMA ApartFrom ==
    ASSUME NEW m, NEW n, NEW E, MemType(m, E), Shape(m), NEW d \in Dirs(m), NEW t,
           \A q \in Page : q # d /\ q # t => n.ent[q] = m.ent[q],
           \/ Unnamed(m, t)
           \/ \E i \in UserPdx : m.ent[d][i].p /\ m.ent[d][i].pp = t
    PROVE  Apart(m, n, d)
<1>1. InTree(m) /\ UserPdx \subseteq Idx
  BY TypeInTree DEF Idx
<1> SUFFICES ASSUME NEW c \in Dirs(m) \ {d}
             PROVE  /\ n.ent[c] = m.ent[c]
                    /\ \A i \in UserPdx : m.ent[c][i].p
                          => n.ent[m.ent[c][i].pp] = m.ent[m.ent[c][i].pp]
  BY DEF Apart
<1>2. c \in Page /\ d \in Page /\ c # t
  BY <1>1, KindsApart DEF InTree, Unnamed
<1>3. n.ent[c] = m.ent[c]
  BY <1>2
<1>4. ASSUME NEW i \in UserPdx, m.ent[c][i].p
      PROVE  n.ent[m.ent[c][i].pp] = m.ent[m.ent[c][i].pp]
  <2>1. m.ent[c][i].pp \in Tables(m) /\ m.ent[c][i].pp \in Page
    BY <1>1, <1>4 DEF InTree
  <2>2. m.ent[c][i].pp # d
    BY <2>1, KindsApart
  <2>3. m.ent[c][i].pp # t
    BY <1>1, <1>2, <1>4, <2>1 DEF Unnamed, Shape, OneEntry
  <2> QED
    BY <2>1, <2>2, <2>3
<1> QED
  BY <1>3, <1>4

\* What page_insert does to the mappings: one is added at most, in d.
Inserted(m, o, d, pp, w) ==
    /\ o.dirty \subseteq m.dirty /\ Dirs(o) = Dirs(m) /\ o.pgdir = m.pgdir
    /\ \A t \in Tables(o), k \in UserPtx : o.ent[t][k].p =>
          \/ t \in Tables(m) /\ o.ent[t][k] = m.ent[t][k]
          \/ o.ent[t][k] = Present(pp, w)
    /\ Apart(m, o, d)

\* page_insert maps pp at va, and takes it out of hand.
LEMMA InsertKeeps ==
    ASSUME NEW m, NEW E, NEW H, MemInv(m, E, H), IsFiniteSet(E),
           NEW d \in Dirs(m), NEW va \in VA, ~InsertFails(m, d, va),
           NEW pp \in Page \ (OnList(m) \cup Dirs(m) \cup Tables(m)),
           NEW w \in BOOLEAN, NEW o, o = page_insert(m, d, pp, va, w),
           RefCount(o, pp) < RefMod
    PROVE  MemInv(o, E, H \ {pp}) /\ Inserted(m, o, d, pp, w)
<1> DEFINE n == MakeRoom(m, d, pp, va)
           t == TableOf(n, d, va)
           k == PTX(va)
           l == SetEntry(n, t, k, Present(pp, w))
<1>1. RoomMade(m, n, d, pp, va) /\ (MemInv(n, E, H) \/ MemInv(n, E, H \cup {pp}))
  BY RoomKeeps
<1>2. o = page_incref(l, pp)
  BY DEF page_insert
<1> HIDE DEF n
<1>3. PICK K : MemInv(n, E, K) /\ K \ {pp} = H \ {pp}
  <2>1. (H \cup {pp}) \ {pp} = H \ {pp}
    OBVIOUS
  <2> QED
    BY <1>1, <2>1
<1>4. MemType(n, E) /\ Shape(n) /\ d \in Dirs(n) /\ HasTable(n, d, va)
      /\ MemType(m, E) /\ Shape(m) /\ d \in Page
  BY <1>1, <1>3, DirFacts DEF MemInv, RoomMade
<1>5. t \in Tables(n) /\ t \in Page /\ k \in UserPtx /\ k \in Idx /\ t # d
  BY <1>4, WalkFinds, KindsApart DEF Idx
<1>6. ~n.ent[t][k].p
  BY <1>1 DEF RoomMade, IsMapped, PteOf
<1>7. Present(pp, w) \in Entry
  BY Entries
<1> HIDE DEF t, k
<1>8. /\ MemType(l, E) /\ EntrySet(n, l, t, k, Present(pp, w))
      /\ l.ref = n.ref /\ l.free = n.free /\ l.dirty = n.dirty
      /\ \A q \in Page : q # t => l.ent[q] = n.ent[q]
  BY <1>4, <1>5, <1>7, SetEntryFields
<1> HIDE DEF l
<1>9. /\ MemType(o, E) /\ o.ref = [l.ref EXCEPT ![pp] = Inc(@)]
      /\ o.free = l.free /\ o.ent = l.ent /\ o.dirty = l.dirty
      /\ o.pgdir = l.pgdir
  BY <1>2, <1>8, IncrefFields
<1>10. EntrySet(n, o, t, k, Present(pp, w)) /\ o.dirty \subseteq n.dirty
  BY <1>8, <1>9 DEF EntrySet
<1>11. pp \in Page \ (Dirs(n) \cup Tables(n)) /\ pp \in Page \ OnList(n)
  BY <1>1 DEF RoomMade
<1>12. Shape(o) /\ Dirs(o) = Dirs(n) /\ Tables(o) = Tables(n)
  BY <1>4, <1>5, <1>6, <1>9, <1>10, <1>11, ShapeMap
<1>13. OneMore(n, o, pp)
  <2>1. \A q \in Page : RefCount(o, q) = RefCount(n, q) + IF q = pp THEN 1 ELSE 0
    BY <1>4, <1>5, <1>6, <1>10, CountLink
  <2> QED
    BY <1>8, <1>9, <2>1 DEF OneMore
<1>14. MemInv(o, E, H \ {pp})
  BY <1>3, <1>9, <1>11, <1>12, <1>13, IncKeeps
<1>15. ASSUME NEW u \in Tables(o), NEW j \in UserPtx, o.ent[u][j].p
       PROVE  \/ u \in Tables(m) /\ o.ent[u][j] = m.ent[u][j]
              \/ o.ent[u][j] = Present(pp, w)
  <2>1. u \in Page /\ j \in Idx
    BY <1>9, TableFacts DEF Idx
  <2>2. o.ent[u][j] = n.ent[u][j] \/ o.ent[u][j] = Present(pp, w)
    BY <1>10, <2>1 DEF EntrySet
  <2> QED
    BY <1>1, <1>12, <1>15, <2>2 DEF RoomMade, KeepsEntries
<1>16. Apart(m, o, d)
  <2>1. \A q \in Page : q # d /\ q # t => o.ent[q] = m.ent[q]
    BY <1>1, <1>8, <1>9 DEF RoomMade, t
  <2>2. \/ Unnamed(m, t)
        \/ \E i \in UserPdx : m.ent[d][i].p /\ m.ent[d][i].pp = t
    <3>1. CASE t \in OnList(m)
      BY <3>1, FreeFacts
    <3>2. CASE HasTable(m, d, va) /\ t = TableOf(m, d, va)
      BY <3>2 DEF HasTable, TableOf, VA, PDX
    <3> QED
      BY <1>1, <3>1, <3>2 DEF RoomMade, t
  <2> QED
    BY <1>4, <2>1, <2>2, ApartFrom
<1>17. o.pgdir = m.pgdir
  BY <1>1, <1>10 DEF RoomMade, EntrySet
<1> QED
  BY <1>1, <1>10, <1>12, <1>14, <1>15, <1>16, <1>17 DEF RoomMade, Inserted

\* env_setup_vm makes a page of the list the directory of a slot without one.
LEMMA SetupKeeps ==
    ASSUME NEW m, NEW E, NEW H, MemInv(m, E, H), IsFiniteSet(E), m.free # <<>>,
           NEW e \in E, m.pgdir[e] = NoPage, NEW n, n = env_setup_vm(m, e),
           NEW d, d = Head(m.free)
    PROVE  /\ MemInv(n, E, H)
           /\ n.ent = m.ent /\ n.dirty \subseteq m.dirty
           /\ n.pgdir = [m.pgdir EXCEPT ![e] = d]
           /\ Dirs(n) = Dirs(m) \cup {d} /\ Tables(n) = Tables(m) /\ d \in Page
<1> DEFINE a == page_alloc(m)
           b == page_incref(a, d)
<1>1. MemType(m, E) /\ Shape(m)
  BY DEF MemInv
<1>2. /\ MemInv(a, E, H \cup {d}) /\ d \in OnList(m)
      /\ a.ref = m.ref /\ a.ent = m.ent /\ a.pgdir = m.pgdir
      /\ a.free = Tail(m.free) /\ a.dirty = m.dirty \ {d}
  BY AllocKeeps
<1>3. n = [b EXCEPT !.pgdir[e] = d]
  BY DEF env_setup_vm
<1>4. d \in Page /\ m.ref[d] = 0 /\ Unnamed(m, d) /\ d \notin H /\ d \notin OnList(a)
      /\ RefCount(m, d) = 0
  <2>1. d \in Page /\ m.ref[d] = 0 /\ Unnamed(m, d)
    BY <1>2, FreeFacts
  <2> QED
    BY <1>2, <2>1 DEF MemInv, Listed, Counts
<1> HIDE DEF a
<1>5. /\ MemType(b, E) /\ b.ref = [a.ref EXCEPT ![d] = Inc(@)]
      /\ b.free = a.free /\ b.ent = a.ent /\ b.dirty = a.dirty
      /\ b.pgdir = a.pgdir
  BY <1>2, <1>4, IncrefFields DEF MemInv
<1> HIDE DEF b
<1>6. /\ MemType(n, E) /\ n.ref = b.ref /\ n.free = b.free /\ n.ent = b.ent
      /\ n.dirty = b.dirty /\ n.pgdir = [b.pgdir EXCEPT ![e] = d]
  <2> DEFINE f == [b.pgdir EXCEPT ![e] = d]
  <2>1. f \in [E -> Page \cup {NoPage}]
    BY <1>4, <1>5, TypeFacts
  <2>2. n = [b EXCEPT !.pgdir = f]
    BY <1>3
  <2> HIDE DEF f
  <2>3. /\ MemType(n, E) /\ n.ref = b.ref /\ n.free = b.free /\ n.ent = b.ent
        /\ n.dirty = b.dirty /\ n.pgdir = f
    BY <1>5, <2>1, <2>2 DEF MemType
  <2> QED
    BY <2>3 DEF f
<1>7. /\ DirSet(m, n, e, d) /\ DirSet(a, n, e, d) /\ a.pgdir[e] = NoPage
      /\ n.dirty \subseteq m.dirty \ {d} /\ n.dirty \subseteq m.dirty
  BY <1>2, <1>5, <1>6 DEF DirSet
<1>8. Shape(n) /\ Dirs(n) = Dirs(m) \cup {d} /\ Tables(n) = Tables(m)
  BY <1>1, <1>4, <1>6, <1>7, ShapeSetup
<1>9. \A q \in Page : RefCount(n, q) = RefCount(a, q) + IF q = d THEN 1 ELSE 0
  BY <1>2, <1>4, <1>7, CountSetup DEF MemInv
<1>10. RefCount(n, d) < RefMod
  <2>1. RefCount(a, d) = 0
    BY <1>2, <1>4, SameCounts
  <2> QED
    BY <2>1, <1>4, <1>9, RefModAssumption
<1>11. MemInv(n, E, (H \cup {d}) \ {d})
  <2>1. OneMore(a, n, d)
    BY <1>5, <1>6, <1>9 DEF OneMore
  <2> QED
    BY <1>2, <1>4, <1>6, <1>8, <1>10, <2>1, IncKeeps
<1>12. (H \cup {d}) \ {d} = H
  BY <1>4
<1> QED
  BY <1>4, <1>7, <1>8, <1>11, <1>12 DEF DirSet

\* env_free gives back a table that is empty, with the entry that names it.
LEMMA FreeTableKeeps ==
    ASSUME NEW m, NEW E, NEW H, MemInv(m, E, H), IsFiniteSet(E),
           NEW d \in Dirs(m), NEW i \in UserPdx, m.ent[d][i].p,
           NEW t, t = m.ent[d][i].pp, PresentPtx(m, t) = {},
           NEW n, n = env_free_table(m, d, i)
    PROVE  /\ MemInv(n, E, H) /\ EntrySet(m, n, d, i, Absent)
           /\ \A q \in Page : q # d => n.ent[q] = m.ent[q]
           /\ n.dirty = m.dirty
           /\ Dirs(n) = Dirs(m) /\ Tables(n) = Tables(m) \ {t}
<1> DEFINE l == SetEntry(m, d, i, Absent)
<1>1. MemType(m, E) /\ Shape(m) /\ d \in Page /\ i \in Idx
  BY DirFacts DEF MemInv, Idx
<1>2. t \in Page /\ \A k \in UserPtx : ~m.ent[t][k].p
  BY <1>1, TypeFacts DEF PresentPtx
<1>3. m.ref[t] # 0
  <2>1. RefCount(m, t) # 0
    BY <1>1, <1>2, ZeroCount
  <2> QED
    BY <1>2, <2>1 DEF MemInv, Counts
<1>4. n = page_decref(l, t)
  BY DEF env_free_table
<1>5. /\ MemType(l, E) /\ EntrySet(m, l, d, i, Absent)
      /\ l.ref = m.ref /\ l.free = m.free /\ l.dirty = m.dirty
      /\ \A q \in Page : q # d => l.ent[q] = m.ent[q]
  BY <1>1, SetEntryFields, Entries, SMTT(40)
<1> HIDE DEF l
<1>6. /\ MemType(n, E) /\ n.ref = [l.ref EXCEPT ![t] = Dec(@)]
      /\ n.free = IF n.ref[t] = 0 THEN <<t>> \o l.free ELSE l.free
      /\ n.ent = l.ent /\ n.dirty = l.dirty /\ n.pgdir = l.pgdir
  BY <1>2, <1>4, <1>5, DecrefFields
<1>7. EntrySet(m, n, d, i, Absent) /\ n.dirty = m.dirty /\ n.dirty \subseteq m.dirty
  BY <1>5, <1>6 DEF EntrySet
<1>8. Shape(n) /\ Dirs(n) = Dirs(m) /\ Tables(n) = Tables(m) \ {t}
  <2>1. MemType(n, E) /\ \A k \in UserPtx : ~m.ent[m.ent[d][i].pp][k].p
    BY <1>2, <1>6
  <2>2. Shape(n) /\ Dirs(n) = Dirs(m) /\ Tables(n) = Tables(m) \ {m.ent[d][i].pp}
    BY <1>1, <1>7, <2>1, ShapePrune
  <2> QED
    BY SMTT(40), <2>2
<1>9. OneLess(m, n, t)
  <2>1. \A q \in Page : RefCount(n, q) = RefCount(m, q)
                                         - IF q = m.ent[d][i].pp THEN 1 ELSE 0
    BY SMTT(40), <1>1, <1>7, CountUnlink
  <2> QED
    BY <1>5, <1>6, <2>1 DEF OneLess
<1>10. MemInv(n, E, H)
  BY <1>2, <1>3, <1>6, <1>8, <1>9, DecKeeps
<1> QED
  BY <1>5, <1>6, <1>7, <1>8, <1>10

\* env_free gives back the directory, empty by then.
LEMMA FreePgdirKeeps ==
    ASSUME NEW m, NEW E, NEW H, MemInv(m, E, H), IsFiniteSet(E),
           NEW e \in E, NEW d, d = m.pgdir[e], d # NoPage, PresentPdx(m, d) = {},
           NEW n, n = env_free_pgdir(m, e)
    PROVE  /\ MemInv(n, E, H)
           /\ n.ent = m.ent /\ n.dirty = m.dirty
           /\ n.pgdir = [m.pgdir EXCEPT ![e] = NoPage]
           /\ Dirs(n) = Dirs(m) \ {d} /\ Tables(n) = Tables(m)
<1> DEFINE l == [m EXCEPT !.pgdir[e] = NoPage]
<1>1. MemType(m, E) /\ Shape(m) /\ d \in Dirs(m) /\ d \in Page
  BY DirFacts DEF MemInv
<1>2. m.ref[d] # 0
  <2>1. RefCount(m, d) # 0
    BY <1>1, ZeroCount
  <2> QED
    BY <1>1, <2>1 DEF MemInv, Counts
<1>3. n = page_decref(l, d)
  BY DEF env_free_pgdir
<1>4. /\ MemType(l, E) /\ l.ref = m.ref /\ l.free = m.free /\ l.dirty = m.dirty
      /\ l.ent = m.ent /\ l.pgdir = [m.pgdir EXCEPT ![e] = NoPage]
  BY <1>1 DEF MemType
<1> HIDE DEF l
<1>5. /\ MemType(n, E) /\ n.ref = [l.ref EXCEPT ![d] = Dec(@)]
      /\ n.free = IF n.ref[d] = 0 THEN <<d>> \o l.free ELSE l.free
      /\ n.ent = l.ent /\ n.dirty = l.dirty /\ n.pgdir = l.pgdir
  BY <1>1, <1>3, <1>4, DecrefFields
<1>6. /\ DirSet(m, n, e, NoPage) /\ n.dirty = m.dirty /\ n.dirty \subseteq m.dirty
  BY <1>4, <1>5 DEF DirSet
<1>7. Shape(n) /\ Dirs(n) = Dirs(m) \ {d} /\ Tables(n) = Tables(m)
  BY <1>1, <1>5, <1>6, ShapeTeardown
<1>8. OneLess(m, n, d)
  <2>1. \A q \in Page : RefCount(n, q) = RefCount(m, q) - IF q = d THEN 1 ELSE 0
    BY <1>1, <1>6, CountTeardown
  <2> QED
    BY <1>4, <1>5, <2>1 DEF OneLess
<1>9. MemInv(n, E, H)
  BY <1>1, <1>2, <1>5, <1>7, <1>8, DecKeeps
<1> QED
  BY <1>6, <1>7, <1>9 DEF DirSet

\* Bytes written to pages that are mapped.
LEMMA DirtyKeeps ==
    ASSUME NEW m, NEW E, NEW H, MemInv(m, E, H), NEW D \in SUBSET Page,
           D \cap (Dirs(m) \cup Tables(m)) = {}
    PROVE  MemInv([m EXCEPT !.dirty = @ \cup D], E, H)
<1> DEFINE n == [m EXCEPT !.dirty = @ \cup D]
<1>1. /\ MemType(n, E) /\ n.ref = m.ref /\ n.free = m.free /\ n.ent = m.ent
      /\ n.pgdir = m.pgdir /\ n.dirty = m.dirty \cup D
  BY DEF MemInv, MemType
<1> HIDE DEF n
<1>2. (\A q : RefCount(n, q) = RefCount(m, q)) /\ Dirs(n) = Dirs(m)
      /\ Tables(n) = Tables(m)
  BY <1>1, SameCounts
<1>3. Shape(n)
  BY <1>1, <1>2 DEF MemInv, Shape, Clear, OwnDir, Placed, OneEntry, Unwritten
<1>4. Counts(n) /\ Listed(n, H)
  BY <1>1, <1>2 DEF MemInv, Counts, Listed, OnList
<1> QED
  BY <1>1, <1>3, <1>4 DEF MemInv, n

\* page_init: every page but the first is listed, once.
LEMMA InitKeeps ==
    ASSUME NEW E, IsFiniteSet(E)
    PROVE  MemInv(page_init(E), E, {})
<1> DEFINE m == page_init(E)
<1>1. /\ m.ref = [q \in Page |-> IF q = 0 THEN 1 ELSE 0]
      /\ m.free = [i \in 1 .. NPAGES - 1 |-> NPAGES - i]
      /\ m.ent = [q \in Page |-> ZeroedPage]
      /\ m.dirty = {} /\ m.pgdir = [e \in E |-> NoPage]
  BY DEF page_init
<1>2. m.free \in Seq(Page)
  BY <1>1, NPAGESAssumption DEF Page
<1>3. MemType(m, E)
  <2>1. m.ref \in [Page -> 0 .. RefMod - 1]
    BY <1>1, RefModAssumption
  <2>2. m.ent \in [Page -> [Idx -> Entry]]
    BY <1>1, Entries DEF ZeroedPage
  <2>3. m.pgdir \in [E -> Page \cup {NoPage}]
    BY <1>1
  <2> HIDE DEF Page, Idx, Entry
  <2> QED
    BY <1>1, <1>2, <2>1, <2>2, <2>3 DEF MemType, page_init
<1> HIDE DEF m
<1>4. Dirs(m) = {} /\ \A q \in Page, k \in Idx : m.ent[q][k] = Absent
  BY <1>1 DEF Dirs, ZeroedPage
<1>5. Tables(m) = {}
  BY <1>4 DEF Tables
<1>6. Shape(m)
  BY <1>1, <1>4, <1>5 DEF Shape, Clear, OwnDir, Placed, OneEntry, Unwritten, Absent
<1>7. Counts(m)
  <2>1. \A q \in Page : EntRefs(m, q) = {} /\ DirRefs(m, q) = {}
    BY <1>1, <1>4, NPAGESAssumption, SMTT(40) DEF EntRefs, DirRefs, Absent, Page, NoPage
  <2>2. Cardinality({}) = 0
    BY FS_EmptySet
  <2>3. \A q \in Page : RefCount(m, q) = IF q = 0 THEN 1 ELSE 0
    BY <2>1, <2>2 DEF RefCount
  <2> QED
    BY <1>1, <2>3 DEF Counts
<1>8. Listed(m, {})
  <2>1. DOMAIN m.free = 1 .. NPAGES - 1 /\ \A i \in 1 .. NPAGES - 1 : m.free[i] = NPAGES - i
    BY <1>1
  <2>2. IsInjective(m.free)
    BY <2>1, NPAGESAssumption DEF IsInjective
  <2>3. \A q \in Page : q # 0 => NPAGES - q \in 1 .. NPAGES - 1 /\ q = NPAGES - (NPAGES - q)
    BY NPAGESAssumption DEF Page
  <2>4. \A q \in Page : q \in OnList(m) <=> q # 0
    <3>1. \A q \in Page : q # 0 => q \in OnList(m)
      BY <2>1, <2>3 DEF OnList, Range
    <3>2. 0 \notin OnList(m)
      BY <2>1, NPAGESAssumption DEF OnList, Range
    <3> QED
      BY <3>1, <3>2
  <2>5. \A q \in Page : m.ref[q] = 0 <=> q # 0
    BY <1>1
  <2> QED
    BY <2>2, <2>4, <2>5 DEF Listed
<1> QED
  BY <1>3, <1>6, <1>7, <1>8 DEF MemInv, m

\* n is m with its first free page in hand.
InHand(m, n, pp) ==
    /\ n.ent = m.ent /\ n.pgdir = m.pgdir /\ n.ref = m.ref /\ n.free = Tail(m.free)
    /\ pp \in OnList(m)
    /\ pp \in Page \ (OnList(n) \cup Dirs(m) \cup Tables(m))
    /\ n.dirty \subseteq m.dirty
    /\ n = page_alloc(m) => pp \notin n.dirty

LEMMA TakeHead ==
    ASSUME NEW m, NEW E, MemInv(m, E, {}), IsFiniteSet(E), m.free # <<>>,
           NEW n \in {page_alloc_raw(m), page_alloc(m)}, NEW pp, pp = Head(m.free)
    PROVE  MemInv(n, E, {pp}) /\ InHand(m, n, pp)
<1> DEFINE H == {}
<1>1. MemInv(m, E, H)
  OBVIOUS
<1> HIDE DEF H
<1>2. /\ MemInv(n, E, H \cup {pp}) /\ pp \in OnList(m)
      /\ n.ref = m.ref /\ n.ent = m.ent /\ n.pgdir = m.pgdir
      /\ n.free = Tail(m.free) /\ n.dirty \subseteq m.dirty
      /\ n = page_alloc(m) => n.dirty = m.dirty \ {pp}
  <2>1. CASE n = page_alloc_raw(m)
    <3> DEFINE a == page_alloc_raw(m)
    <3>1. /\ MemInv(a, E, H \cup {pp}) /\ pp \in OnList(m)
          /\ a.ref = m.ref /\ a.ent = m.ent /\ a.pgdir = m.pgdir
          /\ a.free = Tail(m.free) /\ a.dirty \subseteq m.dirty
          /\ a = page_alloc(m) => a.dirty = m.dirty \ {pp}
      BY <1>1, AllocKeeps
    <3> QED
      BY <2>1, <3>1
  <2>2. CASE n = page_alloc(m)
    <3> DEFINE a == page_alloc(m)
    <3>1. /\ MemInv(a, E, H \cup {pp}) /\ pp \in OnList(m)
          /\ a.ref = m.ref /\ a.ent = m.ent /\ a.pgdir = m.pgdir
          /\ a.free = Tail(m.free) /\ a.dirty \subseteq m.dirty
          /\ a.dirty = m.dirty \ {pp}
      BY <1>1, AllocKeeps
    <3> QED
      BY <2>2, <3>1
  <2> QED
    BY <2>1, <2>2
<1>3. H \cup {pp} = {pp}
  BY DEF H
<1>4. MemInv(n, E, {pp})
  BY <1>2, <1>3
<1>5. pp \notin OnList(n)
  BY <1>4 DEF MemInv, Listed
<1>6. pp \in Page /\ Unnamed(m, pp) /\ pp \notin Tables(m)
  BY <1>1, <1>2, FreeFacts
<1> QED
  BY <1>2, <1>4, <1>5, <1>6 DEF Unnamed, InHand

-----------------------------------------------------------------------------
(* Types alone, which the routines keep whatever they are called with.     *)

\* n is a memory with m's directories.
TypeKept(m, n, E) == MemType(n, E) /\ n.pgdir = m.pgdir

LEMMA TypeAlloc ==
    ASSUME NEW m, NEW E, MemType(m, E), m.free # <<>>
    PROVE  /\ Head(m.free) \in Page
           /\ TypeKept(m, page_alloc_raw(m), E) /\ TypeKept(m, page_alloc(m), E)
<1> DEFINE pp == Head(m.free)
           r == page_alloc_raw(m)
<1>1. pp \in Page /\ Tail(m.free) \in Seq(Page)
  BY TypeFacts
<1>2. MemType(r, E) /\ r.pgdir = m.pgdir
  BY <1>1 DEF page_alloc_raw, MemType
<1>3. ZeroedPage \in [Idx -> Entry]
  BY Entries DEF ZeroedPage
<1> DEFINE f == [r.ent EXCEPT ![pp] = ZeroedPage]
<1>4. f \in [Page -> [Idx -> Entry]]
  BY <1>1, <1>2, <1>3, TypeFacts
<1>5. page_alloc(m) = [r EXCEPT !.ent = f, !.dirty = @ \ {pp}]
  BY DEF page_alloc
<1> HIDE DEF pp, r, f
<1>6. MemType(page_alloc(m), E) /\ page_alloc(m).pgdir = m.pgdir
  BY <1>2, <1>4, <1>5 DEF MemType
<1> QED
  BY <1>1, <1>2, <1>6 DEF pp, r, TypeKept

LEMMA TypeFree ==
    ASSUME NEW m, NEW E, MemType(m, E), NEW pp \in Page
    PROVE  TypeKept(m, page_free(m, pp), E)
<1>1. <<pp>> \o m.free \in Seq(Page)
  BY TypeFacts, Push
<1> QED
  BY <1>1 DEF page_free, MemType, TypeKept

LEMMA TypeRemove ==
    ASSUME NEW m, NEW E, MemType(m, E), NEW d \in Page, NEW va \in VA
    PROVE  TypeKept(m, page_remove(m, d, va), E)
<1> DEFINE t == TableOf(m, d, va)
           pp == page_lookup(m, d, va)
<1>1. PDX(va) \in Idx /\ PTX(va) \in Idx
  BY DEF VA, PDX, PTX, Idx
<1>2. t \in Page
  BY <1>1, TypeFacts DEF TableOf
<1>3. CASE pp = NoPage
  BY <1>3 DEF page_remove, TypeKept
<1>4. CASE pp # NoPage
  <2>1. pp \in Page
    BY <1>1, <1>2, <1>4, TypeFacts DEF page_lookup, PteOf
  <2> DEFINE l == page_decref(m, pp)
             n == SetEntry(l, t, PTX(va), Absent)
  <2>2. MemType(l, E) /\ l.pgdir = m.pgdir
    BY <2>1, DecrefFields
  <2>3. page_remove(m, d, va) = n
    BY <1>4 DEF page_remove
  <2> HIDE DEF l
  <2>4. MemType(n, E) /\ n.pgdir = l.pgdir
    BY <1>1, <1>2, <2>2, SetEntryFields, Entries DEF EntrySet
  <2> QED
    BY <2>2, <2>3, <2>4 DEF TypeKept
<1> QED
  BY <1>3, <1>4

LEMMA TypeInsert ==
    ASSUME NEW m, NEW E, MemType(m, E), NEW d \in Page, NEW va \in VA,
           ~InsertFails(m, d, va), NEW pp \in Page, NEW w \in BOOLEAN
    PROVE  TypeKept(m, page_insert(m, d, pp, va, w), E)
<1> DEFINE n == MakeRoom(m, d, pp, va)
           t == TableOf(n, d, va)
           l == SetEntry(n, t, PTX(va), Present(pp, w))
<1>1. PDX(va) \in Idx /\ PTX(va) \in Idx
  BY DEF VA, PDX, PTX, Idx
<1>2. MemType(n, E) /\ n.pgdir = m.pgdir
  <2>1. CASE HasTable(m, d, va)
    <3> DEFINE k == IF IsMapped(m, d, va) THEN page_remove(m, d, va) ELSE m
    <3>1. MemType(k, E) /\ k.pgdir = m.pgdir
      BY TypeRemove DEF TypeKept
    <3>2. n = IF k.free # <<>> /\ Head(k.free) = pp THEN page_alloc_raw(k) ELSE k
      BY <2>1 DEF MakeRoom, Unlist, page_alloc_raw
    <3> HIDE DEF k
    <3> QED
      BY <3>1, <3>2, TypeAlloc DEF TypeKept
  <2>2. CASE ~HasTable(m, d, va)
    <3> DEFINE a == page_alloc(m)
               b == page_incref(a, Head(m.free))
               x == Present(Head(m.free), TRUE)
               o == SetEntry(b, d, PDX(va), x)
    <3>1. MemType(a, E) /\ a.pgdir = m.pgdir /\ Head(m.free) \in Page
      BY <2>2, TypeAlloc DEF InsertFails, TypeKept
    <3>2. MemType(b, E) /\ b.pgdir = a.pgdir
      <4> HIDE DEF a
      <4> QED BY <3>1, IncrefFields
    <3>3. x \in Entry
      BY <3>1 DEF Present, Entry
    <3>4. n = o
      BY <2>2 DEF MakeRoom, pgdir_walk
    <3> HIDE DEF a, b, x
    <3>5. MemType(o, E) /\ o.pgdir = b.pgdir
      BY <1>1, <3>2, <3>3, SetEntryFields DEF EntrySet
    <3> QED
      BY <3>1, <3>2, <3>4, <3>5
  <2> QED
    BY <2>1, <2>2
<1>3. page_insert(m, d, pp, va, w) = page_incref(l, pp)
  BY DEF page_insert
<1> HIDE DEF n
<1>4. t \in Page
  BY <1>1, <1>2, TypeFacts DEF TableOf
<1>5. Present(pp, w) \in Entry
  BY Entries
<1>6. MemType(l, E) /\ l.pgdir = n.pgdir
  BY <1>1, <1>2, <1>4, <1>5, SetEntryFields DEF EntrySet
<1> HIDE DEF l
<1>7. MemType(page_incref(l, pp), E) /\ page_incref(l, pp).pgdir = l.pgdir
  BY <1>6, IncrefFields
<1> QED
  BY <1>2, <1>3, <1>6, <1>7 DEF TypeKept

LEMMA TypeSetup ==
    ASSUME NEW m, NEW E, MemType(m, E), m.free # <<>>, NEW e \in E
    PROVE  /\ MemType(env_setup_vm(m, e), E)
           /\ env_setup_vm(m, e).pgdir = [m.pgdir EXCEPT ![e] = Head(m.free)]
<1> DEFINE d == Head(m.free)
           a == page_alloc(m)
           b == page_incref(a, d)
<1>1. d \in Page /\ MemType(a, E)
  BY TypeAlloc DEF TypeKept
<1>2. a.pgdir = m.pgdir
  BY <1>1 DEF page_alloc, page_alloc_raw, MemType
<1>3. env_setup_vm(m, e) = [b EXCEPT !.pgdir[e] = d]
  BY DEF env_setup_vm
<1> HIDE DEF a, d
<1>4. MemType(b, E) /\ b.pgdir = m.pgdir
  BY <1>1, <1>2, IncrefFields
<1> DEFINE f == [m.pgdir EXCEPT ![e] = d]
<1>5. f \in [E -> Page \cup {NoPage}]
  BY <1>1, TypeFacts
<1>6. env_setup_vm(m, e) = [b EXCEPT !.pgdir = f]
  BY <1>3, <1>4
<1> HIDE DEF b, f
<1>7. MemType(env_setup_vm(m, e), E) /\ env_setup_vm(m, e).pgdir = f
  BY <1>4, <1>5, <1>6 DEF MemType
<1> QED
  BY <1>7 DEF f, d

LEMMA TypeFreeTable ==
    ASSUME NEW m, NEW E, MemType(m, E), NEW d \in Page, NEW i \in UserPdx
    PROVE  TypeKept(m, env_free_table(m, d, i), E)
<1>1. i \in Idx /\ m.ent[d][i].pp \in Page
  BY TypeFacts DEF Idx
<1> DEFINE l == SetEntry(m, d, i, Absent)
           n == page_decref(l, m.ent[d][i].pp)
<1>2. MemType(l, E) /\ l.pgdir = m.pgdir
  BY <1>1, SetEntryFields, Entries DEF EntrySet
<1>3. env_free_table(m, d, i) = n
  BY DEF env_free_table
<1> HIDE DEF l
<1>4. MemType(n, E) /\ n.pgdir = l.pgdir
  BY <1>1, <1>2, DecrefFields
<1> QED
  BY <1>2, <1>3, <1>4 DEF TypeKept

LEMMA TypeFreePgdir ==
    ASSUME NEW m, NEW E, MemType(m, E), NEW e \in E, m.pgdir[e] # NoPage
    PROVE  /\ MemType(env_free_pgdir(m, e), E)
           /\ env_free_pgdir(m, e).pgdir = [m.pgdir EXCEPT ![e] = NoPage]
<1> DEFINE f == [m.pgdir EXCEPT ![e] = NoPage]
           l == [m EXCEPT !.pgdir = f]
<1>1. m.pgdir[e] \in Page /\ f \in [E -> Page \cup {NoPage}]
  BY TypeFacts
<1>2. env_free_pgdir(m, e) = page_decref(l, m.pgdir[e])
  BY DEF env_free_pgdir
<1> HIDE DEF f
<1>3. MemType(l, E) /\ l.pgdir = f
  BY <1>1 DEF MemType
<1> HIDE DEF l
<1> DEFINE n == page_decref(l, m.pgdir[e])
<1>4. MemType(n, E) /\ n.pgdir = l.pgdir
  BY <1>1, <1>3, DecrefFields
<1> HIDE DEF n
<1> QED
  BY <1>2, <1>3, <1>4 DEF f, n

=============================================================================
