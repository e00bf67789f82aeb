----------------------------- MODULE ForkProofs -----------------------------
(***************************************************************************)
(* Proofs about copy-on-write fork (module Fork), for any number of        *)
(* programs, frames and pages.                                             *)
(***************************************************************************)
EXTENDS Fork, FiniteSetTheorems, WellFoundedInduction, TLAPS

\* A set of naturals that is not empty has a least element.
LEMMA LeastNat ==
    ASSUME NEW D, D \subseteq Nat, D # {}
    PROVE  \E d \in D : \A x \in D : d <= x
<1> DEFINE Less == {ss \in Nat \X Nat : ss[1] < ss[2]}
<1>1. IsWellFoundedOn(Less, Nat)
  BY NatLessThanWellFounded, Zenon DEF OpToRel
<1> HIDE DEF Less
<1>2. PICK d \in D : \A x \in D : ~(<<x, d>> \in Less)
  BY <1>1, WFMin
<1>3. ASSUME NEW x \in D PROVE d <= x
  <2>1. <<x, d>> \in Nat \X Nat /\ ~(x < d)
    BY <1>2 DEF Less
  <2> QED
    BY <2>1
<1> QED
  BY <1>3

-----------------------------------------------------------------------------
(* The invariant of the library alone: it holds also when page tables are  *)
(* refused.                                                                *)

\* Where fork has a child.  The last of them come after its loop.
KidAt == {"pte", "dupchild", "dupself", "xalloc", "xmap", "xcopy", "xunmap",
          "kidupcall", "runnable"}
Late == {"xmap", "xcopy", "xunmap", "kidupcall", "runnable"}

\* The child is an embryo, and nobody else's.
KidOwn ==
    \A e \in Env : pc[e].at \in KidAt =>
        /\ pc[e].kid \in Env /\ life[pc[e].kid] = "embryo"
        /\ \A x \in Env : pc[x].at \in KidAt /\ pc[x].kid = pc[e].kid => x = e

\* A program that does not run is in neither fork nor pgfault.
Idle ==
    \A e \in Env : life[e] \in {"free", "embryo"} =>
        pc[e].at = "user" /\ fault[e] = NoFault

Unmapped == \A e \in Env : life[e] = "free" => \A va \in Va : as[e][va] = NoMap

\* duppage has a page; after the loop the stack has been pushed to, and stays
\* writable, so that no fault comes in while PFTEMP is the child's stack.
InLoop ==
    \A e \in Env : /\ pc[e].at \in {"dupchild", "dupself"} => pc[e].i <= Len(Pages)
                   /\ pc[e].at \in Late => fault[e] = NoFault /\ Writable(e, "stack")

\* pgfault copies a page that is still copy-on-write.
FaultCow ==
    \A e \in Env : fault[e].at \in {"copy", "map"} => as[e][fault[e].va].perm = "cow"

LibInv == ForkInv /\ KidOwn /\ Idle /\ Unmapped /\ InLoop /\ FaultCow

-----------------------------------------------------------------------------
(* The invariant of the memories, when tables are not refused.             *)

\* The pages of a program: those without PTE_W are shared read-only, the others
\* are its own or copy-on-write; an embryo has none of its own.
PermOK(e, va) ==
    /\ life[e] \in {"run", "stuck"} =>
          as[e][va].perm \in (IF va \in ReadOnly THEN {"r"} ELSE {"w", "cow"})
    /\ life[e] = "embryo" =>
          as[e][va].perm \in (IF va \in ReadOnly THEN {"none", "r"} ELSE {"none", "cow"})
Perms == \A e \in Env, va \in UserVa : PermOK(e, va)

\* The child has the pages the loop has been through.
KidPages ==
    \A e \in Env : pc[e].at \in KidAt =>
        /\ \A j \in 1 .. Len(Pages) :
              Mapped(pc[e].kid, Pages[j]) <=> j < pc[e].i \/ (j = pc[e].i /\ pc[e].at = "dupself")
        /\ pc[e].at \in {"dupchild", "dupself"} => pc[e].cow = (Pages[pc[e].i] \notin ReadOnly)
        /\ pc[e].at = "dupself" => pc[e].cow
        /\ pc[e].at \in Late \cup {"xalloc"} => pc[e].i = Len(Pages) + 1

\* Program x has at v the frame that program e has at va.
Share(e, va, x, v) == as[x][v].frame = as[e][va].frame

\* pgfault has mapped va of program e, and not yet given up PFTEMP.
Temp(e, va) == fault[e].va = va /\ fault[e].at = "unmap"
\* duppage has given child x page va of e, and not yet made it copy-on-write.
Dup(e, va, x) == pc[e].at = "dupself" /\ pc[e].kid = x /\ Pages[pc[e].i] = va

\* A frame that is mapped writable is mapped nowhere else, but in these cases.
OwnedBy(e, va, x, v) ==
    Writable(e, va) /\ Share(e, va, x, v) =>
        \/ x = e /\ v = va
        \/ x = e /\ v = "pftemp" /\ Temp(e, va)
        \/ v = va /\ Dup(e, va, x)
Owned == \A e, x \in Env, va \in UserVa, v \in Va : OwnedBy(e, va, x, v)

\* The page pgfault is filling is mapped nowhere else, and holds the copy.
TempAlone(e, x, v) ==
    fault[e].at \in {"copy", "map"} /\ Share(e, "pftemp", x, v) => x = e /\ v = "pftemp"
TempCopied(e) ==
    fault[e].at = "map" =>
        bytes[as[e]["pftemp"].frame] = bytes[as[e][fault[e].va].frame]
TempOwned ==
    /\ \A e, x \in Env, v \in Va : TempAlone(e, x, v)
    /\ \A e \in Env : TempCopied(e)

\* What is served is a write to a copy-on-write page.
FaultServed == \A e \in Env : fault[e].at = "check" => as[e][fault[e].va].perm = "cow"

CowInv == Perms /\ KidPages /\ Owned /\ TempOwned /\ FaultServed
-----------------------------------------------------------------------------
(* Constants, frames and functions.                                        *)

Mapping == {NoMap} \cup [frame : Frame, perm : {"w", "cow", "r"}]

LEMMA PageFacts ==
    /\ UserVa \subseteq Va /\ "xstack" \in Va \ UserVa /\ "pftemp" \in Va \ UserVa
    /\ "stack" \in UserVa /\ "data" \in UserVa
    /\ Len(Pages) \in Nat /\ DOMAIN Pages = 1 .. Len(Pages)
    /\ \A j \in 1 .. Len(Pages) : Pages[j] \in UserVa
    /\ \A va \in UserVa : \E j \in 1 .. Len(Pages) : Pages[j] = va
    /\ \A j, k \in 1 .. Len(Pages) : Pages[j] = Pages[k] => j = k
<1>1. Pages \in Seq(STRING) /\ IsInjective(Pages)
  BY PagesAssumption
<1>2. Len(Pages) \in Nat /\ DOMAIN Pages = 1 .. Len(Pages)
  BY <1>1
<1>3. \A j, k \in 1 .. Len(Pages) : Pages[j] = Pages[k] => j = k
  BY <1>1, <1>2 DEF IsInjective
<1>4. UserVa = {Pages[j] : j \in 1 .. Len(Pages)}
  BY <1>1, <1>2 DEF UserVa, ToSet
<1>5. /\ UserVa \subseteq Va /\ "xstack" \in Va \ UserVa /\ "pftemp" \in Va \ UserVa
      /\ "stack" \in UserVa /\ "data" \in UserVa
  BY PagesAssumption DEF UserVa, Va
<1> QED
  BY <1>2, <1>3, <1>4, <1>5

\* A frame that is taken is free.
LEMMA FrameIsFree ==
    ASSUME TypeOK, FreeFrames # {}
    PROVE  /\ NewFrame \in Frame
           /\ \A x \in Env, v \in Va : as[x][v].frame # NewFrame
<1>1. FreeFrames \subseteq Nat
  BY FrameAssumption DEF FreeFrames
<1>2. \E f \in FreeFrames : \A g \in FreeFrames : f <= g
  BY <1>1, LeastNat
<1>3. NewFrame \in FreeFrames
  BY <1>2 DEF NewFrame
<1>4. NewFrame \in Frame /\ NewFrame # -1 /\ NewFrame \notin Used
  BY <1>1, <1>3 DEF FreeFrames
<1>5. ASSUME NEW x \in Env, NEW v \in Va
      PROVE  as[x][v].frame \in {as[y[1]][y[2]].frame : y \in Env \X Va}
  <2> DEFINE y == <<x, v>>
  <2>1. y \in Env \X Va /\ y[1] = x /\ y[2] = v
    OBVIOUS
  <2> HIDE DEF y
  <2> QED
    BY <2>1
<1> QED
  BY <1>4, <1>5 DEF Used

\* One entry of one address space is set.
Sets(p, q, f, perm) ==
    /\ as' \in [Env -> [Va -> Mapping]]
    /\ as'[p][q] = [frame |-> f, perm |-> perm]
    /\ as'[p][q].frame = f /\ as'[p][q].perm = perm
    /\ \A x \in Env, v \in Va : ~(x = p /\ v = q) => as'[x][v] = as[x][v]

LEMMA SetsOne ==
    ASSUME TypeOK, NEW p \in Env, NEW q \in Va, NEW f, NEW perm,
           [frame |-> f, perm |-> perm] \in Mapping,
           as' = [as EXCEPT ![p][q] = [frame |-> f, perm |-> perm]]
    PROVE  Sets(p, q, f, perm)
<1> DEFINE r == [frame |-> f, perm |-> perm]
<1>1. r.frame = f /\ r.perm = perm /\ r \in Mapping /\ as' = [as EXCEPT ![p][q] = r]
  OBVIOUS
<1>2. as \in [Env -> [Va -> Mapping]]
  BY DEF TypeOK, Mapping
<1>3. r = [frame |-> f, perm |-> perm]
  OBVIOUS
<1> HIDE DEF r
<1>4. /\ as' \in [Env -> [Va -> Mapping]] /\ as'[p][q] = r
      /\ \A x \in Env, v \in Va : ~(x = p /\ v = q) => as'[x][v] = as[x][v]
  <2> DEFINE a == [as[p] EXCEPT ![q] = r]
  <2>1. as' = [as EXCEPT ![p] = a]
    BY <1>1
  <2>2. as[p] \in [Va -> Mapping]
    BY <1>2
  <2>3. /\ a \in [Va -> Mapping] /\ a[q] = r
        /\ \A v \in Va : v # q => a[v] = as[p][v]
    BY <1>1, <2>2
  <2> HIDE DEF a
  <2>4. as' \in [Env -> [Va -> Mapping]] /\ as'[p] = a
    BY <1>2, <2>1, <2>3
  <2>5. \A x \in Env : x # p => as'[x] = as[x]
    BY <1>2, <2>1
  <2> QED
    BY <2>3, <2>4, <2>5
<1> QED
  BY <1>1, <1>3, <1>4 DEF Sets

LEMMA AllocSets ==
    ASSUME TypeOK, NEW p \in Env, NEW q \in Va, sys_page_alloc(p, q)
    PROVE  \E f \in Frame :
              /\ \A x \in Env, v \in Va : as[x][v].frame # f
              /\ Sets(p, q, f, "w")
              /\ bytes' \in [Frame -> Data]
              /\ \A g \in Frame : g # f => bytes'[g] = bytes[g]
<1> DEFINE f == NewFrame
<1>1. f \in Frame /\ \A x \in Env, v \in Va : as[x][v].frame # f
  BY FrameIsFree DEF sys_page_alloc
<1>2. as' = [as EXCEPT ![p][q] = [frame |-> f, perm |-> "w"]]
  BY DEF sys_page_alloc
<1>3. bytes' = [bytes EXCEPT ![f] = 0]
  BY DEF sys_page_alloc
<1> HIDE DEF f
<1>4. [frame |-> f, perm |-> "w"] \in Mapping
  BY <1>1 DEF Mapping
<1>5. Sets(p, q, f, "w")
  BY <1>2, <1>4, SetsOne
<1>6. bytes' \in [Frame -> Data] /\ \A g \in Frame : g # f => bytes'[g] = bytes[g]
  BY <1>1, <1>3, DataAssumption DEF TypeOK
<1> QED
  BY <1>1, <1>5, <1>6

\* What is mapped is a frame with a permission.
LEMMA MappedType ==
    ASSUME TypeOK, NEW e \in Env, NEW va \in Va
    PROVE  /\ as[e][va] \in Mapping
           /\ Mapped(e, va) <=> as[e][va].perm # "none"
           /\ Mapped(e, va) => as[e][va].frame \in Frame /\ as[e][va].perm \in {"w", "cow", "r"}
           /\ ~Mapped(e, va) => as[e][va].frame = -1
           /\ -1 \notin Frame
<1>1. as[e][va] \in Mapping
  <2>1. as \in [Env -> [Va -> Mapping]]
    BY DEF TypeOK, Mapping
  <2> QED
    BY <2>1
<1>2. -1 \notin Frame
  BY FrameAssumption
<1>3. NoMap.frame = -1 /\ NoMap.perm = "none"
  BY DEF NoMap
<1>4. CASE as[e][va] = NoMap
  BY <1>2, <1>3, <1>4 DEF Mapped, Mapping
<1>5. CASE as[e][va] \in [frame : Frame, perm : {"w", "cow", "r"}]
  <2>1. as[e][va].frame \in Frame /\ as[e][va].perm \in {"w", "cow", "r"}
    BY <1>5
  <2>2. Mapped(e, va)
    BY <1>3, <2>1 DEF Mapped
  <2> QED
    BY <1>1, <1>2, <2>1, <2>2
<1> QED
  BY <1>1, <1>4, <1>5 DEF Mapping

LEMMA MapSets ==
    ASSUME TypeOK, NEW s \in Env, NEW sv \in Va, NEW p \in Env, NEW q \in Va,
           NEW perm \in {"w", "cow", "r"}, sys_page_map(s, sv, p, q, perm)
    PROVE  /\ Sets(p, q, as[s][sv].frame, perm)
           /\ Mapped(s, sv) /\ as[s][sv].frame \in Frame
           /\ perm = "w" => as[s][sv].perm = "w"
<1>1. Mapped(s, sv) /\ (perm = "w" => as[s][sv].perm = "w")
  BY DEF sys_page_map
<1>2. as[s][sv].frame \in Frame
  BY <1>1, MappedType
<1>3. [frame |-> as[s][sv].frame, perm |-> perm] \in Mapping
  BY <1>2 DEF Mapping
<1> QED
  BY <1>1, <1>2, <1>3, SetsOne DEF sys_page_map

LEMMA UnmapSets ==
    ASSUME TypeOK, NEW p \in Env, NEW q \in Va, sys_page_unmap(p, q)
    PROVE  Sets(p, q, -1, "none")
<1>1. [frame |-> -1, perm |-> "none"] \in Mapping
  BY DEF Mapping, NoMap
<1> QED
  BY <1>1, SetsOne DEF sys_page_unmap, NoMap
-----------------------------------------------------------------------------
(* Types are kept.                                                         *)

PcType == pc \in [Env -> Locals]
Places == {"user", "handler", "upcall", "exofork", "pte", "dupchild", "dupself",
           "xalloc", "xmap", "xcopy", "xunmap", "kidupcall", "runnable", "gone"}

LEMMA PcFacts ==
    ASSUME PcType, NEW e \in Env
    PROVE  /\ pc[e].at \in Places
           /\ pc[e].i \in 1 .. Len(Pages) + 1
           /\ pc[e].kid \in Env \cup {NoEnv}
           /\ pc[e].cow \in BOOLEAN
<1>1. pc[e] \in Locals
  BY DEF PcType
<1> QED
  BY <1>1 DEF Locals, Places

LEMMA UserIsLocal == User \in Locals
BY PageFacts DEF User, Locals

\* Program e is at another place, and the others where they were.
At(e, at, i, kid, cow) ==
    /\ PcType'
    /\ \A x \in Env \ {e} : pc'[x] = pc[x]
    /\ pc'[e].at = at /\ pc'[e].i = i /\ pc'[e].kid = kid /\ pc'[e].cow = cow

LEMMA Moved ==
    ASSUME PcType, NEW e \in Env, NEW r \in Locals, pc' = [pc EXCEPT ![e] = r]
    PROVE  At(e, r.at, r.i, r.kid, r.cow)
BY DEF PcType, At

LEMMA GotoMoves ==
    ASSUME PcType, NEW e \in Env, NEW at \in Places, Goto(e, at)
    PROVE  At(e, at, pc[e].i, pc[e].kid, pc[e].cow)
<1> DEFINE r == [pc[e] EXCEPT !.at = at]
<1>1. pc[e] \in Locals
  BY DEF PcType
<1>2. /\ r \in Locals /\ r.at = at /\ r.i = pc[e].i
      /\ r.kid = pc[e].kid /\ r.cow = pc[e].cow
  BY <1>1 DEF Locals, Places
<1>3. pc' = [pc EXCEPT ![e] = r]
  BY DEF Goto
<1> HIDE DEF r
<1> QED
  BY <1>2, <1>3, Moved

LEMMA LeaveMoves ==
    ASSUME PcType, NEW e \in Env, Leave(e)
    PROVE  At(e, "user", 1, NoEnv, FALSE)
<1>1. User.at = "user" /\ User.i = 1 /\ User.kid = NoEnv /\ User.cow = FALSE
  BY DEF User
<1> QED
  BY <1>1, UserIsLocal, Moved DEF Leave

LEMMA NextPageMoves ==
    ASSUME PcType, NEW e \in Env, NextPage(e), pc[e].i <= Len(Pages)
    PROVE  At(e, "pte", pc[e].i + 1, pc[e].kid, pc[e].cow)
<1> DEFINE r == [pc[e] EXCEPT !.at = "pte", !.i = @ + 1]
<1>1. pc[e] \in Locals /\ pc[e].i + 1 \in 1 .. Len(Pages) + 1
  BY PcFacts, PageFacts DEF PcType
<1>2. /\ r \in Locals /\ r.at = "pte" /\ r.i = pc[e].i + 1
      /\ r.kid = pc[e].kid /\ r.cow = pc[e].cow
  BY <1>1 DEF Locals
<1>3. pc' = [pc EXCEPT ![e] = r]
  BY <1>1 DEF NextPage, PcType, Locals
<1> HIDE DEF r
<1> QED
  BY <1>2, <1>3, Moved
-----------------------------------------------------------------------------
(* The steps, by what they do to one program.                              *)

FaultType == {NoFault} \cup [va : UserVa, at : {"check", "copy", "map", "unmap"}]

FaultIs(e, va, at) ==
    /\ fault' \in [Env -> FaultType]
    /\ fault'[e] = [va |-> va, at |-> at] /\ fault'[e].va = va /\ fault'[e].at = at
    /\ \A x \in Env \ {e} : fault'[x] = fault[x]
LifeIs(e, l) ==
    /\ life' \in [Env -> {"free", "embryo", "run", "stuck"}]
    /\ life'[e] = l /\ \A x \in Env \ {e} : life'[x] = life[x]
BytesBut(f) ==
    bytes' \in [Frame -> Data] /\ \A g \in Frame \ {f} : bytes'[g] = bytes[g]

\* A frame nobody has is mapped writable.
Gets(p, q) ==
    \E f \in Frame : /\ \A x \in Env, v \in Va : as[x][v].frame # f
                     /\ Sets(p, q, f, "w") /\ BytesBut(f)

StoreStep(e) ==
    /\ UNCHANGED <<as, pc, fault, life>>
    /\ \E va \in UserVa \ ReadOnly, d \in Data :
          /\ Writable(e, va) /\ BytesBut(as[e][va].frame)
          /\ bytes'[as[e][va].frame] = d
FaultStep(e) ==
    /\ UNCHANGED <<as, bytes, pc, life>>
    /\ fault[e] = NoFault
    /\ \E va \in UserVa \ ReadOnly :
          ~Writable(e, va) /\ (pc[e].at = "user" \/ va = "stack")
          /\ FaultIs(e, va, "check")
PanicStep(e) ==
    /\ UNCHANGED <<as, bytes, pc, fault>> /\ LifeIs(e, "stuck")
    /\ \/ NoMemory
       \/ fault[e].at = "check" /\ as[e][fault[e].va].perm # "cow"
TempGetsStep(e) ==
    /\ UNCHANGED <<pc, life>>
    /\ fault[e].at = "check" /\ as[e][fault[e].va].perm = "cow"
    /\ Gets(e, "pftemp") /\ FaultIs(e, fault[e].va, "copy")
TempFilledStep(e) ==
    /\ UNCHANGED <<as, pc, life>>
    /\ fault[e].at = "copy" /\ FaultIs(e, fault[e].va, "map")
    /\ BytesBut(as[e]["pftemp"].frame)
    /\ bytes'[as[e]["pftemp"].frame] = bytes[as[e][fault[e].va].frame]
TempMappedStep(e) ==
    /\ UNCHANGED <<bytes, pc, life>>
    /\ fault[e].at = "map" /\ FaultIs(e, fault[e].va, "unmap")
    /\ Sets(e, fault[e].va, as[e]["pftemp"].frame, "w")
    /\ Mapped(e, "pftemp") /\ as[e]["pftemp"].perm = "w"
TempGoneStep(e) ==
    /\ UNCHANGED <<bytes, pc, life>>
    /\ fault[e].at = "unmap" /\ FaultIs(e, "none", "none") /\ Sets(e, "pftemp", -1, "none")

\* The steps of fork need the stack.
Calling(e) == fault[e] = NoFault /\ Pushed(e) /\ UNCHANGED fault

JumpStep(e) ==
    /\ Calling(e) /\ UNCHANGED <<as, bytes, life>>
    /\ \E at \in Places, i \in 1 .. Len(Pages) + 1, cow \in BOOLEAN :
          /\ At(e, at, i, pc[e].kid, cow)
          /\ \/ /\ pc[e].at \in {"user", "upcall"} /\ at \in {"handler", "exofork"}
             \/ /\ pc[e].at = "pte" /\ pc[e].i > Len(Pages) /\ at = "xalloc"
                /\ i = pc[e].i
             \/ pc[e].at = "kidupcall" /\ i = pc[e].i /\ at = "runnable"
             \/ /\ pc[e].at = "pte" /\ pc[e].i <= Len(Pages)
                /\ ~Mapped(e, Pages[pc[e].i]) /\ at = "pte" /\ i = pc[e].i + 1
             \/ /\ pc[e].at = "pte" /\ pc[e].i <= Len(Pages)
                /\ Mapped(e, Pages[pc[e].i]) /\ at = "dupchild" /\ i = pc[e].i
                /\ cow = (as[e][Pages[i]].perm # "r")
             \/ /\ pc[e].at = "dupchild" /\ TablesFail
                /\ at = "pte" /\ i = pc[e].i + 1
LeaveStep(e) ==
    /\ Calling(e) /\ UNCHANGED <<as, bytes, life>>
    /\ pc[e].at \in {"exofork", "xalloc", "xmap", "gone"}
    /\ At(e, "user", 1, NoEnv, FALSE)
BirthStep(e) ==
    /\ Calling(e) /\ UNCHANGED <<as, bytes>>
    /\ pc[e].at = "exofork"
    /\ \E c \in Env : /\ life[c] = "free" /\ LifeIs(c, "embryo")
                      /\ At(e, "pte", 1, c, FALSE)
GiveStep(e) ==
    /\ Calling(e) /\ UNCHANGED <<bytes, life>>
    /\ pc[e].at = "dupchild"
    /\ LET va == Pages[pc[e].i]
       IN  /\ Mapped(e, va)
           /\ Sets(pc[e].kid, va, as[e][va].frame, IF pc[e].cow THEN "cow" ELSE "r")
    /\ \/ pc[e].cow /\ At(e, "dupself", pc[e].i, pc[e].kid, pc[e].cow)
       \/ ~pc[e].cow /\ At(e, "pte", pc[e].i + 1, pc[e].kid, pc[e].cow)
ProtectStep(e) ==
    /\ Calling(e) /\ UNCHANGED <<bytes, life>>
    /\ pc[e].at = "dupself"
    /\ LET va == Pages[pc[e].i]
       IN  Mapped(e, va) /\ Sets(e, va, as[e][va].frame, "cow")
    /\ At(e, "pte", pc[e].i + 1, pc[e].kid, pc[e].cow)
XstackStep(e) ==
    /\ Calling(e) /\ UNCHANGED life
    /\ \/ /\ pc[e].at = "handler" /\ Gets(e, "xstack")
          /\ At(e, "upcall", pc[e].i, pc[e].kid, pc[e].cow)
       \/ /\ pc[e].at = "xalloc" /\ Gets(pc[e].kid, "xstack")
          /\ At(e, "xmap", pc[e].i, pc[e].kid, pc[e].cow)
KidXstackStep(e) ==
    /\ Calling(e) /\ UNCHANGED <<bytes, life>>
    /\ pc[e].at = "xmap" /\ At(e, "xcopy", pc[e].i, pc[e].kid, pc[e].cow)
    /\ Mapped(pc[e].kid, "xstack")
    /\ Sets(e, "pftemp", as[pc[e].kid]["xstack"].frame, "w")
XstackCopyStep(e) ==
    /\ Calling(e) /\ UNCHANGED <<as, life>>
    /\ pc[e].at = "xcopy" /\ At(e, "xunmap", pc[e].i, pc[e].kid, pc[e].cow)
    /\ BytesBut(as[e]["xstack"].frame)
XstackGoneStep(e) ==
    /\ Calling(e) /\ UNCHANGED <<bytes, life>>
    /\ pc[e].at = "xunmap" /\ At(e, "kidupcall", pc[e].i, pc[e].kid, pc[e].cow)
    /\ Sets(e, "pftemp", -1, "none")
StartStep(e) ==
    /\ Calling(e) /\ UNCHANGED <<as, bytes>>
    /\ pc[e].at = "runnable" /\ At(e, "user", 1, NoEnv, FALSE)
    /\ LifeIs(pc[e].kid, "run")
ExitStep(e) ==
    /\ Calling(e) /\ UNCHANGED <<bytes, pc>>
    /\ pc[e].at = "user" /\ LifeIs(e, "free")
    /\ as' \in [Env -> [Va -> Mapping]]
    /\ \A v \in Va : as'[e][v] = NoMap
    /\ \A x \in Env \ {e} : as'[x] = as[x]

\* The kernel destroys a child that has no text.
KidLostStep(e) ==
    /\ Calling(e) /\ UNCHANGED bytes /\ life[e] = "run"
    /\ pc[e].at = "kidupcall" /\ At(e, "gone", pc[e].i, pc[e].kid, pc[e].cow)
    /\ ~HasUpcall(pc[e].kid)
    /\ LifeIs(pc[e].kid, "free")
    /\ as' \in [Env -> [Va -> Mapping]]
    /\ \A v \in Va : as'[pc[e].kid][v] = NoMap
    /\ \A x \in Env \ {pc[e].kid} : as'[x] = as[x]

StepOf(e) ==
    /\ life[e] = "run"
    /\ \/ StoreStep(e) \/ FaultStep(e) \/ PanicStep(e)
       \/ TempGetsStep(e) \/ TempFilledStep(e) \/ TempMappedStep(e) \/ TempGoneStep(e)
       \/ JumpStep(e) \/ LeaveStep(e) \/ BirthStep(e) \/ GiveStep(e) \/ ProtectStep(e)
       \/ XstackStep(e) \/ KidXstackStep(e) \/ XstackCopyStep(e) \/ XstackGoneStep(e)
       \/ StartStep(e) \/ ExitStep(e)

Typed ==
    /\ life \in [Env -> {"free", "embryo", "run", "stuck"}]
    /\ as \in [Env -> [Va -> Mapping]]
    /\ bytes \in [Frame -> Data]
    /\ pc \in [Env -> Locals]
    /\ fault \in [Env -> FaultType]
FlagsTyped == upcall \in [Env -> BOOLEAN] /\ handler \in [Env -> BOOLEAN]

LEMMA TypedIsTypeOK == TypeOK <=> Typed /\ FlagsTyped
BY DEF TypeOK, Typed, FlagsTyped, Mapping, FaultType

LEMMA TypedNext == Typed' /\ FlagsTyped' => TypeOK'
BY DEF TypeOK, Typed, FlagsTyped, Mapping, FaultType

\* What a typed state gives of one program.
LEMMA ProgramFacts ==
    ASSUME Typed, NEW e \in Env
    PROVE  /\ life[e] \in {"free", "embryo", "run", "stuck"}
           /\ fault[e] \in FaultType
           /\ fault[e] # NoFault => /\ fault[e].va \in UserVa
                                    /\ fault[e].at \in {"check", "copy", "map", "unmap"}
           /\ fault[e] = NoFault <=> fault[e].at = "none"
           /\ fault[e].at \in {"none", "check", "copy", "map", "unmap"}
<1>1. life[e] \in {"free", "embryo", "run", "stuck"} /\ fault[e] \in FaultType
  BY DEF Typed
<1>2. NoFault.at = "none"
  BY DEF NoFault
<1>3. CASE fault[e] = NoFault
  BY <1>1, <1>2, <1>3
<1>4. CASE fault[e] \in [va : UserVa, at : {"check", "copy", "map", "unmap"}]
  BY <1>1, <1>2, <1>4
<1> QED
  BY <1>1, <1>3, <1>4 DEF FaultType

LEMMA FaultSet ==
    ASSUME Typed, NEW e \in Env, NEW va, NEW at, [va |-> va, at |-> at] \in FaultType,
           fault' = [fault EXCEPT ![e] = [va |-> va, at |-> at]]
    PROVE  FaultIs(e, va, at)
<1> DEFINE r == [va |-> va, at |-> at]
<1>1. r.va = va /\ r.at = at /\ r \in FaultType /\ fault' = [fault EXCEPT ![e] = r]
  OBVIOUS
<1>2. r = [va |-> va, at |-> at]
  OBVIOUS
<1> HIDE DEF r
<1>3. /\ fault' \in [Env -> FaultType] /\ fault'[e] = r
      /\ \A x \in Env \ {e} : fault'[x] = fault[x]
  BY <1>1 DEF Typed
<1> QED
  BY <1>1, <1>2, <1>3 DEF FaultIs

\* The next call of pgfault.
LEMMA FaultMoves ==
    ASSUME Typed, NEW e \in Env, fault[e] # NoFault,
           NEW at \in {"check", "copy", "map", "unmap"}, fault' = [fault EXCEPT ![e].at = at]
    PROVE  FaultIs(e, fault[e].va, at)
<1>1. fault[e] \in [va : UserVa, at : {"check", "copy", "map", "unmap"}]
  BY DEF Typed, FaultType
<1>2. /\ [va |-> fault[e].va, at |-> at] \in FaultType
      /\ [va |-> fault[e].va, at |-> at] = [fault[e] EXCEPT !.at = at]
  BY <1>1 DEF FaultType
<1>3. fault' = [fault EXCEPT ![e] = [va |-> fault[e].va, at |-> at]]
  BY <1>2
<1> QED
  BY <1>2, <1>3, FaultSet

LEMMA LifeSet ==
    ASSUME Typed, NEW e \in Env, NEW l \in {"free", "embryo", "run", "stuck"},
           life' = [life EXCEPT ![e] = l]
    PROVE  LifeIs(e, l)
BY DEF Typed, LifeIs

LEMMA BytesSet ==
    ASSUME Typed, NEW f, NEW d \in Data, bytes' = [bytes EXCEPT ![f] = d]
    PROVE  BytesBut(f) /\ (f \in Frame => bytes'[f] = d)
BY DEF Typed, BytesBut

LEMMA AllocGets ==
    ASSUME TypeOK, NEW p \in Env, NEW q \in Va, sys_page_alloc(p, q)
    PROVE  Gets(p, q) /\ as' \in [Env -> [Va -> Mapping]] /\ bytes' \in [Frame -> Data]
<1>1. PICK f \in Frame :
              /\ \A x \in Env, v \in Va : as[x][v].frame # f
              /\ Sets(p, q, f, "w")
              /\ bytes' \in [Frame -> Data]
              /\ \A g \in Frame : g # f => bytes'[g] = bytes[g]
  BY AllocSets
<1>2. BytesBut(f)
  BY <1>1 DEF BytesBut
<1> QED
  BY <1>1, <1>2 DEF Gets, Sets

\* A program in fork has a child of its own.
LEMMA KidFacts ==
    ASSUME LibInv, NEW e \in Env, pc[e].at \in KidAt
    PROVE  /\ pc[e].kid \in Env /\ life[pc[e].kid] = "embryo"
           /\ life[e] = "run" => pc[e].kid # e
BY DEF LibInv, KidOwn

LEMMA InvTypes == LibInv => TypeOK /\ Typed /\ FlagsTyped /\ PcType
BY TypedIsTypeOK DEF LibInv, ForkInv, Typed, PcType

LEMMA StoreForms ==
    ASSUME LibInv, NEW e \in Env, NEW va \in UserVa \ ReadOnly,
           PageFault(e, va) \/ \E d \in Data : Store(e, va, d)
    PROVE  TypeOK' /\ StepOf(e)
<1>0. TypeOK /\ Typed /\ FlagsTyped
  BY InvTypes
<1>1. CASE PageFault(e, va)
  <2>1. [va |-> va, at |-> "check"] \in FaultType
    BY DEF FaultType
  <2>2. FaultIs(e, va, "check")
    BY <1>0, <1>1, <2>1, FaultSet DEF PageFault
  <2>3. FaultStep(e) /\ life[e] = "run"
    BY <1>1, <2>2 DEF PageFault, FaultStep, Running
  <2>4. Typed' /\ FlagsTyped'
    BY <1>0, <1>1, <2>2 DEF Typed, FlagsTyped, PageFault, FaultIs
  <2> QED
    BY <2>3, <2>4, TypedNext DEF StepOf
<1>2. ASSUME NEW d \in Data, Store(e, va, d)
      PROVE  TypeOK' /\ StepOf(e)
  <2> DEFINE f == as[e][va].frame
  <2>1. bytes' = [bytes EXCEPT ![f] = d] /\ Writable(e, va) /\ life[e] = "run"
    BY <1>2 DEF Store, Running
  <2>2. f \in Frame
    BY <1>0, <2>1, PageFacts, MappedType DEF Writable
  <2> HIDE DEF f
  <2>3. BytesBut(f) /\ bytes'[f] = d
    BY <1>0, <2>1, <2>2, BytesSet
  <2>4. StoreStep(e)
    BY <1>2, <2>1, <2>3 DEF f, Store, StoreStep
  <2>5. Typed' /\ FlagsTyped'
    BY <1>0, <1>2, <2>3 DEF Typed, FlagsTyped, Store, BytesBut
  <2> QED
    BY <2>1, <2>4, <2>5, TypedNext DEF StepOf
<1> QED
  BY <1>1, <1>2

LEMMA PgfaultForms ==
    ASSUME LibInv, NEW e \in Env,
           pgfault_alloc(e) \/ pgfault_copy(e) \/ pgfault_map(e) \/ pgfault_unmap(e)
    PROVE  TypeOK' /\ StepOf(e)
<1>0. TypeOK /\ Typed /\ FlagsTyped
  BY InvTypes
<1>1. life[e] = "run" /\ fault[e].at \in {"check", "copy", "map", "unmap"}
  BY DEF pgfault_alloc, pgfault_copy, pgfault_map, pgfault_unmap
<1>2. fault[e] # NoFault /\ fault[e].va \in UserVa /\ fault[e].va \in Va /\ "pftemp" \in Va
  BY <1>0, <1>1, ProgramFacts, PageFacts
<1>3. ASSUME pgfault_alloc(e) PROVE TypeOK' /\ StepOf(e)
  <2>1. UNCHANGED <<upcall, handler, pc>> /\ fault[e].at = "check"
    BY <1>3 DEF pgfault_alloc
  <2>2. CASE /\ as[e][fault[e].va].perm = "cow"
             /\ sys_page_alloc(e, "pftemp")
             /\ fault' = [fault EXCEPT ![e].at = "copy"]
             /\ UNCHANGED life
    <3>1. Gets(e, "pftemp") /\ as' \in [Env -> [Va -> Mapping]] /\ bytes' \in [Frame -> Data]
      BY <1>0, <1>2, <2>2, AllocGets
    <3>2. FaultIs(e, fault[e].va, "copy")
      BY <1>0, <1>2, <2>2, FaultMoves
    <3>3. Typed' /\ FlagsTyped'
      BY <1>0, <2>1, <2>2, <3>1, <3>2 DEF Typed, FlagsTyped, FaultIs
    <3>4. TempGetsStep(e)
      BY <2>1, <2>2, <3>1, <3>2 DEF TempGetsStep
    <3> QED
      BY <1>1, <3>3, <3>4, TypedNext DEF StepOf
  <2>3. CASE /\ as[e][fault[e].va].perm # "cow" \/ NoMemory
             /\ panic(e)
             /\ UNCHANGED <<as, bytes, fault>>
    <3>1. LifeIs(e, "stuck")
      BY <1>0, <2>3, LifeSet DEF panic
    <3>2. Typed' /\ FlagsTyped'
      BY <1>0, <2>1, <2>3, <3>1 DEF Typed, FlagsTyped, LifeIs
    <3>3. PanicStep(e)
      BY <2>1, <2>3, <3>1 DEF PanicStep
    <3> QED
      BY <1>1, <3>2, <3>3, TypedNext DEF StepOf
  <2> QED
    BY <1>3, <2>2, <2>3 DEF pgfault_alloc
<1>4. ASSUME pgfault_copy(e) PROVE TypeOK' /\ StepOf(e)
  <2>1. fault[e].at = "copy" /\ UNCHANGED <<life, as, upcall, handler, pc>>
    BY <1>4 DEF pgfault_copy
  <2>2. Mapped(e, "pftemp") /\ as[e][fault[e].va].perm = "cow"
    BY <2>1 DEF LibInv, ForkInv, PftempFree, FaultCow
  <2> DEFINE f == as[e]["pftemp"].frame
             d == bytes[as[e][fault[e].va].frame]
  <2>3. f \in Frame /\ as[e][fault[e].va].frame \in Frame
    BY <1>0, <1>2, <2>2, MappedType
  <2>4. d \in Data
    BY <1>0, <2>3 DEF Typed
  <2>5. bytes' = [bytes EXCEPT ![f] = d]
    BY <1>4 DEF pgfault_copy
  <2> HIDE DEF f, d
  <2>6. BytesBut(f) /\ bytes'[f] = d
    BY <1>0, <2>3, <2>4, <2>5, BytesSet
  <2>7. FaultIs(e, fault[e].va, "map")
    BY <1>0, <1>2, <1>4, FaultMoves DEF pgfault_copy
  <2>8. Typed' /\ FlagsTyped'
    BY <1>0, <2>1, <2>6, <2>7 DEF Typed, FlagsTyped, FaultIs, BytesBut
  <2>9. TempFilledStep(e)
    BY <2>1, <2>6, <2>7 DEF TempFilledStep, f, d
  <2> QED
    BY <1>1, <2>8, <2>9, TypedNext DEF StepOf
<1>5. ASSUME pgfault_map(e) PROVE TypeOK' /\ StepOf(e)
  <2>1. /\ fault[e].at = "map" /\ UNCHANGED <<life, bytes, upcall, handler, pc>>
        /\ sys_page_map(e, "pftemp", e, fault[e].va, "w")
    BY <1>5 DEF pgfault_map
  <2>2. /\ Sets(e, fault[e].va, as[e]["pftemp"].frame, "w")
        /\ Mapped(e, "pftemp") /\ as[e]["pftemp"].perm = "w"
    BY <1>0, <1>2, <2>1, MapSets
  <2>3. FaultIs(e, fault[e].va, "unmap")
    BY <1>0, <1>2, <1>5, FaultMoves DEF pgfault_map
  <2>4. Typed' /\ FlagsTyped'
    BY <1>0, <2>1, <2>2, <2>3 DEF Typed, FlagsTyped, FaultIs, Sets
  <2>5. TempMappedStep(e)
    BY <2>1, <2>2, <2>3 DEF TempMappedStep
  <2> QED
    BY <1>1, <2>4, <2>5, TypedNext DEF StepOf
<1>6. ASSUME pgfault_unmap(e) PROVE TypeOK' /\ StepOf(e)
  <2>1. /\ fault[e].at = "unmap" /\ UNCHANGED <<life, bytes, upcall, handler, pc>>
        /\ sys_page_unmap(e, "pftemp") /\ fault' = [fault EXCEPT ![e] = NoFault]
    BY <1>6 DEF pgfault_unmap
  <2>2. Sets(e, "pftemp", -1, "none")
    BY <1>0, <1>2, <2>1, UnmapSets
  <2>3. [va |-> "none", at |-> "none"] \in FaultType
    BY DEF FaultType, NoFault
  <2>4. FaultIs(e, "none", "none")
    BY <1>0, <2>1, <2>3, FaultSet DEF NoFault
  <2>5. Typed' /\ FlagsTyped'
    BY <1>0, <2>1, <2>2, <2>4 DEF Typed, FlagsTyped, FaultIs, Sets
  <2>6. TempGoneStep(e)
    BY <2>1, <2>2, <2>4 DEF TempGoneStep
  <2> QED
    BY <1>1, <2>5, <2>6, TypedNext DEF StepOf
<1> QED
  BY <1>3, <1>4, <1>5, <1>6

\* A step of fork that only moves on.
LEMMA MoveTyped ==
    ASSUME Typed, FlagsTyped, UNCHANGED <<life, as, bytes, fault>>, FlagsTyped', PcType'
    PROVE  TypeOK'
<1>1. Typed'
  BY DEF Typed, PcType
<1> QED
  BY <1>1, TypedNext

LEMMA JumpForms ==
    ASSUME LibInv, NEW e \in Env,
           fork(e) \/ set_pgfault_upcall(e) \/ EndOfLoop(e) \/ kid_upcall(e)
    PROVE  TypeOK' /\ StepOf(e)
<1>0. TypeOK /\ Typed /\ FlagsTyped /\ PcType
  BY InvTypes
<1>1. /\ Calling(e) /\ UNCHANGED <<as, bytes, life, fault>> /\ life[e] = "run"
  BY DEF fork, set_pgfault_upcall, EndOfLoop, kid_upcall, Step, Running, Calling
<1>2. /\ pc[e].i \in 1 .. Len(Pages) + 1 /\ pc[e].cow \in BOOLEAN
      /\ pc[e].kid \in Env \cup {NoEnv}
  BY <1>0, PcFacts
<1>3. PICK at \in {"handler", "exofork", "xalloc", "runnable"} :
         /\ Goto(e, at)
         /\ \/ pc[e].at \in {"user", "upcall"} /\ at \in {"handler", "exofork"}
            \/ pc[e].at = "pte" /\ pc[e].i > Len(Pages) /\ at = "xalloc"
            \/ pc[e].at = "kidupcall" /\ at = "runnable"
  BY DEF fork, set_pgfault_upcall, EndOfLoop, kid_upcall, Step, Running
<1>4. at \in Places
  BY DEF Places
<1>5. At(e, at, pc[e].i, pc[e].kid, pc[e].cow)
  BY <1>0, <1>3, <1>4, GotoMoves
<1>6. JumpStep(e)
  BY <1>1, <1>2, <1>3, <1>4, <1>5 DEF JumpStep
<1>7. FlagsTyped'
  <2>1. CASE fork(e) \/ EndOfLoop(e)
    BY <1>0, <2>1 DEF FlagsTyped, fork, EndOfLoop
  <2>2. CASE set_pgfault_upcall(e)
    BY <1>0, <2>2 DEF FlagsTyped, set_pgfault_upcall
  <2>3. CASE kid_upcall(e)
    BY <1>0, <2>3 DEF FlagsTyped, kid_upcall
  <2> QED
    BY <2>1, <2>2, <2>3
<1>8. TypeOK'
  BY <1>0, <1>1, <1>5, <1>7, MoveTyped DEF At
<1> QED
  BY <1>1, <1>6, <1>8 DEF StepOf

LEMMA LoopForms ==
    ASSUME LibInv, NEW e \in Env, ReadPte(e)
    PROVE  TypeOK' /\ StepOf(e)
<1>0. TypeOK /\ Typed /\ FlagsTyped /\ PcType
  BY InvTypes
<1>1. /\ Calling(e) /\ UNCHANGED <<as, bytes, life, fault, upcall, handler>>
      /\ life[e] = "run" /\ pc[e].at = "pte" /\ pc[e].i <= Len(Pages)
  BY DEF ReadPte, Step, Running, Calling
<1>2. /\ pc[e] \in Locals
      /\ pc[e].i \in 1 .. Len(Pages) + 1 /\ pc[e].cow \in BOOLEAN
      /\ pc[e].kid \in Env \cup {NoEnv}
      /\ pc[e].i + 1 \in 1 .. Len(Pages) + 1 /\ pc[e].i \in 1 .. Len(Pages)
  BY <1>0, <1>1, PcFacts, PageFacts DEF PcType
<1> DEFINE va == Pages[pc[e].i]
           b == as[e][va].perm # "r"
<1>3. b \in BOOLEAN
  OBVIOUS
<1>4. CASE ~Mapped(e, va)
  <2> DEFINE r == [pc[e] EXCEPT !.i = @ + 1]
  <2>1. /\ r \in Locals /\ r.at = "pte" /\ r.i = pc[e].i + 1
        /\ r.kid = pc[e].kid /\ r.cow = pc[e].cow
    BY <1>1, <1>2 DEF Locals
  <2>2. pc' = [pc EXCEPT ![e] = r]
    BY <1>4 DEF ReadPte, Mapped
  <2> HIDE DEF r
  <2>3. At(e, "pte", pc[e].i + 1, pc[e].kid, pc[e].cow)
    BY <1>0, <2>1, <2>2, Moved
  <2>4. "pte" \in Places
    BY DEF Places
  <2>5. JumpStep(e)
    BY <1>1, <1>2, <1>4, <2>3, <2>4 DEF JumpStep
  <2>6. TypeOK'
    BY <1>0, <1>1, <2>3, MoveTyped DEF At, FlagsTyped
  <2> QED
    BY <1>1, <2>5, <2>6 DEF StepOf
<1>5. CASE Mapped(e, va)
  <2> DEFINE r == [pc[e] EXCEPT !.at = "dupchild", !.cow = b]
  <2>1. pc' = [pc EXCEPT ![e].at = "dupchild", ![e].cow = b]
    BY <1>5 DEF ReadPte, Mapped
  <2>a. b = (as[e][Pages[pc[e].i]].perm # "r")
    OBVIOUS
  <2> HIDE DEF b
  <2>2. /\ r \in Locals /\ r.at = "dupchild" /\ r.i = pc[e].i
        /\ r.kid = pc[e].kid /\ r.cow = b
    BY <1>1, <1>2, <1>3 DEF Locals
  <2>3. pc' = [pc EXCEPT ![e] = r]
    BY <1>0, <1>2, <2>1 DEF PcType, Locals
  <2> HIDE DEF r
  <2>4. At(e, "dupchild", pc[e].i, pc[e].kid, b)
    BY <1>0, <2>2, <2>3, Moved
  <2>5. "dupchild" \in Places
    BY DEF Places
  <2>6. JumpStep(e)
    BY <1>1, <1>2, <1>3, <1>5, <2>4, <2>5, <2>a DEF JumpStep
  <2>7. TypeOK'
    BY <1>0, <1>1, <2>4, MoveTyped DEF At, FlagsTyped
  <2> QED
    BY <1>1, <2>6, <2>7 DEF StepOf
<1> QED
  BY <1>4, <1>5

LEMMA BirthForms ==
    ASSUME LibInv, NEW e \in Env, exofork(e)
    PROVE  TypeOK' /\ StepOf(e)
<1>0. TypeOK /\ Typed /\ FlagsTyped /\ PcType
  BY InvTypes
<1>1. /\ Calling(e) /\ UNCHANGED <<as, bytes, fault, upcall, handler>>
      /\ life[e] = "run" /\ pc[e].at = "exofork"
  BY DEF exofork, Step, Running, Calling
<1>2. CASE Leave(e) /\ UNCHANGED life
  <2>1. At(e, "user", 1, NoEnv, FALSE)
    BY <1>0, <1>2, LeaveMoves
  <2>2. LeaveStep(e)
    BY <1>1, <1>2, <2>1 DEF LeaveStep
  <2>3. TypeOK'
    BY <1>0, <1>1, <1>2, <2>1, MoveTyped DEF At, FlagsTyped
  <2> QED
    BY <1>1, <2>2, <2>3 DEF StepOf
<1>3. ASSUME NEW c \in Env, life[c] = "free", life' = [life EXCEPT ![c] = "embryo"],
             pc' = [pc EXCEPT ![e] = [User EXCEPT !.at = "pte", !.kid = c]]
      PROVE  TypeOK' /\ StepOf(e)
  <2> DEFINE r == [User EXCEPT !.at = "pte", !.kid = c]
  <2>0. User.i = 1 /\ User.cow = FALSE
    BY DEF User
  <2>1. /\ r \in Locals /\ r.at = "pte" /\ r.i = 1 /\ r.kid = c /\ r.cow = FALSE
    BY <2>0, UserIsLocal DEF Locals
  <2>2. pc' = [pc EXCEPT ![e] = r]
    BY <1>3
  <2> HIDE DEF r
  <2>3. At(e, "pte", 1, c, FALSE)
    BY <1>0, <2>1, <2>2, Moved
  <2>4. LifeIs(c, "embryo")
    BY <1>0, <1>3, LifeSet
  <2>5. BirthStep(e)
    BY <1>1, <1>3, <2>3, <2>4 DEF BirthStep
  <2>6. Typed' /\ FlagsTyped'
    BY <1>0, <1>1, <2>3, <2>4 DEF Typed, FlagsTyped, LifeIs, At, PcType
  <2> QED
    BY <1>1, <2>5, <2>6, TypedNext DEF StepOf
<1> QED
  BY <1>2, <1>3 DEF exofork

LEMMA DupForms ==
    ASSUME LibInv, NEW e \in Env, duppage_child(e) \/ duppage_self(e)
    PROVE  TypeOK' /\ StepOf(e)
<1>0. TypeOK /\ Typed /\ FlagsTyped /\ PcType
  BY InvTypes
<1>1. /\ Calling(e) /\ UNCHANGED <<bytes, life, fault, upcall, handler>>
      /\ life[e] = "run" /\ pc[e].at \in {"dupchild", "dupself"}
  BY DEF duppage_child, duppage_self, Step, Running, Calling
<1>2. /\ pc[e].i \in 1 .. Len(Pages) + 1 /\ pc[e].i <= Len(Pages)
      /\ pc[e].i + 1 \in 1 .. Len(Pages) + 1
      /\ pc[e].cow \in BOOLEAN
      /\ pc[e].kid \in Env /\ Pages[pc[e].i] \in UserVa /\ Pages[pc[e].i] \in Va
  <2>1. pc[e].i \in 1 .. Len(Pages) + 1 /\ pc[e].i <= Len(Pages) /\ pc[e].cow \in BOOLEAN
    BY <1>0, <1>1, PcFacts DEF LibInv, InLoop
  <2>2. pc[e].kid \in Env
    BY <1>1, KidFacts DEF KidAt
  <2> QED
    BY <2>1, <2>2, PageFacts
<1> DEFINE va == Pages[pc[e].i]
           k == pc[e].kid
           perm == IF pc[e].cow THEN "cow" ELSE "r"
<1>3. CASE NextPage(e) /\ TablesFail /\ UNCHANGED as /\ pc[e].at = "dupchild"
  <2>1. At(e, "pte", pc[e].i + 1, pc[e].kid, pc[e].cow)
    BY <1>0, <1>2, <1>3, NextPageMoves
  <2>2. "pte" \in Places
    BY DEF Places
  <2>3. JumpStep(e)
    BY <1>1, <1>2, <1>3, <2>1, <2>2 DEF JumpStep
  <2>4. TypeOK'
    BY <1>0, <1>1, <1>3, <2>1, MoveTyped DEF At, FlagsTyped
  <2> QED
    BY <1>1, <2>3, <2>4 DEF StepOf
<1>4. CASE /\ sys_page_map(e, va, k, va, perm)
           /\ IF pc[e].cow THEN Goto(e, "dupself") ELSE NextPage(e)
           /\ pc[e].at = "dupchild"
  <2>1. perm \in {"w", "cow", "r"}
    OBVIOUS
  <2>2. /\ Sets(k, va, as[e][va].frame, perm)
        /\ Mapped(e, va)
    <3> HIDE DEF perm
    <3> QED
      BY <1>0, <1>2, <1>4, <2>1, MapSets
  <2>3. \/ pc[e].cow /\ At(e, "dupself", pc[e].i, pc[e].kid, pc[e].cow)
        \/ ~pc[e].cow /\ At(e, "pte", pc[e].i + 1, pc[e].kid, pc[e].cow)
    <3>1. "dupself" \in Places
      BY DEF Places
    <3> QED
      BY <1>0, <1>2, <1>4, <3>1, GotoMoves, NextPageMoves
  <2>4. GiveStep(e)
    BY <1>1, <1>4, <2>2, <2>3 DEF GiveStep
  <2>5. Typed' /\ FlagsTyped'
    BY <1>0, <1>1, <2>2, <2>3 DEF Typed, FlagsTyped, Sets, At, PcType
  <2> QED
    BY <1>1, <2>4, <2>5, TypedNext DEF StepOf
<1>5. CASE duppage_self(e)
  <2>1. /\ sys_page_map(e, va, e, va, "cow") /\ NextPage(e) /\ pc[e].at = "dupself"
    BY <1>5 DEF duppage_self, Step, Running
  <2>2. /\ Sets(e, va, as[e][va].frame, "cow") /\ Mapped(e, va)
    BY <1>0, <1>2, <2>1, MapSets
  <2>3. At(e, "pte", pc[e].i + 1, pc[e].kid, pc[e].cow)
    BY <1>0, <1>2, <2>1, NextPageMoves
  <2>4. ProtectStep(e)
    BY <1>1, <2>1, <2>2, <2>3 DEF ProtectStep
  <2>5. Typed' /\ FlagsTyped'
    BY <1>0, <1>1, <2>2, <2>3 DEF Typed, FlagsTyped, Sets, At, PcType
  <2> QED
    BY <1>1, <2>4, <2>5, TypedNext DEF StepOf
<1> QED
  BY <1>3, <1>4, <1>5 DEF duppage_child, Step, Running

LEMMA XstackForms ==
    ASSUME LibInv, NEW e \in Env,
           set_pgfault_handler(e) \/ xstack_alloc(e) \/ xstack_map(e) \/ xstack_copy(e)
           \/ xstack_unmap(e)
    PROVE  TypeOK' /\ StepOf(e)
<1>0. TypeOK /\ Typed /\ FlagsTyped /\ PcType /\ "xstack" \in Va /\ "pftemp" \in Va
  BY InvTypes, PageFacts
<1>1. /\ Calling(e) /\ UNCHANGED <<fault, upcall, handler>> /\ life[e] = "run"
      /\ pc[e].at \in {"handler", "xalloc", "xmap", "xcopy", "xunmap"}
  BY DEF set_pgfault_handler, xstack_alloc, xstack_map, xstack_copy, xstack_unmap,
         Step, Running, Calling
<1>2. pc[e].at # "handler" => pc[e].kid \in Env
  BY <1>1, KidFacts DEF KidAt
<1>3. CASE Leave(e) /\ UNCHANGED <<as, bytes, life>> /\ pc[e].at \in {"xalloc", "xmap"}
  <2>1. At(e, "user", 1, NoEnv, FALSE)
    BY <1>0, <1>3, LeaveMoves
  <2>2. LeaveStep(e)
    BY <1>1, <1>3, <2>1 DEF LeaveStep
  <2>3. TypeOK'
    BY <1>0, <1>1, <1>3, <2>1, MoveTyped DEF At, FlagsTyped
  <2> QED
    BY <1>1, <2>2, <2>3 DEF StepOf
<1>4. CASE NoMemory /\ panic(e) /\ UNCHANGED <<as, bytes, pc>>
  <2>1. LifeIs(e, "stuck")
    BY <1>0, <1>4, LifeSet DEF panic
  <2>2. Typed' /\ FlagsTyped'
    BY <1>0, <1>1, <1>4, <2>1 DEF Typed, FlagsTyped, LifeIs
  <2>3. PanicStep(e)
    BY <1>1, <1>4, <2>1 DEF PanicStep
  <2> QED
    BY <1>1, <2>2, <2>3, TypedNext DEF StepOf
<1>5. ASSUME NEW p \in Env, NEW at \in Places, sys_page_alloc(p, "xstack"), Goto(e, at),
             UNCHANGED life,
             \/ p = e /\ pc[e].at = "handler" /\ at = "upcall"
             \/ p = pc[e].kid /\ pc[e].at = "xalloc" /\ at = "xmap"
      PROVE  TypeOK' /\ StepOf(e)
  <2>1. Gets(p, "xstack") /\ as' \in [Env -> [Va -> Mapping]] /\ bytes' \in [Frame -> Data]
    BY <1>0, <1>5, AllocGets
  <2>2. At(e, at, pc[e].i, pc[e].kid, pc[e].cow)
    BY <1>0, <1>5, GotoMoves
  <2>3. XstackStep(e)
    BY <1>1, <1>5, <2>1, <2>2 DEF XstackStep
  <2>4. Typed' /\ FlagsTyped'
    BY <1>0, <1>1, <1>5, <2>1, <2>2 DEF Typed, FlagsTyped, At, PcType
  <2> QED
    BY <1>1, <2>3, <2>4, TypedNext DEF StepOf
<1>6. CASE /\ sys_page_map(pc[e].kid, "xstack", e, "pftemp", "w") /\ Goto(e, "xcopy")
           /\ pc[e].at = "xmap" /\ UNCHANGED <<life, bytes>>
  <2>1. /\ Sets(e, "pftemp", as[pc[e].kid]["xstack"].frame, "w")
        /\ Mapped(pc[e].kid, "xstack")
    BY <1>0, <1>2, <1>6, MapSets
  <2>2. At(e, "xcopy", pc[e].i, pc[e].kid, pc[e].cow)
    BY <1>0, <1>6, GotoMoves DEF Places
  <2>3. KidXstackStep(e)
    BY <1>1, <1>6, <2>1, <2>2 DEF KidXstackStep
  <2>4. Typed' /\ FlagsTyped'
    BY <1>0, <1>1, <1>6, <2>1, <2>2 DEF Typed, FlagsTyped, At, PcType, Sets
  <2> QED
    BY <1>1, <2>3, <2>4, TypedNext DEF StepOf
<1>7. CASE xstack_copy(e)
  <2>1. pc[e].at = "xcopy" /\ Goto(e, "xunmap") /\ UNCHANGED <<life, as>>
    BY <1>7 DEF xstack_copy, Step, Running
  <2>2. Mapped(e, "pftemp")
    BY <2>1 DEF LibInv, ForkInv, PftempFree
  <2> DEFINE f == as[e]["xstack"].frame
             d == bytes[as[e]["pftemp"].frame]
  <2>3. as[e]["pftemp"].frame \in Frame
    BY <1>0, <2>2, MappedType
  <2>4. d \in Data
    BY <1>0, <2>3 DEF Typed
  <2>5. bytes' = [bytes EXCEPT ![f] = d]
    BY <1>7 DEF xstack_copy
  <2> HIDE DEF f, d
  <2>6. BytesBut(f)
    BY <1>0, <2>4, <2>5, BytesSet
  <2>7. At(e, "xunmap", pc[e].i, pc[e].kid, pc[e].cow)
    BY <1>0, <2>1, GotoMoves DEF Places
  <2>8. XstackCopyStep(e)
    BY <1>1, <2>1, <2>6, <2>7 DEF XstackCopyStep, f
  <2>9. Typed' /\ FlagsTyped'
    BY <1>0, <1>1, <2>1, <2>6, <2>7 DEF Typed, FlagsTyped, At, PcType, BytesBut
  <2> QED
    BY <1>1, <2>8, <2>9, TypedNext DEF StepOf
<1>8. CASE xstack_unmap(e)
  <2>1. /\ pc[e].at = "xunmap" /\ Goto(e, "kidupcall") /\ UNCHANGED <<life, bytes>>
        /\ sys_page_unmap(e, "pftemp")
    BY <1>8 DEF xstack_unmap, Step, Running
  <2>2. Sets(e, "pftemp", -1, "none")
    BY <1>0, <2>1, UnmapSets
  <2>3. At(e, "kidupcall", pc[e].i, pc[e].kid, pc[e].cow)
    BY <1>0, <2>1, GotoMoves DEF Places
  <2>4. XstackGoneStep(e)
    BY <1>1, <2>1, <2>2, <2>3 DEF XstackGoneStep
  <2>5. Typed' /\ FlagsTyped'
    BY <1>0, <1>1, <2>1, <2>2, <2>3 DEF Typed, FlagsTyped, At, PcType, Sets
  <2> QED
    BY <1>1, <2>4, <2>5, TypedNext DEF StepOf
<1>9. CASE set_pgfault_handler(e)
  <2>1. "upcall" \in Places
    BY DEF Places
  <2> QED
    BY <1>4, <1>5, <1>9, <2>1 DEF set_pgfault_handler, Step, Running
<1>10. CASE xstack_alloc(e)
  <2>1. "xmap" \in Places
    BY DEF Places
  <2> QED
    BY <1>2, <1>3, <1>5, <1>10, <2>1 DEF xstack_alloc, Step, Running
<1>11. CASE xstack_map(e)
  BY <1>3, <1>6, <1>11 DEF xstack_map, Step, Running
<1> QED
  BY <1>7, <1>8, <1>9, <1>10, <1>11

LEMMA EndForms ==
    ASSUME LibInv, NEW e \in Env, kid_runnable(e) \/ kid_gone(e) \/ exit(e)
    PROVE  TypeOK' /\ StepOf(e)
<1>0. TypeOK /\ Typed /\ FlagsTyped /\ PcType
  BY InvTypes
<1>1. CASE kid_runnable(e)
  <2>1. /\ Calling(e) /\ UNCHANGED <<as, bytes, fault, upcall>> /\ life[e] = "run"
        /\ pc[e].at = "runnable" /\ Leave(e)
    BY <1>1 DEF kid_runnable, Step, Running, Calling
  <2>2. pc[e].kid \in Env
    BY <2>1, KidFacts DEF KidAt
  <2>3. At(e, "user", 1, NoEnv, FALSE)
    BY <1>0, <2>1, LeaveMoves
  <2>4. LifeIs(pc[e].kid, "run")
    BY <1>0, <1>1, <2>2, LifeSet DEF kid_runnable
  <2>5. StartStep(e)
    BY <2>1, <2>3, <2>4 DEF StartStep
  <2>6. Typed'
    BY <1>0, <2>1, <2>3, <2>4 DEF Typed, At, PcType, LifeIs
  <2>7. FlagsTyped'
    BY <1>0, <1>1 DEF FlagsTyped, kid_runnable
  <2> QED
    BY <2>1, <2>5, <2>6, <2>7, TypedNext DEF StepOf
<1>2. CASE exit(e)
  <2>1. /\ Calling(e) /\ UNCHANGED <<bytes, pc, fault>> /\ life[e] = "run"
        /\ pc[e].at = "user"
    BY <1>2 DEF exit, Step, Running, Calling
  <2>2. LifeIs(e, "free")
    BY <1>0, <1>2, LifeSet DEF exit
  <2>3. [va \in Va |-> NoMap] \in [Va -> Mapping]
    BY DEF Mapping
  <2>4. /\ as' \in [Env -> [Va -> Mapping]]
        /\ \A v \in Va : as'[e][v] = NoMap
        /\ \A x \in Env \ {e} : as'[x] = as[x]
    <3>1. as \in [Env -> [Va -> Mapping]] /\ as' = [as EXCEPT ![e] = [va \in Va |-> NoMap]]
      BY <1>0, <1>2 DEF Typed, exit
    <3> QED
      BY <2>3, <3>1
  <2>5. ExitStep(e)
    BY <2>1, <2>2, <2>4 DEF ExitStep
  <2>6. Typed'
    BY <1>0, <2>1, <2>2, <2>4 DEF Typed, LifeIs
  <2>7. FlagsTyped'
    BY <1>0, <1>2 DEF FlagsTyped, exit
  <2> QED
    BY <2>1, <2>5, <2>6, <2>7, TypedNext DEF StepOf
<1>3. CASE kid_gone(e)
  <2>1. /\ Calling(e) /\ UNCHANGED <<life, as, bytes, fault, upcall, handler>> /\ life[e] = "run"
        /\ pc[e].at = "gone" /\ Leave(e)
    BY <1>3 DEF kid_gone, Step, Running, Calling
  <2>2. At(e, "user", 1, NoEnv, FALSE)
    BY <1>0, <2>1, LeaveMoves
  <2>3. LeaveStep(e)
    BY <2>1, <2>2 DEF LeaveStep
  <2>4. FlagsTyped'
    BY <1>0, <2>1 DEF FlagsTyped
  <2>5. TypeOK'
    BY <1>0, <2>1, <2>2, <2>4, MoveTyped DEF At
  <2> QED
    BY <2>1, <2>3, <2>5 DEF StepOf
<1> QED
  BY <1>1, <1>2, <1>3

LEMMA KidLostForms ==
    ASSUME LibInv, NEW e \in Env, kid_destroyed(e)
    PROVE  TypeOK' /\ KidLostStep(e)
<1>0. TypeOK /\ Typed /\ FlagsTyped /\ PcType
  BY InvTypes
<1>1. /\ Calling(e) /\ UNCHANGED <<bytes, fault, upcall, handler>> /\ life[e] = "run"
      /\ pc[e].at = "kidupcall" /\ Goto(e, "gone") /\ ~HasUpcall(pc[e].kid)
  BY DEF kid_destroyed, Step, Running, Calling
<1>2. pc[e].kid \in Env
  BY <1>1, KidFacts DEF KidAt
<1>3. At(e, "gone", pc[e].i, pc[e].kid, pc[e].cow)
  BY <1>0, <1>1, GotoMoves DEF Places
<1>4. LifeIs(pc[e].kid, "free")
  BY <1>0, <1>2, LifeSet DEF kid_destroyed
<1>5. [va \in Va |-> NoMap] \in [Va -> Mapping]
  BY DEF Mapping
<1>6. /\ as' \in [Env -> [Va -> Mapping]]
      /\ \A v \in Va : as'[pc[e].kid][v] = NoMap
      /\ \A x \in Env \ {pc[e].kid} : as'[x] = as[x]
  <2>1. as \in [Env -> [Va -> Mapping]] /\ as' = [as EXCEPT ![pc[e].kid] = [va \in Va |-> NoMap]]
    BY <1>0 DEF Typed, kid_destroyed
  <2> QED
    BY <1>2, <1>5, <2>1
<1>7. KidLostStep(e)
  BY <1>1, <1>3, <1>4, <1>6 DEF KidLostStep
<1>8. Typed'
  BY <1>0, <1>1, <1>3, <1>4, <1>6 DEF Typed, At, PcType, LifeIs
<1>9. FlagsTyped'
  BY <1>0, <1>1 DEF FlagsTyped
<1> QED
  BY <1>7, <1>8, <1>9, TypedNext

\* Every step is a step of one program, in one of the forms.
LEMMA StepForms ==
    ASSUME LibInv, Next
    PROVE  TypeOK' /\ \E e \in Env : StepOf(e) \/ KidLostStep(e)
<1>1. "stack" \in UserVa \ ReadOnly
  BY PagesAssumption DEF UserVa
<1>2. PICK e \in Env : \/ Library(e)
                       \/ \E va \in UserVa \ ReadOnly :
                             PageFault(e, va) \/ \E d \in Data : Store(e, va, d)
                       \/ fork(e)
                       \/ exit(e)
  BY DEF Next
<1>3. TypeOK' /\ (StepOf(e) \/ KidLostStep(e))
  <2>1. CASE Library(e)
    BY <1>1, <2>1, StoreForms, PgfaultForms, JumpForms, LoopForms, BirthForms, DupForms,
       XstackForms, KidLostForms, EndForms DEF Library
  <2> QED
    BY <1>2, <2>1, StoreForms, JumpForms, EndForms
<1> QED
  BY <1>3
-----------------------------------------------------------------------------
(* The invariant of the library is kept.                                   *)

\* The forms by what they leave alone.
PgfaultStep(e) ==
    \/ StoreStep(e) \/ FaultStep(e)
    \/ TempGetsStep(e) \/ TempFilledStep(e) \/ TempMappedStep(e) \/ TempGoneStep(e)
CallStep(e) ==
    \/ JumpStep(e) \/ LeaveStep(e) \/ GiveStep(e) \/ ProtectStep(e)
    \/ XstackStep(e) \/ KidXstackStep(e) \/ XstackCopyStep(e) \/ XstackGoneStep(e)

LEMMA KidOwnKept ==
    ASSUME LibInv, NEW e \in Env, StepOf(e)
    PROVE  KidOwn'
<1>0. KidOwn /\ Idle /\ life[e] = "run" /\ Typed
  BY InvTypes DEF LibInv, StepOf
<1>1. CASE PgfaultStep(e)
  BY <1>0, <1>1 DEF PgfaultStep, StoreStep, FaultStep, TempGetsStep, TempFilledStep,
     TempMappedStep, TempGoneStep, KidOwn
<1>2. CASE PanicStep(e)
  BY <1>0, <1>2 DEF PanicStep, KidOwn, LifeIs
<1>3. CASE CallStep(e)
  <2>1. /\ life' = life /\ \A x \in Env \ {e} : pc'[x] = pc[x]
        /\ pc'[e].at \in KidAt => pc[e].at \in KidAt /\ pc'[e].kid = pc[e].kid
    BY <1>3 DEF CallStep, JumpStep, LeaveStep, GiveStep, ProtectStep, XstackStep,
       KidXstackStep, XstackCopyStep, XstackGoneStep, At, KidAt
  <2> QED
    BY <1>0, <2>1 DEF KidOwn
<1>4. CASE BirthStep(e)
  <2>1. PICK c \in Env : life[c] = "free" /\ LifeIs(c, "embryo") /\ At(e, "pte", 1, c, FALSE)
    BY <1>4 DEF BirthStep
  <2>2. \A x \in Env : pc[x].at \in KidAt => pc[x].kid # c
    BY <1>0, <2>1 DEF KidOwn
  <2> QED
    BY <1>0, <2>1, <2>2 DEF KidOwn, LifeIs, At
<1>5. CASE StartStep(e)
  <2>1. pc[e].at \in KidAt
    BY <1>5 DEF StartStep, KidAt
  <2>2. "user" \notin KidAt
    BY DEF KidAt
  <2> QED
    BY <1>0, <1>5, <2>1, <2>2 DEF KidOwn, LifeIs, At, StartStep
<1>6. CASE ExitStep(e)
  BY <1>0, <1>6 DEF ExitStep, KidOwn, LifeIs
<1> QED
  BY <1>1, <1>2, <1>3, <1>4, <1>5, <1>6 DEF StepOf, PgfaultStep, CallStep

LEMMA IdleKept ==
    ASSUME LibInv, NEW e \in Env, StepOf(e)
    PROVE  Idle'
<1>0. KidOwn /\ Idle /\ life[e] = "run" /\ Typed
  BY InvTypes DEF LibInv, StepOf
<1>1. CASE PgfaultStep(e)
  <2>1. /\ UNCHANGED <<pc, life>> /\ \A x \in Env \ {e} : fault'[x] = fault[x]
    BY <1>1 DEF PgfaultStep, StoreStep, FaultStep, TempGetsStep, TempFilledStep,
       TempMappedStep, TempGoneStep, FaultIs
  <2> QED
    BY <1>0, <2>1 DEF Idle
<1>2. CASE PanicStep(e)
  BY <1>0, <1>2 DEF PanicStep, Idle, LifeIs
<1>3. CASE CallStep(e)
  <2>1. /\ UNCHANGED <<life, fault>> /\ \A x \in Env \ {e} : pc'[x] = pc[x]
    BY <1>3 DEF CallStep, JumpStep, LeaveStep, GiveStep, ProtectStep, XstackStep,
       KidXstackStep, XstackCopyStep, XstackGoneStep, At, Calling
  <2> QED
    BY <1>0, <2>1 DEF Idle
<1>4. CASE BirthStep(e)
  <2>1. PICK c \in Env : life[c] = "free" /\ LifeIs(c, "embryo") /\ At(e, "pte", 1, c, FALSE)
    BY <1>4 DEF BirthStep
  <2>2. fault' = fault
    BY <1>4 DEF BirthStep, Calling
  <2> QED
    BY <1>0, <2>1, <2>2 DEF Idle, LifeIs, At
<1>5. CASE StartStep(e)
  BY <1>0, <1>5 DEF Idle, LifeIs, At, StartStep, Calling
<1>6. CASE ExitStep(e)
  BY <1>0, <1>6 DEF ExitStep, Idle, LifeIs, Calling
<1> QED
  BY <1>1, <1>2, <1>3, <1>4, <1>5, <1>6 DEF StepOf, PgfaultStep, CallStep

LEMMA UnmappedKept ==
    ASSUME LibInv, NEW e \in Env, StepOf(e)
    PROVE  Unmapped'
<1>0. KidOwn /\ Unmapped /\ life[e] = "run" /\ Typed
  BY InvTypes DEF LibInv, StepOf
<1>1. CASE UNCHANGED as /\ ~ExitStep(e)
  <2>1. \A x \in Env : life'[x] = "free" => life[x] = "free"
    BY <1>0, <1>1 DEF StepOf, StoreStep, FaultStep, PanicStep, TempGetsStep, TempFilledStep,
       TempMappedStep, TempGoneStep, JumpStep, LeaveStep, BirthStep, GiveStep, ProtectStep,
       XstackStep, KidXstackStep, XstackCopyStep, XstackGoneStep, StartStep, LifeIs
  <2> QED
    BY <1>0, <1>1, <2>1 DEF Unmapped
<1>2. ASSUME NEW p \in Env, NEW q, NEW f, NEW m, life[p] # "free", Sets(p, q, f, m), life' = life
      PROVE  Unmapped'
  BY ZenonT(60), <1>0, <1>2 DEF Unmapped, Sets
<1>3. CASE ExitStep(e)
  BY <1>0, <1>3 DEF ExitStep, Unmapped, LifeIs
<1>4. CASE GiveStep(e) \/ XstackStep(e)
  <2>1. pc[e].at \in KidAt => pc[e].kid \in Env /\ life[pc[e].kid] # "free"
    BY <1>0 DEF KidOwn
  <2> QED
    BY <1>0, <1>2, <1>4, <2>1 DEF GiveStep, XstackStep, Gets, KidAt
<1> QED
  BY <1>0, <1>1, <1>2, <1>3, <1>4 DEF StepOf, StoreStep, FaultStep, PanicStep, TempGetsStep,
     TempFilledStep, TempMappedStep, TempGoneStep, JumpStep, LeaveStep, BirthStep, ProtectStep,
     KidXstackStep, XstackCopyStep, XstackGoneStep, StartStep, Gets

LEMMA InLoopKept ==
    ASSUME LibInv, NEW e \in Env, StepOf(e)
    PROVE  InLoop'
<1>0. /\ KidOwn /\ Idle /\ InLoop /\ FaultCow /\ life[e] = "run" /\ TypeOK /\ Typed /\ PcType
      /\ "stack" \in UserVa /\ "stack" \in Va
  BY InvTypes, PageFacts DEF LibInv, StepOf
<1>1. ASSUME NEW x \in Env, pc'[x].at \in {"dupchild", "dupself"}
      PROVE  pc'[x].i <= Len(Pages)
  <2>1. CASE x # e \/ UNCHANGED pc
    BY <1>0, <1>1, <2>1 DEF InLoop, StepOf, StoreStep, FaultStep, PanicStep, TempGetsStep,
       TempFilledStep, TempMappedStep, TempGoneStep, JumpStep, LeaveStep, BirthStep, GiveStep,
       ProtectStep, XstackStep, KidXstackStep, XstackCopyStep, XstackGoneStep, StartStep,
       ExitStep, At
  <2>2. CASE x = e /\ pc' # pc
    BY <1>0, <1>1, <2>2 DEF InLoop, StepOf, StoreStep, FaultStep, PanicStep, TempGetsStep,
       TempFilledStep, TempMappedStep, TempGoneStep, JumpStep, LeaveStep, BirthStep, GiveStep,
       ProtectStep, XstackStep, KidXstackStep, XstackCopyStep, XstackGoneStep, StartStep,
       ExitStep, At
  <2> QED
    BY SMTT(40), <2>1, <2>2
<1>2. ASSUME NEW x \in Env, x # e, pc'[x].at \in Late
      PROVE  fault'[x] = NoFault /\ as'[x]["stack"].perm = "w"
  <2>1. pc'[x] = pc[x] /\ fault'[x] = fault[x]
    BY <1>0, <1>2 DEF StepOf, StoreStep, FaultStep, PanicStep, TempGetsStep, TempFilledStep,
       TempMappedStep, TempGoneStep, JumpStep, LeaveStep, BirthStep, GiveStep, ProtectStep,
       XstackStep, KidXstackStep, XstackCopyStep, XstackGoneStep, StartStep, ExitStep, At,
       FaultIs, Calling
  <2>2. pc[x].at \in Late /\ pc[x].at # "user"
    BY <1>2, <2>1 DEF Late
  <2>3. life[x] # "embryo" /\ as[x]["stack"].perm = "w" /\ fault[x] = NoFault
    BY <1>0, <2>2 DEF Idle, InLoop, Writable
  <2>4. pc[e].at \in KidAt => pc[e].kid # x
    BY SMTT(40), <1>0, <2>3 DEF KidOwn
  <2>5. as'[x]["stack"] = as[x]["stack"]
    BY <1>0, <1>2, <2>4 DEF StepOf, StoreStep, FaultStep, PanicStep, TempGetsStep,
       TempFilledStep, TempMappedStep, TempGoneStep, JumpStep, LeaveStep, BirthStep, GiveStep,
       ProtectStep, XstackStep, KidXstackStep, XstackCopyStep, XstackGoneStep, StartStep,
       ExitStep, Sets, Gets, KidAt
  <2> QED
    BY <2>1, <2>3, <2>5
<1>3. ASSUME pc'[e].at \in Late
      PROVE  fault'[e] = NoFault /\ as'[e]["stack"].perm = "w"
  <2>1. CASE CallStep(e)
    <3>1. fault'[e] = NoFault /\ as[e]["stack"].perm = "w"
      BY <2>1 DEF CallStep, JumpStep, LeaveStep, GiveStep,
         ProtectStep, XstackStep, KidXstackStep, XstackCopyStep, XstackGoneStep, Calling,
         Pushed, Writable
    <3>2. pc'[e].at # "pte" /\ pc'[e].at # "dupself"
      BY <1>3 DEF Late
    <3>3. as'[e]["stack"] = as[e]["stack"]
      BY <1>0, <2>1, <3>2 DEF CallStep, JumpStep, LeaveStep, GiveStep, ProtectStep,
         XstackStep, KidXstackStep, XstackCopyStep, XstackGoneStep, Sets, Gets, At
    <3> QED
      BY <3>1, <3>3
  <2>2. CASE PgfaultStep(e)
    <3>1. pc' = pc
      BY <2>2 DEF PgfaultStep, StoreStep, FaultStep, TempGetsStep, TempFilledStep,
         TempMappedStep, TempGoneStep
    <3>2. /\ pc[e].at \in Late /\ pc[e].at # "user" /\ fault[e] = NoFault
          /\ fault[e].at = "none" /\ Writable(e, "stack")
      BY <1>0, <1>3, <3>1, ProgramFacts DEF InLoop, Late
    <3>3. StoreStep(e)
      BY <2>2, <3>2 DEF PgfaultStep, FaultStep, TempGetsStep, TempFilledStep,
         TempMappedStep, TempGoneStep
    <3> QED
      BY <3>2, <3>3 DEF StoreStep, Writable
  <2>3. CASE PanicStep(e)
    BY <1>0, <1>3, <2>3 DEF PanicStep, InLoop, Writable
  <2>4. CASE BirthStep(e) \/ StartStep(e) \/ ExitStep(e)
    BY <1>3, <2>4 DEF BirthStep, StartStep, ExitStep, At, Late
  <2> QED
    BY <2>1, <2>2, <2>3, <2>4 DEF StepOf, PgfaultStep, CallStep
<1> QED
  BY <1>1, <1>2, <1>3 DEF InLoop, Writable

LEMMA FaultCowKept ==
    ASSUME LibInv, NEW e \in Env, StepOf(e)
    PROVE  FaultCow'
<1>0. /\ KidOwn /\ Idle /\ FaultCow /\ life[e] = "run" /\ TypeOK /\ Typed /\ PcType
  BY InvTypes DEF LibInv, StepOf
<1>1. ASSUME NEW x \in Env, x # e, fault'[x].at \in {"copy", "map"}
      PROVE  as'[x][fault'[x].va].perm = "cow"
  <2>1. fault'[x] = fault[x]
    BY <1>0, <1>1 DEF StepOf, StoreStep, FaultStep, PanicStep, TempGetsStep, TempFilledStep,
       TempMappedStep, TempGoneStep, JumpStep, LeaveStep, BirthStep, GiveStep, ProtectStep,
       XstackStep, KidXstackStep, XstackCopyStep, XstackGoneStep, StartStep, ExitStep,
       FaultIs, Calling
  <2>2. fault[x] # NoFault /\ fault[x].va \in UserVa /\ fault[x].va \in Va
    BY <1>0, <1>1, <2>1, ProgramFacts, PageFacts
  <2>3. life[x] # "embryo"
    BY <1>0, <2>2 DEF Idle
  <2>4. pc[e].at \in KidAt => pc[e].kid # x
    BY SMTT(40), <1>0, <2>3 DEF KidOwn
  <2>5. \A v \in Va : as'[x][v] = as[x][v]
    BY <1>0, <1>1, <2>4 DEF StepOf, StoreStep, FaultStep, PanicStep, TempGetsStep,
       TempFilledStep, TempMappedStep, TempGoneStep, JumpStep, LeaveStep, BirthStep, GiveStep,
       ProtectStep, XstackStep, KidXstackStep, XstackCopyStep, XstackGoneStep, StartStep,
       ExitStep, Sets, Gets, KidAt
  <2> QED
    BY <1>0, <1>1, <2>1, <2>2, <2>5 DEF FaultCow
<1>2. ASSUME fault'[e].at \in {"copy", "map"}
      PROVE  as'[e][fault'[e].va].perm = "cow"
  <2>1. CASE TempGetsStep(e)
    <3>1. fault[e].va \in Va /\ fault[e].va # "pftemp" /\ as[e][fault[e].va].perm = "cow"
      BY <1>0, <2>1, ProgramFacts, PageFacts DEF TempGetsStep
    <3>2. fault'[e].va = fault[e].va
      BY <2>1 DEF TempGetsStep, FaultIs
    <3>3. as'[e][fault[e].va] = as[e][fault[e].va]
      BY <2>1, <3>1 DEF TempGetsStep, Gets, Sets
    <3> QED
      BY <3>1, <3>2, <3>3
  <2>2. CASE TempFilledStep(e)
    <3>1. fault'[e].va = fault[e].va /\ fault[e].at = "copy" /\ as' = as
      BY <2>2 DEF TempFilledStep, FaultIs
    <3> QED
      BY <1>0, <3>1 DEF FaultCow
  <2>3. CASE StoreStep(e) \/ PanicStep(e)
    BY <1>0, <1>2, <2>3 DEF StoreStep, PanicStep, FaultCow
  <2>4. CASE FaultStep(e) \/ TempMappedStep(e) \/ TempGoneStep(e)
    <3>1. fault'[e].at \in {"check", "unmap", "none"}
      <4>1. NoFault.at = "none"
        BY DEF NoFault
      <4>2. CASE FaultStep(e)
        BY <4>2 DEF FaultStep, FaultIs
      <4>3. CASE TempMappedStep(e)
        BY <4>3 DEF TempMappedStep, FaultIs
      <4>4. CASE TempGoneStep(e)
        BY <4>1, <4>4 DEF TempGoneStep, FaultIs
      <4> QED
        BY <2>4, <4>2, <4>3, <4>4
    <3> QED
      BY <1>2, <3>1
  <2>5. CASE Calling(e)
    BY <1>2, <2>5 DEF Calling, NoFault
  <2> QED
    BY <2>1, <2>2, <2>3, <2>4, <2>5 DEF StepOf, JumpStep, LeaveStep, BirthStep, GiveStep,
       ProtectStep, XstackStep, KidXstackStep, XstackCopyStep, XstackGoneStep, StartStep, ExitStep
<1> QED
  BY <1>1, <1>2 DEF FaultCow

LEMMA GetsEntry ==
    ASSUME NEW p \in Env, NEW q \in Va, Gets(p, q)
    PROVE  \E f \in Frame :
              /\ \A x \in Env, v \in Va : as[x][v].frame # f
              /\ as'[p][q].frame = f /\ as'[p][q].perm = "w"
              /\ \A x \in Env, v \in Va : ~(x = p /\ v = q) => as'[x][v] = as[x][v]
              /\ BytesBut(f)
<1>1. PICK f \in Frame :
         /\ \A x \in Env, v \in Va : as[x][v].frame # f
         /\ Sets(p, q, f, "w") /\ BytesBut(f)
  BY DEF Gets
<1> QED
  BY <1>1 DEF Sets

\* A step of program e leaves the others where they are, and their memory too,
\* but for the pages of its child.
LEMMA Bystander ==
    ASSUME LibInv, NEW e \in Env, StepOf(e), NEW x \in Env, x # e
    PROVE  /\ pc'[x] = pc[x] /\ fault'[x] = fault[x]
           /\ as'[x]["pftemp"] = as[x]["pftemp"]
           /\ life[x] \in {"run", "stuck"} =>
                 life'[x] = life[x] /\ \A v \in Va : as'[x][v] = as[x][v]
           /\ ~(pc[e].at \in KidAt /\ pc[e].kid = x) => \A v \in Va : as'[x][v] = as[x][v]
<1>0. /\ KidOwn /\ life[e] = "run" /\ "pftemp" \in Va /\ "pftemp" \notin UserVa
      /\ \A j \in 1 .. Len(Pages) : Pages[j] \in UserVa
  BY PageFacts DEF LibInv, StepOf
<1>1. pc'[x] = pc[x] /\ fault'[x] = fault[x]
  BY <1>0 DEF StepOf, StoreStep, FaultStep, PanicStep, TempGetsStep, TempFilledStep,
     TempMappedStep, TempGoneStep, JumpStep, LeaveStep, BirthStep, GiveStep, ProtectStep,
     XstackStep, KidXstackStep, XstackCopyStep, XstackGoneStep, StartStep, ExitStep, At,
     FaultIs, Calling
<1>2. CASE pc[e].at \in KidAt /\ pc[e].kid = x
  <2>1. life[x] = "embryo"
    BY <1>0, <1>2 DEF KidOwn
  <2>2. CASE GiveStep(e)
    <3>1. Pages[pc[e].i] # "pftemp"
      <4>1. pc[e].i \in 1 .. Len(Pages) + 1 /\ pc[e].i <= Len(Pages)
        BY <2>2, PcFacts, InvTypes DEF GiveStep, LibInv, InLoop
      <4> QED
        BY <1>0, <4>1, PageFacts
    <3> QED
      BY <1>0, <1>1, <1>2, <2>1, <2>2, <3>1 DEF GiveStep, Sets
  <2>3. CASE ~GiveStep(e)
    <3>1. as'[x]["pftemp"] = as[x]["pftemp"]
      BY <1>0, <2>3 DEF StepOf, StoreStep, FaultStep, PanicStep, TempGetsStep, TempFilledStep,
       TempMappedStep, TempGoneStep, JumpStep, LeaveStep, BirthStep, ProtectStep,
       XstackStep, KidXstackStep, XstackCopyStep, XstackGoneStep, StartStep, ExitStep,
       Sets, Gets
    <3> QED
      BY <1>1, <1>2, <2>1, <3>1
  <2> QED
    BY <2>2, <2>3
<1>3. CASE ~(pc[e].at \in KidAt /\ pc[e].kid = x)
  <2>1. \A v \in Va : as'[x][v] = as[x][v]
    BY <1>0, <1>3 DEF StepOf, StoreStep, FaultStep, PanicStep, TempGetsStep,
       TempFilledStep, TempMappedStep, TempGoneStep, JumpStep, LeaveStep, BirthStep, GiveStep,
       ProtectStep, XstackStep, KidXstackStep, XstackCopyStep, XstackGoneStep, StartStep,
       ExitStep, Sets, Gets, KidAt
  <2>2. life[x] \in {"run", "stuck"} => life'[x] = life[x]
    BY <1>0, <1>3 DEF StepOf, StoreStep, FaultStep, PanicStep, TempGetsStep,
       TempFilledStep, TempMappedStep, TempGoneStep, JumpStep, LeaveStep, BirthStep, GiveStep,
       ProtectStep, XstackStep, KidXstackStep, XstackCopyStep, XstackGoneStep, StartStep,
       ExitStep, LifeIs, KidAt
  <2> QED
    BY <1>0, <1>1, <2>1, <2>2
<1> QED
  BY <1>2, <1>3

\* Whether a fault is being served at PFTEMP, or fork has its child's stack there.
TempUsed(e) ==
    fault[e].at \in {"copy", "map", "unmap"} \/ pc[e].at \in {"xcopy", "xunmap"}

LEMMA PftempFreeKept ==
    ASSUME LibInv, NEW e \in Env, StepOf(e), TypeOK'
    PROVE  PftempFree'
<1>0. /\ PftempFree /\ InLoop /\ TypeOK /\ Typed /\ PcType /\ "pftemp" \in Va
      /\ "pftemp" \notin UserVa /\ "xstack" # "pftemp" /\ life[e] = "run" /\ KidOwn
  BY InvTypes, PageFacts DEF LibInv, ForkInv, StepOf
<1>1. ASSUME NEW x \in Env, x # e PROVE Mapped(x, "pftemp")' <=> TempUsed(x)'
  BY <1>0, <1>1, Bystander DEF PftempFree, Mapped, TempUsed
<1>2. Mapped(e, "pftemp") <=> TempUsed(e)
  BY <1>0 DEF PftempFree, TempUsed
<1>3. Mapped(e, "pftemp")' <=> TempUsed(e)'
  <2>0. NoFault.at = "none" /\ NoMap.perm = "none"
    BY DEF NoFault, NoMap
  <2>1. CASE StoreStep(e) \/ PanicStep(e)
    BY <1>2, <2>1 DEF StoreStep, PanicStep, Mapped, TempUsed
  <2>2. CASE FaultStep(e)
    <3>1. fault'[e].at = "check" /\ fault[e].at = "none" /\ as' = as /\ pc' = pc
      BY <2>0, <2>2 DEF FaultStep, FaultIs
    <3> QED
      BY <1>2, <3>1 DEF Mapped, TempUsed
  <2>3. CASE TempGetsStep(e)
    <3>1. fault'[e].at = "copy" /\ as'[e]["pftemp"].perm = "w"
      BY <1>0, <2>3, GetsEntry DEF TempGetsStep, FaultIs
    <3> QED
      BY <2>0, <3>1 DEF Mapped, TempUsed
  <2>4. CASE TempFilledStep(e)
    <3>1. fault'[e].at = "map" /\ fault[e].at = "copy" /\ as' = as
      BY <2>4 DEF TempFilledStep, FaultIs
    <3> QED
      BY <1>2, <3>1 DEF Mapped, TempUsed
  <2>5. CASE TempMappedStep(e)
    <3>1. /\ fault'[e].at = "unmap" /\ fault[e].at = "map"
          /\ Sets(e, fault[e].va, as[e]["pftemp"].frame, "w")
      BY <2>5 DEF TempMappedStep, FaultIs
    <3>2. fault[e].va # "pftemp"
      BY <1>0, <2>0, <3>1, ProgramFacts
    <3>3. as'[e]["pftemp"] = as[e]["pftemp"]
      BY <1>0, <3>1, <3>2 DEF Sets
    <3> QED
      BY <1>2, <3>1, <3>3 DEF Mapped, TempUsed
  <2>6. CASE TempGoneStep(e)
    <3>1. fault'[e].at = "none" /\ as'[e]["pftemp"] = NoMap /\ fault[e].at = "unmap" /\ pc' = pc
      BY <1>0, <2>0, <2>6 DEF TempGoneStep, FaultIs, Sets, NoMap
    <3>2. pc[e].at \notin Late
      BY <1>0, <2>0, <3>1 DEF InLoop
    <3> QED
      BY <3>1, <3>2 DEF Mapped, TempUsed, Late
  <2>7. CASE KidXstackStep(e)
    <3>1. as'[e]["pftemp"].perm = "w" /\ pc'[e].at = "xcopy"
      BY <1>0, <2>7 DEF KidXstackStep, Sets, At
    <3> QED
      BY <2>0, <3>1 DEF Mapped, TempUsed
  <2>8. CASE XstackGoneStep(e)
    <3>1. as'[e]["pftemp"] = NoMap /\ pc'[e].at = "kidupcall" /\ fault'[e].at = "none"
      BY <1>0, <2>0, <2>8 DEF XstackGoneStep, Sets, At, Calling, NoMap
    <3> QED
      BY <3>1 DEF Mapped, TempUsed
  <2>9. CASE XstackCopyStep(e)
    <3>1. as' = as /\ pc'[e].at = "xunmap" /\ pc[e].at = "xcopy"
      BY <2>9 DEF XstackCopyStep, At
    <3> QED
      BY <1>2, <3>1 DEF Mapped, TempUsed
  <2>10. CASE ExitStep(e)
    <3>1. as'[e]["pftemp"] = NoMap /\ pc'[e].at = "user" /\ fault'[e].at = "none"
      BY <1>0, <2>0, <2>10 DEF ExitStep, Calling
    <3> QED
      BY <3>1 DEF Mapped, TempUsed
  <2>11. CASE JumpStep(e) \/ LeaveStep(e) \/ BirthStep(e) \/ StartStep(e)
    <3>1. /\ as' = as /\ pc'[e].at \notin {"xcopy", "xunmap"}
          /\ pc[e].at \notin {"xcopy", "xunmap"} /\ fault' = fault
      BY <2>11 DEF JumpStep, LeaveStep, BirthStep, StartStep, At, Calling
    <3> QED
      BY <1>2, <3>1 DEF Mapped, TempUsed
  <2>12. CASE GiveStep(e) \/ ProtectStep(e)
    <3>1. /\ pc'[e].at \notin {"xcopy", "xunmap"}
          /\ pc[e].at \in {"dupchild", "dupself"} /\ fault' = fault
      BY <2>12 DEF GiveStep, ProtectStep, At, Calling
    <3>2. Pages[pc[e].i] # "pftemp"
      <4>1. pc[e].i \in 1 .. Len(Pages) + 1 /\ pc[e].i <= Len(Pages)
        BY <1>0, <3>1, PcFacts DEF InLoop
      <4> QED
        BY <1>0, <4>1, PageFacts
    <3>3. as'[e]["pftemp"] = as[e]["pftemp"]
      BY <1>0, <2>12, <3>2 DEF GiveStep, ProtectStep, Sets
    <3> QED
      BY <1>2, <3>1, <3>3 DEF Mapped, TempUsed
  <2>13. CASE XstackStep(e)
    <3>1. /\ pc'[e].at \notin {"xcopy", "xunmap"}
          /\ pc[e].at \in {"handler", "xalloc"} /\ fault' = fault
      BY <2>13 DEF XstackStep, At, Calling
    <3>3. as'[e]["pftemp"] = as[e]["pftemp"]
      BY <1>0, <2>13 DEF XstackStep, Gets, Sets
    <3> QED
      BY <1>2, <3>1, <3>3 DEF Mapped, TempUsed
  <2> QED
    BY <2>1, <2>2, <2>3, <2>4, <2>5, <2>6, <2>7, <2>8, <2>9, <2>10, <2>11, <2>12, <2>13
       DEF StepOf
<1> QED
  BY <1>1, <1>3 DEF PftempFree, TempUsed

\* XstackPrivate, one pair of mappings at a time.
XTemp(x) == pc[x].at \in {"xcopy", "xunmap"}
Alone(y, x, v) ==
    Mapped(y, "xstack") =>
        /\ as[y]["xstack"].perm = "w"
        /\ Share(y, "xstack", x, v) => (x = y /\ v = "xstack") \/ (v = "pftemp" /\ XTemp(x))
XstackAlone == \A y, x \in Env, v \in Va : Alone(y, x, v)

LEMMA XstackPairs == XstackPrivate => XstackAlone
<1> SUFFICES ASSUME XstackPrivate, NEW y \in Env, NEW x \in Env, NEW v \in Va
             PROVE  Alone(y, x, v)
  BY DEF XstackAlone
<1>1. ASSUME Mapped(y, "xstack"), Share(y, "xstack", x, v), ~(x = y /\ v = "xstack")
      PROVE  v = "pftemp" /\ XTemp(x)
  <2> DEFINE z == <<x, v>>
  <2>1. z \in (Env \X Va) \ {<<y, "xstack">>} /\ z[1] = x /\ z[2] = v
    BY <1>1
  <2> HIDE DEF z
  <2> QED
    BY <1>1, <2>1 DEF XstackPrivate, Share, XTemp
<1> QED
  BY <1>1 DEF XstackPrivate, Alone

LEMMA PairsXstack == XstackAlone' => XstackPrivate'
<1> SUFFICES ASSUME XstackAlone', NEW y \in Env, Mapped(y, "xstack")'
             PROVE  /\ as'[y]["xstack"].perm = "w"
                    /\ \A z \in (Env \X Va) \ {<<y, "xstack">>} :
                          as'[z[1]][z[2]].frame = as'[y]["xstack"].frame
                            => z[2] = "pftemp" /\ pc'[z[1]].at \in {"xcopy", "xunmap"}
  BY DEF XstackPrivate
<1>1. ASSUME NEW z \in (Env \X Va) \ {<<y, "xstack">>},
             as'[z[1]][z[2]].frame = as'[y]["xstack"].frame
      PROVE  z[2] = "pftemp" /\ pc'[z[1]].at \in {"xcopy", "xunmap"}
  <2>1. z[1] \in Env /\ z[2] \in Va /\ ~(z[1] = y /\ z[2] = "xstack")
    OBVIOUS
  <2>2. Alone(y, z[1], z[2])'
    BY <2>1 DEF XstackAlone
  <2> QED
    BY <1>1, <2>1, <2>2 DEF Alone, Share, XTemp
<1>2. as'[y]["xstack"].perm = "w"
  <2>1. "xstack" \in Va
    BY PageFacts
  <2>2. Alone(y, y, "xstack")'
    BY <2>1 DEF XstackAlone
  <2> QED
    BY <2>2 DEF Alone
<1> QED
  BY <1>1, <1>2

LEMMA XstackKept ==
    ASSUME LibInv, NEW e \in Env, StepOf(e), TypeOK'
    PROVE  XstackAlone'
<1>0. /\ XstackAlone /\ InLoop /\ TypeOK /\ Typed /\ PcType /\ "pftemp" \in Va
      /\ "xstack" \in Va
      /\ "pftemp" \notin UserVa /\ "xstack" \notin UserVa /\ UserVa \subseteq Va
      /\ life[e] = "run" /\ KidOwn
  BY InvTypes, PageFacts, XstackPairs DEF LibInv, ForkInv, StepOf
<1> SUFFICES ASSUME NEW y \in Env, NEW x \in Env, NEW v \in Va
             PROVE  Alone(y, x, v)'
  BY DEF XstackAlone
<1>1. x # e => XTemp(x)' = XTemp(x)
  BY Bystander DEF XTemp
<1>2. -1 \notin Frame /\ NoMap.frame = -1
  BY FrameAssumption DEF NoMap
<1>a. Alone(y, x, v)
  BY <1>0 DEF XstackAlone
<1>f. Mapped(y, "xstack") => as[y]["xstack"].frame \in Frame
  BY <1>0, MappedType
\* Nothing changes but the place of e.
<1>3. ASSUME as' = as, XTemp(e) => XTemp(e)'
      PROVE  Alone(y, x, v)'
  BY <1>1, <1>3, <1>a DEF Alone, Mapped, Share
\* A fresh frame.
<1>4. ASSUME NEW p \in Env, NEW q \in {"xstack", "pftemp"}, Gets(p, q),
             XTemp(e) => XTemp(e)'
      PROVE  Alone(y, x, v)'
  <2>1. q \in Va
    BY <1>0
  <2>2. PICK f \in Frame :
              /\ \A x1 \in Env, v1 \in Va : as[x1][v1].frame # f
              /\ as'[p][q].frame = f /\ as'[p][q].perm = "w"
              /\ \A x1 \in Env, v1 \in Va : ~(x1 = p /\ v1 = q) => as'[x1][v1] = as[x1][v1]
              /\ BytesBut(f)
    BY <1>4, <2>1, GetsEntry
  <2>3. as[x][v].frame # f /\ as[y]["xstack"].frame # f
    BY <1>0, <2>2
  <2>4. CASE y = p /\ q = "xstack"
    BY <2>2, <2>3, <2>4 DEF Alone, Share
  <2>5. CASE ~(y = p /\ q = "xstack")
    <3>1. as'[y]["xstack"] = as[y]["xstack"]
      BY <1>0, <2>2, <2>5
    <3>2. CASE x = p /\ v = q
      BY <1>a, <2>2, <2>3, <2>5, <3>1, <3>2 DEF Alone, Share, Mapped
    <3>3. CASE ~(x = p /\ v = q)
      BY <1>1, <1>4, <1>a, <2>2, <3>1, <3>3 DEF Alone, Share, Mapped
    <3> QED
      BY <3>2, <3>3
  <2> QED
    BY <2>4, <2>5
\* A page of a program is mapped again, and is no exception stack.
<1>5. ASSUME NEW p \in Env, NEW q \in UserVa, NEW s \in Env, NEW sv \in Va, NEW perm,
             Sets(p, q, as[s][sv].frame, perm), sv # "xstack",
             sv = "pftemp" => ~XTemp(s), XTemp(e) => XTemp(e)'
      PROVE  Alone(y, x, v)'
  <2>1. /\ as'[p][q].frame = as[s][sv].frame
        /\ \A x1 \in Env, v1 \in Va : ~(x1 = p /\ v1 = q) => as'[x1][v1] = as[x1][v1]
    BY <1>5 DEF Sets
  <2>2. Mapped(y, "xstack") => as[y]["xstack"].frame # as[s][sv].frame
    <3>1. Alone(y, s, sv)
      BY <1>0 DEF XstackAlone
    <3> QED
      BY <1>5, <3>1 DEF Alone, Share
  <2>3. as'[y]["xstack"] = as[y]["xstack"]
    BY <1>0, <2>1
  <2>4. CASE x = p /\ v = q
    BY <1>a, <2>1, <2>2, <2>3, <2>4 DEF Alone, Share, Mapped
  <2>5. CASE ~(x = p /\ v = q)
    BY <1>1, <1>5, <1>a, <2>1, <2>3, <2>5 DEF Alone, Share, Mapped
  <2> QED
    BY <2>4, <2>5
\* PFTEMP is given up.
<1>6. ASSUME Sets(e, "pftemp", -1, "none") PROVE Alone(y, x, v)'
  <2>1. /\ as'[e]["pftemp"].frame = -1
        /\ \A x1 \in Env, v1 \in Va : ~(x1 = e /\ v1 = "pftemp") => as'[x1][v1] = as[x1][v1]
    BY <1>6 DEF Sets
  <2>2. as'[y]["xstack"] = as[y]["xstack"]
    BY <1>0, <2>1
  <2>3. CASE x = e /\ v = "pftemp"
    BY <1>2, <1>a, <1>f, <2>1, <2>2, <2>3 DEF Alone, Share, Mapped
  <2>4. CASE ~(x = e /\ v = "pftemp")
    BY <1>1, <1>a, <2>1, <2>2, <2>4 DEF Alone, Share, Mapped
  <2> QED
    BY <2>3, <2>4
<1>7. CASE ExitStep(e)
  <2>1. /\ pc' = pc /\ \A v1 \in Va : as'[e][v1] = NoMap
        /\ \A x1 \in Env \ {e} : as'[x1] = as[x1]
    BY <1>7 DEF ExitStep
  <2>2. CASE y = e
    BY <1>0, <2>1, <2>2 DEF Alone, Mapped
  <2>3. CASE y # e /\ x = e
    BY <1>2, <1>a, <1>f, <2>1, <2>3 DEF Alone, Share, Mapped
  <2>4. CASE y # e /\ x # e
    BY <1>1, <1>a, <2>1, <2>4 DEF Alone, Share, Mapped
  <2> QED
    BY <2>2, <2>3, <2>4
<1>8. CASE KidXstackStep(e)
  <2>1. /\ pc[e].kid \in Env /\ XTemp(e)' /\ Mapped(pc[e].kid, "xstack")
        /\ Sets(e, "pftemp", as[pc[e].kid]["xstack"].frame, "w")
    BY <1>0, <1>8 DEF KidXstackStep, At, KidOwn, KidAt, XTemp
  <2>2. \A x1 \in Env, v1 \in Va : ~(x1 = e /\ v1 = "pftemp") => as'[x1][v1] = as[x1][v1]
    BY <2>1 DEF Sets
  <2>3. as'[y]["xstack"] = as[y]["xstack"]
    BY <1>0, <2>2
  <2>4. CASE x = e /\ v = "pftemp"
    BY <1>a, <2>1, <2>3, <2>4 DEF Alone, Share, Mapped
  <2>5. CASE ~(x = e /\ v = "pftemp")
    BY <1>1, <1>a, <2>1, <2>2, <2>3, <2>5 DEF Alone, Share, Mapped
  <2> QED
    BY <2>4, <2>5
<1>9. CASE StoreStep(e) \/ FaultStep(e) \/ PanicStep(e) \/ TempFilledStep(e) \/ JumpStep(e)
           \/ LeaveStep(e) \/ BirthStep(e) \/ XstackCopyStep(e) \/ StartStep(e)
  BY <1>3, <1>9 DEF StoreStep, FaultStep, PanicStep, TempFilledStep, JumpStep,
     LeaveStep, BirthStep, XstackCopyStep, StartStep, At, XTemp
<1>10. CASE TempGetsStep(e)
  BY <1>4, <1>10 DEF TempGetsStep, XTemp
<1>11. CASE XstackStep(e)
  <2>1. pc[e].at = "xalloc" => pc[e].kid \in Env
    BY <1>0 DEF KidOwn, KidAt
  <2> QED
    BY <1>4, <1>11, <2>1 DEF XstackStep, XTemp
<1>12. CASE TempMappedStep(e)
  <2>1. fault[e].at = "map" /\ fault[e].va \in UserVa /\ fault[e] # NoFault
    BY <1>0, <1>12, ProgramFacts DEF TempMappedStep
  <2>2. ~XTemp(e)
    BY <1>0, <2>1 DEF InLoop, Late, XTemp
  <2> QED
    BY <1>0, <1>5, <1>12, <2>1, <2>2 DEF TempMappedStep
<1>13. CASE GiveStep(e) \/ ProtectStep(e)
  <2>1. pc[e].at \in {"dupchild", "dupself"} /\ pc[e].kid \in Env /\ ~XTemp(e)
    BY <1>0, <1>13 DEF GiveStep, ProtectStep, KidOwn, KidAt, XTemp
  <2>2. Pages[pc[e].i] \in UserVa
    <3>1. pc[e].i \in 1 .. Len(Pages) + 1 /\ pc[e].i <= Len(Pages)
      BY <1>0, <2>1, PcFacts DEF InLoop
    <3> QED
      BY <3>1, PageFacts
  <2> DEFINE va == Pages[pc[e].i]
  <2>3. va \in UserVa /\ va # "xstack" /\ va # "pftemp" /\ va \in Va
    BY <1>0, <2>2
  <2>4. \E p \in Env : \E perm : Sets(p, va, as[e][va].frame, perm)
    BY <1>13, <2>1 DEF GiveStep, ProtectStep
  <2> HIDE DEF va
  <2> QED
    BY <1>5, <2>1, <2>3, <2>4
<1>14. CASE TempGoneStep(e) \/ XstackGoneStep(e)
  BY <1>6, <1>14 DEF TempGoneStep, XstackGoneStep
<1> QED
  BY <1>7, <1>8, <1>9, <1>10, <1>11, <1>12, <1>13, <1>14 DEF StepOf

\* A child is lost with all its pages, before anybody else has them.
LEMMA KidLostKept ==
    ASSUME LibInv, NEW e \in Env, KidLostStep(e), TypeOK'
    PROVE  LibInv'
<1>0. /\ KidOwn /\ Idle /\ Unmapped /\ InLoop /\ FaultCow /\ PftempFree /\ XstackAlone
      /\ TypeOK /\ Typed /\ PcType /\ life[e] = "run"
      /\ "stack" \in Va /\ "xstack" \in Va /\ "pftemp" \in Va /\ UserVa \subseteq Va
  BY InvTypes, PageFacts, XstackPairs DEF LibInv, ForkInv, KidLostStep
<1>1. PICK c \in Env : c = pc[e].kid /\ life[c] = "embryo" /\ c # e
  <2>1. pc[e].at \in KidAt
    BY DEF KidLostStep, KidAt
  <2> QED
    BY <1>0, <2>1 DEF KidOwn
<1>2. /\ LifeIs(c, "free") /\ (\A v \in Va : as'[c][v] = NoMap)
      /\ (\A x \in Env \ {c} : as'[x] = as[x]) /\ fault' = fault
      /\ pc[e].at = "kidupcall" /\ pc'[e].at = "gone" /\ (\A x \in Env \ {e} : pc'[x] = pc[x])
      /\ fault[e] = NoFault
  BY <1>1 DEF KidLostStep, At, Calling
<1>3. /\ pc[c].at = "user" /\ fault[c] = NoFault /\ NoFault.at = "none"
      /\ pc[e].at \in KidAt /\ pc'[e].at \notin KidAt /\ pc'[e].at \notin Late
      /\ pc'[c] = pc[c]
  BY <1>0, <1>1, <1>2 DEF Idle, KidAt, Late, NoFault
<1>4. \A x \in Env \ {e} : pc[x].at \in KidAt => pc[x].kid # c
  BY <1>0, <1>1, <1>3 DEF KidOwn
<1>5. KidOwn'
  BY <1>0, <1>2, <1>3, <1>4 DEF KidOwn, LifeIs
<1>6. Idle'
  BY <1>0, <1>1, <1>2, <1>3 DEF Idle, LifeIs
<1>7. Unmapped'
  BY <1>0, <1>2, ZenonT(60) DEF Unmapped, LifeIs
<1>8. InLoop'
  <2>1. ASSUME NEW x \in Env, x # e
        PROVE  /\ pc'[x].at \in {"dupchild", "dupself"} => pc'[x].i <= Len(Pages)
               /\ pc'[x].at \in Late => fault'[x] = NoFault /\ Writable(x, "stack")'
    <3>1. CASE x = c
      BY <1>2, <1>3, <3>1 DEF Late
    <3>2. CASE x # c
      BY <1>0, <1>2, <2>1, <3>2 DEF InLoop, Writable
    <3> QED
      BY <3>1, <3>2
  <2> QED
    BY <1>2, <1>3, <2>1 DEF InLoop
<1>9. FaultCow'
  BY <1>0, <1>2, <1>3 DEF FaultCow
<1>10. PftempFree'
  <2>1. ASSUME NEW x \in Env PROVE Mapped(x, "pftemp")' <=> TempUsed(x)'
    <3>1. CASE x = c
      BY <1>0, <1>2, <1>3, <3>1 DEF Mapped, TempUsed
    <3>2. CASE x = e
      <4>1. as'[e] = as[e]
        BY <1>1, <1>2
      <4>2. Mapped(e, "pftemp") <=> TempUsed(e)
        BY <1>0 DEF PftempFree, TempUsed
      <4> QED
        BY <1>2, <3>2, <4>1, <4>2 DEF Mapped, TempUsed
    <3>3. CASE x # c /\ x # e
      <4>1. as'[x] = as[x] /\ pc'[x] = pc[x]
        BY <1>2, <3>3
      <4>2. Mapped(x, "pftemp") <=> TempUsed(x)
        BY <1>0 DEF PftempFree, TempUsed
      <4> QED
        BY <1>2, <4>1, <4>2 DEF Mapped, TempUsed
    <3> QED
      BY <3>1, <3>2, <3>3
  <2> QED
    BY <2>1 DEF PftempFree, TempUsed
<1>11. XstackAlone'
  <2> SUFFICES ASSUME NEW y \in Env, NEW x \in Env, NEW v \in Va
               PROVE  Alone(y, x, v)'
    BY DEF XstackAlone
  <2>1. Alone(y, x, v)
    BY <1>0 DEF XstackAlone
  <2>2. Mapped(y, "xstack") => as[y]["xstack"].frame \in Frame
    BY <1>0, MappedType
  <2>3. -1 \notin Frame /\ NoMap.frame = -1
    BY FrameAssumption DEF NoMap
  <2>4. XTemp(x)' = XTemp(x)
    BY <1>2 DEF XTemp
  <2>5. CASE y = c
    BY <1>0, <1>2, <2>5 DEF Alone, Mapped
  <2>6. CASE y # c /\ x = c
    BY <1>2, <2>1, <2>2, <2>3, <2>6 DEF Alone, Share, Mapped
  <2>7. CASE y # c /\ x # c
    BY <1>2, <2>1, <2>4, <2>7 DEF Alone, Share, Mapped
  <2> QED
    BY <2>5, <2>6, <2>7
<1> QED
  BY <1>5, <1>6, <1>7, <1>8, <1>9, <1>10, <1>11, PairsXstack DEF LibInv, ForkInv

-----------------------------------------------------------------------------
(* The library's invariant as a theorem.                                   *)

LEMMA LibInvInit == Init => LibInv
<1> SUFFICES ASSUME Init PROVE LibInv
  OBVIOUS
<1>1. /\ life = [e \in Env |-> IF e = Root THEN "run" ELSE "free"]
      /\ pc = [e \in Env |-> User] /\ fault = [e \in Env |-> NoFault]
      /\ bytes = [f \in Frame |-> 0]
      /\ upcall = [e \in Env |-> FALSE] /\ handler = [e \in Env |-> FALSE]
  BY DEF Init
<1>2. PICK home \in [UserVa -> Frame] :
          as = [e \in Env |-> [va \in Va |->
                  IF e # Root \/ va \notin UserVa THEN NoMap
                  ELSE [frame |-> home[va], perm |-> IF va \in ReadOnly THEN "r" ELSE "w"]]]
  BY DEF Init
<1>3. /\ as \in [Env -> [Va -> Mapping]]
      /\ \A e \in Env : e # Root => \A va \in Va : as[e][va] = NoMap
      /\ \A e \in Env : as[e]["xstack"] = NoMap /\ as[e]["pftemp"] = NoMap
  <2>1. ASSUME NEW e \in Env, NEW va \in Va
        PROVE  /\ as[e][va] = IF e # Root \/ va \notin UserVa THEN NoMap
                              ELSE [frame |-> home[va],
                                    perm |-> IF va \in ReadOnly THEN "r" ELSE "w"]
               /\ as[e][va] \in Mapping
    <3>1. as[e][va] = IF e # Root \/ va \notin UserVa THEN NoMap
                      ELSE [frame |-> home[va],
                            perm |-> IF va \in ReadOnly THEN "r" ELSE "w"]
      BY <1>2
    <3>2. va \in UserVa => home[va] \in Frame
      BY <1>2
    <3> QED
      BY <3>1, <3>2 DEF Mapping
  <2>2. as \in [Env -> [Va -> Mapping]]
    BY <1>2, <2>1
  <2> QED
    BY <2>1, <2>2, PageFacts
<1>4. User.at = "user" /\ NoFault.at = "none" /\ User \in Locals
  BY UserIsLocal DEF User, NoFault
<1>5. Typed /\ FlagsTyped
  <2>1. bytes \in [Frame -> Data]
    BY <1>1, DataAssumption
  <2>2. fault \in [Env -> FaultType]
    BY <1>1 DEF FaultType
  <2> QED
    BY <1>1, <1>3, <1>4, <2>1, <2>2 DEF Typed, FlagsTyped
<1>6. XstackPrivate /\ PftempFree
  BY <1>1, <1>3, <1>4 DEF XstackPrivate, PftempFree, Mapped
<1>7. KidOwn /\ Idle /\ Unmapped /\ InLoop /\ FaultCow
  BY <1>1, <1>3, <1>4 DEF KidOwn, Idle, Unmapped, InLoop, FaultCow, KidAt, Late
<1> QED
  BY <1>5, <1>6, <1>7, TypedIsTypeOK DEF LibInv, ForkInv

LEMMA LibInvNext == LibInv /\ [Next]_vars => LibInv'
<1> SUFFICES ASSUME LibInv, [Next]_vars PROVE LibInv'
  OBVIOUS
<1>1. CASE UNCHANGED vars
  <2>1. life' = life /\ as' = as /\ pc' = pc /\ fault' = fault
    BY <1>1 DEF vars
  <2>2. TypeOK'
    BY <1>1 DEF vars, LibInv, ForkInv, TypeOK
  <2>3. XstackPrivate' /\ PftempFree'
    BY <2>1 DEF LibInv, ForkInv, XstackPrivate, PftempFree, Mapped
  <2>4. KidOwn' /\ Idle' /\ Unmapped'
    BY <2>1 DEF LibInv, KidOwn, Idle, Unmapped
  <2>5. InLoop' /\ FaultCow'
    BY <2>1 DEF LibInv, InLoop, FaultCow, Writable
  <2> QED
    BY <2>2, <2>3, <2>4, <2>5 DEF LibInv, ForkInv
<1>2. CASE Next
  <2>1. TypeOK' /\ \E e \in Env : StepOf(e) \/ KidLostStep(e)
    BY <1>2, StepForms
  <2>2. PICK e \in Env : StepOf(e) \/ KidLostStep(e)
    BY <2>1
  <2>3. CASE StepOf(e)
    <3>1. XstackPrivate' /\ PftempFree'
      BY <2>1, <2>3, XstackKept, PairsXstack, PftempFreeKept
    <3>2. KidOwn' /\ Idle' /\ Unmapped' /\ InLoop' /\ FaultCow'
      BY <2>3, KidOwnKept, IdleKept, UnmappedKept, InLoopKept, FaultCowKept
    <3> QED
      BY <2>1, <3>1, <3>2 DEF LibInv, ForkInv
  <2>4. CASE KidLostStep(e)
    BY <2>1, <2>4, KidLostKept
  <2> QED
    BY <2>2, <2>3, <2>4
<1> QED
  BY <1>1, <1>2

\* For any number of programs, frames and pages, also when any call is refused a
\* page table: no exception stack is shared or copy-on-write, and pgfault and fork
\* never meet at PFTEMP, in every interleaving of their system calls.
THEOREM ForkSafety == Spec => []ForkInv
<1>1. LibInv => ForkInv
  BY DEF LibInv
<1> QED
  BY <1>1, LibInvInit, LibInvNext, PTL DEF Spec

-----------------------------------------------------------------------------
(* The memories, when page tables are not refused.                         *)

\* What the cases below share.
LEMMA CowFacts ==
    ASSUME LibInv, NEW e \in Env, StepOf(e)
    PROVE  /\ KidOwn /\ Idle /\ Unmapped /\ InLoop /\ FaultCow /\ PftempFree /\ XstackAlone
           /\ TypeOK /\ Typed /\ PcType /\ life[e] = "run"
           /\ "pftemp" \in Va /\ "xstack" \in Va /\ UserVa \subseteq Va
           /\ "pftemp" \notin UserVa /\ "xstack" \notin UserVa
           /\ NoFault.at = "none" /\ NoMap.perm = "none" /\ NoMap.frame = -1 /\ -1 \notin Frame
           /\ pc[e].at \in KidAt => pc[e].kid \in Env /\ life[pc[e].kid] = "embryo"
<1>1. NoFault.at = "none" /\ NoMap.perm = "none" /\ NoMap.frame = -1 /\ -1 \notin Frame
  BY FrameAssumption DEF NoFault, NoMap
<1> QED
  BY <1>1, InvTypes, PageFacts, XstackPairs DEF LibInv, ForkInv, StepOf, KidOwn

\* The page duppage is at.
LEMMA PageOfLoop ==
    ASSUME LibInv, NEW e \in Env, pc[e].at \in {"dupchild", "dupself"}
    PROVE  /\ pc[e].i \in 1 .. Len(Pages) /\ Pages[pc[e].i] \in UserVa
           /\ Pages[pc[e].i] \in Va /\ Pages[pc[e].i] # "xstack" /\ Pages[pc[e].i] # "pftemp"
<1>1. pc[e].i \in 1 .. Len(Pages) + 1 /\ pc[e].i <= Len(Pages)
  BY InvTypes, PcFacts DEF LibInv, InLoop
<1> QED
  BY <1>1, PageFacts

LEMMA PermsKept ==
    ASSUME LibInv, CowInv, NEW e \in Env, StepOf(e), TypeOK'
    PROVE  Perms'
<1>0. Perms /\ KidPages
  BY DEF CowInv
<1> SUFFICES ASSUME NEW x \in Env, NEW va \in UserVa PROVE PermOK(x, va)'
  BY DEF Perms
<1>1. PermOK(x, va) /\ va \in Va
  BY <1>0, CowFacts DEF Perms
<1>2. ASSUME as'[x][va] = as[x][va], life'[x] = life[x] PROVE PermOK(x, va)'
  BY <1>1, <1>2 DEF PermOK
<1>3. CASE StoreStep(e) \/ FaultStep(e) \/ TempFilledStep(e) \/ JumpStep(e) \/ LeaveStep(e)
           \/ XstackCopyStep(e)
  BY <1>2, <1>3 DEF StoreStep, FaultStep, TempFilledStep, JumpStep, LeaveStep, XstackCopyStep
<1>4. CASE TempGetsStep(e) \/ TempGoneStep(e) \/ XstackStep(e) \/ KidXstackStep(e)
           \/ XstackGoneStep(e)
  <2>1. as'[x][va] = as[x][va] /\ life' = life
    BY ZenonT(60), <1>1, <1>4, CowFacts DEF TempGetsStep, TempGoneStep, XstackStep, KidXstackStep,
       XstackGoneStep, Sets, Gets
  <2> QED
    BY <1>2, <2>1
<1>5. CASE PanicStep(e)
  BY <1>1, <1>5, CowFacts DEF PanicStep, LifeIs, PermOK
<1>6. CASE TempMappedStep(e)
  <2>1. CASE x = e /\ va = fault[e].va
    <3>1. as'[x][va].perm = "w" /\ life' = life
      BY <1>6, <2>1 DEF TempMappedStep, Sets
    <3>2. as[x][va].perm = "cow"
      BY <1>6, <2>1, CowFacts DEF TempMappedStep, FaultCow
    <3> QED
      BY <1>1, <2>1, <3>1, <3>2, CowFacts DEF PermOK
  <2>2. CASE ~(x = e /\ va = fault[e].va)
    BY <1>1, <1>2, <1>6, <2>2 DEF TempMappedStep, Sets
  <2> QED
    BY <2>1, <2>2
<1>7. CASE GiveStep(e)
  <2>0. pc[e].at = "dupchild" /\ pc[e].at \in KidAt /\ life' = life
    BY <1>7 DEF GiveStep, KidAt
  <2>1. CASE x = pc[e].kid /\ va = Pages[pc[e].i]
    <3>1. as'[x][va].perm = IF pc[e].cow THEN "cow" ELSE "r"
      BY <1>7, <2>1 DEF GiveStep, Sets
    <3>2. life[x] = "embryo" /\ pc[e].cow = (va \notin ReadOnly)
      BY <1>0, <2>0, <2>1, CowFacts DEF KidPages
    <3> QED
      BY <2>0, <3>1, <3>2 DEF PermOK
  <2>2. CASE ~(x = pc[e].kid /\ va = Pages[pc[e].i])
    BY <1>1, <1>2, <1>7, <2>0, <2>2 DEF GiveStep, Sets
  <2> QED
    BY <2>1, <2>2
<1>8. CASE ProtectStep(e)
  <2>0. pc[e].at = "dupself" /\ pc[e].at \in KidAt /\ life' = life
    BY <1>8 DEF ProtectStep, KidAt
  <2>1. CASE x = e /\ va = Pages[pc[e].i]
    <3>1. as'[x][va].perm = "cow"
      BY <1>8, <2>1 DEF ProtectStep, Sets
    <3>2. life[x] = "run" /\ pc[e].cow = (va \notin ReadOnly) /\ pc[e].cow
      BY <1>0, <2>0, <2>1, CowFacts DEF KidPages
    <3> QED
      BY <2>0, <3>1, <3>2 DEF PermOK
  <2>2. CASE ~(x = e /\ va = Pages[pc[e].i])
    BY <1>1, <1>2, <1>8, <2>0, <2>2 DEF ProtectStep, Sets
  <2> QED
    BY <2>1, <2>2
<1>9. CASE BirthStep(e)
  <2>1. PICK c \in Env : life[c] = "free" /\ LifeIs(c, "embryo") /\ as' = as
    BY <1>9 DEF BirthStep
  <2>2. CASE x = c
    <3>1. as'[x][va].perm = "none" /\ life'[x] = "embryo"
      BY <1>1, <2>1, <2>2, CowFacts DEF Unmapped, LifeIs
    <3> QED
      BY <3>1 DEF PermOK
  <2>3. CASE x # c
    BY <1>2, <2>1, <2>3 DEF LifeIs
  <2> QED
    BY <2>2, <2>3
<1>10. CASE StartStep(e)
  <2>0. pc[e].at = "runnable" /\ pc[e].at \in KidAt /\ LifeIs(pc[e].kid, "run") /\ as' = as
    BY <1>10 DEF StartStep, KidAt
  <2>1. CASE x = pc[e].kid
    <3>1. PICK j \in 1 .. Len(Pages) : Pages[j] = va
      BY PageFacts
    <3>2. pc[e].i = Len(Pages) + 1
      BY <1>0, <2>0 DEF KidPages, Late
    <3>3. j < pc[e].i
      BY <3>1, <3>2, PageFacts
    <3>4. Mapped(x, va)
      BY <1>0, <2>0, <2>1, <3>1, <3>3 DEF KidPages
    <3>5. as[x][va].perm # "none" /\ life[x] = "embryo"
      BY <1>1, <2>0, <2>1, <3>4, CowFacts, MappedType
    <3>6. life'[x] = "run"
      BY <2>0, <2>1 DEF LifeIs
    <3> QED
      BY <1>1, <2>0, <3>5, <3>6 DEF PermOK
  <2>2. CASE x # pc[e].kid
    BY <1>2, <2>0, <2>2 DEF LifeIs
  <2> QED
    BY <2>1, <2>2
<1>11. CASE ExitStep(e)
  <2>1. CASE x = e
    BY <1>11, <2>1 DEF ExitStep, LifeIs, PermOK
  <2>2. CASE x # e
    BY <1>2, <1>11, <2>2 DEF ExitStep, LifeIs
  <2> QED
    BY <2>1, <2>2
<1> QED
  BY <1>3, <1>4, <1>5, <1>6, <1>7, <1>8, <1>9, <1>10, <1>11 DEF StepOf

\* KidPages, one program at a time.
KidPage(x) ==
    pc[x].at \in KidAt =>
        /\ \A j \in 1 .. Len(Pages) :
              Mapped(pc[x].kid, Pages[j]) <=> j < pc[x].i \/ (j = pc[x].i /\ pc[x].at = "dupself")
        /\ pc[x].at \in {"dupchild", "dupself"} => pc[x].cow = (Pages[pc[x].i] \notin ReadOnly)
        /\ pc[x].at = "dupself" => pc[x].cow
        /\ pc[x].at \in Late \cup {"xalloc"} => pc[x].i = Len(Pages) + 1

LEMMA KidPagesKept ==
    ASSUME ~TablesFail, LibInv, CowInv, NEW e \in Env, StepOf(e), TypeOK'
    PROVE  KidPages'
<1>0. Perms /\ KidPages
  BY DEF CowInv
<1> SUFFICES ASSUME NEW x \in Env, pc'[x].at \in KidAt PROVE KidPage(x)'
  BY DEF KidPages, KidPage
<1>1. KidPage(x)
  BY <1>0 DEF KidPages, KidPage
<1>2. \A j \in 1 .. Len(Pages) : Pages[j] \in UserVa /\ Pages[j] \in Va
  BY PageFacts
\* The pages of the child stay, and so does the place.
<1>3. ASSUME pc'[x] = pc[x], \A v \in UserVa : as'[pc[x].kid][v] = as[pc[x].kid][v]
      PROVE  KidPage(x)'
  <2>1. \A j \in 1 .. Len(Pages) : Mapped(pc[x].kid, Pages[j])' = Mapped(pc[x].kid, Pages[j])
    BY <1>2, <1>3 DEF Mapped
  <2> QED
    BY <1>1, <1>3, <2>1 DEF KidPage, Mapped
<1>4. CASE x # e
  <2>1. pc'[x] = pc[x]
    BY <1>4, Bystander
  <2>2. pc[x].kid \in Env /\ life[pc[x].kid] = "embryo" /\ pc[x].kid # e
    BY <2>1, CowFacts DEF KidOwn
  <2>3. ~(pc[e].at \in KidAt /\ pc[e].kid = pc[x].kid)
    BY <1>4, <2>1, CowFacts DEF KidOwn
  <2>4. \A v \in Va : as'[pc[x].kid][v] = as[pc[x].kid][v]
    BY <2>2, <2>3, Bystander
  <2> QED
    BY <1>3, <2>1, <2>4, CowFacts
<1>5. CASE x = e
  <2>0. pc[e].at \in KidAt => pc[e].kid \in Env /\ pc[e].kid # e
    BY CowFacts
  <2>1. CASE StoreStep(e) \/ FaultStep(e) \/ PanicStep(e) \/ TempGetsStep(e)
             \/ TempFilledStep(e) \/ TempMappedStep(e) \/ TempGoneStep(e)
    <3>1. pc' = pc
      BY <2>1 DEF StoreStep, FaultStep, PanicStep, TempGetsStep, TempFilledStep,
         TempMappedStep, TempGoneStep
    <3>2. \A v \in UserVa : as'[pc[e].kid][v] = as[pc[e].kid][v]
      BY <1>5, <2>0, <2>1, <3>1, CowFacts DEF StoreStep, FaultStep, PanicStep, TempGetsStep,
         TempFilledStep, TempMappedStep, TempGoneStep, Gets, Sets
    <3> QED
      BY <1>3, <1>5, <3>1, <3>2
  <2>2. CASE JumpStep(e)
    <3>1. as' = as /\ pc[e].at \in KidAt
      BY <1>5, <2>2 DEF JumpStep, At, KidAt
    <3>2. life[e] = "run" /\ \A j \in 1 .. Len(Pages) : Mapped(e, Pages[j])
      <4>1. ASSUME NEW j \in 1 .. Len(Pages) PROVE Mapped(e, Pages[j])
        <5>1. PermOK(e, Pages[j]) /\ life[e] = "run"
          BY <1>0, <1>2, CowFacts DEF Perms
        <5>2. as[e][Pages[j]].perm # "none"
          BY <5>1 DEF PermOK
        <5> QED
          BY <1>2, <5>2, CowFacts, MappedType
      <4> QED
        BY <4>1, CowFacts
    <3>3. PICK at \in Places, i \in 1 .. Len(Pages) + 1, cow \in BOOLEAN :
             /\ At(e, at, i, pc[e].kid, cow)
             /\ \/ /\ pc[e].at = "pte" /\ pc[e].i > Len(Pages) /\ at = "xalloc"
                   /\ i = pc[e].i
                \/ pc[e].at = "kidupcall" /\ i = pc[e].i /\ at = "runnable"
                \/ /\ pc[e].at = "pte" /\ pc[e].i <= Len(Pages)
                   /\ Mapped(e, Pages[pc[e].i]) /\ at = "dupchild" /\ i = pc[e].i
                   /\ cow = (as[e][Pages[i]].perm # "r")
      <4>1. pc[e].at = "pte" /\ pc[e].i <= Len(Pages) => Mapped(e, Pages[pc[e].i])
        BY <3>2, CowFacts, PcFacts, PageFacts
      <4>2. pc[e].at \notin {"user", "upcall"}
        BY <3>1 DEF KidAt
      <4> QED
        BY ZenonT(60), <2>2, <4>1, <4>2 DEF JumpStep
    <3>4. \A j \in 1 .. Len(Pages) :
             Mapped(pc[e].kid, Pages[j]) <=> j < pc[e].i \/ (j = pc[e].i /\ pc[e].at = "dupself")
      BY <1>1, <1>5, <3>1 DEF KidPage
    <3>5. pc'[e].kid = pc[e].kid /\ pc'[e].i = pc[e].i
      BY <3>3 DEF At
    <3>6. \A j \in 1 .. Len(Pages) : Mapped(pc[e].kid, Pages[j])' = Mapped(pc[e].kid, Pages[j])
      BY <3>1, <3>5 DEF Mapped
    <3>7. CASE pc[e].at = "pte" /\ pc[e].i > Len(Pages) /\ at = "xalloc" /\ i = pc[e].i
      <4>0. pc[e].i \in 1 .. Len(Pages) + 1
        BY CowFacts, PcFacts
      <4>1. pc'[e].i = Len(Pages) + 1 /\ pc'[e].at = "xalloc"
        BY <3>3, <3>7, <4>0, PageFacts DEF At
      <4> QED
        BY <1>5, <3>4, <3>5, <3>6, <3>7, <4>1 DEF KidPage
    <3>8. CASE pc[e].at = "kidupcall" /\ i = pc[e].i /\ at = "runnable"
      <4>1. pc'[e].i = Len(Pages) + 1 /\ pc'[e].at = "runnable"
        BY <1>1, <1>5, <3>1, <3>3, <3>8 DEF At, KidPage, Late
      <4> QED
        BY <1>5, <3>4, <3>5, <3>6, <3>8, <4>1 DEF KidPage
    <3>9. CASE /\ pc[e].at = "pte" /\ pc[e].i <= Len(Pages) /\ at = "dupchild"
               /\ i = pc[e].i /\ cow = (as[e][Pages[i]].perm # "r")
      <4>1. pc'[e].at = "dupchild" /\ pc'[e].cow = cow
        BY <3>3, <3>9 DEF At
      <4>2. i \in 1 .. Len(Pages)
        BY <3>9, PageFacts
      <4>3. PermOK(e, Pages[i])
        BY <1>0, <1>2, <4>2 DEF Perms
      <4>4. cow = (Pages[i] \notin ReadOnly)
        BY <3>2, <3>9, <4>3 DEF PermOK
      <4>5. "dupchild" \notin Late \cup {"xalloc", "dupself"}
        BY DEF Late
      <4> QED
        BY <1>5, <3>4, <3>5, <3>6, <3>9, <4>1, <4>4, <4>5 DEF KidPage
    <3> QED
      BY <3>3, <3>7, <3>8, <3>9
  <2>3. CASE LeaveStep(e) \/ StartStep(e) \/ ExitStep(e)
    BY <1>5, <2>3 DEF LeaveStep, StartStep, ExitStep, At, KidAt
  <2>4. CASE BirthStep(e)
    <3>1. PICK c \in Env : life[c] = "free" /\ At(e, "pte", 1, c, FALSE) /\ as' = as
      BY <2>4 DEF BirthStep
    <3>2. \A j \in 1 .. Len(Pages) : ~Mapped(c, Pages[j])'
      BY <1>2, <3>1, CowFacts DEF Unmapped, Mapped
    <3>3. pc'[e].at = "pte" /\ pc'[e].i = 1 /\ pc'[e].kid = c
      BY <3>1 DEF At
    <3>4. \A j \in 1 .. Len(Pages) : ~(j < 1)
      BY PageFacts
    <3>5. "pte" \notin Late \cup {"xalloc", "dupself", "dupchild"}
      BY DEF Late
    <3> QED
      BY <1>5, <3>2, <3>3, <3>4, <3>5 DEF KidPage
  <2>5. CASE GiveStep(e)
    <3>0. PICK i, va, k : i = pc[e].i /\ va = Pages[i] /\ k = pc[e].kid
      OBVIOUS
    <3>1. /\ pc[e].at = "dupchild" /\ i \in 1 .. Len(Pages) /\ va \in UserVa
          /\ k \in Env /\ pc[e].cow = (va \notin ReadOnly) /\ pc[e].cow \in BOOLEAN
      <4>1. pc[e].at = "dupchild" /\ pc[e].at \in KidAt
        BY <2>5 DEF GiveStep, KidAt
      <4> QED
        BY <1>1, <1>5, <2>0, <3>0, <4>1, PageOfLoop, CowFacts, PcFacts DEF KidPage
    <3>2. \A j \in 1 .. Len(Pages) : Mapped(k, Pages[j]) <=> j < i
      BY <1>1, <1>5, <3>0, <3>1 DEF KidPage, KidAt
    <3>3. /\ as'[k][va].perm \in {"cow", "r"}
          /\ \A v \in Va : v # va => as'[k][v] = as[k][v]
      BY <2>5, <3>0, <3>1 DEF GiveStep, Sets
    <3>4. as'[k][va] # NoMap
      BY <3>3, CowFacts
    <3>5. \A j \in 1 .. Len(Pages) : as'[k][Pages[j]] # NoMap <=> j < i \/ j = i
      <4>1. ASSUME NEW j \in 1 .. Len(Pages), j # i PROVE as'[k][Pages[j]] = as[k][Pages[j]]
        <5>1. Pages[j] # va /\ Pages[j] \in Va
          BY <3>0, <3>1, <4>1, PageFacts
        <5> QED
          BY <3>3, <5>1
      <4> QED
        BY <3>0, <3>2, <3>4, <4>1 DEF Mapped
    <3>6. CASE pc[e].cow
      <4>1. pc'[e].at = "dupself" /\ pc'[e].i = i /\ pc'[e].kid = k /\ pc'[e].cow = pc[e].cow
        BY <2>5, <3>0, <3>6 DEF GiveStep, At
      <4>2. "dupself" \notin Late \cup {"xalloc"}
        BY DEF Late
      <4> QED
        BY <1>5, <3>0, <3>1, <3>5, <3>6, <4>1, <4>2 DEF KidPage, Mapped
    <3>7. CASE ~pc[e].cow
      <4>1. pc'[e].at = "pte" /\ pc'[e].i = i + 1 /\ pc'[e].kid = k
        BY <2>5, <3>0, <3>7 DEF GiveStep, At
      <4>2. "pte" \notin Late \cup {"xalloc", "dupchild", "dupself"}
        BY DEF Late
      <4>3. \A j \in 1 .. Len(Pages) : j < i + 1 <=> j < i \/ j = i
        BY <3>1, PageFacts
      <4> QED
        BY <1>5, <3>5, <4>1, <4>2, <4>3 DEF KidPage, Mapped
    <3> QED
      BY <3>1, <3>6, <3>7
  <2>6. CASE ProtectStep(e)
    <3>0. PICK i, k : i = pc[e].i /\ k = pc[e].kid
      OBVIOUS
    <3>1. pc[e].at = "dupself" /\ i \in 1 .. Len(Pages) /\ k \in Env /\ k # e
      <4>1. pc[e].at = "dupself" /\ pc[e].at \in KidAt
        BY <2>6 DEF ProtectStep, KidAt
      <4> QED
        BY <2>0, <3>0, <4>1, PageOfLoop
    <3>2. \A j \in 1 .. Len(Pages) : Mapped(k, Pages[j]) <=> j < i \/ j = i
      BY <1>1, <1>5, <3>0, <3>1 DEF KidPage, KidAt
    <3>3. \A v \in Va : as'[k][v] = as[k][v]
      BY <2>6, <3>0, <3>1 DEF ProtectStep, Sets
    <3>4. \A j \in 1 .. Len(Pages) : as'[k][Pages[j]] = as[k][Pages[j]]
      BY <1>2, <3>3
    <3>5. pc'[e].at = "pte" /\ pc'[e].i = i + 1 /\ pc'[e].kid = k
      BY <2>6, <3>0 DEF ProtectStep, At
    <3>6. "pte" \notin Late \cup {"xalloc", "dupchild", "dupself"}
      BY DEF Late
    <3>7. \A j \in 1 .. Len(Pages) : j < i + 1 <=> j < i \/ j = i
      BY <3>1, PageFacts
    <3> QED
      BY <1>5, <3>2, <3>4, <3>5, <3>6, <3>7 DEF KidPage, Mapped
  <2>7. CASE XstackStep(e) \/ KidXstackStep(e) \/ XstackCopyStep(e) \/ XstackGoneStep(e)
    <3>1. /\ pc[e].at \in {"xalloc", "xmap", "xcopy", "xunmap"}
          /\ pc'[e].at \in {"xmap", "xcopy", "xunmap", "kidupcall"}
          /\ pc'[e].i = pc[e].i /\ pc'[e].kid = pc[e].kid
      BY <1>5, <2>7 DEF XstackStep, KidXstackStep, XstackCopyStep, XstackGoneStep, At, KidAt
    <3>2. /\ pc[e].kid \in Env /\ pc[e].kid # e /\ pc[e].i = Len(Pages) + 1
          /\ \A j \in 1 .. Len(Pages) : Mapped(pc[e].kid, Pages[j]) <=> j < pc[e].i
      BY <1>1, <1>5, <2>0, <3>1 DEF KidPage, Late, KidAt
    <3>3. \A v \in UserVa : as'[pc[e].kid][v] = as[pc[e].kid][v]
      BY ZenonT(60), <2>7, <3>2, CowFacts DEF XstackStep, KidXstackStep, XstackCopyStep,
         XstackGoneStep, Gets, Sets
    <3>4. \A j \in 1 .. Len(Pages) : Mapped(pc[e].kid, Pages[j])' = Mapped(pc[e].kid, Pages[j])
      BY <1>2, <3>1, <3>3 DEF Mapped
    <3> QED
      BY <1>5, <3>1, <3>2, <3>4 DEF KidPage
  <2> QED
    BY <2>1, <2>2, <2>3, <2>4, <2>5, <2>6, <2>7 DEF StepOf
<1> QED
  BY <1>4, <1>5

\* A program that runs is nobody's child.
LEMMA NoDupOfRunning ==
    ASSUME LibInv, NEW e \in Env, StepOf(e), NEW y \in Env, NEW va \in UserVa
    PROVE  ~Dup(y, va, e)
<1>1. KidOwn /\ life[e] = "run"
  BY CowFacts
<1> QED
  BY <1>1 DEF Dup, KidOwn, KidAt

LEMMA OwnedKept ==
    ASSUME LibInv, CowInv, NEW e \in Env, StepOf(e), TypeOK'
    PROVE  Owned'
<1>0. Perms /\ KidPages /\ Owned /\ TempOwned
  BY DEF CowInv
<1> SUFFICES ASSUME NEW y \in Env, NEW x \in Env, NEW va \in UserVa, NEW v \in Va
             PROVE  OwnedBy(y, va, x, v)'
  BY DEF Owned
<1>1. y # e => Temp(y, va)' = Temp(y, va) /\ Dup(y, va, x)' = Dup(y, va, x)
  BY Bystander DEF Temp, Dup
<1>2. OwnedBy(y, va, x, v) /\ va \in Va /\ va # "pftemp" /\ va # "xstack"
  BY <1>0, CowFacts DEF Owned
<1>3. Writable(y, va) => as[y][va].frame \in Frame /\ as[y][va].frame # -1
  <2>1. Writable(y, va) => Mapped(y, va)
    BY <1>2, CowFacts, MappedType DEF Writable
  <2>2. Mapped(y, va) => as[y][va].frame \in Frame
    BY <1>2, CowFacts, MappedType
  <2> QED
    BY <2>1, <2>2, CowFacts
\* The two mappings are as they were.
<1>4. ASSUME as'[y][va] = as[y][va], as'[x][v] = as[x][v],
             Temp(e, va) => Temp(e, va)' \/ (x = e /\ v # "pftemp"),
             y = e /\ Dup(e, va, x) => Dup(e, va, x)'
      PROVE  OwnedBy(y, va, x, v)'
  BY <1>1, <1>2, <1>4 DEF OwnedBy, Writable, Share
<1>5. CASE StoreStep(e) \/ FaultStep(e) \/ PanicStep(e) \/ TempFilledStep(e) \/ JumpStep(e)
           \/ LeaveStep(e) \/ BirthStep(e) \/ XstackCopyStep(e) \/ StartStep(e)
  <2>1. as' = as /\ (Temp(e, va) => Temp(e, va)') /\ (Dup(e, va, x) => Dup(e, va, x)')
    BY <1>5, CowFacts DEF StoreStep, FaultStep, PanicStep, TempFilledStep, JumpStep,
       LeaveStep, BirthStep, XstackCopyStep, StartStep, Calling, At, Temp, Dup
  <2> QED
    BY <1>4, <2>1
<1>6. ASSUME NEW p \in Env, NEW q \in {"xstack", "pftemp"}, Gets(p, q),
             Temp(e, va) => Temp(e, va)', Dup(e, va, x) => Dup(e, va, x)'
      PROVE  OwnedBy(y, va, x, v)'
  <2>0. q \in Va
    BY <1>6, PageFacts
  <2>1. PICK f \in Frame :
              /\ \A x1 \in Env, v1 \in Va : as[x1][v1].frame # f
              /\ as'[p][q].frame = f /\ as'[p][q].perm = "w"
              /\ \A x1 \in Env, v1 \in Va : ~(x1 = p /\ v1 = q) => as'[x1][v1] = as[x1][v1]
              /\ BytesBut(f)
    BY <1>6, <2>0, GetsEntry
  <2>2. as'[y][va] = as[y][va] /\ as[y][va].frame # f
    BY <1>2, <2>1
  <2>3. CASE x = p /\ v = q
    BY <2>1, <2>2, <2>3 DEF OwnedBy, Share
  <2>4. CASE ~(x = p /\ v = q)
    BY <1>4, <1>6, <2>1, <2>2, <2>4
  <2> QED
    BY <2>3, <2>4
<1>7. CASE TempGetsStep(e) \/ XstackStep(e)
  <2>1. TempGetsStep(e) => Gets(e, "pftemp")
    BY DEF TempGetsStep
  <2>2. XstackStep(e) => \E p \in Env : Gets(p, "xstack")
    BY CowFacts DEF XstackStep, KidAt
  <2>3. (Temp(e, va) => Temp(e, va)') /\ (Dup(e, va, x) => Dup(e, va, x)')
    BY <1>7 DEF TempGetsStep, XstackStep, Calling, At, Temp, Dup
  <2> QED
    BY <1>6, <1>7, <2>1, <2>2, <2>3
<1>8. CASE TempGoneStep(e) \/ XstackGoneStep(e)
  <2>1. Sets(e, "pftemp", -1, "none") /\ (Dup(e, va, x) => Dup(e, va, x)')
    BY <1>8 DEF TempGoneStep, XstackGoneStep, At, Dup
  <2>2. as'[y][va] = as[y][va]
    BY <1>2, <2>1 DEF Sets
  <2>3. CASE x = e /\ v = "pftemp"
    <3>1. as'[x][v].frame = -1
      BY <2>1, <2>3 DEF Sets
    <3> QED
      BY <1>3, <2>2, <3>1 DEF OwnedBy, Share, Writable
  <2>4. CASE ~(x = e /\ v = "pftemp")
    <3>1. as'[x][v] = as[x][v]
      BY <2>1, <2>4 DEF Sets
    <3> QED
      BY <1>1, <1>2, <2>1, <2>2, <2>4, <3>1 DEF OwnedBy, Writable, Share
  <2> QED
    BY <2>3, <2>4
<1>9. CASE KidXstackStep(e)
  <2>1. PICK k \in Env : /\ k = pc[e].kid /\ Mapped(k, "xstack")
                         /\ Sets(e, "pftemp", as[k]["xstack"].frame, "w")
    BY <1>9, CowFacts DEF KidXstackStep, KidAt
  <2>2. (Temp(e, va) => Temp(e, va)') /\ (Dup(e, va, x) => Dup(e, va, x)')
    BY <1>9 DEF KidXstackStep, Calling, Temp, Dup
  <2>3. as'[y][va] = as[y][va]
    BY <1>2, <2>1 DEF Sets
  <2>4. CASE x = e /\ v = "pftemp"
    <3>1. as'[x][v].frame = as[k]["xstack"].frame
      BY <2>1, <2>4 DEF Sets
    <3>2. Alone(k, y, va)
      BY <1>2, CowFacts DEF XstackAlone
    <3>3. as[y][va].frame # as[k]["xstack"].frame
      BY <1>2, <2>1, <3>2 DEF Alone, Share
    <3> QED
      BY <2>3, <3>1, <3>3 DEF OwnedBy, Share
  <2>5. CASE ~(x = e /\ v = "pftemp")
    <3>1. as'[x][v] = as[x][v]
      BY <2>1, <2>5 DEF Sets
    <3> QED
      BY <1>4, <2>2, <2>3, <3>1
  <2> QED
    BY <2>4, <2>5
<1>10. CASE TempMappedStep(e)
  <2>1. PICK a, f : /\ a = fault[e].va /\ f = as[e]["pftemp"].frame
                    /\ Sets(e, a, f, "w") /\ FaultIs(e, a, "unmap") /\ fault[e].at = "map"
                    /\ pc' = pc
    BY <1>10 DEF TempMappedStep
  <2>2. /\ as'[e][a].frame = f
        /\ \A x1 \in Env, v1 \in Va : ~(x1 = e /\ v1 = a) => as'[x1][v1] = as[x1][v1]
        /\ fault'[e].va = a /\ fault'[e].at = "unmap"
    BY <2>1 DEF Sets, FaultIs
  <2>3. \A x1 \in Env, v1 \in Va : as[x1][v1].frame = f => x1 = e /\ v1 = "pftemp"
    <3>1. ASSUME NEW x1 \in Env, NEW v1 \in Va PROVE TempAlone(e, x1, v1)
      BY <1>0 DEF TempOwned
    <3> QED
      BY <2>1, <3>1 DEF TempAlone, Share
  <2>4. CASE y = e /\ va = a
    <3>1. CASE x = e /\ v = a
      BY <2>4, <3>1 DEF OwnedBy
    <3>2. CASE ~(x = e /\ v = a)
      BY ZenonT(60), <2>2, <2>3, <2>4, <3>2 DEF OwnedBy, Share, Temp
    <3> QED
      BY <3>1, <3>2
  <2>5. CASE ~(y = e /\ va = a)
    <3>1. as'[y][va] = as[y][va] /\ as[y][va].frame # f
      BY <1>2, <2>2, <2>3, <2>5
    <3>2. CASE x = e /\ v = a
      BY <2>2, <3>1, <3>2 DEF OwnedBy, Share
    <3>3. CASE ~(x = e /\ v = a)
      <4>1. as'[x][v] = as[x][v] /\ ~Temp(e, va) /\ (Dup(e, va, x) => Dup(e, va, x)')
        BY <2>1, <2>2, <3>3 DEF Temp, Dup
      <4> QED
        BY <1>4, <3>1, <4>1
    <3> QED
      BY <3>2, <3>3
  <2> QED
    BY <2>4, <2>5
<1>11. CASE GiveStep(e)
  <2>0. pc[e].at = "dupchild" /\ pc[e].at \in KidAt /\ fault' = fault
    BY <1>11 DEF GiveStep, KidAt, Calling
  <2>1. PICK a \in UserVa, k \in Env :
           /\ a = Pages[pc[e].i] /\ k = pc[e].kid /\ a \in Va /\ a # "pftemp"
           /\ Sets(k, a, as[e][a].frame, IF pc[e].cow THEN "cow" ELSE "r")
           /\ pc[e].cow => At(e, "dupself", pc[e].i, k, pc[e].cow)
    BY <1>11, <2>0, CowFacts, PageOfLoop DEF GiveStep
  <2>2. /\ as'[k][a].frame = as[e][a].frame /\ as'[k][a].perm # "w"
        /\ \A x1 \in Env, v1 \in Va : ~(x1 = k /\ v1 = a) => as'[x1][v1] = as[x1][v1]
    BY <2>1 DEF Sets
  <2>3. CASE y = k /\ va = a
    BY <2>2, <2>3 DEF OwnedBy, Writable
  <2>4. CASE ~(y = k /\ va = a)
    <3>1. as'[y][va] = as[y][va]
      BY <1>2, <2>2, <2>4
    <3>2. CASE x = k /\ v = a
      <4>1. ASSUME Writable(y, va), as[y][va].frame = as[e][a].frame
            PROVE  v = va /\ Dup(y, va, x)'
        <5>1. OwnedBy(y, va, e, a) /\ ~Dup(y, va, e)
          BY <1>0, <2>1, NoDupOfRunning DEF Owned
        <5>2. y = e /\ va = a
          BY <2>1, <4>1, <5>1 DEF OwnedBy, Share
        <5>3. PermOK(e, a) /\ life[e] = "run"
          BY <1>0, CowFacts DEF Perms
        <5>4. a \notin ReadOnly
          BY <4>1, <5>2, <5>3 DEF PermOK, Writable
        <5>5. pc[e].cow
          BY <1>0, <2>0, <2>1, <5>4 DEF KidPages
        <5>6. pc'[e].at = "dupself" /\ pc'[e].i = pc[e].i /\ pc'[e].kid = k
          BY <2>1, <5>5 DEF At
        <5> QED
          BY <2>1, <3>2, <5>2, <5>6 DEF Dup
      <4> QED
        BY <2>2, <3>1, <3>2, <4>1 DEF OwnedBy, Share, Writable
    <3>3. CASE ~(x = k /\ v = a)
      <4>1. as'[x][v] = as[x][v] /\ ~Dup(e, va, x) /\ (Temp(e, va) => Temp(e, va)')
        BY <2>0, <2>2, <3>3 DEF Temp, Dup
      <4> QED
        BY <1>4, <3>1, <4>1
    <3> QED
      BY <3>2, <3>3
  <2> QED
    BY <2>3, <2>4
<1>12. CASE ProtectStep(e)
  <2>0. pc[e].at = "dupself" /\ fault' = fault
    BY <1>12 DEF ProtectStep, Calling
  <2>1. PICK a \in UserVa : /\ a = Pages[pc[e].i] /\ a \in Va /\ a # "pftemp"
                            /\ Sets(e, a, as[e][a].frame, "cow")
    BY <1>12, <2>0, PageOfLoop DEF ProtectStep
  <2>2. /\ as'[e][a].frame = as[e][a].frame /\ as'[e][a].perm # "w"
        /\ \A x1 \in Env, v1 \in Va : ~(x1 = e /\ v1 = a) => as'[x1][v1] = as[x1][v1]
    BY <2>1 DEF Sets
  <2>3. CASE y = e /\ va = a
    BY <2>2, <2>3 DEF OwnedBy, Writable
  <2>4. CASE ~(y = e /\ va = a)
    <3>1. as'[y][va] = as[y][va]
      BY <1>2, <2>2, <2>4
    <3>2. CASE x = e /\ v = a
      <4>1. OwnedBy(y, va, e, a) /\ ~Dup(y, va, e)
        BY <1>0, <2>1, NoDupOfRunning DEF Owned
      <4> QED
        BY <2>1, <2>2, <2>4, <3>1, <3>2, <4>1 DEF OwnedBy, Share, Writable
    <3>3. CASE ~(x = e /\ v = a)
      <4>1. as'[x][v] = as[x][v] /\ (y = e => ~Dup(e, va, x)) /\ (Temp(e, va) => Temp(e, va)')
        BY <2>0, <2>1, <2>2, <2>4, <3>3 DEF Temp, Dup
      <4> QED
        BY <1>4, <3>1, <4>1
    <3> QED
      BY <3>2, <3>3
  <2> QED
    BY <2>3, <2>4
<1>13. CASE ExitStep(e)
  <2>1. /\ \A v1 \in Va : as'[e][v1] = NoMap
        /\ \A x1 \in Env \ {e} : as'[x1] = as[x1]
    BY <1>13 DEF ExitStep
  <2>2. CASE y = e
    BY <1>2, <2>1, <2>2, CowFacts DEF OwnedBy, Writable
  <2>3. CASE y # e /\ x = e
    BY <1>3, <2>1, <2>3, CowFacts DEF OwnedBy, Share, Writable
  <2>4. CASE y # e /\ x # e
    BY <1>1, <1>2, <2>1, <2>4 DEF OwnedBy, Share, Writable
  <2> QED
    BY <2>2, <2>3, <2>4
<1> QED
  BY <1>5, <1>7, <1>8, <1>9, <1>10, <1>11, <1>12, <1>13 DEF StepOf

\* Where a mapping that a step makes comes from: nowhere, a frame nobody had, the
\* page pgfault has filled, or a page that is not at PFTEMP.
LEMMA NewMapping ==
    ASSUME LibInv, NEW e \in Env, StepOf(e), NEW x \in Env, NEW v \in Va,
           as'[x][v] # as[x][v]
    PROVE  \/ as'[x][v].frame = -1
           \/ \A x1 \in Env, v1 \in Va : as[x1][v1].frame # as'[x][v].frame
           \/ \E s \in Env, sv \in Va \ {"pftemp"} : as'[x][v].frame = as[s][sv].frame
           \/ fault[e].at = "map" /\ as'[x][v].frame = as[e]["pftemp"].frame
<1>1. CASE TempGetsStep(e) \/ XstackStep(e)
  <2>1. \E p \in Env, q \in {"pftemp", "xstack"} : Gets(p, q)
    BY <1>1, CowFacts DEF TempGetsStep, XstackStep, KidAt
  <2>2. PICK p \in Env, q \in Va : Gets(p, q)
    BY <2>1, CowFacts
  <2>3. PICK f \in Frame :
              /\ \A x1 \in Env, v1 \in Va : as[x1][v1].frame # f
              /\ as'[p][q].frame = f /\ as'[p][q].perm = "w"
              /\ \A x1 \in Env, v1 \in Va : ~(x1 = p /\ v1 = q) => as'[x1][v1] = as[x1][v1]
              /\ BytesBut(f)
    BY <2>2, GetsEntry
  <2>4. as'[x][v].frame = f
    BY <2>3
  <2>5. \A x1 \in Env, v1 \in Va : as[x1][v1].frame # as'[x][v].frame
    <3>1. ASSUME NEW x1 \in Env, NEW v1 \in Va PROVE as[x1][v1].frame # f
      BY <2>3
    <3> QED
      BY <2>4, <3>1
  <2> QED
    BY <2>5
<1>2. CASE TempGoneStep(e) \/ XstackGoneStep(e)
  BY <1>2 DEF TempGoneStep, XstackGoneStep, Sets
<1>3. CASE TempMappedStep(e)
  BY <1>3 DEF TempMappedStep, Sets
<1>4. CASE GiveStep(e) \/ ProtectStep(e)
  <2>1. pc[e].at \in {"dupchild", "dupself"}
    BY <1>4 DEF GiveStep, ProtectStep
  <2>2. PICK a \in Va \ {"pftemp"} : a = Pages[pc[e].i]
    BY <2>1, PageOfLoop
  <2>3. \E p, perm : Sets(p, a, as[e][a].frame, perm)
    BY <1>4, <2>2 DEF GiveStep, ProtectStep
  <2>4. as'[x][v].frame = as[e][a].frame
    BY <2>3 DEF Sets
  <2> QED
    BY <2>4
<1>5. CASE KidXstackStep(e)
  <2>1. pc[e].kid \in Env /\ "xstack" \in Va \ {"pftemp"}
    BY <1>5, CowFacts DEF KidXstackStep, KidAt
  <2> QED
    BY ZenonT(60), <1>5, <2>1 DEF KidXstackStep, Sets
<1>6. CASE ExitStep(e)
  BY <1>6, CowFacts DEF ExitStep
<1> QED
  BY <1>1, <1>2, <1>3, <1>4, <1>5, <1>6 DEF StepOf, StoreStep, FaultStep, PanicStep,
     TempFilledStep, JumpStep, LeaveStep, BirthStep, XstackCopyStep, StartStep

\* What a step writes: a page of the program, the page pgfault fills, the
\* exception stack, or a frame nobody had.
LEMMA Written ==
    ASSUME LibInv, NEW e \in Env, StepOf(e), NEW g \in Frame, bytes'[g] # bytes[g]
    PROVE  \/ StoreStep(e) /\ \E a \in UserVa : Writable(e, a) /\ g = as[e][a].frame
           \/ TempFilledStep(e) /\ g = as[e]["pftemp"].frame
           \/ g = as[e]["xstack"].frame
           \/ \A x1 \in Env, v1 \in Va : as[x1][v1].frame # g
BY DEF StepOf, StoreStep, FaultStep, PanicStep, TempGetsStep, TempFilledStep,
   TempMappedStep, TempGoneStep, JumpStep, LeaveStep, BirthStep, GiveStep, ProtectStep,
   XstackStep, KidXstackStep, XstackCopyStep, XstackGoneStep, StartStep, ExitStep, Gets,
   BytesBut

LEMMA TempAloneKept ==
    ASSUME LibInv, CowInv, NEW e \in Env, StepOf(e), TypeOK',
           NEW y \in Env, NEW x \in Env, NEW v \in Va
    PROVE  TempAlone(y, x, v)'
<1>0. \A y1, x1 \in Env, v1 \in Va : TempAlone(y1, x1, v1)
  BY DEF CowInv, TempOwned
<1>1. fault[y].at \in {"copy", "map"} => as[y]["pftemp"].frame \in Frame
  <2>1. fault[y].at \in {"copy", "map"} => Mapped(y, "pftemp")
    BY CowFacts DEF PftempFree
  <2>2. Mapped(y, "pftemp") => as[y]["pftemp"].frame \in Frame
    BY CowFacts, MappedType
  <2> QED
    BY <2>1, <2>2
<1>2. CASE y # e
  <2>1. fault'[y] = fault[y] /\ as'[y]["pftemp"] = as[y]["pftemp"]
    BY <1>2, Bystander
  <2>2. CASE as'[x][v] = as[x][v]
    BY <1>0, <2>1, <2>2 DEF TempAlone, Share
  <2>3. CASE as'[x][v] # as[x][v]
    <3>1. ASSUME fault[y].at \in {"copy", "map"}
          PROVE  as'[x][v].frame # as[y]["pftemp"].frame
      <4>1. \A x1 \in Env, v1 \in Va : as[x1][v1].frame = as[y]["pftemp"].frame =>
                                         x1 = y /\ v1 = "pftemp"
        BY <1>0, <3>1 DEF TempAlone, Share
      <4> QED
        <5>1. \/ as'[x][v].frame = -1
              \/ \A x1 \in Env, v1 \in Va : as[x1][v1].frame # as'[x][v].frame
              \/ \E s \in Env, sv \in Va \ {"pftemp"} : as'[x][v].frame = as[s][sv].frame
              \/ fault[e].at = "map" /\ as'[x][v].frame = as[e]["pftemp"].frame
          BY <2>3, NewMapping
        <5>2. "pftemp" \in Va /\ -1 \notin Frame
          BY CowFacts
        <5> QED
          BY <1>1, <1>2, <3>1, <4>1, <5>1, <5>2
    <3> QED
      BY <2>1, <3>1 DEF TempAlone, Share
  <2> QED
    BY <2>2, <2>3
<1>3. CASE y = e
  <2>1. CASE StoreStep(e) \/ PanicStep(e)
    BY <1>0, <2>1, <1>3 DEF StoreStep, PanicStep, TempAlone, Share
  <2>2. CASE TempFilledStep(e)
    <3>1. as' = as /\ fault[e].at = "copy"
      BY <2>2 DEF TempFilledStep
    <3> QED
      BY <1>0, <1>3, <3>1 DEF TempAlone, Share
  <2>3. CASE TempGetsStep(e)
    <3>1. PICK f \in Frame :
              /\ \A x1 \in Env, v1 \in Va : as[x1][v1].frame # f
              /\ as'[e]["pftemp"].frame = f /\ as'[e]["pftemp"].perm = "w"
              /\ \A x1 \in Env, v1 \in Va :
                    ~(x1 = e /\ v1 = "pftemp") => as'[x1][v1] = as[x1][v1]
              /\ BytesBut(f)
      BY ZenonT(60), <2>3, GetsEntry, CowFacts DEF TempGetsStep
    <3> QED
      BY ZenonT(60), <1>3, <3>1 DEF TempAlone, Share
  <2>4. CASE ~(StoreStep(e) \/ PanicStep(e) \/ TempFilledStep(e) \/ TempGetsStep(e))
    <3>1. fault'[e].at \in {"none", "check", "unmap"}
      BY <2>4, CowFacts DEF StepOf, FaultStep, TempMappedStep, TempGoneStep, JumpStep,
         LeaveStep, BirthStep, GiveStep, ProtectStep, XstackStep, KidXstackStep,
         XstackCopyStep, XstackGoneStep, StartStep, ExitStep, Calling, FaultIs
    <3> QED
      BY <1>3, <3>1 DEF TempAlone
  <2> QED
    BY <2>1, <2>2, <2>3, <2>4
<1> QED
  BY <1>2, <1>3

\* A program that is served a fault runs, or has panicked.
LEMMA Served ==
    ASSUME LibInv, NEW e \in Env, StepOf(e), NEW y \in Env, fault[y].at # "none"
    PROVE  /\ life[y] \in {"run", "stuck"}
           /\ fault[y].va \in UserVa /\ fault[y].va \in Va
<1>1. fault[y] # NoFault /\ life[y] \in {"free", "embryo", "run", "stuck"}
  BY CowFacts, ProgramFacts
<1>2. life[y] \notin {"free", "embryo"}
  BY <1>1, CowFacts DEF Idle
<1>3. fault[y].va \in UserVa
  BY <1>1, CowFacts, ProgramFacts
<1> QED
  BY <1>1, <1>2, <1>3, CowFacts

LEMMA TempCopiedKept ==
    ASSUME LibInv, CowInv, NEW e \in Env, StepOf(e), TypeOK', NEW y \in Env
    PROVE  TempCopied(y)'
<1>0. /\ \A y1, x1 \in Env, v1 \in Va : TempAlone(y1, x1, v1)
      /\ TempCopied(y) /\ Owned
  BY DEF CowInv, TempOwned
\* Neither page is written by another step than the copy.
<1>1. ASSUME fault[y].at \in {"copy", "map"}, ~TempFilledStep(e)
      PROVE  /\ bytes'[as[y]["pftemp"].frame] = bytes[as[y]["pftemp"].frame]
             /\ bytes'[as[y][fault[y].va].frame] = bytes[as[y][fault[y].va].frame]
  <2>1. PICK va \in UserVa : va = fault[y].va /\ va \in Va
    BY <1>1, Served
  <2>2. as[y]["pftemp"].frame \in Frame /\ as[y][va].frame \in Frame /\ as[y][va].perm = "cow"
    <3>1. Mapped(y, "pftemp") /\ as[y][va].perm = "cow"
      BY <1>1, <2>1, CowFacts DEF PftempFree, FaultCow
    <3>2. Mapped(y, va)
      BY <2>1, <3>1, CowFacts, MappedType
    <3>3. Mapped(y, "pftemp") => as[y]["pftemp"].frame \in Frame
      BY CowFacts, MappedType
    <3>4. Mapped(y, va) => as[y][va].frame \in Frame
      BY <2>1, CowFacts, MappedType
    <3> QED
      BY <3>1, <3>2, <3>3, <3>4
  <2>3. \A x1 \in Env, v1 \in Va : as[x1][v1].frame = as[y]["pftemp"].frame =>
                                     x1 = y /\ v1 = "pftemp"
    BY <1>0, <1>1 DEF TempAlone, Share
  <2>4. ASSUME NEW a \in UserVa, Writable(e, a) PROVE as[e][a].frame # as[y][va].frame
    <3>1. OwnedBy(e, a, y, va)
      BY <1>0, <2>1 DEF Owned
    <3>2. ~Dup(e, a, y)
      <4>1. life[y] # "embryo"
        BY <1>1, Served
      <4> QED
        BY <4>1, CowFacts DEF Dup, KidOwn, KidAt
    <3> QED
      BY <2>1, <2>2, <2>4, <3>1, <3>2, CowFacts DEF OwnedBy, Share, Writable
  <2>5. as[e]["xstack"].frame # as[y][va].frame
    <3>1. Alone(e, y, va)
      BY <2>1, CowFacts DEF XstackAlone
    <3>2. ~Mapped(e, "xstack") => as[e]["xstack"].frame = -1
      BY CowFacts, MappedType
    <3> QED
      BY <2>1, <2>2, <3>1, <3>2, CowFacts DEF Alone, Share
  <2>6. as[e]["xstack"].frame # as[y]["pftemp"].frame
    BY <2>3, CowFacts
  <2>7. ASSUME NEW a \in UserVa PROVE as[e][a].frame # as[y]["pftemp"].frame
    BY ZenonT(60), <2>3, CowFacts
  <2>8. bytes'[as[y]["pftemp"].frame] = bytes[as[y]["pftemp"].frame]
    <3>1. PICK g \in Frame : g = as[y]["pftemp"].frame
      BY <2>2
    <3>2. "pftemp" \in Va
      BY CowFacts
    <3> QED
      BY <1>1, <2>6, <2>7, <3>1, <3>2, Written
  <2>9. bytes'[as[y][va].frame] = bytes[as[y][va].frame]
    <3>1. PICK g \in Frame : g = as[y][va].frame
      BY <2>2
    <3> QED
      BY <1>1, <2>1, <2>4, <2>5, <3>1, Written
  <2> QED
    BY <2>1, <2>8, <2>9
<1>2. CASE TempFilledStep(e)
  <2>1. /\ as' = as /\ fault[e].at = "copy" /\ fault'[e].va = fault[e].va
        /\ \A x1 \in Env \ {e} : fault'[x1] = fault[x1]
        /\ BytesBut(as[e]["pftemp"].frame)
        /\ bytes'[as[e]["pftemp"].frame] = bytes[as[e][fault[e].va].frame]
    BY <1>2 DEF TempFilledStep, FaultIs
  <2>2. \A x1 \in Env, v1 \in Va : as[x1][v1].frame = as[e]["pftemp"].frame =>
                                     x1 = e /\ v1 = "pftemp"
    BY <1>0, <2>1 DEF TempAlone, Share
  <2>3. ASSUME NEW x1 \in Env, NEW v1 \in Va, ~(x1 = e /\ v1 = "pftemp"), Mapped(x1, v1)
        PROVE  bytes'[as[x1][v1].frame] = bytes[as[x1][v1].frame]
    <3>1. as[x1][v1].frame \in Frame
      BY <2>3, CowFacts, MappedType
    <3> QED
      BY <2>1, <2>2, <2>3, <3>1 DEF BytesBut
  <2>4. CASE y = e
    <3>1. fault[e].va \in Va /\ fault[e].va # "pftemp" /\ as[e][fault[e].va].perm = "cow"
      BY <2>1, Served, CowFacts DEF FaultCow
    <3>2. Mapped(e, fault[e].va)
      BY <3>1, CowFacts, MappedType
    <3>3. bytes'[as[e][fault[e].va].frame] = bytes[as[e][fault[e].va].frame]
      BY <2>3, <3>1, <3>2
    <3> QED
      BY <2>1, <2>4, <3>3 DEF TempCopied
  <2>5. CASE y # e /\ fault[y].at = "map"
    <3>1. fault[y].va \in Va /\ as[y][fault[y].va].perm = "cow" /\ Mapped(y, "pftemp")
      BY <2>5, Served, CowFacts DEF FaultCow, PftempFree
    <3>2. Mapped(y, fault[y].va)
      BY <3>1, CowFacts, MappedType
    <3>3. /\ bytes'[as[y][fault[y].va].frame] = bytes[as[y][fault[y].va].frame]
          /\ bytes'[as[y]["pftemp"].frame] = bytes[as[y]["pftemp"].frame]
      BY <2>3, <2>5, <3>1, <3>2, CowFacts
    <3> QED
      BY <1>0, <2>1, <2>5, <3>3 DEF TempCopied
  <2> QED
    BY <2>1, <2>4, <2>5 DEF TempCopied
<1>3. CASE ~TempFilledStep(e)
  <2>1. CASE fault'[y].at # "map"
    BY <2>1 DEF TempCopied
  <2>2. CASE fault'[y].at = "map"
    <3>1. fault'[y] = fault[y]
      <4>1. CASE y # e
        BY <4>1, Bystander
      <4>2. CASE y = e
        BY <1>3, <2>2, <4>2, CowFacts DEF StepOf, StoreStep, PanicStep, TempGetsStep,
           FaultStep, TempMappedStep, TempGoneStep, JumpStep, LeaveStep, BirthStep, GiveStep,
           ProtectStep, XstackStep, KidXstackStep, XstackCopyStep, XstackGoneStep, StartStep,
           ExitStep, Calling, FaultIs
      <4> QED
        BY <4>1, <4>2
    <3>2. fault[y].va \in Va /\ life[y] \in {"run", "stuck"} /\ "pftemp" \in Va
      BY <2>2, <3>1, Served, CowFacts
    <3>3. \A v1 \in Va : as'[y][v1] = as[y][v1]
      <4>1. CASE y # e
        BY <3>2, <4>1, Bystander
      <4>2. CASE y = e
        BY <1>3, <2>2, <4>2, CowFacts DEF StepOf, StoreStep, PanicStep, TempGetsStep,
           FaultStep, TempMappedStep, TempGoneStep, JumpStep, LeaveStep, BirthStep, GiveStep,
           ProtectStep, XstackStep, KidXstackStep, XstackCopyStep, XstackGoneStep, StartStep,
           ExitStep, Calling, FaultIs
      <4> QED
        BY <4>1, <4>2
    <3> QED
      BY <1>0, <1>1, <1>3, <2>2, <3>1, <3>2, <3>3 DEF TempCopied
  <2> QED
    BY <2>1, <2>2
<1> QED
  BY <1>2, <1>3

LEMMA FaultServedKept ==
    ASSUME LibInv, CowInv, NEW e \in Env, StepOf(e), TypeOK'
    PROVE  FaultServed'
<1>0. Perms /\ FaultServed
  BY DEF CowInv
<1> SUFFICES ASSUME NEW y \in Env, fault'[y].at = "check"
             PROVE  as'[y][fault'[y].va].perm = "cow"
  BY DEF FaultServed
<1>1. CASE y # e
  <2>1. fault'[y] = fault[y]
    BY <1>1, Bystander
  <2>2. life[y] \in {"run", "stuck"} /\ fault[y].va \in Va
    BY <2>1, Served
  <2>3. as'[y][fault[y].va] = as[y][fault[y].va]
    BY <1>1, <2>2, Bystander
  <2> QED
    BY <1>0, <2>1, <2>3 DEF FaultServed
<1>2. CASE y = e
  <2>1. CASE FaultStep(e)
    <3>1. PICK va \in UserVa \ ReadOnly : ~Writable(e, va) /\ fault'[e].va = va
      BY <2>1 DEF FaultStep, FaultIs
    <3>2. PermOK(e, va) /\ life[e] = "run" /\ as' = as
      BY <1>0, <2>1, CowFacts DEF Perms, FaultStep
    <3> QED
      BY <1>2, <3>1, <3>2 DEF PermOK, Writable
  <2>2. CASE StoreStep(e) \/ PanicStep(e)
    BY <1>0, <1>2, <2>2 DEF StoreStep, PanicStep, FaultServed
  <2>3. CASE ~(StoreStep(e) \/ PanicStep(e) \/ FaultStep(e))
    BY <1>2, <2>3, CowFacts DEF StepOf, TempGetsStep, TempFilledStep, TempMappedStep,
       TempGoneStep, JumpStep, LeaveStep, BirthStep, GiveStep, ProtectStep, XstackStep,
       KidXstackStep, XstackCopyStep, XstackGoneStep, StartStep, ExitStep, Calling, FaultIs
  <2> QED
    BY <2>1, <2>2, <2>3
<1> QED
  BY <1>1, <1>2

LEMMA CowInvInit == Init => CowInv
<1> SUFFICES ASSUME Init PROVE CowInv
  OBVIOUS
<1>1. /\ life = [e \in Env |-> IF e = Root THEN "run" ELSE "free"]
      /\ pc = [e \in Env |-> User] /\ fault = [e \in Env |-> NoFault]
  BY DEF Init
<1>2. PICK home \in [UserVa -> Frame] :
          /\ \A i \in DOMAIN Pages : Cardinality({f \in Frame : f < home[Pages[i]]}) = i - 1
          /\ as = [e \in Env |-> [va \in Va |->
                     IF e # Root \/ va \notin UserVa THEN NoMap
                     ELSE [frame |-> home[va],
                           perm |-> IF va \in ReadOnly THEN "r" ELSE "w"]]]
  BY DEF Init
<1>3. ASSUME NEW e \in Env, NEW va \in Va
      PROVE  /\ e # Root \/ va \notin UserVa => as[e][va] = NoMap
             /\ e = Root /\ va \in UserVa =>
                   /\ as[e][va].frame = home[va] /\ home[va] \in Frame
                   /\ as[e][va].perm = IF va \in ReadOnly THEN "r" ELSE "w"
  <2>1. as[e][va] = IF e # Root \/ va \notin UserVa THEN NoMap
                    ELSE [frame |-> home[va],
                          perm |-> IF va \in ReadOnly THEN "r" ELSE "w"]
    BY <1>2
  <2> QED
    BY <1>2, <2>1
<1>4. /\ User.at = "user" /\ NoFault.at = "none" /\ NoMap.perm = "none" /\ NoMap.frame = -1
      /\ -1 \notin Frame
  BY FrameAssumption DEF User, NoFault, NoMap
<1>5. Perms
  <2> SUFFICES ASSUME NEW e \in Env, NEW va \in UserVa PROVE PermOK(e, va)
    BY DEF Perms
  <2>1. va \in Va /\ life[e] = IF e = Root THEN "run" ELSE "free"
    BY <1>1, PageFacts
  <2> QED
    BY <1>3, <2>1 DEF PermOK
<1>6. KidPages /\ FaultServed
  BY <1>1, <1>4 DEF KidPages, FaultServed, KidAt
<1>7. TempOwned
  BY <1>1, <1>4 DEF TempOwned, TempAlone, TempCopied
<1>8. Owned
  <2> SUFFICES ASSUME NEW y \in Env, NEW x \in Env, NEW va \in UserVa, NEW v \in Va,
                      Writable(y, va), Share(y, va, x, v)
               PROVE  x = y /\ v = va
    BY DEF Owned, OwnedBy
  <2>1. va \in Va
    BY PageFacts
  <2>2. y = Root /\ as[y][va].frame = home[va] /\ home[va] \in Frame
    BY <1>3, <1>4, <2>1 DEF Writable
  <2>3. x = Root /\ v \in UserVa
    BY <1>3, <1>4, <2>2 DEF Share
  <2>4. home[v] = home[va]
    BY <1>3, <2>2, <2>3 DEF Share
  <2>5. PICK i \in 1 .. Len(Pages) : Pages[i] = va
    BY PageFacts
  <2>6. PICK j \in 1 .. Len(Pages) : Pages[j] = v
    BY <2>3, PageFacts
  <2>7. /\ Cardinality({f \in Frame : f < home[va]}) = i - 1
        /\ Cardinality({f \in Frame : f < home[v]}) = j - 1
    BY ZenonT(60), <1>2, <2>5, <2>6, PageFacts
  <2>8. i = j
    <3>1. i - 1 = j - 1
      BY <2>4, <2>7
    <3> QED
      BY <3>1
  <2> QED
    BY <2>2, <2>3, <2>5, <2>6, <2>8
<1> QED
  BY <1>5, <1>6, <1>7, <1>8 DEF CowInv

\* A child that has been given all pages is not destroyed.
LEMMA KidKept ==
    ASSUME LibInv, CowInv, Next
    PROVE  TypeOK' /\ \E e \in Env : StepOf(e)
<1>1. TypeOK' /\ \E e \in Env : StepOf(e) \/ KidLostStep(e)
  BY StepForms
<1>2. ASSUME NEW e \in Env, KidLostStep(e) PROVE FALSE
  <2>1. pc[e].at = "kidupcall" /\ ~HasUpcall(pc[e].kid)
    BY <1>2 DEF KidLostStep
  <2>2. "text" \in UserVa /\ ~Mapped(pc[e].kid, "text")
    BY <2>1 DEF HasUpcall
  <2>3. PICK j \in 1 .. Len(Pages) : Pages[j] = "text"
    BY <2>2, PageFacts
  <2>4. /\ Mapped(pc[e].kid, Pages[j]) <=> j < pc[e].i \/ (j = pc[e].i /\ pc[e].at = "dupself")
        /\ pc[e].i = Len(Pages) + 1
    BY <2>1 DEF CowInv, KidPages, KidAt, Late
  <2>5. Len(Pages) \in Nat
    BY PageFacts
  <2>6. j < pc[e].i
    BY <2>4, <2>5
  <2> QED
    BY <2>2, <2>3, <2>4, <2>6
<1> QED
  BY <1>1, <1>2

LEMMA CowInvNext ==
    ASSUME ~TablesFail
    PROVE  LibInv /\ CowInv /\ [Next]_vars => CowInv'
<1> SUFFICES ASSUME LibInv, CowInv, [Next]_vars PROVE CowInv'
  OBVIOUS
<1>1. CASE UNCHANGED vars
  <2>1. life' = life /\ as' = as /\ bytes' = bytes /\ pc' = pc /\ fault' = fault
    BY <1>1 DEF vars
  <2>2. Perms'
    BY <2>1 DEF CowInv, Perms, PermOK
  <2>3. KidPages'
    <3> SUFFICES ASSUME NEW e \in Env PROVE KidPage(e)'
      BY DEF KidPages, KidPage
    <3>1. KidPage(e)
      BY DEF CowInv, KidPages, KidPage
    <3> QED
      BY <2>1, <3>1, Zenon DEF KidPage, Mapped
  <2>4. Owned'
    <3> SUFFICES ASSUME NEW y \in Env, NEW x \in Env, NEW va \in UserVa, NEW v \in Va
                 PROVE  OwnedBy(y, va, x, v)'
      BY DEF Owned
    <3>1. OwnedBy(y, va, x, v)
      BY DEF CowInv, Owned
    <3> QED
      BY <2>1, <3>1, Zenon DEF OwnedBy, Writable, Share, Temp, Dup
  <2>5. TempOwned' /\ FaultServed'
    BY <2>1 DEF CowInv, TempOwned, TempAlone, TempCopied, FaultServed, Share
  <2> QED
    BY <2>2, <2>3, <2>4, <2>5 DEF CowInv
<1>2. CASE Next
  <2>1. TypeOK' /\ \E e \in Env : StepOf(e)
    BY <1>2, KidKept
  <2>2. PICK e \in Env : StepOf(e)
    BY <2>1
  <2>3. Perms' /\ KidPages' /\ Owned' /\ FaultServed'
    BY <2>1, <2>2, PermsKept, KidPagesKept, OwnedKept, FaultServedKept
  <2>4. TempOwned'
    BY <2>1, <2>2, TempAloneKept, TempCopiedKept DEF TempOwned
  <2> QED
    BY <2>3, <2>4 DEF CowInv
<1> QED
  BY <1>1, <1>2

LEMMA CowInvAlways ==
    ASSUME ~TablesFail
    PROVE  Spec => [](LibInv /\ CowInv)
BY LibInvInit, LibInvNext, CowInvInit, CowInvNext, PTL DEF Spec

-----------------------------------------------------------------------------
(* What follows from the invariant of the memories.                        *)

\* For any number of programs, frames and pages: when no call is refused a page
\* table, a program panics in pgfault or in fork only when there is no frame left.
\* The branch of pgfault that refuses a page that is not copy-on-write is never
\* taken, whatever the interleaving of parents and children.
THEOREM ForkPanics == ASSUME ~TablesFail PROVE Spec => PanicMeansNoMem
<1> DEFINE P == \A e \in Env : life[e] # "stuck" /\ life'[e] = "stuck" => FreeFrames = {}
<1>1. LibInv /\ CowInv /\ [Next]_vars => [P]_vars
  <2> SUFFICES ASSUME LibInv, CowInv, Next PROVE P
    OBVIOUS
  <2>1. PICK e \in Env : StepOf(e)
    BY KidKept
  <2> SUFFICES ASSUME NEW y \in Env, life[y] # "stuck", life'[y] = "stuck"
               PROVE  FreeFrames = {}
    OBVIOUS
  <2>2. PanicStep(e)
    BY <2>1 DEF StepOf, StoreStep, FaultStep, TempGetsStep, TempFilledStep,
       TempMappedStep, TempGoneStep, JumpStep, LeaveStep, BirthStep, GiveStep, ProtectStep,
       XstackStep, KidXstackStep, XstackCopyStep, XstackGoneStep, StartStep, ExitStep, LifeIs
  <2>3. ~(fault[e].at = "check" /\ as[e][fault[e].va].perm # "cow")
    BY DEF CowInv, FaultServed
  <2> QED
    BY <2>2, <2>3 DEF PanicStep, NoMemory
<1> QED
  BY <1>1, CowInvAlways, PTL DEF Spec, PanicMeansNoMem

-----------------------------------------------------------------------------
(* Private memories: fork implements AddressSpaces.                        *)

\* While duppage is between its two calls the parent keeps the frame it has given
\* away: its own faults are on the stack, and the stack is writable then.
DupSame(e) ==
    pc[e].at = "dupself" =>
        /\ Share(e, Pages[pc[e].i], pc[e].kid, Pages[pc[e].i])
        /\ Pages[pc[e].i] = "stack" => Writable(e, "stack")
FaultStack(e) ==
    pc[e].at # "user" /\ fault[e].at # "none" => fault[e].va = "stack"
DupInv == \A e \in Env : DupSame(e) /\ FaultStack(e)

LEMMA FaultStackKept ==
    ASSUME LibInv, DupInv, NEW e \in Env, StepOf(e), NEW y \in Env
    PROVE  FaultStack(y)'
<1>0. FaultStack(y)
  BY DEF DupInv
<1>1. CASE y # e
  BY <1>0, <1>1, Bystander DEF FaultStack
<1>2. CASE y = e
  <2>1. CASE StoreStep(e) \/ PanicStep(e)
    BY <1>0, <1>2, <2>1 DEF StoreStep, PanicStep, FaultStack
  <2>2. CASE FaultStep(e)
    BY <1>2, <2>2 DEF FaultStep, FaultIs, FaultStack
  <2>3. CASE TempGetsStep(e) \/ TempFilledStep(e) \/ TempMappedStep(e)
    BY <1>0, <1>2, <2>3 DEF TempGetsStep, TempFilledStep, TempMappedStep, FaultIs, FaultStack
  <2>4. CASE ~(StoreStep(e) \/ PanicStep(e) \/ FaultStep(e) \/ TempGetsStep(e)
               \/ TempFilledStep(e) \/ TempMappedStep(e))
    <3>1. fault'[e].at = "none"
      BY <2>4, CowFacts DEF StepOf, TempGoneStep, JumpStep, LeaveStep, BirthStep, GiveStep,
         ProtectStep, XstackStep, KidXstackStep, XstackCopyStep, XstackGoneStep, StartStep,
         ExitStep, Calling, FaultIs
    <3> QED
      BY <1>2, <3>1 DEF FaultStack
  <2> QED
    BY <2>1, <2>2, <2>3, <2>4
<1> QED
  BY <1>1, <1>2

LEMMA DupSameKept ==
    ASSUME LibInv, CowInv, DupInv, NEW e \in Env, StepOf(e), NEW y \in Env
    PROVE  DupSame(y)'
<1>0. DupSame(y) /\ FaultStack(y)
  BY DEF DupInv
<1> SUFFICES ASSUME pc'[y].at = "dupself" PROVE DupSame(y)'
  BY DEF DupSame
\* Nothing has happened to the two mappings.
<1>1. ASSUME pc'[y] = pc[y], NEW a \in Va, a = Pages[pc[y].i],
             NEW k \in Env, k = pc[y].kid, as'[y][a] = as[y][a], as'[k][a] = as[k][a]
      PROVE  DupSame(y)'
  BY <1>0, <1>1 DEF DupSame, Share, Writable
<1>2. ASSUME pc[y].at = "dupself"
      PROVE  /\ Pages[pc[y].i] \in UserVa /\ Pages[pc[y].i] \in Va
             /\ Pages[pc[y].i] # "pftemp" /\ Pages[pc[y].i] # "xstack"
             /\ pc[y].kid \in Env /\ life[pc[y].kid] = "embryo" /\ pc[y].kid # e
             /\ life[y] \in {"run", "stuck"}
  <2>1. pc[y].kid \in Env /\ life[pc[y].kid] = "embryo" /\ pc[y].kid # e
    BY <1>2, CowFacts DEF KidOwn, KidAt
  <2>2. life[y] \in {"run", "stuck"}
    BY <1>2, CowFacts, ProgramFacts DEF Idle
  <2> QED
    BY <1>2, <2>1, <2>2, PageOfLoop
<1>3. CASE y # e
  <2>1. pc'[y] = pc[y] /\ pc[y].at = "dupself"
    BY <1>3, Bystander
  <2>2. PICK a \in Va, k \in Env : a = Pages[pc[y].i] /\ k = pc[y].kid
    BY <1>2, <2>1
  <2>3. life[y] \in {"run", "stuck"} /\ k # e
    BY <1>2, <2>1, <2>2
  <2>4. ~(pc[e].at \in KidAt /\ pc[e].kid = k)
    BY <1>3, <2>1, <2>2, CowFacts DEF KidOwn, KidAt
  <2>5. as'[y][a] = as[y][a] /\ as'[k][a] = as[k][a]
    BY <1>3, <2>3, <2>4, Bystander
  <2> QED
    BY <1>1, <2>1, <2>2, <2>5
<1>4. CASE y = e
  <2>1. CASE StoreStep(e) \/ FaultStep(e) \/ PanicStep(e) \/ TempGetsStep(e)
             \/ TempFilledStep(e) \/ TempGoneStep(e)
    <3>1. pc' = pc
      BY <2>1 DEF StoreStep, FaultStep, PanicStep, TempGetsStep, TempFilledStep, TempGoneStep
    <3>2. PICK a \in Va, k \in Env : a = Pages[pc[y].i] /\ k = pc[y].kid /\ a # "pftemp"
      BY <1>2, <3>1
    <3>3. as'[y][a] = as[y][a] /\ as'[k][a] = as[k][a]
      BY <2>1, <3>2 DEF StoreStep, FaultStep, PanicStep, TempGetsStep, TempFilledStep,
         TempGoneStep, Gets, Sets
    <3> QED
      BY <1>1, <3>1, <3>2, <3>3
  <2>2. CASE TempMappedStep(e)
    <3>1. pc' = pc /\ fault[e].at = "map" /\ as[e][fault[e].va].perm = "cow"
      BY <2>2, CowFacts DEF TempMappedStep, FaultCow
    <3>2. PICK a \in Va, k \in Env : a = Pages[pc[y].i] /\ k = pc[y].kid /\ k # e
      BY <1>2, <3>1
    <3>3. fault[e].va = "stack" /\ a # "stack"
      BY <1>0, <1>4, <3>1, <3>2 DEF FaultStack, DupSame, Writable
    <3>4. as'[y][a] = as[y][a] /\ as'[k][a] = as[k][a]
      BY <1>4, <2>2, <3>2, <3>3 DEF TempMappedStep, Sets
    <3> QED
      BY <1>1, <3>1, <3>2, <3>4
  <2>3. CASE GiveStep(e)
    <3>0. pc[e].at = "dupchild" /\ pc[e].at \in KidAt
      BY <2>3 DEF GiveStep, KidAt
    <3>1. PICK a \in Va, k \in Env :
             /\ a = Pages[pc[e].i] /\ k = pc[e].kid /\ k # e
             /\ \E perm : Sets(k, a, as[e][a].frame, perm)
             /\ pc'[e].i = pc[e].i /\ pc'[e].kid = k
      BY <1>4, <2>3, <3>0, CowFacts, PageOfLoop DEF GiveStep, At
    <3>2. as'[k][a].frame = as[e][a].frame /\ as'[e][a] = as[e][a]
      BY <3>1 DEF Sets
    <3>3. Writable(e, "stack")
      BY SMTT(40), <2>3 DEF GiveStep, Calling, Pushed
    <3> QED
      BY <1>4, <3>1, <3>2, <3>3 DEF DupSame, Share, Writable
  <2>4. CASE ~(StoreStep(e) \/ FaultStep(e) \/ PanicStep(e) \/ TempGetsStep(e)
               \/ TempFilledStep(e) \/ TempGoneStep(e) \/ TempMappedStep(e) \/ GiveStep(e))
    BY <1>4, <2>4, CowFacts DEF StepOf, JumpStep, LeaveStep, BirthStep, ProtectStep,
       XstackStep, KidXstackStep, XstackCopyStep, XstackGoneStep, StartStep, ExitStep, At
  <2> QED
    BY <2>1, <2>2, <2>3, <2>4
<1> QED
  BY <1>3, <1>4

LEMMA DupInvInit == Init => DupInv
<1>1. User.at = "user" /\ NoFault.at = "none"
  BY DEF User, NoFault
<1> QED
  BY <1>1 DEF Init, DupInv, DupSame, FaultStack

LEMMA DupInvNext == LibInv /\ CowInv /\ DupInv /\ [Next]_vars => DupInv'
<1> SUFFICES ASSUME LibInv, CowInv, DupInv, [Next]_vars PROVE DupInv'
  OBVIOUS
<1>1. CASE UNCHANGED vars
  BY <1>1 DEF vars, DupInv, DupSame, FaultStack, Share, Writable
<1>2. CASE Next
  BY <1>2, KidKept, FaultStackKept, DupSameKept DEF DupInv
<1> QED
  BY <1>1, <1>2

\* The refinement mapping, one entry at a time.
Alive == [e \in Env |-> IF life[e] = "stuck" THEN "run" ELSE life[e]]
Seen(e, va) == IF ~Mapped(e, va) \/ BeingCopied(e, va) THEN -1 ELSE bytes[as[e][va].frame]

LEMMA ViewFacts ==
    /\ Alive = [e \in Env |-> IF life[e] = "stuck" THEN "run" ELSE life[e]]
    /\ View = [e \in Env |-> [va \in UserVa |-> Seen(e, va)]]
    /\ \A e \in Env : View[e] = [va \in UserVa |-> Seen(e, va)]
    /\ \A e \in Env, va \in UserVa : View[e][va] = Seen(e, va)
<1>1. View = [e \in Env |-> [va \in UserVa |-> Seen(e, va)]]
  BY DEF View, Seen
<1> QED
  BY <1>1 DEF Alive

LEMMA ViewFactsNext ==
    /\ Alive' = [e \in Env |-> IF life'[e] = "stuck" THEN "run" ELSE life'[e]]
    /\ View' = [e \in Env |-> [va \in UserVa |-> Seen(e, va)']]
    /\ \A e \in Env : View'[e] = [va \in UserVa |-> Seen(e, va)']
    /\ \A e \in Env, va \in UserVa : View'[e][va] = Seen(e, va)'
<1>1. View' = [e \in Env |-> [va \in UserVa |-> Seen(e, va)']]
  BY DEF View, Seen
<1> QED
  BY <1>1 DEF Alive

SameView == \A y \in Env, v \in UserVa : Seen(y, v)' = Seen(y, v)
SameViewBut(e, va) ==
    \A y \in Env, v \in UserVa : ~(y = e /\ v = va) => Seen(y, v)' = Seen(y, v)

LEMMA ViewSame == ASSUME SameView PROVE View' = View
BY ViewFacts, ViewFactsNext DEF SameView

LEMMA ViewOne ==
    ASSUME NEW e \in Env, NEW va \in UserVa, SameViewBut(e, va), NEW d, Seen(e, va)' = d
    PROVE  View' = [View EXCEPT ![e][va] = d]
<1> DEFINE W == [View EXCEPT ![e][va] = d]
<1>1. W = [y \in Env |-> IF y = e THEN [View[e] EXCEPT ![va] = d] ELSE View[y]]
  BY ViewFacts
<1>2. ASSUME NEW y \in Env PROVE View'[y] = W[y]
  <2>1. W[y] = IF y = e THEN [View[e] EXCEPT ![va] = d] ELSE View[y]
    BY <1>1
  <2>2. CASE y = e
    <3>1. [View[e] EXCEPT ![va] = d] = [v \in UserVa |-> IF v = va THEN d ELSE Seen(e, v)]
      BY ViewFacts
    <3>2. View'[e] = [v \in UserVa |-> Seen(e, v)']
      BY ViewFactsNext
    <3> QED
      BY <2>1, <2>2, <3>1, <3>2 DEF SameViewBut
  <2>3. CASE y # e
    <3>1. W[y] = [v \in UserVa |-> Seen(y, v)]
      BY <2>1, <2>3, ViewFacts
    <3>2. View'[y] = [v \in UserVa |-> Seen(y, v)']
      BY ViewFactsNext
    <3> QED
      BY <2>3, <3>1, <3>2 DEF SameViewBut
  <2> QED
    BY <2>2, <2>3
<1>3. View' = [y \in Env |-> View'[y]] /\ W = [y \in Env |-> W[y]]
  BY <1>1, ViewFactsNext
<1> HIDE DEF W
<1>4. View' = W
  BY <1>2, <1>3
<1> QED
  BY <1>4 DEF W

LEMMA AbsStutters ==
    ASSUME Alive' = Alive, SameView
    PROVE  [A!AbsNext]_(A!absVars)
<1>1. View' = View
  BY ViewSame
<1> QED
  BY <1>1 DEF A!absVars, Alive

LEMMA AbsCreates ==
    ASSUME NEW c \in Env, Alive[c] = "free", Alive' = [Alive EXCEPT ![c] = "embryo"], SameView
    PROVE  A!AbsNext
<1>1. View' = View
  BY ViewSame
<1>2. A!Create(c)
  BY <1>1 DEF A!Create, Alive
<1> QED
  BY <1>2 DEF A!AbsNext

LEMMA AbsCopies ==
    ASSUME NEW p \in Env, NEW c \in Env, NEW va \in UserVa,
           Alive[p] = "run", Alive[c] = "embryo", Alive' = Alive,
           Seen(c, va) = -1, Seen(c, va)' = Seen(p, va), SameViewBut(c, va)
    PROVE  A!AbsNext
<1>1. View' = [View EXCEPT ![c][va] = Seen(p, va)]
  BY ViewOne
<1>2. View[c][va] = -1 /\ View[p][va] = Seen(p, va)
  BY ViewFacts
<1>3. A!Copy(p, c, va)
  BY <1>1, <1>2 DEF A!Copy, Alive
<1> QED
  BY <1>3 DEF A!AbsNext

LEMMA AbsStarts ==
    ASSUME NEW c \in Env, Alive[c] = "embryo", Alive' = [Alive EXCEPT ![c] = "run"],
           SameView, \A va \in UserVa : Seen(c, va) # -1
    PROVE  A!AbsNext
<1>1. View' = View /\ \A va \in UserVa : View[c][va] # -1
  BY ViewSame, ViewFacts
<1>2. A!Start(c)
  BY <1>1 DEF A!Start, Alive
<1> QED
  BY <1>2 DEF A!AbsNext

LEMMA AbsWrites ==
    ASSUME NEW e \in Env, NEW va \in UserVa, Alive[e] = "run", Alive' = Alive,
           SameViewBut(e, va), Seen(e, va)' \in Data, Seen(e, va)' # Seen(e, va)
    PROVE  A!AbsNext
<1>1. View' = [View EXCEPT ![e][va] = Seen(e, va)']
  BY ViewOne
<1>2. View[e][va] = Seen(e, va) /\ View'[e][va] = Seen(e, va)'
  BY ViewFacts, ViewFactsNext
<1>3. A!Write(e, va)
  BY <1>1, <1>2 DEF A!Write, Alive
<1> QED
  BY <1>3 DEF A!AbsNext

LEMMA AbsExits ==
    ASSUME NEW e \in Env, Alive[e] = "run", Alive' = [Alive EXCEPT ![e] = "free"],
           \A v \in UserVa : Seen(e, v)' = -1,
           \A y \in Env \ {e}, v \in UserVa : Seen(y, v)' = Seen(y, v)
    PROVE  A!AbsNext
<1> DEFINE None == [v \in UserVa |-> -1]
<1>1. View'[e] = None
  BY ViewFactsNext
<1>2. ASSUME NEW y \in Env, y # e PROVE View'[y] = View[y]
  BY <1>2, ViewFacts, ViewFactsNext
<1>3. View' = [y \in Env |-> View'[y]] /\ View = [y \in Env |-> View[y]]
  BY ViewFacts, ViewFactsNext
<1> HIDE DEF None
<1>4. View' = [View EXCEPT ![e] = None]
  BY <1>1, <1>2, <1>3
<1>5. A!Exit(e)
  BY <1>4 DEF A!Exit, A!Empty, Alive, None
<1> QED
  BY <1>5 DEF A!AbsNext

\* A page is being copied while its parent is between the two calls of duppage.
HalfDone(c, va) == \E p \in Env : Dup(p, va, c)

LEMMA CopiedIsDup ==
    ASSUME KidOwn, NEW c \in Env, NEW va \in UserVa
    PROVE  BeingCopied(c, va) <=> HalfDone(c, va)
BY DEF BeingCopied, HalfDone, Dup, KidOwn, KidAt

LEMMA CopiedIsDupNext ==
    ASSUME KidOwn', NEW c \in Env, NEW va \in UserVa
    PROVE  BeingCopied(c, va)' <=> HalfDone(c, va)'
BY DEF BeingCopied, HalfDone, Dup, KidOwn, KidAt

LEMMA SeenIs ==
    ASSUME LibInv, NEW e \in Env, StepOf(e), NEW y \in Env, NEW v \in UserVa
    PROVE  /\ Seen(y, v) = IF ~Mapped(y, v) \/ HalfDone(y, v) THEN -1
                           ELSE bytes[as[y][v].frame]
           /\ Seen(y, v)' = IF as'[y][v] = NoMap \/ HalfDone(y, v)' THEN -1
                            ELSE bytes'[as'[y][v].frame]
<1>1. KidOwn /\ KidOwn'
  BY CowFacts, KidOwnKept
<1>2. BeingCopied(y, v) <=> HalfDone(y, v)
  BY <1>1, CopiedIsDup
<1>3. BeingCopied(y, v)' <=> HalfDone(y, v)'
  BY <1>1, CopiedIsDupNext
<1>4. Seen(y, v) = IF ~Mapped(y, v) \/ HalfDone(y, v) THEN -1 ELSE bytes[as[y][v].frame]
  BY <1>2 DEF Seen
<1>5. Seen(y, v)' = IF as'[y][v] = NoMap \/ HalfDone(y, v)' THEN -1
                    ELSE bytes'[as'[y][v].frame]
  BY <1>3 DEF Seen, Mapped
<1> QED
  BY <1>4, <1>5

\* What is read of a page that is there.
LEMMA SeenHere ==
    ASSUME LibInv, NEW e \in Env, StepOf(e), NEW y \in Env, NEW v \in UserVa,
           Mapped(y, v), ~HalfDone(y, v)
    PROVE  Seen(y, v) = bytes[as[y][v].frame]
BY SeenIs

LEMMA SeenHereNext ==
    ASSUME LibInv, NEW e \in Env, StepOf(e), NEW y \in Env, NEW v \in UserVa,
           as'[y][v] # NoMap, ~HalfDone(y, v)'
    PROVE  Seen(y, v)' = bytes'[as'[y][v].frame]
BY SeenIs

LEMMA SeenKept ==
    ASSUME LibInv, NEW e \in Env, StepOf(e), NEW y \in Env, NEW v \in UserVa,
           as'[y][v] = as[y][v], HalfDone(y, v)' <=> HalfDone(y, v),
           Mapped(y, v) /\ ~HalfDone(y, v) => bytes'[as[y][v].frame] = bytes[as[y][v].frame]
    PROVE  Seen(y, v)' = Seen(y, v)
<1>1. Seen(y, v) = IF ~Mapped(y, v) \/ HalfDone(y, v) THEN -1 ELSE bytes[as[y][v].frame]
  BY SeenIs
<1>2. Seen(y, v)' = IF as'[y][v] = NoMap \/ HalfDone(y, v)' THEN -1
                    ELSE bytes'[as'[y][v].frame]
  BY SeenIs
<1>3. as'[y][v] = NoMap <=> ~Mapped(y, v)
  BY DEF Mapped
<1>4. CASE ~Mapped(y, v) \/ HalfDone(y, v)
  BY <1>1, <1>2, <1>3, <1>4
<1>5. CASE Mapped(y, v) /\ ~HalfDone(y, v)
  BY <1>1, <1>2, <1>3, <1>5
<1> QED
  BY <1>4, <1>5

\* Only the calls of duppage begin and end a copy.
LEMMA HalfDoneKept ==
    ASSUME LibInv, NEW e \in Env, StepOf(e), NEW y \in Env, NEW v \in UserVa,
           pc'[e] = pc[e] \/ (pc[e].at # "dupself" /\ pc'[e].at # "dupself")
    PROVE  HalfDone(y, v)' <=> HalfDone(y, v)
<1>1. ASSUME NEW p \in Env PROVE Dup(p, v, y)' <=> Dup(p, v, y)
  <2>1. CASE p # e
    BY <2>1, Bystander DEF Dup
  <2>2. CASE p = e
    BY <2>2 DEF Dup
  <2> QED
    BY <2>1, <2>2
<1> QED
  BY <1>1 DEF HalfDone

LEMMA NotHalfDone ==
    ASSUME LibInv, NEW e \in Env, StepOf(e), NEW v \in UserVa
    PROVE  ~HalfDone(e, v)
BY NoDupOfRunning DEF HalfDone

\* A page of a program is neither an exception stack nor being filled by pgfault.
LEMMA PageAlone ==
    ASSUME LibInv, CowInv, NEW e \in Env, StepOf(e), NEW y \in Env, NEW v \in UserVa, Mapped(y, v)
    PROVE  /\ as[y][v].frame \in Frame /\ v \in Va
           /\ as[y][v].frame # as[e]["xstack"].frame
           /\ fault[e].at \in {"copy", "map"} => as[y][v].frame # as[e]["pftemp"].frame
<1>1. v \in Va /\ v # "pftemp" /\ v # "xstack"
  BY CowFacts
<1>2. as[y][v].frame \in Frame
  BY <1>1, CowFacts, MappedType
<1>3. as[y][v].frame # as[e]["xstack"].frame
  <2>1. Alone(e, y, v)
    BY <1>1, CowFacts DEF XstackAlone
  <2>2. ~Mapped(e, "xstack") => as[e]["xstack"].frame = -1
    BY CowFacts, MappedType
  <2> QED
    BY ZenonT(60), <1>1, <1>2, <2>1, <2>2, CowFacts DEF Alone, Share
<1>4. fault[e].at \in {"copy", "map"} => as[y][v].frame # as[e]["pftemp"].frame
  <2>1. TempAlone(e, y, v)
    BY <1>1 DEF CowInv, TempOwned
  <2> QED
    BY <1>1, <2>1 DEF TempAlone, Share
<1> QED
  BY <1>1, <1>2, <1>3, <1>4

LEMMA StoreAbs ==
    ASSUME LibInv, CowInv, NEW e \in Env, StepOf(e), StoreStep(e)
    PROVE  [A!AbsNext]_(A!absVars)
<1>0. Alive' = Alive /\ Alive[e] = "run" /\ as' = as /\ pc' = pc
  BY CowFacts DEF StoreStep, Alive
<1>1. PICK va \in UserVa, d \in Data :
         Writable(e, va) /\ BytesBut(as[e][va].frame) /\ bytes'[as[e][va].frame] = d
  BY DEF StoreStep
<1>2. SameViewBut(e, va)
  <2> SUFFICES ASSUME NEW y \in Env, NEW v \in UserVa, ~(y = e /\ v = va)
               PROVE  Seen(y, v)' = Seen(y, v)
    BY DEF SameViewBut
  <2>1. HalfDone(y, v)' <=> HalfDone(y, v)
    BY <1>0 DEF HalfDone, Dup
  <2>2. ASSUME Mapped(y, v), ~HalfDone(y, v)
        PROVE  bytes'[as[y][v].frame] = bytes[as[y][v].frame]
    <3>1. OwnedBy(e, va, y, v) /\ v # "pftemp"
      BY CowFacts DEF CowInv, Owned
    <3>2. as[y][v].frame # as[e][va].frame
      BY <1>1, <2>2, <3>1 DEF OwnedBy, Share, HalfDone
    <3>3. as[y][v].frame \in Frame
      BY <2>2, PageAlone
    <3> QED
      BY <1>1, <3>2, <3>3 DEF BytesBut
  <2> QED
    BY <1>0, <2>1, <2>2, SeenKept
<1>3. Seen(e, va)' = d
  <2>1. va \in Va /\ as[e][va] # NoMap
    BY <1>1, CowFacts DEF Writable
  <2>2. ~HalfDone(e, va)'
    BY <1>0, NotHalfDone DEF HalfDone, Dup
  <2> QED
    BY <1>0, <1>1, <2>1, <2>2, SeenIs
<1>4. CASE Seen(e, va)' = Seen(e, va)
  <2>1. SameView
    BY <1>2, <1>4 DEF SameView, SameViewBut
  <2> QED
    BY <1>0, <2>1, AbsStutters
<1>5. CASE Seen(e, va)' # Seen(e, va)
  BY <1>0, <1>2, <1>3, <1>5, AbsWrites
<1> QED
  BY <1>4, <1>5

\* The steps nobody sees.
LEMMA QuietAbs ==
    ASSUME LibInv, CowInv, NEW e \in Env, StepOf(e),
           \/ FaultStep(e) \/ PanicStep(e) \/ TempGetsStep(e) \/ TempFilledStep(e)
           \/ TempGoneStep(e) \/ JumpStep(e) \/ LeaveStep(e) \/ XstackStep(e)
           \/ KidXstackStep(e) \/ XstackCopyStep(e) \/ XstackGoneStep(e)
    PROVE  [A!AbsNext]_(A!absVars)
<1>1. Alive' = Alive
  <2>1. \A y \in Env : life'[y] = life[y] \/ (life[y] = "run" /\ life'[y] = "stuck")
    BY CowFacts DEF FaultStep, PanicStep, TempGetsStep, TempFilledStep, TempGoneStep,
       JumpStep, LeaveStep, XstackStep, KidXstackStep, XstackCopyStep, XstackGoneStep, LifeIs
  <2> QED
    BY <2>1, ViewFacts, ViewFactsNext
<1>2. SameView
  <2> SUFFICES ASSUME NEW y \in Env, NEW v \in UserVa PROVE Seen(y, v)' = Seen(y, v)
    BY SMTT(40) DEF SameView
  <2>1. as'[y][v] = as[y][v]
    BY ZenonT(60), CowFacts DEF FaultStep, PanicStep, TempGetsStep, TempFilledStep, TempGoneStep,
       JumpStep, LeaveStep, XstackStep, KidXstackStep, XstackCopyStep, XstackGoneStep,
       Gets, Sets
  <2>2. HalfDone(y, v)' <=> HalfDone(y, v)
    <3>1. pc'[e] = pc[e] \/ (pc[e].at # "dupself" /\ pc'[e].at # "dupself")
      BY DEF FaultStep, PanicStep, TempGetsStep, TempFilledStep, TempGoneStep, JumpStep,
         LeaveStep, XstackStep, KidXstackStep, XstackCopyStep, XstackGoneStep, At
    <3> QED
      BY <3>1, HalfDoneKept
  <2>3. ASSUME Mapped(y, v) PROVE bytes'[as[y][v].frame] = bytes[as[y][v].frame]
    <3>1. PICK g \in Frame : g = as[y][v].frame /\ v \in Va /\ g # as[e]["xstack"].frame
      BY <2>3, PageAlone
    <3>2. CASE TempFilledStep(e)
      <4>1. g # as[e]["pftemp"].frame
        BY <2>3, <3>1, <3>2, PageAlone DEF TempFilledStep
      <4> QED
        BY <3>1, <3>2, <4>1 DEF TempFilledStep, BytesBut
    <3>3. CASE ~TempFilledStep(e)
      BY <3>1, <3>3, CowFacts DEF FaultStep, PanicStep, TempGetsStep, TempGoneStep,
         JumpStep, LeaveStep, XstackStep, KidXstackStep, XstackCopyStep, XstackGoneStep,
         Gets, BytesBut
    <3> QED
      BY <3>2, <3>3
  <2> QED
    BY <2>1, <2>2, <2>3, SeenKept
<1> QED
  BY <1>1, <1>2, AbsStutters

\* pgfault puts its copy in place: the program still reads what it read.
LEMMA TempMappedAbs ==
    ASSUME LibInv, CowInv, NEW e \in Env, StepOf(e), TempMappedStep(e)
    PROVE  [A!AbsNext]_(A!absVars)
<1>0. Alive' = Alive /\ bytes' = bytes /\ pc' = pc /\ fault[e].at = "map"
  BY DEF TempMappedStep, Alive
<1>1. PICK a \in UserVa : a = fault[e].va /\ a \in Va
  BY <1>0, Served
<1>2. /\ as'[e][a].frame = as[e]["pftemp"].frame /\ as'[e][a].perm = "w"
      /\ \A x \in Env, v \in Va : ~(x = e /\ v = a) => as'[x][v] = as[x][v]
  BY <1>1 DEF TempMappedStep, Sets
<1>3. SameView
  <2> SUFFICES ASSUME NEW y \in Env, NEW v \in UserVa PROVE Seen(y, v)' = Seen(y, v)
    BY DEF SameView
  <2>1. HalfDone(y, v)' <=> HalfDone(y, v)
    BY <1>0, HalfDoneKept
  <2>2. CASE y = e /\ v = a
    <3>1. ~HalfDone(e, a)
      BY NotHalfDone
    <3>2. as[e][a].perm = "cow" /\ TempCopied(e)
      BY <1>0, <1>1, CowFacts DEF FaultCow, CowInv, TempOwned
    <3>3. Mapped(e, a) /\ as'[e][a] # NoMap
      BY <1>1, <1>2, <3>2, CowFacts DEF Mapped
    <3>4. bytes[as[e]["pftemp"].frame] = bytes[as[e][a].frame]
      BY <1>0, <1>1, <3>2 DEF TempCopied
    <3> QED
      <4>1. Seen(e, a) = bytes[as[e][a].frame]
        BY <3>1, <3>3, SeenHere
      <4>2. Seen(e, a)' = bytes'[as'[e][a].frame]
        BY <2>1, <2>2, <3>1, <3>3, SeenHereNext
      <4> QED
        BY <1>0, <1>2, <2>2, <3>4, <4>1, <4>2
  <2>3. CASE ~(y = e /\ v = a)
    <3>1. as'[y][v] = as[y][v]
      BY <1>2, <2>3, CowFacts
    <3> QED
      BY <1>0, <2>1, <3>1, SeenKept
  <2> QED
    BY <2>2, <2>3
<1> QED
  BY <1>0, <1>3, AbsStutters

LEMMA BirthAbs ==
    ASSUME LibInv, CowInv, NEW e \in Env, StepOf(e), BirthStep(e)
    PROVE  A!AbsNext
<1>1. PICK c \in Env : life[c] = "free" /\ LifeIs(c, "embryo") /\ At(e, "pte", 1, c, FALSE)
  BY DEF BirthStep
<1>2. as' = as /\ bytes' = bytes /\ pc[e].at # "dupself" /\ pc'[e].at # "dupself"
  BY <1>1 DEF BirthStep, At
<1>3. Alive[c] = "free" /\ Alive' = [Alive EXCEPT ![c] = "embryo"]
  BY ZenonT(60), <1>1, ViewFacts, ViewFactsNext DEF LifeIs
<1>4. SameView
  <2> SUFFICES ASSUME NEW y \in Env, NEW v \in UserVa PROVE Seen(y, v)' = Seen(y, v)
    BY DEF SameView
  <2>1. HalfDone(y, v)' <=> HalfDone(y, v)
    BY <1>2, HalfDoneKept
  <2> QED
    BY <1>2, <2>1, SeenKept
<1> QED
  BY <1>3, <1>4, AbsCreates

\* The last of duppage for one page: the child has a copy of it.
LEMMA StartAbs ==
    ASSUME LibInv, CowInv, NEW e \in Env, StepOf(e), StartStep(e)
    PROVE  A!AbsNext
<1>0. /\ as' = as /\ bytes' = bytes /\ pc[e].at = "runnable" /\ pc'[e].at # "dupself"
      /\ pc[e].at \in KidAt /\ pc[e].at \in Late
  BY DEF StartStep, At, KidAt, Late
<1>1. PICK c \in Env : c = pc[e].kid /\ LifeIs(c, "run") /\ life[c] = "embryo"
  BY <1>0, CowFacts DEF StartStep
<1>2. Alive[c] = "embryo" /\ Alive' = [Alive EXCEPT ![c] = "run"]
  BY ZenonT(60), <1>1, ViewFacts, ViewFactsNext DEF LifeIs
<1>3. SameView
  <2> SUFFICES ASSUME NEW y \in Env, NEW v \in UserVa PROVE Seen(y, v)' = Seen(y, v)
    BY DEF SameView
  <2>1. HalfDone(y, v)' <=> HalfDone(y, v)
    BY <1>0, HalfDoneKept
  <2> QED
    BY <1>0, <2>1, SeenKept
<1>4. ASSUME NEW va \in UserVa PROVE Seen(c, va) # -1
  <2>1. ~HalfDone(c, va)
    BY <1>0, <1>1, CowFacts DEF HalfDone, Dup, KidOwn, KidAt
  <2>2. PICK j \in 1 .. Len(Pages) : Pages[j] = va
    BY PageFacts
  <2>3. pc[e].i = Len(Pages) + 1
    BY <1>0 DEF CowInv, KidPages
  <2>4. j < pc[e].i
    BY <2>2, <2>3, PageFacts
  <2>5. Mapped(c, va)
    BY <1>0, <1>1, <2>2, <2>4 DEF CowInv, KidPages
  <2>6. as[c][va].frame \in Frame
    BY <2>5, PageAlone
  <2>7. bytes[as[c][va].frame] # -1
    <3>1. bytes \in [Frame -> Data]
      BY CowFacts DEF Typed
    <3>2. bytes[as[c][va].frame] \in Data
      BY <2>6, <3>1
    <3>3. PICK n \in Nat : n = bytes[as[c][va].frame]
      BY <3>2, DataAssumption
    <3>4. n # -1
      OBVIOUS
    <3> QED
      BY <3>3, <3>4
  <2> QED
    BY <2>1, <2>5, <2>7, SeenIs
<1> QED
  BY <1>2, <1>3, <1>4, AbsStarts

LEMMA ExitAbs ==
    ASSUME LibInv, CowInv, NEW e \in Env, StepOf(e), ExitStep(e)
    PROVE  A!AbsNext
<1>0. /\ bytes' = bytes /\ pc' = pc /\ LifeIs(e, "free")
      /\ \A v \in Va : as'[e][v] = NoMap
      /\ \A x \in Env \ {e} : as'[x] = as[x]
  BY DEF ExitStep
<1>1. Alive[e] = "run" /\ Alive' = [Alive EXCEPT ![e] = "free"]
  <2>1. life[e] = "run" /\ life'[e] = "free" /\ \A x \in Env \ {e} : life'[x] = life[x]
    BY <1>0, CowFacts DEF LifeIs
  <2> QED
    BY <2>1, ViewFacts, ViewFactsNext
<1>2. ASSUME NEW v \in UserVa PROVE Seen(e, v)' = -1
  BY <1>0, CowFacts, SeenIs
<1>3. ASSUME NEW y \in Env \ {e}, NEW v \in UserVa PROVE Seen(y, v)' = Seen(y, v)
  <2>1. HalfDone(y, v)' <=> HalfDone(y, v)
    BY <1>0, HalfDoneKept
  <2>2. as'[y][v] = as[y][v]
    BY <1>0
  <2> QED
    BY <1>0, <2>1, <2>2, SeenKept
<1> QED
  BY <1>1, <1>2, <1>3, AbsExits

\* A call of duppage for page a and child k leaves mapping v of program y alone.
DupLeaves(e, a, k, y, v) ==
    /\ a = Pages[pc[e].i] /\ k = pc[e].kid /\ bytes' = bytes
    /\ pc'[e].at # "dupself" \/ (pc'[e].i = pc[e].i /\ pc'[e].kid = k)
    /\ ~(y = k /\ v = a) /\ as'[y][v] = as[y][v]

\* The pages duppage is not at are seen as before.
LEMMA DupOthers ==
    ASSUME LibInv, CowInv, NEW e \in Env, StepOf(e), NEW a \in UserVa, NEW k \in Env,
           NEW y \in Env, NEW v \in UserVa, DupLeaves(e, a, k, y, v)
    PROVE  Seen(y, v)' = Seen(y, v)
<1>1. ASSUME NEW p \in Env PROVE Dup(p, v, y)' <=> Dup(p, v, y)
  <2>1. CASE p # e
    BY <2>1, Bystander DEF Dup
  <2>2. CASE p = e
    BY <2>2 DEF Dup, DupLeaves
  <2> QED
    BY <2>1, <2>2
<1>2. HalfDone(y, v)' <=> HalfDone(y, v)
  BY <1>1 DEF HalfDone
<1>3. as'[y][v] = as[y][v] /\ bytes' = bytes
  BY DEF DupLeaves
<1> QED
  BY <1>2, <1>3, SeenKept

\* A parent is the only one to copy pages to its child.
LEMMA OnlyParent ==
    ASSUME LibInv, NEW e \in Env, StepOf(e), pc[e].at \in KidAt, NEW k \in Env, k = pc[e].kid,
           pc'[e].at # "dupself", NEW v \in UserVa
    PROVE  ~HalfDone(k, v)'
<1>1. ASSUME NEW p \in Env, Dup(p, v, k)' PROVE FALSE
  <2>1. p # e
    BY <1>1 DEF Dup
  <2>2. Dup(p, v, k)
    BY <1>1, <2>1, Bystander DEF Dup
  <2> QED
    BY <2>1, <2>2, CowFacts DEF Dup, KidOwn, KidAt
<1> QED
  BY <1>1 DEF HalfDone

LEMMA GiveAbs ==
    ASSUME LibInv, CowInv, NEW e \in Env, StepOf(e), GiveStep(e)
    PROVE  [A!AbsNext]_(A!absVars)
<1>0. pc[e].at = "dupchild" /\ pc[e].at \in KidAt /\ bytes' = bytes /\ Alive' = Alive
  BY DEF GiveStep, KidAt, Alive
<1>1. PICK a \in UserVa, k \in Env, i \in 1 .. Len(Pages) :
         /\ i = pc[e].i /\ a = Pages[i] /\ k = pc[e].kid /\ a \in Va /\ life[k] = "embryo"
         /\ Mapped(e, a) /\ Sets(k, a, as[e][a].frame, IF pc[e].cow THEN "cow" ELSE "r")
         /\ \/ pc[e].cow /\ At(e, "dupself", i, k, pc[e].cow)
            \/ ~pc[e].cow /\ At(e, "pte", i + 1, k, pc[e].cow)
  BY <1>0, CowFacts, PageOfLoop DEF GiveStep
<1>2. /\ as'[k][a].frame = as[e][a].frame /\ as'[k][a].perm # "none"
      /\ \A x \in Env, v \in Va : ~(x = k /\ v = a) => as'[x][v] = as[x][v]
      /\ pc'[e].kid = k /\ (pc'[e].i = pc[e].i \/ pc'[e].at # "dupself")
  BY <1>1 DEF Sets, At
<1>3. SameViewBut(k, a)
  <2> SUFFICES ASSUME NEW y \in Env, NEW v \in UserVa, ~(y = k /\ v = a)
               PROVE  Seen(y, v)' = Seen(y, v)
    BY DEF SameViewBut
  <2>1. as'[y][v] = as[y][v]
    BY <1>2, CowFacts
  <2>2. DupLeaves(e, a, k, y, v)
    BY <1>0, <1>1, <1>2, <2>1 DEF DupLeaves
  <2> QED
    BY <2>2, DupOthers
<1>4. ~Mapped(k, a) /\ as'[k][a] # NoMap
  <2>1. ~(i < pc[e].i \/ (i = pc[e].i /\ pc[e].at = "dupself"))
    BY <1>0, <1>1, PageFacts
  <2>2. ~Mapped(k, a)
    BY <1>0, <1>1, <2>1 DEF CowInv, KidPages
  <2> QED
    BY <1>2, <2>2, CowFacts
<1>5. Seen(k, a) = -1
  BY <1>4, SeenIs
<1>6. CASE pc[e].cow
  <2>1. Dup(e, a, k)'
    BY <1>1, <1>6 DEF At, Dup
  <2>2. Seen(k, a)' = -1
    BY <2>1, SeenIs DEF HalfDone
  <2>3. SameView
    BY <1>3, <1>5, <2>2 DEF SameView, SameViewBut
  <2> QED
    BY <1>0, <2>3, AbsStutters
<1>7. CASE ~pc[e].cow
  <2>1. pc'[e].at # "dupself"
    BY <1>1, <1>7 DEF At
  <2>2. ~HalfDone(k, a)'
    BY <1>0, <1>1, <2>1, OnlyParent
  <2>3. Seen(k, a)' = bytes[as[e][a].frame]
    BY <1>0, <1>2, <1>4, <2>2, SeenIs
  <2>4. Seen(e, a) = bytes[as[e][a].frame]
    BY <1>1, NotHalfDone, SeenIs
  <2>5. Alive[e] = "run" /\ Alive[k] = "embryo"
    BY <1>1, CowFacts DEF Alive
  <2> QED
    BY <1>0, <1>3, <1>5, <2>3, <2>4, <2>5, AbsCopies
<1> QED
  BY <1>6, <1>7

LEMMA ProtectAbs ==
    ASSUME LibInv, CowInv, DupInv, NEW e \in Env, StepOf(e), ProtectStep(e)
    PROVE  A!AbsNext
<1>0. /\ pc[e].at = "dupself" /\ pc[e].at \in KidAt /\ bytes' = bytes /\ Alive' = Alive
      /\ pc'[e].at # "dupself" /\ pc'[e].kid = pc[e].kid
  BY DEF ProtectStep, KidAt, Alive, At
<1>1. PICK a \in UserVa, k \in Env, i \in 1 .. Len(Pages) :
         /\ i = pc[e].i /\ a = Pages[i] /\ k = pc[e].kid /\ a \in Va /\ life[k] = "embryo"
         /\ Mapped(e, a) /\ Sets(e, a, as[e][a].frame, "cow")
  BY <1>0, CowFacts, PageOfLoop DEF ProtectStep
<1>2. /\ as'[e][a].frame = as[e][a].frame /\ as'[e][a].perm = "cow"
      /\ \A x \in Env, v \in Va : ~(x = e /\ v = a) => as'[x][v] = as[x][v]
      /\ k # e
  BY <1>1, CowFacts DEF Sets
<1>3. ASSUME NEW y \in Env, NEW v \in UserVa, ~(y = k /\ v = a), ~(y = e /\ v = a)
      PROVE  Seen(y, v)' = Seen(y, v)
  <2>1. as'[y][v] = as[y][v]
    BY <1>2, <1>3, CowFacts
  <2>2. DupLeaves(e, a, k, y, v)
    BY <1>0, <1>1, <1>3, <2>1 DEF DupLeaves
  <2> QED
    BY <2>2, DupOthers
<1>4. Seen(e, a) = bytes[as[e][a].frame] /\ Seen(e, a)' = bytes[as[e][a].frame]
  <2>1. ~HalfDone(e, a) /\ ~HalfDone(e, a)'
    <3>1. ASSUME NEW p \in Env, Dup(p, a, e)' PROVE FALSE
      <4>1. p # e
        BY <1>0, <3>1 DEF Dup
      <4>2. Dup(p, a, e)
        BY <3>1, <4>1, Bystander DEF Dup
      <4> QED
        BY <4>2, NoDupOfRunning
    <3> QED
      BY <3>1, NotHalfDone DEF HalfDone
  <2>2. as'[e][a] # NoMap
    BY <1>2, CowFacts
  <2> QED
    <3>1. Seen(e, a) = bytes[as[e][a].frame]
      BY <1>1, <2>1, SeenHere
    <3>2. Seen(e, a)' = bytes'[as'[e][a].frame]
      BY <2>1, <2>2, SeenHereNext
    <3> QED
      BY <1>0, <1>2, <3>1, <3>2
<1>5. SameViewBut(k, a)
  BY <1>3, <1>4 DEF SameViewBut
<1>6. Seen(k, a) = -1
  <2>1. Dup(e, a, k)
    BY <1>0, <1>1 DEF Dup
  <2> QED
    BY <2>1, SeenIs DEF HalfDone
<1>7. Seen(k, a)' = bytes[as[e][a].frame]
  <2>1. ~HalfDone(k, a)'
    BY <1>0, <1>1, OnlyParent
  <2>2. Mapped(k, a)
    BY <1>0, <1>1 DEF CowInv, KidPages
  <2>3. as'[k][a] = as[k][a] /\ as'[k][a] # NoMap
    BY <1>1, <1>2, <2>2 DEF Mapped
  <2>4. as[k][a].frame = as[e][a].frame
    BY <1>0, <1>1 DEF DupInv, DupSame, Share
  <2> QED
    BY ZenonT(60), <1>0, <2>1, <2>3, <2>4, SeenHereNext
<1>8. Alive[e] = "run" /\ Alive[k] = "embryo"
  BY <1>1, CowFacts DEF Alive
<1> QED
  BY <1>0, <1>4, <1>5, <1>6, <1>7, <1>8, AbsCopies

LEMMA StepAbs ==
    LibInv /\ CowInv /\ DupInv /\ [Next]_vars => [A!AbsNext]_(A!absVars)
<1> SUFFICES ASSUME LibInv, CowInv, DupInv, [Next]_vars PROVE [A!AbsNext]_(A!absVars)
  OBVIOUS
<1>1. CASE UNCHANGED vars
  <2>1. Alive' = Alive /\ SameView
    BY <1>1 DEF vars, Alive, SameView, Seen, Mapped, BeingCopied
  <2> QED
    BY <2>1, AbsStutters
<1>2. CASE Next
  <2>1. PICK e \in Env : StepOf(e)
    BY <1>2, KidKept
  <2> QED
    BY <2>1, StoreAbs, QuietAbs, TempMappedAbs, BirthAbs, StartAbs, ExitAbs, GiveAbs,
       ProtectAbs DEF StepOf
<1> QED
  BY <1>1, <1>2

LEMMA InitAbs == Init => A!AbsInit
<1> SUFFICES ASSUME Init PROVE A!AbsInit
  OBVIOUS
<1>1. /\ life = [e \in Env |-> IF e = Root THEN "run" ELSE "free"]
      /\ pc = [e \in Env |-> User] /\ bytes = [f \in Frame |-> 0]
  BY DEF Init
<1>2. PICK home \in [UserVa -> Frame] :
          as = [e \in Env |-> [va \in Va |->
                  IF e # Root \/ va \notin UserVa THEN NoMap
                  ELSE [frame |-> home[va], perm |-> IF va \in ReadOnly THEN "r" ELSE "w"]]]
  BY DEF Init
<1>3. Alive = [e \in Env |-> IF e = Root THEN "run" ELSE "free"]
  BY <1>1 DEF Alive
<1>4. ASSUME NEW e \in Env, NEW va \in UserVa PROVE Seen(e, va) = IF e = Root THEN 0 ELSE -1
  <2>1. ~BeingCopied(e, va)
    BY <1>1 DEF BeingCopied
  <2>2. as[e][va] = IF e # Root THEN NoMap
                    ELSE [frame |-> home[va], perm |-> IF va \in ReadOnly THEN "r" ELSE "w"]
    BY <1>2, PageFacts
  <2>3. home[va] \in Frame
    BY <1>2
  <2>4. CASE e # Root
    BY <2>2, <2>4 DEF Seen, Mapped
  <2>5. CASE e = Root
    <3>1. as[e][va].frame = home[va] /\ as[e][va] # NoMap
      BY <2>2, <2>3, <2>5, FrameAssumption DEF NoMap
    <3> QED
      BY <1>1, <2>1, <2>3, <2>5, <3>1 DEF Seen, Mapped
  <2> QED
    BY <2>4, <2>5
<1> DEFINE page == [va \in UserVa |-> 0]
<1>5. page \in [UserVa -> Data]
  BY DataAssumption
<1>6. View = [e \in Env |-> IF e = Root THEN page ELSE [va \in UserVa |-> -1]]
  <2>1. ASSUME NEW e \in Env
        PROVE  [va \in UserVa |-> Seen(e, va)] = IF e = Root THEN page ELSE [va \in UserVa |-> -1]
    BY <1>4
  <2> QED
    BY <2>1, ViewFacts
<1> HIDE DEF page
<1> QED
  BY <1>3, <1>5, <1>6, EnvAssumption DEF A!AbsInit, A!Empty, Alive

\* For any number of programs, frames and pages, when no call is refused a page
\* table: copy-on-write fork gives every program a memory of its own.  Each step of
\* fork.c and pgfault.c, in every interleaving, writes one page of the program that
\* stores, copies one page to a child that has not started, or is not seen at all.
THEOREM ForkPrivate == ASSUME ~TablesFail PROVE Spec => PrivateMemories
<1>1. Spec => [](LibInv /\ CowInv /\ DupInv)
  BY LibInvInit, LibInvNext, CowInvInit, CowInvNext, DupInvInit, DupInvNext, PTL DEF Spec
<1> QED
  BY <1>1, InitAbs, StepAbs, PTL DEF Spec, PrivateMemories, A!AbsSpec

=============================================================================
