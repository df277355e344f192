---------------------- MODULE PagingRefinement_proofs ----------------------
(***************************************************************************)
(* What a call of map_range achieves, for tables and pages of any size and *)
(* any memory: heaps are backed, calls fail only for a reason, and Paging  *)
(* implements AddressSpace, if calls stay below the last page of the       *)
(* address space.                                                          *)
(***************************************************************************)
EXTENDS Paging_proofs

-----------------------------------------------------------------------------
(* Arithmetic of pages.                                                    *)

LEMMA Division ==
  ASSUME NEW a \in Nat, NEW n \in Nat, n > 0
  PROVE  a = n * (a \div n) + (a % n)
  OBVIOUS

LEMMA Monotone ==
  ASSUME NEW a \in Nat, NEW b \in Nat, NEW n \in Nat
  PROVE  /\ a <= b => n * a <= n * b
         /\ a < b => n * a + n <= n * b
<1>1. PICK d \in Int : b = a + d
  <2>1. b - a \in Int /\ b = a + (b - a)  OBVIOUS
  <2> QED  BY <2>1
<1>2. n * b = n * a + n * d  BY <1>1
<1>3. d >= 0 => n * d >= 0  BY <1>1
<1>4. d >= 1 => n * d >= n
  <2>1. n * d = n + n * (d - 1)  BY <1>1
  <2>2. d >= 1 => n * (d - 1) >= 0  BY <1>1
  <2> QED  BY <1>1, <2>1, <2>2
<1> QED  BY <1>1, <1>2, <1>3, <1>4

LEMMA Quotient ==
  ASSUME NEW n \in Nat, n > 0, NEW q \in Nat, NEW r \in 0 .. n - 1
  PROVE  (n * q + r) \div n = q /\ (n * q + r) % n = r
<1>1. n * q + r \in Nat  OBVIOUS
<1> DEFINE a == n * q + r
           p == a \div n
           s == a % n
<1>2. p \in Nat /\ s \in 0 .. n - 1 /\ a = n * p + s  BY <1>1, DivMod, Division
<1> HIDE DEF p, s
<1>3. n * p + s = n * q + r  BY <1>2
<1>4. p < q => n * p + n <= n * q  BY <1>2, Monotone
<1>5. q < p => n * q + n <= n * p  BY <1>2, Monotone
<1>6. n * p \in Nat /\ n * q \in Nat  BY <1>2
<1>7. p = q  BY <1>2, <1>3, <1>4, <1>5, <1>6
<1>8. s = r  BY <1>2, <1>3, <1>6, <1>7
<1> QED  BY <1>7, <1>8 DEF p, s

LEMMA QuotientBound ==
  ASSUME NEW a \in Nat, NEW n \in Nat, n > 0, NEW m \in Nat
  PROVE  a < n * m <=> a \div n < m
<1>1. a \div n \in Nat /\ a % n \in 0 .. n - 1 /\ a = n * (a \div n) + (a % n)
  BY DivMod, Division
<1>2. a \div n < m => n * (a \div n) + n <= n * m  BY <1>1, Monotone
<1>3. m <= a \div n => n * m <= n * (a \div n)  BY <1>1, Monotone
<1>4. n * (a \div n) \in Nat /\ n * m \in Nat  BY <1>1
<1> QED  BY <1>1, <1>2, <1>3, <1>4

(* Pages with the same indices above the lowest level are in one large     *)
(* page, and a page is determined by its indices.                          *)
LEMMA IndicesDetermine ==
  ASSUME NEW v \in VPages, NEW w \in VPages,
         Index(v, 4) = Index(w, 4), Index(v, 3) = Index(w, 3), Index(v, 2) = Index(w, 2)
  PROVE  /\ v \div Entries = w \div Entries
         /\ Index(v, 1) = Index(w, 1) => v = w
<1> DEFINE E == Entries
           x(u) == u \div E
           y(u) == x(u) \div E
           z(u) == y(u) \div E
<1>1. E \in Nat /\ E > 0 /\ E * E \in Nat /\ E * E * E \in Nat /\ E * E * E * E \in Nat
  BY SizeFacts
<1>2. ASSUME NEW u \in VPages
      PROVE  /\ u \in Nat /\ x(u) \in Nat /\ y(u) \in Nat /\ z(u) \in Nat
             /\ u = E * x(u) + (u % E) /\ x(u) = E * y(u) + (x(u) % E)
             /\ y(u) = E * z(u) + (y(u) % E) /\ z(u) % E = z(u)
  <2>1. u \in Nat /\ u < E * E * E * E  BY <1>1 DEF VPages
  <2> HIDE DEF E
  <2>2. x(u) \in Nat /\ u = E * x(u) + (u % E)  BY <1>1, <2>1, DivMod, Division
  <2>3. E * E * E * E = E * (E * E * E) /\ E * E * E = E * (E * E)  BY <1>1
  <2>4. x(u) < E * E * E  BY <1>1, <2>1, <2>3, QuotientBound
  <2> HIDE DEF x
  <2>5. y(u) \in Nat /\ x(u) = E * y(u) + (x(u) % E)  BY <1>1, <2>2, DivMod, Division
  <2>6. y(u) < E * E  BY <1>1, <2>2, <2>3, <2>4, QuotientBound
  <2> HIDE DEF y
  <2>7. z(u) \in Nat /\ y(u) = E * z(u) + (y(u) % E)  BY <1>1, <2>5, DivMod, Division
  <2>8. z(u) < E  BY <1>1, <2>5, <2>6, QuotientBound
  <2> HIDE DEF z
  <2>9. z(u) % E = z(u)
    <3>1. z(u) = E * 0 + z(u) /\ z(u) \in 0 .. E - 1  BY <1>1, <2>7, <2>8
    <3> QED  BY <1>1, <3>1, Quotient
  <2> QED  BY <2>1, <2>2, <2>5, <2>7, <2>9
<1>3. z(v) % E = z(w) % E /\ y(v) % E = y(w) % E /\ x(v) % E = x(w) % E
  BY DEF Index
<1>4. Index(v, 1) = Index(w, 1) <=> v % E = w % E  BY DEF Index
<1> HIDE DEF E, x, y, z
<1>5. z(v) = z(w)  BY <1>2, <1>3
<1>6. y(v) = y(w)  BY <1>2, <1>3, <1>5
<1>7. x(v) = x(w)  BY <1>2, <1>3, <1>6
<1>8. v % E = w % E => v = w  BY <1>2, <1>7
<1> QED  BY <1>4, <1>7, <1>8 DEF x, E

-----------------------------------------------------------------------------
(* The way to a page.                                                      *)

(* The table at a level on the way to page v.                              *)
Way(v, level) == CASE level = 4 -> pml4
                   [] level = 3 -> Pdp(v)
                   [] level = 2 -> Pd(v)
                   [] level = 1 -> Pt(v)

(* Translating v reads entry i of table t.                                 *)
Visits(v, t, i) == t # NoFrame /\ \E k \in 1 .. 4 : t = Way(v, k) /\ i = Index(v, k)

LEMMA Levels == \A k \in 1 .. 4 : k = 1 \/ k = 2 \/ k = 3 \/ k = 4
  OBVIOUS

LEMMA WayIs ==
  ASSUME NEW v
  PROVE  Way(v, 4) = pml4 /\ Way(v, 3) = Pdp(v) /\ Way(v, 2) = Pd(v) /\ Way(v, 1) = Pt(v)
  BY DEF Way

(* The tables on the way to a page have their levels.                      *)
LEMMA WayLevel ==
  ASSUME NEW lev, TreeOf(lev), MemoryInv, StateInv, NEW v \in Nat, NEW k \in 1 .. 4,
         Way(v, k) # NoFrame
  PROVE  Way(v, k) \in DOMAIN tables /\ lev[Way(v, k)] = k /\ Index(v, k) \in Slots
<1>1. Index(v, k) \in Slots  BY IndexInSlots
<1>2. CASE k = 4  BY <1>1, <1>2, WayIs DEF StateInv, TreeOf
<1>3. CASE k = 3  BY <1>1, <1>3, WayIs, PathFacts
<1>4. CASE k = 2  BY <1>1, <1>4, WayIs, PathFacts
<1>5. CASE k = 1  BY <1>1, <1>5, WayIs, PathFacts
<1> QED  BY <1>2, <1>3, <1>4, <1>5, Levels

(* The same fields but for the flags.                                      *)
Agrees(e, f) == e.present = f.present /\ e.large = f.large /\ e.frame = f.frame

(* A page keeps its way and its translation if no entry on the way changes *)
(* but in its flags.                                                       *)
LEMMA SameWay ==
  ASSUME NEW CONSTANT lev, TreeOf(lev), MemoryInv, StateInv, NEW CONSTANT v \in Nat,
         pml4' = pml4,
         \A t \in DOMAIN tables, i \in Slots :
            Visits(v, t, i) => Agrees(tables'[t][i], tables[t][i])
  PROVE  /\ Pdp(v)' = Pdp(v) /\ Pd(v)' = Pd(v) /\ Pt(v)' = Pt(v)
         /\ Translate(v)' = Translate(v)
<1>1. ASSUME NEW CONSTANT k \in 1 .. 4, Way(v, k) # NoFrame
      PROVE  Agrees(tables'[Way(v, k)][Index(v, k)], tables[Way(v, k)][Index(v, k)])
  <2>1. Way(v, k) \in DOMAIN tables /\ Index(v, k) \in Slots  BY <1>1, WayLevel
  <2> QED  BY <1>1, <2>1 DEF Visits
<1>2. 4 \in 1 .. 4 /\ 3 \in 1 .. 4 /\ 2 \in 1 .. 4 /\ 1 \in 1 .. 4  OBVIOUS
<1>3. /\ pml4 # NoFrame => Agrees(tables'[pml4][Index(v, 4)], tables[pml4][Index(v, 4)])
      /\ Pdp(v) # NoFrame => Agrees(tables'[Pdp(v)][Index(v, 3)], tables[Pdp(v)][Index(v, 3)])
      /\ Pd(v) # NoFrame => Agrees(tables'[Pd(v)][Index(v, 2)], tables[Pd(v)][Index(v, 2)])
      /\ Pt(v) # NoFrame => Agrees(tables'[Pt(v)][Index(v, 1)], tables[Pt(v)][Index(v, 1)])
  BY <1>1, <1>2, WayIs
<1>4. Pdp(v)' = Pdp(v)  BY <1>3 DEF Pdp, Below, Agrees
<1>5. Pd(v)' = Pd(v)  BY <1>3, <1>4 DEF Pd, Below, Agrees
<1>6. Pt(v)' = Pt(v)  BY <1>3, <1>5 DEF Pt, Below, Agrees
<1>7. Agrees(LeafOf(v)', LeafOf(v))  BY <1>3, <1>5, <1>6 DEF LeafOf, Agrees
<1> QED  BY <1>4, <1>5, <1>6, <1>7 DEF Translate, Agrees

(* Pages that meet in a table have come the same way.                      *)
LEMMA MeetingWays ==
  ASSUME NEW lev, TreeOf(lev), MemoryInv, StateInv, NEW v \in Nat, NEW w \in Nat
  PROVE  /\ Pdp(v) = Pdp(w) /\ Pdp(v) # NoFrame => Index(v, 4) = Index(w, 4)
         /\ Pd(v) = Pd(w) /\ Pd(v) # NoFrame =>
              Index(v, 4) = Index(w, 4) /\ Index(v, 3) = Index(w, 3)
         /\ Pt(v) = Pt(w) /\ Pt(v) # NoFrame =>
              /\ Index(v, 4) = Index(w, 4) /\ Index(v, 3) = Index(w, 3)
              /\ Index(v, 2) = Index(w, 2)
<1>1. \A p, q, i, j, n : IsLink(lev, p, i, n) /\ IsLink(lev, q, j, n) => p = q /\ i = j
  BY DEF TreeOf
<1>2. Pdp(v) = Pdp(w) /\ Pdp(v) # NoFrame => Index(v, 4) = Index(w, 4)
  BY <1>1, PathFacts
<1>3. Pd(v) = Pd(w) /\ Pd(v) # NoFrame =>
        Pdp(v) # NoFrame /\ Pdp(v) = Pdp(w) /\ Index(v, 3) = Index(w, 3)
  BY <1>1, PathFacts
<1>4. Pt(v) = Pt(w) /\ Pt(v) # NoFrame =>
        Pd(v) # NoFrame /\ Pd(v) = Pd(w) /\ Index(v, 2) = Index(w, 2)
  BY <1>1, PathFacts
<1> QED  BY <1>2, <1>3, <1>4

-----------------------------------------------------------------------------
(* What the steps of a walk do to translations.                            *)

(* A walk is on the way to its page.                                       *)
OnWay == Walking => \A v \in Nat : v = Page => at.table = Way(v, at.level)

(* A page whose way leads through the walk's entry has the walk's table on *)
(* its way, at the walk's level.                                           *)
LEMMA Through ==
  ASSUME NEW lev, TreeOf(lev), WalkOf(lev), MemoryInv, StateInv, Walking, NEW v \in Nat,
         Visits(v, at.table, Slot)
  PROVE  at.table = Way(v, at.level) /\ Slot = Index(v, at.level)
<1>1. PICK k \in 1 .. 4 : at.table # NoFrame /\ at.table = Way(v, k) /\ Slot = Index(v, k)
  BY DEF Visits
<1>2. lev[at.table] = at.level  BY WalkFacts
<1>3. lev[at.table] = k  BY <1>1, WayLevel
<1> QED  BY <1>1, <1>2, <1>3

(* Following an entry changes flags only.                                  *)
LEMMA FollowKeeps ==
  ASSUME NEW CONSTANT lev, TreeOf(lev), WalkOf(lev), MemoryInv, StateInv, Walking,
         NEW next, Follow(next), pml4' = pml4, NEW CONSTANT v \in Nat
  PROVE  /\ Pdp(v)' = Pdp(v) /\ Pd(v)' = Pd(v) /\ Pt(v)' = Pt(v)
         /\ Translate(v)' = Translate(v)
<1> DEFINE e == [Entry EXCEPT !.flags = @ \cup (call.flags \cap {"USER"})]
<1>1. at.table \in DOMAIN tables /\ Entry \in entry /\ Entry = tables[at.table][Slot]
  BY WalkFacts
<1>2. e \in entry /\ Agrees(e, Entry)  BY <1>1 DEF entry, flag, Agrees
<1>3. tables' = Set(e)  BY DEF Follow
<1> HIDE DEF e
<1>4. Writes(at.table, Slot, e)  BY <1>1, <1>2, <1>3, SetWrites
<1>5. \A t \in DOMAIN tables, i \in Slots : Agrees(tables'[t][i], tables[t][i])
  BY <1>1, <1>2, <1>4 DEF Writes, Agrees
<1> QED  BY <1>5, SameWay

LEMMA FollowOnWay ==
  ASSUME NEW CONSTANT lev, TreeOf(lev), WalkOf(lev), MemoryInv, StateInv, Walking, OnWay,
         at.level > 1, NEW next, Follow(next), pml4' = pml4,
         at' = [at EXCEPT !.level = @ - 1, !.table = next]
  PROVE  OnWay' /\ Page' = Page
<1>1. at.level \in 1 .. 4 /\ at.table \in DOMAIN tables /\ Page \in Nat
      /\ Entry = tables[at.table][Slot] /\ at.table # NoFrame
  BY LocalsFacts, WalkFacts DEF MemoryInv, NoFrame
<1>2. next = Below(at.table, Slot)  BY <1>1 DEF Follow, Below
<1>3. at'.level = at.level - 1 /\ at'.table = next /\ at'.vaddr = at.vaddr
  BY DEF StateInv, Locals
<1>4. Page' = Page  BY <1>3 DEF Page
<1> SUFFICES ASSUME NEW CONSTANT v \in Nat, v = Page
             PROVE  next = Way(v, at.level)'
  BY <1>3, <1>4 DEF OnWay
<1>5. at.table = Way(v, at.level) /\ Slot = Index(v, at.level)  BY DEF OnWay, Slot
<1>6. Pdp(v)' = Pdp(v) /\ Pd(v)' = Pd(v) /\ Pt(v)' = Pt(v)  BY FollowKeeps
<1>7. CASE at.level = 4
  <2>1. next = Pdp(v)  BY <1>2, <1>5, <1>7, WayIs DEF Pdp
  <2> QED  BY <1>3, <1>6, <1>7, <2>1 DEF Way
<1>8. CASE at.level = 3
  <2>1. next = Pd(v)  BY <1>2, <1>5, <1>8, WayIs DEF Pd
  <2> QED  BY <1>3, <1>6, <1>8, <2>1 DEF Way
<1>9. CASE at.level = 2
  <2>1. next = Pt(v)  BY <1>2, <1>5, <1>9, WayIs DEF Pt
  <2> QED  BY <1>3, <1>6, <1>9, <2>1 DEF Way
<1> QED  BY <1>1, <1>7, <1>8, <1>9, Levels

(* A new table below the entry s of t, which is on the way to v, maps      *)
(* nothing, as the entry did before.                                       *)
LEMMA CreateWay ==
  ASSUME NEW CONSTANT lev, TreeOf(lev), MemoryInv, StateInv, NEW CONSTANT v \in Nat,
         pml4' = pml4, NEW CONSTANT k \in 2 .. 4,
         NEW CONSTANT t \in DOMAIN tables, t = Way(v, k), lev[t] = k,
         NEW CONSTANT s \in Slots, s = Index(v, k), ~ tables[t][s].present,
         NEW CONSTANT next, next # NoFrame,
         NEW CONSTANT e, e.present, ~ e.large, e.frame = next,
         \A i \in Slots : tables'[next][i] = Empty,
         \A u \in DOMAIN tables, i \in Slots :
            tables'[u][i] = IF u = t /\ i = s THEN e ELSE tables[u][i]
  PROVE  /\ k = 4 => Pdp(v)' = next
         /\ k = 3 => Pd(v)' = next
         /\ k = 2 => Pt(v)' = next
         /\ Translate(v) = NotMapped /\ Translate(v)' = NotMapped
<1>1. ~ Empty.present /\ t # NoFrame  BY DEF Empty, MemoryInv, NoFrame
<1>2. /\ Index(v, 4) \in Slots /\ Index(v, 3) \in Slots
      /\ Index(v, 2) \in Slots /\ Index(v, 1) \in Slots
  BY PathFacts
<1>3. ASSUME NEW u, u \in DOMAIN tables, lev[u] # k, NEW j \in Slots, u # NoFrame
      PROVE  tables'[u][j] = tables[u][j]
  BY <1>3
<1>4. pml4 # NoFrame => pml4 \in DOMAIN tables /\ lev[pml4] = 4  BY DEF StateInv, TreeOf
<1>5. CASE k = 4
  <2>1. t = pml4 /\ s = Index(v, 4)  BY <1>5, WayIs
  <2>2. Pdp(v) = NoFrame /\ Pd(v) = NoFrame /\ Pt(v) = NoFrame
    BY <2>1 DEF Pdp, Pd, Pt, Below
  <2>3. Pdp(v)' = next  BY <1>1, <2>1 DEF Pdp, Below
  <2>4. Pd(v)' = NoFrame  BY <1>1, <1>2, <2>3 DEF Pd, Below
  <2>5. Pt(v)' = NoFrame  BY <2>4 DEF Pt, Below
  <2> QED  BY <1>1, <1>5, <2>2, <2>3, <2>4, <2>5 DEF Translate, LeafOf
<1>6. CASE k = 3
  <2>1. t = Pdp(v) /\ s = Index(v, 3) /\ pml4 # NoFrame
    BY <1>1, <1>6, WayIs, PathFacts
  <2>2. Pd(v) = NoFrame /\ Pt(v) = NoFrame  BY <2>1 DEF Pd, Pt, Below
  <2>3. Pdp(v)' = t  BY <1>2, <1>3, <1>4, <1>6, <2>1 DEF Pdp, Below
  <2>4. Pd(v)' = next  BY <1>1, <2>1, <2>3 DEF Pd, Below
  <2>5. Pt(v)' = NoFrame  BY <1>1, <1>2, <2>4 DEF Pt, Below
  <2> QED  BY <1>1, <1>2, <1>6, <2>2, <2>4, <2>5 DEF Translate, LeafOf
<1>7. CASE k = 2
  <2>1. t = Pd(v) /\ s = Index(v, 2) /\ pml4 # NoFrame /\ Pdp(v) # NoFrame
        /\ Pdp(v) \in DOMAIN tables /\ lev[Pdp(v)] = 3
    BY <1>1, <1>7, WayIs, PathFacts
  <2>2. Pt(v) = NoFrame  BY <2>1 DEF Pt, Below
  <2>3. Pdp(v)' = Pdp(v)  BY <1>2, <1>3, <1>4, <1>7, <2>1 DEF Pdp, Below
  <2>4. Pd(v)' = t  BY <1>2, <1>3, <1>7, <2>1, <2>3 DEF Pd, Below
  <2>5. Pt(v)' = next  BY <1>1, <2>1, <2>4 DEF Pt, Below
  <2> QED  BY <1>1, <1>2, <1>7, <2>1, <2>2, <2>5 DEF Translate, LeafOf
<1>8. k = 2 \/ k = 3 \/ k = 4  OBVIOUS
<1> QED  BY <1>5, <1>6, <1>7, <1>8

LEMMA CreateKeeps ==
  ASSUME NEW CONSTANT lev, TreeOf(lev), WalkOf(lev), MemoryInv, StateInv, Walking,
         at.level > 1, NEW next, Create(next), pml4' = pml4, NEW CONSTANT v \in Nat
  PROVE  /\ Translate(v)' = Translate(v)
         /\ Visits(v, at.table, Slot) =>
              /\ at.level = 4 => Pdp(v)' = next
              /\ at.level = 3 => Pd(v)' = next
              /\ at.level = 2 => Pt(v)' = next
<1> DEFINE e == Link(next)
<1>1. /\ at.table \in DOMAIN tables /\ Slot \in Slots /\ at.level \in 2 .. 4
      /\ lev[at.table] = at.level /\ ~ tables[at.table][Slot].present
  BY LocalsFacts, WalkFacts DEF Create
<1>2. /\ next # NoFrame
      /\ e.present /\ ~ e.large /\ e.frame = next
      /\ \A i \in Slots : tables'[next][i] = Empty
  <2>1. next \in Nat  BY CreateFacts
  <2>2. next # NoFrame  BY <2>1 DEF NoFrame
  <2> QED  BY <2>2, CreateFacts
<1>3. \A u \in DOMAIN tables, i \in Slots :
        tables'[u][i] = IF u = at.table /\ i = Slot THEN e ELSE tables[u][i]
  BY CreateFacts
<1> HIDE DEF e
<1>4. CASE Visits(v, at.table, Slot)
  <2>1. at.table = Way(v, at.level) /\ Slot = Index(v, at.level)  BY <1>4, Through
  <2> QED  BY <1>1, <1>2, <1>3, <2>1, CreateWay
<1>5. CASE ~ Visits(v, at.table, Slot)
  <2>1. \A t \in DOMAIN tables, i \in Slots :
          Visits(v, t, i) => Agrees(tables'[t][i], tables[t][i])
    BY <1>3, <1>5 DEF Agrees
  <2>2. Translate(v)' = Translate(v)  BY <2>1, SameWay
  <2> QED  BY <1>5, <2>2
<1> QED  BY <1>4, <1>5

(* The walk's own page.                                                    *)
LEMMA VisitsOwn ==
  ASSUME NEW lev, TreeOf(lev), WalkOf(lev), MemoryInv, StateInv, Walking, OnWay,
         NEW v \in Nat, v = Page
  PROVE  /\ Visits(v, at.table, Slot)
         /\ at.table = Way(v, at.level) /\ Slot = Index(v, at.level)
<1>1. at.table \in DOMAIN tables /\ at.table # NoFrame /\ at.level \in 1 .. 4
  BY LocalsFacts, WalkFacts DEF MemoryInv, NoFrame
<1>2. at.table = Way(v, at.level) /\ Slot = Index(v, at.level)  BY DEF OnWay, Slot
<1> QED  BY <1>1, <1>2 DEF Visits

LEMMA CreateOnWay ==
  ASSUME NEW CONSTANT lev, TreeOf(lev), WalkOf(lev), MemoryInv, StateInv, Walking, OnWay,
         at.level > 1, NEW next, Create(next), pml4' = pml4,
         at' = [at EXCEPT !.level = @ - 1, !.table = next]
  PROVE  OnWay' /\ Page' = Page
<1>1. at.level \in 1 .. 4  BY LocalsFacts
<1>2. at'.level = at.level - 1 /\ at'.table = next /\ at'.vaddr = at.vaddr
  BY DEF StateInv, Locals
<1>3. Page' = Page  BY <1>2 DEF Page
<1> SUFFICES ASSUME NEW CONSTANT v \in Nat, v = Page
             PROVE  next = Way(v, at.level)'
  BY <1>2, <1>3 DEF OnWay
<1>4. Visits(v, at.table, Slot)  BY VisitsOwn
<1>5. /\ at.level = 4 => Pdp(v)' = next
      /\ at.level = 3 => Pd(v)' = next
      /\ at.level = 2 => Pt(v)' = next
  BY <1>4, CreateKeeps
<1>6. CASE at.level = 4  BY <1>2, <1>5, <1>6 DEF Way
<1>7. CASE at.level = 3  BY <1>2, <1>5, <1>7 DEF Way
<1>8. CASE at.level = 2  BY <1>2, <1>5, <1>8 DEF Way
<1> QED  BY <1>1, <1>6, <1>7, <1>8, Levels

(* A leaf that is written on the way to v decides v's translation.         *)
LEMMA LeafWay ==
  ASSUME NEW CONSTANT lev, TreeOf(lev), MemoryInv, StateInv, NEW CONSTANT v \in Nat,
         pml4' = pml4, NEW k \in 1 .. 2, NEW t, NEW s, NEW e, Writes(t, s, e),
         t = Way(v, k), s = Index(v, k), lev[t] = k,
         e.present, k = 2 => e.large, k = 1 => ~ e.large
  PROVE  Translate(v)' = IF e.large THEN InLargePage(e.frame, v) ELSE e.frame
<1>1. t \in DOMAIN tables /\ t # NoFrame  BY DEF Writes, MemoryInv, NoFrame
<1>2. /\ Index(v, 4) \in Slots /\ Index(v, 3) \in Slots
      /\ Index(v, 2) \in Slots /\ Index(v, 1) \in Slots
  BY PathFacts
<1>3. ASSUME NEW u \in DOMAIN tables, lev[u] # k, NEW j \in Slots
      PROVE  tables'[u][j] = tables[u][j]
  BY <1>3 DEF Writes
<1>4. tables'[t][s] = e  BY DEF Writes
<1>5. Pd(v) # NoFrame
  <2>1. k = 2 => Pd(v) = t  BY WayIs
  <2>2. k = 1 => Pt(v) = t  BY WayIs
  <2>3. k = 1 \/ k = 2  OBVIOUS
  <2> QED  BY <1>1, <2>1, <2>2, <2>3, PathFacts
<1>6. /\ Pdp(v) # NoFrame /\ Pdp(v) \in DOMAIN tables /\ lev[Pdp(v)] = 3
      /\ Pd(v) \in DOMAIN tables /\ lev[Pd(v)] = 2
  BY <1>5, PathFacts
<1>7. pml4 # NoFrame /\ pml4 \in DOMAIN tables /\ lev[pml4] = 4
  <2>1. pml4 # NoFrame  BY <1>6, PathFacts
  <2> QED  BY <2>1 DEF StateInv, TreeOf
<1>8. Pdp(v)' = Pdp(v)  BY <1>2, <1>3, <1>7 DEF Pdp, Below
<1>9. Pd(v)' = Pd(v)  BY <1>2, <1>3, <1>6, <1>8 DEF Pd, Below
<1>10. CASE k = 2
  <2>1. t = Pd(v) /\ s = Index(v, 2) /\ e.large  BY <1>10, WayIs
  <2>2. Pt(v)' = NoFrame  BY <1>4, <1>9, <2>1 DEF Pt, Below
  <2> QED  BY <1>4, <1>5, <1>9, <2>1, <2>2 DEF Translate, LeafOf
<1>11. CASE k = 1
  <2>1. t = Pt(v) /\ s = Index(v, 1) /\ ~ e.large /\ Pt(v) # NoFrame  BY <1>1, <1>11, WayIs
  <2>2. Pt(v)' = Pt(v)  BY <1>2, <1>3, <1>6, <1>9, <1>11 DEF Pt, Below
  <2> QED  BY <1>4, <2>1, <2>2 DEF Translate, LeafOf
<1>12. k = 1 \/ k = 2  OBVIOUS
<1> QED  BY <1>10, <1>11, <1>12

LEMMA PageInVPages ==
  ASSUME StateInv
  PROVE  Page \in VPages
<1> DEFINE M == Entries * Entries * Entries * Entries
<1>1. M \in Nat  BY SizeFacts
<1>2. Wrap = PageSize * M  BY SizeFacts DEF Wrap
<1>3. at.vaddr \in Nat /\ at.vaddr < Wrap /\ Page \in Nat  BY LocalsFacts, SizeFacts
<1> HIDE DEF M
<1>4. Page < M  BY <1>1, <1>2, <1>3, SizeFacts, QuotientBound DEF Page
<1> QED  BY <1>1, <1>3, <1>4 DEF VPages, M

LEMMA VPagesNat == VPages \subseteq Nat
<1>1. Entries * Entries * Entries * Entries \in Nat  BY SizeFacts
<1> QED  BY <1>1 DEF VPages

(* Writing an entry of the lowest level changes the translation of the     *)
(* walk's page and no other.                                               *)
LEMMA SmallLeafEffect ==
  ASSUME NEW CONSTANT lev, TreeOf(lev), WalkOf(lev), MemoryInv, StateInv, Walking, OnWay,
         at.level = 1, NEW frame \in Nat, tables' = Set(Leaf(frame, call.flags, FALSE)),
         pml4' = pml4, NEW CONSTANT v \in VPages
  PROVE  Translate(v)' = IF v = Page THEN frame ELSE Translate(v)
<1> DEFINE e == Leaf(frame, call.flags, FALSE)
<1>1. /\ at.table \in DOMAIN tables /\ Slot \in Slots /\ lev[at.table] = 1 /\ v \in Nat
      /\ Page \in VPages /\ Page \in Nat
  BY LocalsFacts, WalkFacts, VPagesNat, PageInVPages
<1>2. e \in entry /\ e.present /\ ~ e.large /\ e.frame = frame
  BY DEF Leaf, StateInv, entry
<1> HIDE DEF e
<1>3. Writes(at.table, Slot, e)  BY <1>1, <1>2, SetWrites DEF e
<1>4. CASE v = Page
  <2>1. at.table = Way(v, 1) /\ Slot = Index(v, 1)  BY <1>1, <1>4, VisitsOwn
  <2>2. 1 \in 1 .. 2 /\ 1 # 2  OBVIOUS
  <2>3. Translate(v)' = IF e.large THEN InLargePage(e.frame, v) ELSE e.frame
    BY <1>1, <1>2, <1>3, <2>1, <2>2, LeafWay
  <2> QED  BY <1>2, <1>4, <2>3
<1>5. CASE v # Page
  <2>1. ~ Visits(v, at.table, Slot)
    <3> SUFFICES ASSUME Visits(v, at.table, Slot) PROVE FALSE  OBVIOUS
    <3>1. PICK w \in Nat : w = Page  BY <1>1
    <3>2. /\ at.table = Pt(v) /\ Slot = Index(v, 1)
          /\ at.table = Pt(w) /\ Slot = Index(w, 1) /\ at.table # NoFrame
      BY <1>1, <3>1, Through, VisitsOwn, WayIs DEF Visits
    <3>3. /\ Index(v, 4) = Index(w, 4) /\ Index(v, 3) = Index(w, 3)
          /\ Index(v, 2) = Index(w, 2) /\ Index(v, 1) = Index(w, 1)
      BY <1>1, <3>2, MeetingWays
    <3> QED  BY <1>1, <1>5, <3>1, <3>3, IndicesDetermine
  <2>2. \A t \in DOMAIN tables, i \in Slots :
          Visits(v, t, i) => Agrees(tables'[t][i], tables[t][i])
    BY <1>3, <2>1 DEF Writes, Agrees
  <2> QED  BY <1>1, <1>5, <2>2, SameWay
<1> QED  BY <1>4, <1>5

(* Writing a large page changes the translations of its pages and no       *)
(* others.                                                                 *)
LEMMA LargeLeafEffect ==
  ASSUME NEW CONSTANT lev, TreeOf(lev), WalkOf(lev), MemoryInv, StateInv, Walking, OnWay,
         at.level = 2, NEW frame \in Nat, tables' = Set(Leaf(frame, call.flags, TRUE)),
         pml4' = pml4, NEW CONSTANT v \in VPages
  PROVE  Translate(v)' = IF v \div Entries = Page \div Entries
                           THEN InLargePage(frame, v) ELSE Translate(v)
<1> DEFINE e == Leaf(frame, call.flags, TRUE)
<1>1. /\ at.table \in DOMAIN tables /\ Slot \in Slots /\ lev[at.table] = 2 /\ v \in Nat
      /\ Page \in VPages /\ Page \in Nat
  BY LocalsFacts, WalkFacts, VPagesNat, PageInVPages
<1>2. e \in entry /\ e.present /\ e.large /\ e.frame = frame
  BY DEF Leaf, StateInv, entry
<1> HIDE DEF e
<1>3. Writes(at.table, Slot, e)  BY <1>1, <1>2, SetWrites DEF e
<1>4. PICK w \in Nat : w = Page  BY <1>1
<1>5. at.table = Pd(w) /\ Slot = Index(w, 2)  BY <1>1, <1>4, VisitsOwn, WayIs
<1>6. CASE v \div Entries = Page \div Entries
  <2>1. /\ Index(v, 4) = Index(w, 4) /\ Index(v, 3) = Index(w, 3) /\ Index(v, 2) = Index(w, 2)
    BY <1>4, <1>6 DEF Index
  <2>2. Pd(v) = Pd(w)  BY <2>1 DEF Pd, Pdp
  <2>3. at.table = Way(v, 2) /\ Slot = Index(v, 2)  BY <1>5, <2>1, <2>2, WayIs
  <2>4. 2 \in 1 .. 2 /\ 2 # 1  OBVIOUS
  <2>5. Translate(v)' = IF e.large THEN InLargePage(e.frame, v) ELSE e.frame
    BY <1>1, <1>2, <1>3, <2>3, <2>4, LeafWay
  <2> QED  BY <1>2, <1>6, <2>5
<1>7. CASE v \div Entries # Page \div Entries
  <2>1. ~ Visits(v, at.table, Slot)
    <3> SUFFICES ASSUME Visits(v, at.table, Slot) PROVE FALSE  OBVIOUS
    <3>1. at.table = Pd(v) /\ Slot = Index(v, 2) /\ at.table # NoFrame
      BY <1>1, Through, WayIs DEF Visits
    <3>2. /\ Index(v, 4) = Index(w, 4) /\ Index(v, 3) = Index(w, 3)
          /\ Index(v, 2) = Index(w, 2)
      BY <1>1, <1>5, <3>1, MeetingWays
    <3> QED  BY <1>1, <1>4, <1>7, <3>2, IndicesDetermine
  <2>2. \A t \in DOMAIN tables, i \in Slots :
          Visits(v, t, i) => Agrees(tables'[t][i], tables[t][i])
    BY <1>3, <2>1 DEF Writes, Agrees
  <2> QED  BY <1>1, <1>7, <2>2, SameWay
<1> QED  BY <1>6, <1>7

(* A page inside a large page translates to its place in it.               *)
LEMMA CoveredTranslation ==
  ASSUME NEW lev, TreeOf(lev), WalkOf(lev), MemoryInv, StateInv, Walking, OnWay, Covered
  PROVE  Translate(Page) = InLargePage(Entry.frame, Page)
<1>1. PICK v \in Nat : v = Page  BY LocalsFacts
<1>2. at.table = Pd(v) /\ Slot = Index(v, 2)  BY <1>1, VisitsOwn, WayIs DEF Covered
<1>3. at.table \in DOMAIN tables /\ at.table # NoFrame /\ Entry = tables[at.table][Slot]
  BY WalkFacts DEF MemoryInv, NoFrame
<1>4. Pt(v) = NoFrame  BY <1>2, <1>3 DEF Pt, Below, Covered
<1>5. LeafOf(v) = Entry  BY <1>2, <1>3, <1>4 DEF LeafOf
<1> QED  BY <1>1, <1>5 DEF Translate, Covered

-----------------------------------------------------------------------------
(* The inductive invariant: how far a call has come.                       *)

Mapping == pc \in {"map_range", "map_large_page", "map_page"}

(* The current call ends below the last page of the address space.  One    *)
(* that does not runs past the end of the addresses, and starts again at   *)
(* address 0 or does nothing.  Its physical addresses, which round to      *)
(* pages at both ends, do not wrap either.                                 *)
InRange == /\ call.vaddr + call.length <= Wrap - PageSize
           /\ call.paddr + call.length <= PhysicalWrap - 2 * PageSize

(* The frame that the call asks for page v to have.                        *)
Base == call.paddr \div PageSize
Asked(v) == Base + (v - FirstPage)

(* The pages before the current one are mapped, and the physical address   *)
(* has kept pace with the virtual one.                                     *)
ProgressInv ==
  Mapping /\ InRange =>
    /\ at.vaddr = PageSize * Page /\ FirstPage <= Page
    /\ at.paddr = PageSize * Asked(Page)
    /\ at.end = call.vaddr + call.length
    /\ \A v \in VPages : FirstPage <= v /\ v < Page => Translate(v) = Asked(v)
    /\ Walking => at.vaddr < at.end
    /\ pc = "map_large_page" => TryLarge

(* A call that succeeded has mapped its range.                             *)
DoneInv ==
  pc = "idle" /\ result = 0 /\ call.op # "none" /\ InRange =>
    \A v \in VPages : FirstPage <= v /\ PageSize * v < call.vaddr + call.length
                        => Translate(v) = Asked(v)

(* The heap of a call that has not failed is what was allocated for it.    *)
HeapInv ==
  call.op = "get_heap" /\ result = 0 =>
    \E n \in Nat : call.length = n * PageSize /\ heap = Base .. Base + n - 1

ResultInv == /\ Mapping => result = 0 /\ call.op # "none"
             /\ pc = "release" => result = -1
             /\ pc = "boot" => call.op = "none"

MapInv == OnWay /\ ProgressInv /\ DoneInv /\ HeapInv /\ ResultInv

(* No translation changes.                                                 *)
KeepsSpace == \A v \in VPages : Translate(v)' = Translate(v)

-----------------------------------------------------------------------------
(* More arithmetic.                                                        *)

LEMMA CallFacts ==
  ASSUME StateInv
  PROVE  /\ call.vaddr \in Nat /\ call.paddr \in Nat /\ call.length \in Nat
         /\ FirstPage \in Nat /\ Base \in Nat
         /\ call.op \in {"none", "map_range", "get_heap"}
<1>1. call.vaddr \in Nat /\ call.paddr \in Nat /\ call.length \in Nat
      /\ call.op \in {"none", "map_range", "get_heap"}
  BY SizeFacts DEF StateInv
<1> QED  BY <1>1, SizeFacts, DivMod DEF FirstPage, Base

LEMMA Multiple ==
  ASSUME NEW n \in Nat, n > 0, NEW q \in Nat
  PROVE  (n * q) \div n = q /\ (n * q) % n = 0
<1>1. 0 \in 0 .. n - 1 /\ n * q + 0 = n * q  OBVIOUS
<1> QED  BY <1>1, Quotient

(* A multiple of the size of a large page is a page that begins one.       *)
LEMMA LargeMultiple ==
  ASSUME NEW a \in Nat, (PageSize * a) % LargePage = 0
  PROVE  a % Entries = 0
<1> DEFINE q == a \div Entries
           r == a % Entries
<1>1. q \in Nat /\ r \in 0 .. Entries - 1 /\ a = Entries * q + r
  BY SizeFacts, DivMod, Division
<1> HIDE DEF q, r
<1>2. PageSize * a = LargePage * q + PageSize * r
  BY <1>1, SizeFacts DEF LargePage
<1>3. PageSize * r \in 0 .. LargePage - 1
  <2>1. PageSize * r + PageSize <= PageSize * Entries /\ PageSize * r \in Nat
    BY <1>1, SizeFacts, Monotone
  <2> QED  BY <2>1, SizeFacts DEF LargePage
<1>4. (PageSize * a) % LargePage = PageSize * r  BY <1>1, <1>2, <1>3, SizeFacts, Quotient
<1>5. r > 0 => PageSize * r >= PageSize
  <2>1. r > 0 => PageSize * 0 + PageSize <= PageSize * r  BY <1>1, SizeFacts, Monotone
  <2> QED  BY <2>1, SizeFacts
<1>6. r = 0  BY <1>1, <1>4, <1>5, SizeFacts
<1> QED  BY <1>6 DEF r

(* The pages of the large page that begins at page a.                      *)
LEMMA LargePagePages ==
  ASSUME NEW a \in Nat, a % Entries = 0, NEW v \in Nat
  PROVE  /\ v \div Entries = a \div Entries <=> a <= v /\ v < a + Entries
         /\ v \div Entries = a \div Entries => v % Entries = v - a
<1> DEFINE q == a \div Entries
           p == v \div Entries
           r == v % Entries
<1>1. q \in Nat /\ p \in Nat /\ r \in 0 .. Entries - 1 /\ v = Entries * p + r
      /\ a = Entries * q + 0 /\ Entries \in Nat /\ Entries > 0
  BY SizeFacts, DivMod, Division
<1> HIDE DEF p, q, r
<1>2. p < q => Entries * p + Entries <= Entries * q  BY <1>1, Monotone
<1>3. q < p => Entries * q + Entries <= Entries * p  BY <1>1, Monotone
<1>4. Entries * p \in Nat /\ Entries * q \in Nat  BY <1>1
<1>5. p = q <=> a <= v /\ v < a + Entries  BY <1>1, <1>2, <1>3, <1>4
<1>6. p = q => r = v - a  BY <1>1, <1>4
<1> QED  BY <1>5, <1>6 DEF p, q, r

(* The place of page v in a large page whose frames begin at frame.        *)
LEMMA LargePageFrame ==
  ASSUME NEW a \in Nat, a % Entries = 0, NEW v \in Nat, v \div Entries = a \div Entries,
         NEW frame \in Nat, frame % Entries = 0
  PROVE  InLargePage(frame, v) = frame + (v - a)
<1>1. frame \div Entries \in Nat /\ frame = Entries * (frame \div Entries) + 0
  BY SizeFacts, DivMod, Division
<1>2. v % Entries = v - a  BY LargePagePages
<1>3. (frame \div Entries) * Entries = Entries * (frame \div Entries)  BY <1>1, SizeFacts
<1>4. (frame \div Entries) * Entries = frame
  <2> DEFINE f == frame \div Entries
  <2>1. Entries * f + 0 = Entries * f  BY <1>1, SizeFacts
  <2> HIDE DEF f
  <2> QED  BY <1>1, <1>3, <2>1 DEF f
<1> QED  BY <1>2, <1>4 DEF InLargePage

-----------------------------------------------------------------------------
(* The actions.                                                            *)

(* A step that neither maps nor ends anything keeps what concerns the      *)
(* range, if it moves no translation and leaves the page alone.            *)
SameCall == call' = call /\ result' = result /\ heap' = heap

LEMMA AskedKept ==
  ASSUME call' = call
  PROVE  /\ Base' = Base /\ FirstPage' = FirstPage /\ (InRange <=> InRange')
         /\ \A v : Asked(v)' = Asked(v)
  BY DEF Base, FirstPage, Asked, InRange

LEMMA TranslateKept ==
  ASSUME UNCHANGED <<pml4, tables>>
  PROVE  KeepsSpace
<1> SUFFICES ASSUME NEW v \in VPages PROVE Translate(v)' = Translate(v)  BY DEF KeepsSpace
<1>1. Pdp(v)' = Pdp(v)  BY DEF Pdp, Below
<1>2. Pd(v)' = Pd(v)  BY <1>1 DEF Pd, Below
<1>3. Pt(v)' = Pt(v)  BY <1>2 DEF Pt, Below
<1> QED  BY <1>2, <1>3 DEF Translate, LeafOf

(* A step inside a call that leaves translations and the page alone.       *)
LEMMA ProgressKept ==
  ASSUME MapInv, Mapping, Mapping', SameCall, KeepsSpace, Page' = Page,
         at'.vaddr = at.vaddr, at'.paddr = at.paddr, at'.end = at.end,
         InRange /\ Walking' => at.vaddr < at.end,
         InRange /\ pc' = "map_large_page" => TryLarge
  PROVE  ProgressInv' /\ DoneInv' /\ HeapInv' /\ ResultInv'
<1>1. ProgressInv'
  <2> SUFFICES ASSUME InRange PROVE
        /\ at'.vaddr = PageSize * Page' /\ FirstPage' <= Page'
        /\ at'.paddr = PageSize * Asked(Page)'
        /\ at'.end = call'.vaddr + call'.length
        /\ \A v \in VPages : FirstPage' <= v /\ v < Page' => Translate(v)' = Asked(v)'
        /\ Walking' => at'.vaddr < at'.end
        /\ pc' = "map_large_page" => TryLarge'
    BY AskedKept DEF ProgressInv, SameCall
  <2>1. Asked(Page)' = Asked(Page)  BY AskedKept DEF Asked, SameCall
  <2>2. TryLarge' <=> TryLarge  BY DEF TryLarge
  <2>3. \A v \in VPages : FirstPage <= v /\ v < Page => Translate(v)' = Asked(v)
    BY DEF KeepsSpace, MapInv, ProgressInv
  <2>4. \A v \in VPages : FirstPage' <= v /\ v < Page' => Translate(v)' = Asked(v)'
    BY <2>3, AskedKept DEF SameCall
  <2> QED  BY <2>1, <2>2, <2>4, AskedKept DEF MapInv, ProgressInv, SameCall
<1>2. DoneInv'  BY DEF DoneInv, Mapping
<1>3. HeapInv'  BY AskedKept DEF MapInv, HeapInv, SameCall
<1>4. ResultInv'  BY DEF MapInv, ResultInv, SameCall, Mapping
<1> QED  BY <1>1, <1>2, <1>3, <1>4

(* A walk begins, at the top.                                              *)
LEMMA WalkMaps ==
  ASSUME TablesInv, MapInv, Mapping, NEW function \in {"map_large_page", "map_page"},
         Walk(function), UNCHANGED <<pml4, tables>>, SameCall,
         InRange => at.vaddr < at.end,
         InRange /\ function = "map_large_page" => TryLarge
  PROVE  MapInv' /\ KeepsSpace
<1>1. KeepsSpace  BY TranslateKept
<1>2. /\ at'.vaddr = at.vaddr /\ at'.paddr = at.paddr /\ at'.end = at.end
      /\ at'.level = 4 /\ at'.table = pml4 /\ pc' = function
  <2>1. at \in Locals(DOMAIN tables)  BY DEF TablesInv, StateInv
  <2> QED  BY <2>1 DEF Walk, Locals
<1>3. Page' = Page  BY <1>2 DEF Page
<1>4. OnWay'  BY <1>2 DEF OnWay, Way
<1>5. Mapping'  BY <1>2 DEF Mapping
<1>6. ProgressInv' /\ DoneInv' /\ HeapInv' /\ ResultInv'
  BY <1>1, <1>2, <1>3, <1>5, ProgressKept
<1> QED  BY <1>1, <1>4, <1>6 DEF MapInv

LEMMA NextTableMaps ==
  ASSUME TablesInv, MapInv, Walking, at.level > 1, next_table
  PROVE  MapInv' /\ KeepsSpace /\ SameCall /\ pc' = pc
<1>1. PICK lev : TreeOf(lev) /\ WalkOf(lev)  BY DEF TablesInv, TreeInv
<1>2. MemoryInv /\ StateInv /\ OnWay  BY DEF TablesInv, MapInv
<1>3. PICK next : /\ Create(next) \/ Follow(next)
                  /\ at' = [at EXCEPT !.level = @ - 1, !.table = next]
                  /\ UNCHANGED <<pml4, pc, call, heap, result>>
  BY DEF next_table
<1>4. OnWay' /\ Page' = Page /\ KeepsSpace
  <2>1. CASE Create(next)
    <3>1. OnWay' /\ Page' = Page  BY <1>1, <1>2, <1>3, <2>1, CreateOnWay
    <3>2. KeepsSpace  BY <1>1, <1>2, <1>3, <2>1, CreateKeeps, VPagesNat DEF KeepsSpace
    <3> QED  BY <3>1, <3>2
  <2>2. CASE Follow(next)
    <3>1. OnWay' /\ Page' = Page  BY <1>1, <1>2, <1>3, <2>2, FollowOnWay
    <3>2. KeepsSpace  BY <1>1, <1>2, <1>3, <2>2, FollowKeeps, VPagesNat DEF KeepsSpace
    <3> QED  BY <3>1, <3>2
  <2> QED  BY <1>3, <2>1, <2>2
<1>5. at'.vaddr = at.vaddr /\ at'.paddr = at.paddr /\ at'.end = at.end
  <2>1. at \in Locals(DOMAIN tables)  BY <1>2 DEF StateInv
  <2> QED  BY <1>3, <2>1 DEF Locals
<1>6. SameCall /\ Mapping /\ Mapping' /\ pc' = pc /\ (Walking' <=> Walking)
  BY <1>3 DEF SameCall, Mapping, Walking
<1>7. /\ InRange => at.vaddr < at.end
      /\ InRange /\ pc' = "map_large_page" => TryLarge
  BY <1>6 DEF MapInv, ProgressInv
<1>8. ProgressInv' /\ DoneInv' /\ HeapInv' /\ ResultInv'
  BY <1>4, <1>5, <1>6, <1>7, ProgressKept
<1> QED  BY <1>4, <1>6, <1>8 DEF MapInv

(* A call fails: nothing is left to be shown.                              *)
LEMMA FailureMaps ==
  ASSUME MapInv, Mapping, Return(-1), UNCHANGED <<pml4, tables, call, heap>>
  PROVE  MapInv' /\ KeepsSpace
<1>1. KeepsSpace  BY TranslateKept
<1>2. pc' \in {"release", "idle"} /\ result' = -1  BY DEF Return
<1>3. OnWay' /\ ProgressInv'  BY <1>2 DEF OnWay, Walking, ProgressInv, Mapping
<1>4. DoneInv' /\ HeapInv' /\ ResultInv'  BY <1>2 DEF DoneInv, HeapInv, ResultInv, Mapping
<1> QED  BY <1>1, <1>3, <1>4 DEF MapInv

(* A call succeeds: it has come to the end of its range.                   *)
LEMMA SuccessMaps ==
  ASSUME TablesInv, MapInv, pc = "map_range", at.vaddr >= at.end, Return(0),
         UNCHANGED <<pml4, tables, call, heap>>
  PROVE  MapInv' /\ KeepsSpace /\ pc' = "idle" /\ result' = result
<1>1. KeepsSpace  BY TranslateKept
<1>2. pc' = "idle" /\ result' = 0 /\ result = 0 /\ Mapping
  BY DEF Return, MapInv, ResultInv, Mapping
<1>3. OnWay' /\ ProgressInv'  BY <1>2 DEF OnWay, Walking, ProgressInv, Mapping
<1>4. StateInv  BY DEF TablesInv
<1>5. ASSUME InRange, NEW v \in VPages, FirstPage <= v,
             PageSize * v < call.vaddr + call.length
      PROVE  Translate(v)' = Asked(v)
  <2>1. PageSize * v < PageSize * Page
    <3>1. at.end = call.vaddr + call.length /\ at.vaddr = PageSize * Page
      BY <1>2, <1>5 DEF MapInv, ProgressInv
    <3>2. PageSize * v \in Int /\ at.end \in Int /\ at.vaddr \in Int
      BY <1>4, LocalsFacts, VPagesNat, SizeFacts
    <3> QED  BY <1>5, <3>1, <3>2
  <2>2. v \in Nat /\ Page \in Nat  BY <1>4, LocalsFacts, VPagesNat
  <2>3. ~ (Page <= v)
    <3>1. Page <= v => PageSize * Page <= PageSize * v  BY <2>2, SizeFacts, Monotone
    <3>2. PageSize * Page \in Int /\ PageSize * v \in Int  BY <2>2, SizeFacts
    <3> QED  BY <2>1, <3>1, <3>2
  <2>4. v < Page  BY <2>2, <2>3
  <2>5. Translate(v) = Asked(v)  BY <1>2, <1>5, <2>4 DEF MapInv, ProgressInv
  <2> QED  BY <1>1, <2>5 DEF KeepsSpace
<1>6. DoneInv'  BY <1>5, AskedKept DEF DoneInv
<1>7. HeapInv'  BY <1>2, AskedKept DEF MapInv, HeapInv
<1>8. ResultInv'  BY <1>2 DEF ResultInv, Mapping
<1> QED  BY <1>1, <1>2, <1>3, <1>6, <1>7, <1>8 DEF MapInv

(* Some pages of the range get the frames that were asked for.             *)
Installs ==
  \A v \in VPages : \/ Translate(v)' = Translate(v)
                    \/ /\ FirstPage <= v /\ PageSize * v < call.vaddr + call.length
                       /\ Translate(v)' = Asked(v)

(* Where a walk is, if its call is in range.                               *)
LEMMA WalkingFacts ==
  ASSUME TablesInv, MapInv, Walking, InRange
  PROVE  /\ Page \in VPages /\ Page \in Nat /\ FirstPage \in Nat /\ Base \in Nat
         /\ FirstPage <= Page /\ Asked(Page) \in Nat
         /\ at.vaddr = PageSize * Page /\ at.paddr = PageSize * Asked(Page)
         /\ at.paddr \div PageSize = Asked(Page)
         /\ at.end = call.vaddr + call.length /\ at.vaddr < at.end
         /\ at.end \in Nat /\ at.end <= Wrap - PageSize
<1>1. StateInv /\ Mapping  BY DEF TablesInv, Walking, Mapping
<1>2. Page \in VPages /\ Page \in Nat /\ FirstPage \in Nat /\ Base \in Nat
      /\ call.vaddr \in Nat /\ call.length \in Nat
  BY <1>1, LocalsFacts, CallFacts, PageInVPages
<1>3. /\ FirstPage <= Page /\ at.vaddr = PageSize * Page /\ at.paddr = PageSize * Asked(Page)
      /\ at.end = call.vaddr + call.length /\ at.vaddr < at.end
  BY <1>1 DEF MapInv, ProgressInv
<1>4. Asked(Page) \in Nat  BY <1>2, <1>3 DEF Asked
<1>5. at.paddr \div PageSize = Asked(Page)  BY <1>3, <1>4, SizeFacts, Multiple
<1> QED  BY <1>2, <1>3, <1>4, <1>5 DEF InRange

(* As long as the virtual address ends at most in the page after the       *)
(* range, the physical address does not wrap.                              *)
LEMMA PhysicalFits ==
  ASSUME StateInv, InRange, NEW n \in Nat, FirstPage <= n,
         PageSize * n < call.vaddr + call.length + PageSize
  PROVE  /\ PageSize * (Base + (n - FirstPage)) \in Nat
         /\ PageSize * (Base + (n - FirstPage)) < PhysicalWrap
<1>1. /\ call.vaddr \in Nat /\ call.paddr \in Nat /\ call.length \in Nat
      /\ FirstPage \in Nat /\ Base \in Nat
  BY CallFacts
<1> DEFINE b == PageSize * Base
           f == PageSize * FirstPage
           e == PageSize * n
<1>2. b \in Nat /\ f \in Nat /\ e \in Nat  BY <1>1, SizeFacts
<1>3. b <= call.paddr /\ call.vaddr < f + PageSize
  BY <1>1, SizeFacts, DivMod, Division DEF Base, FirstPage
<1>4. PageSize * (Base + (n - FirstPage)) = b + (e - f)  BY <1>1, SizeFacts
<1>5. f <= e  BY <1>1, SizeFacts, Monotone
<1>6. e < call.vaddr + call.length + PageSize  OBVIOUS
<1> HIDE DEF b, f, e
<1>7. call.paddr + call.length <= PhysicalWrap - 2 * PageSize /\ PhysicalWrap \in Nat
  BY PhysicalFacts DEF InRange
<1>8. b + (e - f) \in Nat /\ b + (e - f) < PhysicalWrap
  BY <1>1, <1>2, <1>3, <1>5, <1>6, <1>7, SizeFacts
<1> QED  BY <1>4, <1>8

(* The call goes on m pages further.                                       *)
LEMMA AdvanceMaps ==
  ASSUME TablesInv, MapInv, Walking, NEW m \in Nat, NEW size, size = PageSize * m,
         Advance(size), SameCall,
         InRange => at.vaddr + size < at.end + PageSize,
         InRange => \A v \in VPages : FirstPage <= v /\ v < Page + m => Translate(v)' = Asked(v)
  PROVE  MapInv'
<1>1. StateInv /\ Mapping  BY DEF TablesInv, Walking, Mapping
<1>2. pc' = "map_range" /\ ~ Walking' /\ Mapping'  BY DEF Advance, Walking, Mapping
<1>3. OnWay'  BY <1>2 DEF OnWay
<1>4. ProgressInv'
  <2> SUFFICES ASSUME InRange PROVE
        /\ at'.vaddr = PageSize * Page' /\ FirstPage' <= Page'
        /\ at'.paddr = PageSize * Asked(Page)'
        /\ at'.end = call'.vaddr + call'.length
        /\ \A v \in VPages : FirstPage' <= v /\ v < Page' => Translate(v)' = Asked(v)'
    BY <1>2, AskedKept DEF ProgressInv, SameCall
  <2>1. /\ Page \in Nat /\ FirstPage \in Nat /\ Base \in Nat /\ FirstPage <= Page
        /\ Asked(Page) \in Nat
        /\ at.vaddr = PageSize * Page /\ at.paddr = PageSize * Asked(Page)
        /\ at.end = call.vaddr + call.length /\ at.end \in Nat /\ at.end <= Wrap - PageSize
    BY WalkingFacts
  <2>2. size \in Nat /\ at.vaddr \in Nat /\ at.vaddr + size = PageSize * (Page + m)
        /\ at.paddr + size = PageSize * (Asked(Page) + m)
    BY <2>1, SizeFacts
  <2>3. (at.vaddr + size) % Wrap = at.vaddr + size
    <3> DEFINE a == at.vaddr + size
    <3>1. a \in 0 .. Wrap - 1 /\ Wrap * 0 + a = a  BY <2>1, <2>2, SizeFacts
    <3> HIDE DEF a
    <3>2. a % Wrap = a  BY <3>1, SizeFacts, Quotient
    <3> QED  BY <3>2 DEF a
  <2>3a. (at.paddr + size) % PhysicalWrap = at.paddr + size
    <3> DEFINE a == at.paddr + size
    <3>1. Page + m \in Nat /\ FirstPage <= Page + m  BY <2>1
    <3>2. PageSize * (Page + m) < call.vaddr + call.length + PageSize  BY <2>1, <2>2
    <3>3. /\ PageSize * (Base + ((Page + m) - FirstPage)) \in Nat
          /\ PageSize * (Base + ((Page + m) - FirstPage)) < PhysicalWrap
      BY <1>1, <3>1, <3>2, PhysicalFits
    <3>4. Base + ((Page + m) - FirstPage) = Asked(Page) + m  BY <2>1 DEF Asked
    <3>5. a \in Nat /\ a < PhysicalWrap  BY <2>2, <3>3, <3>4
    <3> HIDE DEF a
    <3>6. a \in 0 .. PhysicalWrap - 1 /\ PhysicalWrap * 0 + a = a
      BY <3>5, PhysicalFacts
    <3>7. a % PhysicalWrap = a  BY <3>6, PhysicalFacts, Quotient
    <3> QED  BY <3>7 DEF a
  <2>4. at'.vaddr = at.vaddr + size /\ at'.paddr = at.paddr + size /\ at'.end = at.end
    <3>1. at \in Locals(DOMAIN tables)  BY <1>1 DEF StateInv
    <3>2. at' = [at EXCEPT !.vaddr = (at.vaddr + size) % Wrap,
                           !.paddr = (at.paddr + size) % PhysicalWrap]
      BY DEF Advance
    <3> QED  BY <2>3, <2>3a, <3>1, <3>2 DEF Locals
  <2>5. Page' = Page + m  BY <2>1, <2>2, <2>4, SizeFacts, Multiple DEF Page
  <2>6. Asked(Page)' = Asked(Page) + m
    <3>1. Asked(Page)' = Base + (Page' - FirstPage)  BY AskedKept DEF Asked, SameCall
    <3> QED  BY <2>1, <2>5, <3>1 DEF Asked
  <2>7. FirstPage' <= Page'  BY <2>1, <2>5, AskedKept DEF SameCall
  <2>8. at'.vaddr = PageSize * Page' /\ at'.paddr = PageSize * Asked(Page)'
    BY <2>2, <2>4, <2>5, <2>6
  <2>9. at'.end = call'.vaddr + call'.length  BY <2>1, <2>4 DEF SameCall
  <2>10. \A v \in VPages : FirstPage' <= v /\ v < Page' => Translate(v)' = Asked(v)'
    BY <2>5, AskedKept DEF SameCall
  <2> QED  BY <2>7, <2>8, <2>9, <2>10
<1>5. DoneInv'  BY <1>2 DEF DoneInv
<1>6. HeapInv'  BY AskedKept DEF MapInv, HeapInv, SameCall
<1>7. ResultInv'  BY <1>1, <1>2 DEF MapInv, ResultInv, SameCall, Mapping
<1> QED  BY <1>3, <1>4, <1>5, <1>6, <1>7 DEF MapInv

(* One more page begins before the end of the range.                       *)
LEMMA PageFits ==
  ASSUME TablesInv, MapInv, Walking, InRange
  PROVE  /\ at.vaddr + PageSize < at.end + PageSize
         /\ \A v \in VPages : FirstPage <= v /\ v < Page + 1 =>
              v = Page \/ (v # Page /\ Translate(v) = Asked(v))
<1>1. /\ Page \in Nat /\ at.end \in Nat /\ at.vaddr = PageSize * Page /\ at.vaddr < at.end
      /\ at.end <= Wrap - PageSize
  BY WalkingFacts
<1>2. PageSize * Page \in Nat  BY <1>1, SizeFacts
<1>3. Mapping  BY DEF Mapping, Walking
<1>4. \A v \in VPages : FirstPage <= v /\ v < Page => Translate(v) = Asked(v)
  BY <1>3 DEF MapInv, ProgressInv
<1> QED  BY <1>1, <1>2, <1>4, SizeFacts, VPagesNat

LEMMA SmallLeafMaps ==
  ASSUME TablesInv, MapInv, Walking, at.level = 1,
         tables' = Set(Leaf(at.paddr \div PageSize, call.flags, FALSE)),
         Advance(PageSize), UNCHANGED <<pml4, call, heap, result>>
  PROVE  MapInv' /\ (InRange => Installs)
<1>1. PICK lev : TreeOf(lev) /\ WalkOf(lev)  BY DEF TablesInv, TreeInv
<1>2. MemoryInv /\ StateInv /\ OnWay  BY DEF TablesInv, MapInv
<1>3. \A v \in VPages :
        Translate(v)' = IF v = Page THEN at.paddr \div PageSize ELSE Translate(v)
  BY <1>1, <1>2, SmallLeafEffect, FrameOfLeaf
<1>4. InRange => \A v \in VPages : FirstPage <= v /\ v < Page + 1 => Translate(v)' = Asked(v)
  BY <1>3, WalkingFacts, PageFits
<1>5. PageSize = PageSize * 1 /\ 1 \in Nat  BY SizeFacts
<1>6. MapInv'  BY <1>4, <1>5, AdvanceMaps, PageFits DEF SameCall
<1>7. InRange => Installs  BY <1>3, WalkingFacts DEF Installs
<1> QED  BY <1>6, <1>7

LEMMA LargeLeafMaps ==
  ASSUME TablesInv, MapInv, pc = "map_large_page", at.level = 2,
         tables' = Set(Leaf(at.paddr \div PageSize, call.flags, TRUE)),
         Advance(LargePage), UNCHANGED <<pml4, call, heap, result>>
  PROVE  MapInv' /\ (InRange => Installs)
<1>1. PICK lev : TreeOf(lev) /\ WalkOf(lev)  BY DEF TablesInv, TreeInv
<1>2. MemoryInv /\ StateInv /\ OnWay /\ Walking /\ Mapping
  BY DEF TablesInv, MapInv, Walking, Mapping
<1>3. \A v \in VPages :
        Translate(v)' = IF v \div Entries = Page \div Entries
                          THEN InLargePage(at.paddr \div PageSize, v) ELSE Translate(v)
  BY <1>1, <1>2, LargeLeafEffect, FrameOfLeaf
<1>4. ASSUME InRange
      PROVE  /\ at.vaddr + LargePage < at.end + PageSize /\ Installs
             /\ \A v \in VPages : FirstPage <= v /\ v < Page + Entries
                                    => Translate(v)' = Asked(v)
  <2>1. /\ Page \in Nat /\ FirstPage \in Nat /\ Base \in Nat /\ FirstPage <= Page
        /\ Asked(Page) \in Nat /\ at.vaddr = PageSize * Page
        /\ at.paddr = PageSize * Asked(Page) /\ at.paddr \div PageSize = Asked(Page)
        /\ at.end = call.vaddr + call.length /\ at.end \in Nat /\ at.end <= Wrap - PageSize
    BY <1>2, <1>4, WalkingFacts
  <2>2. /\ at.vaddr % LargePage = 0 /\ at.paddr % LargePage = 0
        /\ at.end - at.vaddr >= LargePage
    BY <1>2, <1>4 DEF MapInv, ProgressInv, TryLarge
  <2>3. Page % Entries = 0 /\ Asked(Page) % Entries = 0  BY <2>1, <2>2, LargeMultiple
  <2>4. /\ at.vaddr \in Nat /\ at.vaddr + LargePage <= at.end
        /\ at.vaddr + LargePage < at.end + PageSize
    <3>1. at.vaddr \in Nat  BY <1>2, LocalsFacts
    <3> QED  BY <2>1, <2>2, <3>1, SizeFacts
  <2>5. ASSUME NEW v \in VPages
        PROVE  v \div Entries = Page \div Entries =>
                 /\ Page <= v /\ v < Page + Entries /\ Translate(v)' = Asked(v)
                 /\ PageSize * v < call.vaddr + call.length
    <3> SUFFICES ASSUME v \div Entries = Page \div Entries
                 PROVE  /\ Page <= v /\ v < Page + Entries /\ Translate(v)' = Asked(v)
                        /\ PageSize * v < call.vaddr + call.length
      OBVIOUS
    <3>1. v \in Nat  BY VPagesNat
    <3>2. Page <= v /\ v < Page + Entries  BY <2>1, <2>3, <3>1, LargePagePages
    <3>3. InLargePage(Asked(Page), v) = Asked(Page) + (v - Page)
      BY <2>1, <2>3, <3>1, LargePageFrame
    <3>4. Asked(Page) + (v - Page) = Asked(v)  BY <2>1, <3>1 DEF Asked
    <3>5. Translate(v)' = Asked(v)  BY <1>3, <2>1, <3>3, <3>4
    <3>6. PageSize * v + PageSize <= PageSize * (Page + Entries)
      BY <2>1, <3>1, <3>2, SizeFacts, Monotone
    <3>7. PageSize * (Page + Entries) = at.vaddr + LargePage
      BY <2>1, SizeFacts DEF LargePage
    <3>8. PageSize * v < call.vaddr + call.length
      <4>1. PageSize * v \in Nat  BY <3>1, SizeFacts
      <4> QED  BY <2>1, <2>4, <3>6, <3>7, <4>1, SizeFacts
    <3> QED  BY <3>2, <3>5, <3>8
  <2>6. \A v \in VPages : FirstPage <= v /\ v < Page => Translate(v) = Asked(v)
    BY <1>2, <1>4 DEF MapInv, ProgressInv
  <2>7. \A v \in VPages : FirstPage <= v /\ v < Page + Entries => Translate(v)' = Asked(v)
    <3> SUFFICES ASSUME NEW v \in VPages, FirstPage <= v, v < Page + Entries
                 PROVE  Translate(v)' = Asked(v)
      OBVIOUS
    <3>1. CASE v \div Entries = Page \div Entries  BY <2>5, <3>1
    <3>2. CASE v \div Entries # Page \div Entries
      <4>1. v \in Nat  BY VPagesNat
      <4>2. ~ (Page <= v)  BY <2>1, <2>3, <3>2, <4>1, LargePagePages
      <4>3. v < Page  BY <2>1, <4>1, <4>2
      <4> QED  BY <1>3, <2>6, <3>2, <4>3
    <3> QED  BY <3>1, <3>2
  <2>8. Installs
    <3> SUFFICES ASSUME NEW v \in VPages
                 PROVE  \/ Translate(v)' = Translate(v)
                        \/ /\ FirstPage <= v /\ PageSize * v < call.vaddr + call.length
                           /\ Translate(v)' = Asked(v)
      BY DEF Installs
    <3>1. CASE v \div Entries = Page \div Entries
      <4>1. v \in Nat  BY VPagesNat
      <4>2. FirstPage <= v  BY <2>1, <2>5, <3>1, <4>1
      <4> QED  BY <2>5, <3>1, <4>2
    <3>2. CASE v \div Entries # Page \div Entries  BY <1>3, <3>2
    <3> QED  BY <3>1, <3>2
  <2> QED  BY <2>4, <2>7, <2>8
<1>5. LargePage = PageSize * Entries /\ Entries \in Nat  BY SizeFacts DEF LargePage
<1>6. MapInv'  BY <1>2, <1>4, <1>5, AdvanceMaps DEF SameCall
<1> QED  BY <1>4, <1>6

LEMMA CoveredMaps ==
  ASSUME TablesInv, MapInv, Walking, Covered, SameFrame, Advance(PageSize),
         UNCHANGED <<pml4, tables, call, heap, result>>
  PROVE  MapInv' /\ KeepsSpace
<1>1. PICK lev : TreeOf(lev) /\ WalkOf(lev)  BY DEF TablesInv, TreeInv
<1>2. MemoryInv /\ StateInv /\ OnWay  BY DEF TablesInv, MapInv
<1>3. Translate(Page) = at.paddr \div PageSize
  BY <1>1, <1>2, CoveredTranslation DEF SameFrame
<1>4. KeepsSpace  BY TranslateKept
<1>5. InRange => \A v \in VPages : FirstPage <= v /\ v < Page + 1 => Translate(v)' = Asked(v)
  BY <1>3, <1>4, WalkingFacts, PageFits DEF KeepsSpace
<1>6. PageSize = PageSize * 1 /\ 1 \in Nat  BY SizeFacts
<1>7. MapInv'  BY <1>5, <1>6, AdvanceMaps, PageFits DEF SameCall
<1> QED  BY <1>4, <1>7

(* A call begins at the first page of its range.                           *)
LEMMA EnterMaps ==
  ASSUME NEW op \in {"map_range", "get_heap"}, NEW c \in Arguments, Enter(op, c),
         UNCHANGED <<pml4, tables>>, HeapInv'
  PROVE  MapInv' /\ KeepsSpace /\ pc' = "map_range" /\ result' = 0
<1>1. c.vaddr \in Nat /\ c.paddr \in Nat /\ c.length \in Nat  BY SizeFacts DEF Arguments
<1>2. /\ call'.vaddr = c.vaddr /\ call'.paddr = c.paddr /\ call'.length = c.length
      /\ call'.op = op /\ pc' = "map_range" /\ result' = 0
  BY DEF Enter
<1>3. /\ at'.vaddr = RoundDown(c.vaddr) /\ at'.paddr = RoundDown(c.paddr)
      /\ at'.end = (c.vaddr + c.length) % Wrap
  BY DEF Enter, NoLocal
<1>4. \A a \in Nat : RoundDown(a) = PageSize * (a \div PageSize) /\ a \div PageSize \in Nat
  <2> SUFFICES ASSUME NEW a \in Nat
               PROVE  RoundDown(a) = PageSize * (a \div PageSize) /\ a \div PageSize \in Nat
    OBVIOUS
  <2> DEFINE q == a \div PageSize
             r == a % PageSize
  <2>1. q \in Nat /\ r \in 0 .. PageSize - 1 /\ a = PageSize * q + r
    BY SizeFacts, DivMod, Division
  <2>2. RoundDown(a) = a - r  BY DEF RoundDown
  <2> HIDE DEF q, r
  <2>3. PageSize * q \in Nat  BY <2>1, SizeFacts
  <2>4. RoundDown(a) = PageSize * q  BY <2>1, <2>2, <2>3
  <2> QED  BY <2>1, <2>4 DEF q
<1>5. FirstPage' = c.vaddr \div PageSize /\ Base' = c.paddr \div PageSize
      /\ FirstPage' \in Nat /\ Base' \in Nat
  BY <1>1, <1>2, <1>4 DEF FirstPage, Base
<1>6. at'.vaddr = PageSize * FirstPage' /\ at'.paddr = PageSize * Base'
  BY <1>1, <1>3, <1>4, <1>5
<1>7. Page' = FirstPage'  BY <1>5, <1>6, SizeFacts, Multiple DEF Page
<1>8. Asked(Page)' = Base'  BY <1>5, <1>7 DEF Asked
<1>9. ASSUME InRange'
      PROVE  at'.end = call'.vaddr + call'.length
  <2> DEFINE a == c.vaddr + c.length
  <2>1. a \in 0 .. Wrap - 1 /\ Wrap * 0 + a = a
    BY <1>1, <1>2, <1>9, SizeFacts DEF InRange
  <2> HIDE DEF a
  <2>2. a % Wrap = a  BY <2>1, SizeFacts, Quotient
  <2> QED  BY <1>2, <1>3, <2>2 DEF a
<1>10. ~ Walking' /\ Mapping' /\ pc' # "map_large_page"  BY <1>2 DEF Walking, Mapping
<1>11. \A v \in VPages : ~ (FirstPage' <= v /\ v < Page')  BY <1>5, <1>7, VPagesNat
<1>12. ProgressInv'
  BY <1>5, <1>6, <1>7, <1>8, <1>9, <1>10, <1>11 DEF ProgressInv
<1>13. OnWay' /\ DoneInv' /\ ResultInv'
  BY <1>2, <1>10 DEF OnWay, DoneInv, ResultInv, Mapping
<1> QED  BY <1>2, <1>12, <1>13, TranslateKept DEF MapInv

LEMMA MapRangeMaps ==
  ASSUME NEW c \in Arguments, map_range(c)
  PROVE  MapInv' /\ KeepsSpace /\ pc = "idle" /\ pc' = "map_range" /\ result' = 0
<1>1. HeapInv'  BY DEF HeapInv, map_range, Enter
<1> QED  BY <1>1, EnterMaps DEF map_range

LEMMA GetHeapMaps ==
  ASSUME TablesInv, MapInv, NEW c \in [vaddr: 0 .. Wrap - 1, length: Nat], get_heap(c)
  PROVE  /\ MapInv' /\ KeepsSpace /\ pc = "idle"
         /\ \/ pc' = "map_range" /\ result' = 0
            \/ pc' = "idle" /\ result' = -1
<1> DEFINE n == HeapPages(c)
<1>1. MemoryInv /\ pc = "idle" /\ UNCHANGED <<pml4, tables>>  BY DEF TablesInv, get_heap
<1>2. n \in Nat /\ n * PageSize \in Nat  BY HeapPagesNat
<1> HIDE DEF n
<1>3. ASSUME NEW first \in free, heap' = first .. first + n - 1,
             Enter("get_heap", [vaddr |-> c.vaddr, paddr |-> first * PageSize,
                                length |-> n * PageSize, flags |-> {"READ_WRITE"}])
      PROVE  MapInv' /\ KeepsSpace /\ pc' = "map_range" /\ result' = 0
  <2> DEFINE d == [vaddr |-> c.vaddr, paddr |-> first * PageSize,
                   length |-> n * PageSize, flags |-> {"READ_WRITE"}]
  <2>1. first \in Nat /\ first * PageSize \in Nat  BY <1>1, SizeFacts DEF TablesInv, MemoryInv
  <2>2. d \in Arguments  BY <1>2, <2>1 DEF Arguments, flag
  <2>3. call'.length = n * PageSize /\ call'.paddr = first * PageSize  BY <1>3 DEF Enter
  <2>4. Base' = first
    <3>1. first * PageSize = PageSize * first  BY <2>1, SizeFacts
    <3> QED  BY <2>1, <2>3, <3>1, SizeFacts, Multiple DEF Base
  <2>5. HeapInv'  BY <1>2, <1>3, <2>3, <2>4 DEF HeapInv
  <2> HIDE DEF d
  <2> QED  BY <1>1, <1>3, <2>2, <2>5, EnterMaps DEF d
<1>4. CASE heap' = {} /\ call' = NoCall /\ result' = -1 /\ UNCHANGED <<pc, at>>
  <2>1. OnWay' /\ ProgressInv' /\ DoneInv' /\ HeapInv' /\ ResultInv'
    BY <1>1, <1>4 DEF OnWay, Walking, ProgressInv, Mapping, DoneInv, HeapInv, ResultInv
  <2> QED  BY <1>1, <1>4, <2>1, TranslateKept DEF MapInv
<1> QED  BY <1>1, <1>3, <1>4 DEF get_heap, n

LEMMA ReleaseHeapMaps ==
  ASSUME TablesInv, MapInv, ReleaseHeap
  PROVE  /\ MapInv' /\ KeepsSpace /\ pc = "release" /\ pc' \in {"release", "idle"}
         /\ UNCHANGED <<call, result>> /\ result = -1
<1>1. /\ pc = "release" /\ pc' \in {"release", "idle"}
      /\ UNCHANGED <<pml4, tables, call, at, result>> /\ result = -1
  BY DEF ReleaseHeap, MapInv, ResultInv
<1>2. OnWay' /\ ProgressInv' /\ DoneInv' /\ HeapInv' /\ ResultInv'
  BY <1>1 DEF OnWay, Walking, ProgressInv, Mapping, DoneInv, HeapInv, ResultInv
<1> QED  BY <1>1, <1>2, TranslateKept DEF MapInv

(* The top level maps nothing.                                             *)
LEMMA InitPml4Maps ==
  ASSUME TablesInv, MapInv, init_pml4
  PROVE  /\ MapInv' /\ KeepsSpace /\ pc = "boot" /\ pc' \in {"idle", "halt"}
         /\ UNCHANGED <<call, result>>
<1>1. /\ pc = "boot" /\ pc' \in {"idle", "halt"} /\ call.op = "none"
      /\ UNCHANGED <<call, at, heap, result>>
  BY DEF init_pml4, MapInv, ResultInv
<1>2. OnWay' /\ ProgressInv' /\ DoneInv' /\ HeapInv' /\ ResultInv'
  BY <1>1 DEF OnWay, Walking, ProgressInv, Mapping, DoneInv, HeapInv, ResultInv
<1>3. pml4 = NoFrame  BY <1>1 DEF TablesInv, StateInv
<1>4. CASE UNCHANGED <<pml4, tables>>  BY <1>1, <1>2, <1>4, TranslateKept DEF MapInv
<1>5. ASSUME NEW f \in free, pml4' = f, tables' = [t \in {f} |-> ZeroedTable]
      PROVE  KeepsSpace
  <2> SUFFICES ASSUME NEW v \in VPages PROVE Translate(v)' = Translate(v)  BY DEF KeepsSpace
  <2>1. Pdp(v) = NoFrame /\ Pd(v) = NoFrame /\ Pt(v) = NoFrame
    BY <1>3 DEF Pdp, Pd, Pt, Below
  <2>2. tables'[f] = ZeroedTable /\ Index(v, 4) \in Slots  BY <1>5, VPagesNat, IndexInSlots
  <2>3. ~ tables'[f][Index(v, 4)].present  BY <2>2 DEF ZeroedTable, Empty
  <2>4. Pdp(v)' = NoFrame  BY <1>5, <2>3 DEF Pdp, Below
  <2>5. Pd(v)' = NoFrame  BY <2>4 DEF Pd, Below
  <2>6. Pt(v)' = NoFrame  BY <2>5 DEF Pt, Below
  <2> QED  BY <2>1, <2>5, <2>6 DEF Translate, LeafOf
<1> QED  BY <1>1, <1>2, <1>4, <1>5 DEF init_pml4, MapInv

LEMMA LoopMaps ==
  ASSUME TablesInv, MapInv, Loop
  PROVE  /\ MapInv' /\ KeepsSpace /\ UNCHANGED <<call, result>>
         /\ Mapping' \/ pc' = "idle"
<1>1. pc = "map_range" /\ Mapping /\ UNCHANGED <<pml4, tables, call, heap>>
  BY DEF Loop, MoreToMap, Mapping
<1>2. CASE at.vaddr < at.end /\ TryLarge /\ Walk("map_large_page") /\ UNCHANGED result
  BY <1>1, <1>2, WalkMaps DEF SameCall, Walk, Mapping
<1>3. CASE at.vaddr < at.end /\ Walk("map_page") /\ UNCHANGED result
  BY <1>1, <1>3, WalkMaps DEF SameCall, Walk, Mapping
<1>4. CASE at.vaddr >= at.end /\ Return(0)  BY <1>1, <1>4, SuccessMaps
<1>5. at.vaddr \in Nat /\ at.end \in Nat  BY LocalsFacts, SizeFacts DEF TablesInv, StateInv, Locals
<1> QED  BY <1>2, <1>3, <1>4, <1>5 DEF Loop, MoreToMap

LEMMA KeepsInstalls == KeepsSpace => Installs
  BY DEF KeepsSpace, Installs

LEMMA MapLargePageMaps ==
  ASSUME TablesInv, MapInv, map_large_page
  PROVE  /\ MapInv' /\ (InRange => Installs) /\ UNCHANGED <<call, result>> /\ Mapping'
<1>1. pc = "map_large_page" /\ Walking /\ Mapping  BY DEF map_large_page, Walking, Mapping
<1>2. StateInv /\ (InRange => at.vaddr < at.end)
  BY <1>1 DEF TablesInv, MapInv, ProgressInv
<1>3. CASE at.level > 2 /\ next_table
  <2>1. at.level > 1  BY <1>2, <1>3, LocalsFacts
  <2> QED  BY <1>1, <1>3, <2>1, NextTableMaps, KeepsInstalls DEF SameCall, Mapping
<1>4. CASE FallBack /\ UNCHANGED <<pml4, tables, call, heap, result>>
  <2>1. MapInv' /\ KeepsSpace  BY <1>1, <1>2, <1>4, WalkMaps DEF SameCall, FallBack
  <2> QED  BY <1>4, <2>1, KeepsInstalls DEF FallBack, Walk, Mapping
<1>5. CASE /\ at.level = 2
           /\ tables' = Set(Leaf(at.paddr \div PageSize, call.flags, TRUE))
           /\ Advance(LargePage)
           /\ UNCHANGED <<allocator, pml4, call, heap, result>>
  BY <1>1, <1>5, LargeLeafMaps DEF Advance, Mapping
<1> QED  BY <1>3, <1>4, <1>5 DEF map_large_page

LEMMA MapPageMaps ==
  ASSUME TablesInv, MapInv, map_page
  PROVE  /\ MapInv' /\ UNCHANGED call
         /\ \/ Mapping' /\ (InRange => Installs) /\ UNCHANGED result
            \/ KeepsSpace /\ pc' \in {"release", "idle"} /\ result' = -1
<1>1. pc = "map_page" /\ Walking /\ Mapping  BY DEF map_page, Walking, Mapping
<1>2. StateInv  BY DEF TablesInv
<1>3. CASE AbovePt /\ next_table
  BY <1>1, <1>3, NextTableMaps, KeepsInstalls DEF SameCall, Mapping, AbovePt
<1>4. CASE Return(-1) /\ UNCHANGED <<pml4, tables, call, heap>>
  BY <1>1, <1>4, FailureMaps DEF Return
<1>5. CASE /\ Covered /\ SameFrame /\ Advance(PageSize)
           /\ UNCHANGED <<allocator, pml4, tables, call, heap, result>>
  BY <1>1, <1>5, CoveredMaps, KeepsInstalls DEF Advance, Mapping
<1>6. CASE /\ ~ AbovePt
           /\ tables' = Set(Leaf(at.paddr \div PageSize, call.flags, FALSE))
           /\ Advance(PageSize)
           /\ UNCHANGED <<allocator, pml4, call, heap, result>>
  <2>1. at.level = 1  BY <1>2, <1>6, LocalsFacts DEF AbovePt
  <2> QED  BY <1>1, <1>6, <2>1, SmallLeafMaps DEF Advance, Mapping
<1> QED  BY <1>3, <1>4, <1>5, <1>6 DEF map_page

LEMMA StutterMaps ==
  ASSUME MapInv, UNCHANGED <<pml4, tables, pc, call, at, heap, result>>
  PROVE  MapInv' /\ KeepsSpace
<1>1. UNCHANGED <<pml4, tables, pc, call, at, heap, result>>  OBVIOUS
<1>2. KeepsSpace  BY <1>1, TranslateKept
<1>3. Page' = Page /\ (Walking' <=> Walking) /\ (Mapping' <=> Mapping) /\ (TryLarge' <=> TryLarge)
  BY <1>1 DEF Page, Walking, Mapping, TryLarge
<1>4. Asked(Page)' = Asked(Page)  BY <1>1, <1>3, AskedKept DEF Asked
<1>5. OnWay'
  <2>1. \A v : Pdp(v)' = Pdp(v)  BY <1>1 DEF Pdp, Below
  <2>2. \A v : Pd(v)' = Pd(v)  BY <1>1, <2>1 DEF Pd, Below
  <2>3. \A v : Pt(v)' = Pt(v)  BY <1>1, <2>2 DEF Pt, Below
  <2> QED  BY <1>1, <1>3, <2>1, <2>2, <2>3 DEF MapInv, OnWay, Way
<1>6. ProgressInv'
  BY <1>1, <1>2, <1>3, <1>4, AskedKept DEF MapInv, ProgressInv, KeepsSpace
<1>7. DoneInv' /\ HeapInv' /\ ResultInv'
  BY <1>1, <1>2, <1>3, AskedKept DEF MapInv, DoneInv, HeapInv, ResultInv, KeepsSpace
<1> QED  BY <1>2, <1>5, <1>6, <1>7 DEF MapInv

-----------------------------------------------------------------------------
(* The invariant of the specification.                                     *)

LEMMA MapInvInit ==
  ASSUME NEW managed, NEW unused, Start(managed, unused)
  PROVE  MapInv
  BY DEF Start, MapInv, OnWay, ProgressInv, DoneInv, HeapInv, ResultInv, Mapping, Walking,
         NoCall

LEMMA MapInvStep ==
  ASSUME TablesInv, MapInv, [Next]_vars
  PROVE  MapInv'
<1>1. CASE init_pml4  BY <1>1, InitPml4Maps
<1>2. CASE Loop  BY <1>2, LoopMaps
<1>3. CASE map_large_page  BY <1>3, MapLargePageMaps
<1>4. CASE map_page  BY <1>4, MapPageMaps
<1>5. CASE ReleaseHeap  BY <1>5, ReleaseHeapMaps
<1>6. CASE \E c \in Ranges : map_range(c)
  BY <1>6, MapRangeMaps, RangeArguments
<1>7. CASE \E c \in Heaps : get_heap(c)  BY <1>7, GetHeapMaps, HeapsAssumption
<1>8. CASE Halted \/ UNCHANGED vars  BY <1>8, StutterMaps DEF Halted, vars
<1> QED  BY <1>1, <1>2, <1>3, <1>4, <1>5, <1>6, <1>7, <1>8 DEF Next, Running

(* A call of map_range has mapped the pages it has passed, to the frames   *)
(* it was asked for, and a call that returned 0 has passed its range.      *)
THEOREM MapInvariant == Spec => [](PagingInv /\ MapInv)
<1>1. Init => PagingInv /\ MapInv  BY PagingInvInit, MapInvInit DEF Init
<1>2. PagingInv /\ MapInv /\ [Next]_vars => (PagingInv /\ MapInv)'
  BY PagingInvStep, MapInvStep DEF PagingInv
<1> QED  BY <1>1, <1>2, PTL DEF Spec

-----------------------------------------------------------------------------
(* Calls below the last page.                                              *)

(* What a caller has to see to: the range ends below the last page of the  *)
(* address space, and its frames below the last two that an entry has room *)
(* for.  The run top_range is about a range that does not.                 *)
CallsBelowTop ==
  /\ \A c \in Ranges : /\ c.vaddr + c.length <= Wrap - PageSize
                       /\ c.paddr + c.length <= PhysicalWrap - 2 * PageSize
  /\ \A c \in Heaps : c.vaddr + HeapPages(c) * PageSize <= Wrap - PageSize
  /\ \A f \in UNION Regions : (f + 3) * PageSize <= PhysicalWrap

(* A heap begins at a page; one that does not is the subject of the run    *)
(* heap_unaligned.                                                         *)
HeapsAligned == \A c \in Heaps : c.vaddr % PageSize = 0

(* Every call comes from map_range or get_heap.                            *)
LEMMA CallStep ==
  ASSUME [Next]_vars
  PROVE  \/ call' = call
         \/ call' = NoCall
         \/ \E c \in Ranges : /\ call'.op = "map_range" /\ call'.vaddr = c.vaddr
                              /\ call'.paddr = c.paddr /\ call'.length = c.length
         \/ \E c \in Heaps, first \in free :
              /\ call'.op = "get_heap" /\ call'.vaddr = c.vaddr
              /\ call'.paddr = first * PageSize /\ call'.length = HeapPages(c) * PageSize
              /\ Take("frames_allocate", HeapPages(c), first)
<1>1. CASE init_pml4  BY <1>1 DEF init_pml4
<1>2. CASE Loop  BY <1>2 DEF Loop
<1>3. CASE map_large_page  BY <1>3 DEF map_large_page, next_table
<1>4. CASE map_page  BY <1>4 DEF map_page, next_table
<1>5. CASE ReleaseHeap  BY <1>5 DEF ReleaseHeap
<1>6. ASSUME NEW c \in Ranges, map_range(c)
      PROVE  /\ call'.op = "map_range" /\ call'.vaddr = c.vaddr
             /\ call'.paddr = c.paddr /\ call'.length = c.length
  BY <1>6 DEF map_range, Enter
<1>7. ASSUME NEW c \in Heaps, get_heap(c)
      PROVE  \/ call' = NoCall
             \/ \E first \in free :
                  /\ call'.op = "get_heap" /\ call'.vaddr = c.vaddr
                  /\ call'.paddr = first * PageSize /\ call'.length = HeapPages(c) * PageSize
                  /\ Take("frames_allocate", HeapPages(c), first)
  <2> DEFINE d(first) == [vaddr |-> c.vaddr, paddr |-> first * PageSize,
                          length |-> HeapPages(c) * PageSize, flags |-> {"READ_WRITE"}]
  <2>1. \/ call' = NoCall
        \/ \E first \in free : /\ Enter("get_heap", d(first))
                               /\ Take("frames_allocate", HeapPages(c), first)
    BY <1>7 DEF get_heap
  <2>2. ASSUME NEW first, Enter("get_heap", d(first))
        PROVE  /\ call'.op = "get_heap" /\ call'.vaddr = c.vaddr
               /\ call'.paddr = first * PageSize /\ call'.length = HeapPages(c) * PageSize
    BY <2>2 DEF Enter
  <2> QED  BY <2>1, <2>2
<1>8. CASE Halted \/ UNCHANGED vars  BY <1>8 DEF Halted, vars
<1> QED  BY <1>1, <1>2, <1>3, <1>4, <1>5, <1>6, <1>7, <1>8 DEF Next, Running

LEMMA NoCallInRange == /\ NoCall.vaddr + NoCall.length <= Wrap - PageSize
                       /\ NoCall.paddr + NoCall.length <= PhysicalWrap - 2 * PageSize
<1> DEFINE M == Entries * Entries * Entries * Entries
<1>1. M \in Nat /\ M > 0
  <2>1. \A a, b \in Nat : a > 0 /\ b > 0 => a * b \in Nat /\ a * b > 0  OBVIOUS
  <2>2. Entries \in Nat /\ Entries > 0  BY SizeFacts
  <2>3. Entries * Entries \in Nat /\ Entries * Entries > 0  BY <2>1, <2>2
  <2>4. Entries * Entries * Entries \in Nat /\ Entries * Entries * Entries > 0
    BY <2>1, <2>2, <2>3
  <2> QED  BY <2>1, <2>2, <2>4
<1>2. Wrap = PageSize * M  BY SizeFacts DEF Wrap
<1> HIDE DEF M
<1>3. PageSize * 0 + PageSize <= PageSize * M  BY <1>1, SizeFacts, Monotone
<1>4. PhysicalWrap \in Nat /\ PhysicalWrap >= 2 * PageSize
  BY <1>2, <1>3, SizeFacts, PhysicalFacts
<1> QED  BY <1>2, <1>3, <1>4, SizeFacts DEF NoCall

(* All calls are in range then.                                            *)
LEMMA AlwaysInRange ==
  ASSUME CallsBelowTop
  PROVE  Spec => []InRange
<1>1. Init => InRange  BY NoCallInRange DEF Init, Start, InRange
<1>2. PagingInv /\ InRange /\ [Next]_vars => InRange'
  <2> SUFFICES ASSUME PagingInv, InRange, [Next]_vars PROVE InRange'  OBVIOUS
  <2>1. CASE call' = call  BY <2>1 DEF InRange
  <2>2. CASE call' = NoCall  BY <2>2, NoCallInRange DEF InRange
  <2>3. CASE \E c \in Ranges : /\ call'.vaddr = c.vaddr /\ call'.paddr = c.paddr
                               /\ call'.length = c.length
    BY <2>3 DEF InRange, CallsBelowTop
  <2>4. ASSUME NEW c \in Heaps, NEW first \in free,
               call'.vaddr = c.vaddr, call'.paddr = first * PageSize,
               call'.length = HeapPages(c) * PageSize,
               Take("frames_allocate", HeapPages(c), first)
        PROVE  InRange'
    <3> DEFINE n == HeapPages(c)
    <3>1. n \in Nat  BY HeapPagesNat, HeapsAssumption
    <3>2. MemoryInv  BY DEF PagingInv, TablesInv
    <3>3. PICK r \in regions : first .. first + n - 1 \subseteq r /\ n > 0
      BY <2>4, <3>1, TakeFacts
    <3>4. first \in Nat /\ regions = Regions  BY <3>2 DEF MemoryInv, PagingInv
    <3> HIDE DEF n
    <3>5. first + n - 1 \in r  BY <3>1, <3>3, <3>4
    <3>6. (first + n - 1 + 3) * PageSize <= PhysicalWrap
      BY <3>3, <3>4, <3>5 DEF CallsBelowTop
    <3>7. (first + n - 1 + 3) * PageSize = first * PageSize + n * PageSize + 2 * PageSize
      BY <3>1, <3>4, SizeFacts
    <3>8. first * PageSize \in Nat /\ n * PageSize \in Nat  BY <3>1, <3>4, SizeFacts
    <3>9. first * PageSize + n * PageSize <= PhysicalWrap - 2 * PageSize
      BY <3>6, <3>7, <3>8, SizeFacts, PhysicalFacts
    <3>10. c.vaddr + n * PageSize <= Wrap - PageSize  BY DEF CallsBelowTop, n
    <3> QED  BY <2>4, <3>9, <3>10 DEF InRange, n
  <2> QED  BY <2>1, <2>2, <2>3, <2>4, CallStep
<1> QED  BY <1>1, <1>2, MapInvariant, PTL DEF Spec

AlignedInv == call.op = "get_heap" => call.vaddr % PageSize = 0

LEMMA AlwaysAligned ==
  ASSUME HeapsAligned
  PROVE  Spec => []AlignedInv
<1>1. Init => AlignedInv  BY DEF Init, Start, AlignedInv, NoCall
<1>2. AlignedInv /\ [Next]_vars => AlignedInv'
  BY CallStep DEF AlignedInv, HeapsAligned, NoCall
<1> QED  BY <1>1, <1>2, PTL DEF Spec

(* The translations that a call asks for.                                  *)
LEMMA WantedIs ==
  ASSUME StateInv
  PROVE  /\ Wanted = {<<v, Asked(v)>> :
                        v \in {p \in VPages : /\ FirstPage <= p
                                              /\ PageSize * p < call.vaddr + call.length}}
         /\ \A v \in VPages : FirstPage <= v => Asked(v) \in Nat
<1>1. FirstPage \in Nat /\ Base \in Nat  BY CallFacts
<1>2. \A v \in VPages : /\ v \in Nat /\ v * PageSize = PageSize * v
                        /\ (call.paddr \div PageSize) + v - FirstPage = Asked(v)
                        /\ (v >= FirstPage <=> FirstPage <= v)
                        /\ (FirstPage <= v => Asked(v) \in Nat)
  BY <1>1, VPagesNat, SizeFacts DEF Asked, Base
<1> QED  BY <1>2 DEF Wanted

LEMMA BackedHeap ==
  ASSUME TablesInv, MapInv, InRange, AlignedInv
  PROVE  HeapBacked
<1>1. StateInv  BY DEF TablesInv
<1> SUFFICES ASSUME pc = "idle", call.op = "get_heap", result = 0, NEW pair \in Wanted
             PROVE  Translate(pair[1]) \in heap
  BY DEF HeapBacked
<1>2. PICK v \in VPages : /\ pair = <<v, Asked(v)>> /\ FirstPage <= v
                          /\ PageSize * v < call.vaddr + call.length
  BY <1>1, WantedIs
<1>3. Translate(v) = Asked(v)  BY <1>2 DEF MapInv, DoneInv
<1>4. PICK n \in Nat : call.length = n * PageSize /\ heap = Base .. Base + n - 1
  BY DEF MapInv, HeapInv
<1>5. /\ FirstPage \in Nat /\ Base \in Nat /\ v \in Nat /\ call.vaddr \in Nat
      /\ call.vaddr % PageSize = 0
  BY <1>1, CallFacts, VPagesNat DEF AlignedInv
<1>6. call.vaddr = PageSize * FirstPage
  <2>1. call.vaddr = PageSize * FirstPage + (call.vaddr % PageSize)
    BY <1>5, SizeFacts, Division DEF FirstPage
  <2>2. PageSize * FirstPage \in Nat  BY <1>5, SizeFacts
  <2> QED  BY <1>5, <2>1, <2>2
<1>7. call.vaddr + call.length = PageSize * (FirstPage + n)
  BY <1>4, <1>5, <1>6, SizeFacts
<1>8. v < FirstPage + n
  <2>1. FirstPage + n <= v => PageSize * (FirstPage + n) <= PageSize * v
    BY <1>4, <1>5, SizeFacts, Monotone
  <2>2. PageSize * (FirstPage + n) \in Nat /\ PageSize * v \in Nat  BY <1>4, <1>5, SizeFacts
  <2> QED  BY <1>2, <1>4, <1>5, <1>7, <2>1, <2>2
<1>9. Asked(v) \in Base .. Base + n - 1  BY <1>2, <1>4, <1>5, <1>8 DEF Asked
<1> QED  BY <1>2, <1>3, <1>4, <1>9

(* After a successful get_heap every page of the heap translates to a      *)
(* frame that was allocated for it, for heaps that begin at a page and end *)
(* below the last one.                                                     *)
THEOREM HeapsAreBacked ==
  ASSUME CallsBelowTop, HeapsAligned
  PROVE  Spec => []HeapBacked
<1>1. PagingInv /\ MapInv /\ InRange /\ AlignedInv => HeapBacked
  BY BackedHeap DEF PagingInv
<1> QED  BY <1>1, MapInvariant, AlwaysInRange, AlwaysAligned, PTL

(* A call that fails has no frame for a table, or meets a large page that  *)
(* has other frames.                                                       *)
LEMMA FailureReason ==
  ASSUME TablesInv, MapInv, InRange, map_page, result' = -1, result # -1
  PROVE  \/ free = {}
         \/ Translate(Page) # NotMapped /\ <<Page, Translate(Page)>> \notin Wanted
<1>1. PICK lev : TreeOf(lev) /\ WalkOf(lev)  BY DEF TablesInv, TreeInv
<1>2. MemoryInv /\ StateInv /\ OnWay /\ Walking
  BY DEF TablesInv, MapInv, map_page, Walking
<1>3. CASE AbovePt /\ ~ Covered /\ NoNextTable
  <2>1. ~ (Entry.present /\ Entry.large)
    <3>1. /\ at.table \in DOMAIN tables /\ Slot \in Slots /\ lev[at.table] = at.level
          /\ Entry = tables[at.table][Slot]
      BY <1>1, <1>2, WalkFacts, LocalsFacts
    <3>2. Entry.present /\ Entry.large => at.level = 2  BY <1>1, <3>1 DEF TreeOf
    <3> QED  BY <1>3, <3>2 DEF Covered
  <2>2. Memory!Refuse("frame_allocate", 1)  BY <1>3, <2>1 DEF NoNextTable
  <2>3. \A r \in regions : \A start \in r : ~ (start .. start + 1 - 1 \subseteq r \cap free)
    BY <2>2 DEF Memory!Refuse, Memory!Run
  <2>4. \A r \in regions : \A start \in r : start .. start + 1 - 1 = {start}
    BY <1>2 DEF MemoryInv
  <2>5. free = {}  BY <1>2, <2>3, <2>4 DEF MemoryInv
  <2> QED  BY <2>5
<1>4. CASE Covered /\ ~ SameFrame
  <2>1. Translate(Page) = InLargePage(Entry.frame, Page)
    BY <1>1, <1>2, <1>4, CoveredTranslation
  <2>2. InLargePage(Entry.frame, Page) \in Nat
    <3>1. Entry.frame \in Nat /\ Page \in Nat  BY <1>1, <1>2, WalkFacts, LocalsFacts
    <3>2. Entry.frame \div Entries \in Nat /\ Page % Entries \in Nat
      BY <3>1, SizeFacts, DivMod
    <3> QED  BY <3>2, SizeFacts DEF InLargePage
  <2>3. Translate(Page) # at.paddr \div PageSize  BY <1>4, <2>1 DEF SameFrame
  <2>4. at.paddr \div PageSize = Asked(Page)  BY <1>2, WalkingFacts
  <2>5. <<Page, Translate(Page)>> \notin Wanted  BY <1>2, <2>3, <2>4, WantedIs
  <2> QED  BY <2>1, <2>2, <2>5 DEF NotMapped
<1>5. CASE UNCHANGED result  BY <1>5
<1> QED  BY <1>3, <1>4, <1>5 DEF map_page, next_table

(* map_range returns -1 for the two reasons its comment gives and for no   *)
(* other, for calls that end below the last page.                          *)
THEOREM FailuresHaveAReason ==
  ASSUME CallsBelowTop
  PROVE  Spec => FailsForAReason
<1> DEFINE Reason == result' = -1 /\ result # -1 /\ pc = "map_page" =>
                       \/ free = {}
                       \/ Translate(Page) # NotMapped /\ <<Page, Translate(Page)>> \notin Wanted
<1>1. PagingInv /\ MapInv /\ InRange /\ [Next]_vars => [Reason]_vars
  <2> SUFFICES ASSUME PagingInv, MapInv, InRange, Next, result' = -1, result # -1,
                      pc = "map_page"
               PROVE  \/ free = {}
                      \/ Translate(Page) # NotMapped /\ <<Page, Translate(Page)>> \notin Wanted
    OBVIOUS
  <2>1. map_page
    BY DEF Next, Running, init_pml4, Loop, map_large_page, ReleaseHeap, map_range, get_heap,
           Halted
  <2> QED  BY <2>1, FailureReason DEF PagingInv
<1>2. Spec => [][Next]_vars  BY PTL DEF Spec
<1> QED  BY <1>1, <1>2, MapInvariant, AlwaysInRange, PTL DEF FailsForAReason

-----------------------------------------------------------------------------
(* The refinement.                                                         *)

Space == [v \in VPages |-> Translate(v)]
Busy  == pc \notin {"boot", "idle", "halt"}

LEMMA SpaceKept ==
  ASSUME KeepsSpace
  PROVE  Space' = Space
  BY DEF KeepsSpace, Space

LEMMA WantedKept ==
  ASSUME call' = call
  PROVE  Wanted' = Wanted
  BY DEF Wanted, FirstPage

(* A step of the tables that the address space does not see.               *)
LEMMA Unseen ==
  ASSUME KeepsSpace, UNCHANGED <<call, result>>, Busy' <=> Busy
  PROVE  UNCHANGED Abstract!vars
<1>1. Space' = Space /\ Wanted' = Wanted  BY SpaceKept, WantedKept
<1> QED  BY <1>1 DEF Abstract!vars, Space, Busy

LEMMA InitImplements ==
  ASSUME Init
  PROVE  Abstract!Init
<1>1. pml4 = NoFrame /\ pc = "boot" /\ call = NoCall /\ result = 0  BY DEF Init, Start
<1>2. \A v \in VPages : Translate(v) = NotMapped
  <2> SUFFICES ASSUME NEW v \in VPages PROVE Translate(v) = NotMapped  OBVIOUS
  <2>1. Pdp(v) = NoFrame /\ Pd(v) = NoFrame /\ Pt(v) = NoFrame
    BY <1>1 DEF Pdp, Pd, Pt, Below
  <2> QED  BY <2>1 DEF Translate, LeafOf, Empty
<1>3. Wanted = {}
  <2>1. call.vaddr + call.length = 0  BY <1>1 DEF NoCall
  <2>2. \A p \in VPages : ~ (p * PageSize < 0)  BY VPagesNat, SizeFacts
  <2> QED  BY <2>1, <2>2 DEF Wanted
<1> QED  BY <1>1, <1>2, <1>3 DEF Abstract!Init

(* A call may ask for anything.                                            *)
LEMMA WantedType ==
  ASSUME StateInv
  PROVE  Wanted \subseteq VPages \X Nat
<1>1. \A v \in VPages : FirstPage <= v => <<v, Asked(v)>> \in VPages \X Nat  BY WantedIs
<1> QED  BY <1>1, WantedIs

LEMMA NextWantedType == StateInv' => (Wanted \subseteq VPages \X Nat)'
<1>1. StateInv => Wanted \subseteq VPages \X Nat  BY WantedType
<1> QED  BY <1>1, PTL

LEMMA BeginImplements ==
  ASSUME KeepsSpace, StateInv', pc = "idle",
         (pc' = "map_range" /\ result' = 0) \/ (pc' = "idle" /\ result' = -1)
  PROVE  Abstract!Begin
<1>1. Wanted' \subseteq VPages \X Nat  BY NextWantedType
<1>2. Space' = Space  BY SpaceKept
<1> QED  BY <1>1, <1>2 DEF Abstract!Begin, Space

LEMMA InstallImplements ==
  ASSUME StateInv, Mapping, Mapping', Installs, UNCHANGED <<call, result>>
  PROVE  Abstract!Install
<1>1. Wanted' = Wanted  BY WantedKept
<1>2. \A v \in VPages : Translate(v)' = Translate(v) \/ <<v, Translate(v)'>> \in Wanted
  BY WantedIs DEF Installs
<1>3. \A v \in VPages : Space'[v] = Translate(v)' /\ Space[v] = Translate(v)  BY DEF Space
<1>4. /\ \A v \in VPages : Space'[v] = Space[v] \/ <<v, Space'[v]>> \in Wanted
      /\ Space' = [v \in VPages |-> Space'[v]]
  BY <1>2, <1>3 DEF Space
<1> QED  BY <1>1, <1>4 DEF Abstract!Install, Space, Mapping

LEMMA SucceedImplements ==
  ASSUME StateInv, MapInv', InRange, KeepsSpace, Mapping, result = 0, call.op # "none",
         pc' = "idle", UNCHANGED <<call, result>>
  PROVE  Abstract!Succeed
<1>1. Wanted' = Wanted /\ Space' = Space  BY WantedKept, SpaceKept
<1>2. \A v \in VPages : FirstPage <= v /\ PageSize * v < call.vaddr + call.length
                          => Translate(v) = Asked(v)
  BY AskedKept DEF MapInv, DoneInv, KeepsSpace
<1>3. \A pair \in Wanted : Space[pair[1]] = pair[2]
  <2> SUFFICES ASSUME NEW pair \in Wanted PROVE Space[pair[1]] = pair[2]  OBVIOUS
  <2>1. PICK v \in VPages : /\ pair = <<v, Asked(v)>> /\ FirstPage <= v
                            /\ PageSize * v < call.vaddr + call.length
    BY WantedIs
  <2> QED  BY <1>2, <2>1 DEF Space
<1> QED  BY <1>1, <1>3 DEF Abstract!Succeed, Space, Mapping

LEMMA FailImplements ==
  ASSUME KeepsSpace, Busy, result' = -1, UNCHANGED call
  PROVE  Abstract!Fail
<1>1. Wanted' = Wanted /\ Space' = Space  BY WantedKept, SpaceKept
<1> QED  BY <1>1 DEF Abstract!Fail, Space, Busy

LEMMA StepImplements ==
  ASSUME PagingInv, PagingInv', MapInv, InRange, [Next]_vars
  PROVE  [Abstract!Next]_(Abstract!vars)
<1>1. TablesInv /\ StateInv /\ StateInv'  BY DEF PagingInv, TablesInv
<1>2. CASE init_pml4
  <2>1. Busy' <=> Busy  BY <1>1, <1>2, InitPml4Maps DEF Busy
  <2> QED  BY <1>1, <1>2, <2>1, InitPml4Maps, Unseen
<1>3. CASE Loop
  <2>1. /\ MapInv' /\ KeepsSpace /\ UNCHANGED <<call, result>>
        /\ Mapping' \/ pc' = "idle"
    BY <1>1, <1>3, LoopMaps
  <2>2. Mapping /\ result = 0 /\ call.op # "none"  BY <1>3 DEF Loop, Mapping, MapInv, ResultInv
  <2>3. CASE Mapping'
    <3>1. Busy' <=> Busy  BY <2>2, <2>3 DEF Busy, Mapping
    <3> QED  BY <2>1, <3>1, Unseen
  <2>4. CASE pc' = "idle"
    <3>1. Abstract!Succeed  BY <1>1, <2>1, <2>2, <2>4, SucceedImplements
    <3> QED  BY <3>1 DEF Abstract!Next
  <2> QED  BY <2>1, <2>3, <2>4
<1>4. CASE map_large_page
  <2>1. Mapping  BY <1>4 DEF map_large_page, Mapping
  <2>2. Abstract!Install  BY <1>1, <1>4, <2>1, MapLargePageMaps, InstallImplements
  <2> QED  BY <2>2 DEF Abstract!Next
<1>5. CASE map_page
  <2>1. Mapping /\ Busy  BY <1>5 DEF map_page, Mapping, Busy
  <2>2. CASE Mapping' /\ Installs /\ UNCHANGED <<call, result>>
    <3>1. Abstract!Install  BY <1>1, <2>1, <2>2, InstallImplements
    <3> QED  BY <3>1 DEF Abstract!Next
  <2>3. CASE KeepsSpace /\ result' = -1 /\ UNCHANGED call
    <3>1. Abstract!Fail  BY <2>1, <2>3, FailImplements
    <3> QED  BY <3>1 DEF Abstract!Next
  <2> QED  BY <1>1, <1>5, <2>2, <2>3, MapPageMaps
<1>6. CASE ReleaseHeap
  <2>1. /\ KeepsSpace /\ Busy /\ UNCHANGED call /\ result' = -1
    BY <1>1, <1>6, ReleaseHeapMaps DEF Busy
  <2>2. Abstract!Fail  BY <2>1, FailImplements
  <2> QED  BY <2>2 DEF Abstract!Next
<1>7. CASE \E c \in Ranges : map_range(c)
  <2>1. KeepsSpace /\ pc = "idle" /\ pc' = "map_range" /\ result' = 0
    BY <1>7, MapRangeMaps, RangeArguments
  <2>2. Abstract!Begin  BY <1>1, <2>1, BeginImplements
  <2> QED  BY <2>2 DEF Abstract!Next
<1>8. CASE \E c \in Heaps : get_heap(c)
  <2>1. /\ KeepsSpace /\ pc = "idle"
        /\ \/ pc' = "map_range" /\ result' = 0
           \/ pc' = "idle" /\ result' = -1
    BY <1>1, <1>8, GetHeapMaps, HeapsAssumption
  <2>2. Abstract!Begin  BY <1>1, <2>1, BeginImplements
  <2> QED  BY <2>2 DEF Abstract!Next
<1>9. CASE Halted \/ UNCHANGED vars
  <2>1. UNCHANGED vars  BY <1>9 DEF Halted
  <2>2. KeepsSpace  BY <2>1, StutterMaps DEF vars
  <2>3. UNCHANGED <<call, result>> /\ (Busy' <=> Busy)  BY <2>1 DEF vars, Busy
  <2> QED  BY <2>2, <2>3, Unseen
<1> QED  BY <1>2, <1>3, <1>4, <1>5, <1>6, <1>7, <1>8, <1>9 DEF Next, Running

(* Four levels of tables, large pages and the order in which entries are   *)
(* written implement an address space: only pages of the range change, to  *)
(* the frames that were asked for, and a call that returns 0 has mapped    *)
(* its whole range, for calls that end below the last page.                *)
THEOREM PagingImplementsAddressSpace ==
  ASSUME CallsBelowTop
  PROVE  Spec => ImplementsAddressSpace
<1>1. Init => Abstract!Init  BY InitImplements
<1>2. /\ PagingInv /\ MapInv /\ InRange /\ (PagingInv /\ MapInv)' /\ [Next]_vars
      => [Abstract!Next]_(Abstract!vars)
  BY StepImplements
<1>3. Spec => Init /\ [][Next]_vars  BY PTL DEF Spec
<1>4. Spec => [](PagingInv /\ MapInv) /\ []InRange  BY MapInvariant, AlwaysInRange, PTL
<1> QED  BY <1>1, <1>2, <1>3, <1>4, PTL DEF ImplementsAddressSpace, Abstract!Spec
=============================================================================
