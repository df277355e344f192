---------------------------- MODULE Paging_proofs ----------------------------
(***************************************************************************)
(* Theorems about Paging, for tables and pages of any size, any memory and *)
(* any calls.  The tables form a tree of four levels: the proofs give each *)
(* table its level, and show that every step keeps the tree.               *)
(***************************************************************************)
EXTENDS Paging, FunctionTheorems, FiniteSetTheorems, TLAPS

-----------------------------------------------------------------------------
(* Arithmetic of addresses.                                                *)

LEMMA SizeFacts ==
  /\ Entries \in Nat /\ Entries > 0 /\ PageSize \in Nat /\ PageSize > 0
  /\ LargePage \in Nat /\ LargePage > 0 /\ Wrap \in Nat /\ Wrap > 0
  /\ 0 \in Slots
<1>1. Entries \in Nat /\ Entries > 0 /\ PageSize \in Nat /\ PageSize > 0  BY SizeAssumption
<1>2. \A a, b \in Nat : a > 0 /\ b > 0 => a * b \in Nat /\ a * b > 0  OBVIOUS
<1>3. LargePage \in Nat /\ LargePage > 0  BY <1>1, <1>2 DEF LargePage
<1>4. Wrap \in Nat /\ Wrap > 0
  <2>1. PageSize * Entries \in Nat /\ PageSize * Entries > 0  BY <1>1, <1>2
  <2>2. PageSize * Entries * Entries \in Nat /\ PageSize * Entries * Entries > 0
    BY <1>1, <1>2, <2>1
  <2>3. PageSize * Entries * Entries * Entries \in Nat /\ PageSize * Entries * Entries * Entries > 0
    BY <1>1, <1>2, <2>2
  <2> QED  BY <1>1, <1>2, <2>3 DEF Wrap
<1> QED  BY <1>1, <1>3, <1>4 DEF Slots

LEMMA PhysicalFacts ==
  PhysicalWrap \in Nat /\ PhysicalWrap > 0 /\ PhysicalWrap >= 2 * Wrap
  BY SizeFacts, SizeAssumption

LEMMA DivMod ==
  ASSUME NEW a \in Nat, NEW n \in Nat, n > 0
  PROVE  a \div n \in Nat /\ a % n \in 0 .. n - 1 /\ a % n <= a
  OBVIOUS

(* An index is a slot, at every level.                                     *)
LEMMA IndexInSlots ==
  ASSUME NEW v \in Nat, NEW level \in 1 .. 4
  PROVE  Index(v, level) \in Slots
<1>1. Entries \in Nat /\ Entries > 0  BY SizeFacts
<1>2. /\ v \div Entries \in Nat /\ (v \div Entries) \div Entries \in Nat
      /\ ((v \div Entries) \div Entries) \div Entries \in Nat
  BY <1>1, DivMod
<1>3. level = 1 \/ level = 2 \/ level = 3 \/ level = 4  OBVIOUS
<1>4. /\ v % Entries \in Slots /\ (v \div Entries) % Entries \in Slots
      /\ ((v \div Entries) \div Entries) % Entries \in Slots
      /\ (((v \div Entries) \div Entries) \div Entries) % Entries \in Slots
  BY <1>1, <1>2, DivMod DEF Slots
<1> QED  BY <1>3, <1>4 DEF Index

-----------------------------------------------------------------------------
(* What the allocator's steps do.                                          *)

LEMMA TakeFacts ==
  ASSUME NEW op, NEW count \in Nat, NEW first, Take(op, count, first)
  PROVE  /\ count > 0 /\ regions' = regions
         /\ \E r \in regions : first \in r /\ first .. first + count - 1 \subseteq r \cap free
         /\ free' = free \ (first .. first + count - 1)
         /\ held' = held \cup (first .. first + count - 1)
<1>1. Memory!Grant(op, count) /\ last'.result = first  BY DEF Take
<1>2. PICK r \in regions : \E start \in r :
        /\ count > 0
        /\ start .. start + count - 1 \subseteq r \cap free
        /\ free' = free \ (start .. start + count - 1)
        /\ held' = held \cup (start .. start + count - 1)
        /\ last' = [op |-> op, arg |-> count, result |-> start]
        /\ UNCHANGED regions
  BY <1>1 DEF Memory!Grant, Memory!Run
<1>3. PICK start \in r :
        /\ count > 0
        /\ start .. start + count - 1 \subseteq r \cap free
        /\ free' = free \ (start .. start + count - 1)
        /\ held' = held \cup (start .. start + count - 1)
        /\ last' = [op |-> op, arg |-> count, result |-> start]
        /\ UNCHANGED regions
  BY <1>2
<1>4. start = first  BY <1>1, <1>3
<1> QED  BY <1>3, <1>4

(* One frame.                                                              *)
LEMMA TakeOneFacts ==
  ASSUME NEW op, NEW first \in Nat, Take(op, 1, first)
  PROVE  /\ first \in free /\ regions' = regions
         /\ free' = free \ {first} /\ held' = held \cup {first}
<1>1. first .. first + 1 - 1 = {first}  OBVIOUS
<1> QED  BY <1>1, TakeFacts

(* A refusal changes nothing but the record of the last call.              *)
LEMMA RefuseFacts ==
  ASSUME NEW op, NEW count, Memory!Refuse(op, count)
  PROVE  UNCHANGED <<regions, free, held>>
  BY DEF Memory!Refuse

-----------------------------------------------------------------------------
(* The inductive invariant.                                                *)

(* The frames of the tables and of the heap are held, and nothing is held  *)
(* and free.                                                               *)
MemoryInv ==
  /\ UNION regions \subseteq Nat
  /\ free \subseteq UNION regions /\ held \subseteq UNION regions /\ free \cap held = {}
  /\ DOMAIN tables \subseteq held \ heap /\ heap \subseteq held

(* PagingTypeOK, without what it says of the memory.                       *)
Locals(known) == [vaddr: 0 .. Wrap - 1, paddr: Nat, end: 0 .. Wrap - 1, level: 1 .. 4,
                  table: known \cup {NoFrame}]

StateInv ==
  /\ pml4 \in Nat \cup {NoFrame}
  /\ pml4 = NoFrame <=> pc \in {"boot", "halt"}
  /\ IF pml4 = NoFrame THEN DOMAIN tables = {} ELSE pml4 \in DOMAIN tables
  /\ \A t \in DOMAIN tables : tables[t] \in [Slots -> entry]
  /\ pc \in {"boot", "idle", "map_range", "map_large_page", "map_page", "release", "halt"}
  /\ call \in [op: {"none", "map_range", "get_heap"}, vaddr: 0 .. Wrap - 1, paddr: Nat,
               length: Nat, flags: SUBSET flag]
  /\ at \in Locals(DOMAIN tables)
  /\ result \in {0, -1}

(* A link: an entry above the lowest level that points to the table next.  *)
IsLink(lev, t, i, next) == /\ t \in DOMAIN tables /\ i \in Slots /\ lev[t] > 1
                           /\ PointsToTable(t, i) /\ tables[t][i].frame = next

(* The tables are a tree: each table but the top has one link to it, from  *)
(* the level above, and large pages are entries of the second level.       *)
TreeOf(lev) ==
  /\ lev \in [DOMAIN tables -> 1 .. 4]
  /\ \A t \in DOMAIN tables : lev[t] = 4 <=> t = pml4
  /\ \A t, i, n : IsLink(lev, t, i, n) => n \in DOMAIN tables /\ lev[n] = lev[t] - 1
  /\ \A t \in DOMAIN tables \ {pml4} : \E p, i : IsLink(lev, p, i, t)
  /\ \A p, q, i, j, n : IsLink(lev, p, i, n) /\ IsLink(lev, q, j, n) => p = q /\ i = j
  /\ \A t \in DOMAIN tables, i \in Slots :
        tables[t][i].present /\ tables[t][i].large => lev[t] = 2

(* Links are writable, and for the user if anything below them is.         *)
FlagsOf(lev) ==
  \A p, i, n : IsLink(lev, p, i, n) =>
     /\ "READ_WRITE" \in tables[p][i].flags
     /\ \A j \in Slots : tables[n][j].present /\ "USER" \in tables[n][j].flags
                           => "USER" \in tables[p][i].flags

(* A walk is at a table of its level, and has made the way to it usable    *)
(* for the user if that was asked for.                                     *)
Walking == pc \in {"map_large_page", "map_page"}

WalkOf(lev) ==
  Walking => /\ at.table \in DOMAIN tables /\ lev[at.table] = at.level
             /\ "USER" \in call.flags =>
                  \A p, i : IsLink(lev, p, i, at.table) => "USER" \in tables[p][i].flags

TreeInv == \E lev : TreeOf(lev) /\ FlagsOf(lev) /\ WalkOf(lev)

TablesInv == MemoryInv /\ StateInv /\ TreeInv

(* A walk is at an entry of a table.                                       *)
LEMMA LocalsFacts ==
  ASSUME StateInv
  PROVE  /\ at.vaddr \in 0 .. Wrap - 1 /\ at.vaddr \in Nat /\ at.paddr \in Nat
         /\ at.end \in 0 .. Wrap - 1 /\ at.level \in 1 .. 4
         /\ at.table \in DOMAIN tables \cup {NoFrame}
         /\ Page \in Nat /\ Slot \in Slots
<1>1. /\ at.vaddr \in 0 .. Wrap - 1 /\ at.paddr \in Nat
      /\ at.end \in 0 .. Wrap - 1 /\ at.level \in 1 .. 4
      /\ at.table \in DOMAIN tables \cup {NoFrame}
  BY DEF StateInv, Locals
<1>2. at.vaddr \in Nat  BY <1>1, SizeFacts
<1>3. Page \in Nat  BY <1>2, SizeFacts, DivMod DEF Page
<1> QED  BY <1>1, <1>2, <1>3, IndexInSlots DEF Slot

LEMMA WalkFacts ==
  ASSUME NEW lev, TreeOf(lev), WalkOf(lev), StateInv, Walking
  PROVE  /\ at.table \in DOMAIN tables /\ lev[at.table] = at.level /\ pml4 \in DOMAIN tables
         /\ Entry \in entry /\ Entry = tables[at.table][Slot]
         /\ Entry.present \in BOOLEAN /\ Entry.large \in BOOLEAN /\ Entry.frame \in Nat
<1>1. at.table \in DOMAIN tables /\ lev[at.table] = at.level  BY DEF WalkOf
<1>2. pml4 \in DOMAIN tables  BY DEF StateInv, Walking
<1>3. Entry \in entry /\ Entry = tables[at.table][Slot]
  BY <1>1, LocalsFacts DEF StateInv, Entry
<1> QED  BY <1>1, <1>2, <1>3 DEF entry

-----------------------------------------------------------------------------
(* Writing an entry.                                                       *)

(* tables' has the value e at slot s of t, and is tables elsewhere.        *)
Writes(t, s, e) ==
  /\ t \in DOMAIN tables /\ s \in Slots
  /\ DOMAIN tables' = DOMAIN tables
  /\ \A u \in DOMAIN tables, i \in Slots :
        tables'[u][i] = IF u = t /\ i = s THEN e ELSE tables[u][i]

LEMMA SetWrites ==
  ASSUME StateInv, Walking, at.table \in DOMAIN tables, NEW e \in entry, tables' = Set(e)
  PROVE  /\ Writes(at.table, Slot, e)
         /\ \A t \in DOMAIN tables' : tables'[t] \in [Slots -> entry]
<1>2. Slot \in Slots  BY LocalsFacts
<1>3. \A t \in DOMAIN tables : tables[t] \in [Slots -> entry]  BY DEF StateInv
<1>4. DOMAIN tables' = DOMAIN tables  BY DEF Set
<1>5. \A t \in DOMAIN tables :
        tables'[t] = IF t = at.table THEN [tables[t] EXCEPT ![Slot] = e] ELSE tables[t]
  BY DEF Set
<1>6. \A t \in DOMAIN tables : tables'[t] \in [Slots -> entry]
  BY <1>2, <1>3, <1>5
<1>7. \A t \in DOMAIN tables, i \in Slots :
        tables'[t][i] = IF t = at.table /\ i = Slot THEN e ELSE tables[t][i]
  BY <1>2, <1>3, <1>5
<1> QED  BY <1>2, <1>4, <1>6, <1>7 DEF Writes

(* A write that does not change where links point keeps the tree.          *)
LEMMA TreeWrite ==
  ASSUME NEW CONSTANT lev, TreeOf(lev), pml4' = pml4,
         NEW t, NEW s, NEW e, Writes(t, s, e),
         lev[t] > 1 => (PointsToTable(t, s) <=> e.present /\ ~ e.large),
         lev[t] > 1 /\ PointsToTable(t, s) => e.frame = tables[t][s].frame,
         e.present /\ e.large => lev[t] = 2
  PROVE  /\ TreeOf(lev)'
         /\ \A p, i, n : IsLink(lev, p, i, n)' <=> IsLink(lev, p, i, n)
<1>1. \A p, i, n : IsLink(lev, p, i, n)' <=> IsLink(lev, p, i, n)
  BY DEF Writes, IsLink, PointsToTable
<1>2. lev \in [DOMAIN tables' -> 1 .. 4]  BY DEF TreeOf, Writes
<1>3. \A u \in DOMAIN tables' : lev[u] = 4 <=> u = pml4'  BY DEF TreeOf, Writes
<1>4. \A u, i, n : IsLink(lev, u, i, n)' => n \in DOMAIN tables' /\ lev[n] = lev[u] - 1
  BY <1>1 DEF TreeOf, Writes
<1>5. \A u \in DOMAIN tables' \ {pml4'} : \E p, i : IsLink(lev, p, i, u)'
  BY <1>1 DEF TreeOf, Writes
<1>6. \A p, q, i, j, n : IsLink(lev, p, i, n)' /\ IsLink(lev, q, j, n)' => p = q /\ i = j
  BY <1>1 DEF TreeOf
<1>7. \A u \in DOMAIN tables', i \in Slots :
        tables'[u][i].present /\ tables'[u][i].large => lev[u] = 2
  BY DEF TreeOf, Writes
<1> QED  BY <1>1, <1>2, <1>3, <1>4, <1>5, <1>6, <1>7 DEF TreeOf

(* A new table below an entry that was empty extends the tree.             *)
Extended(lev, t, next) ==
  [u \in DOMAIN tables \cup {next} |-> IF u = next THEN lev[t] - 1 ELSE lev[u]]

LEMMA TreeCreate ==
  ASSUME NEW CONSTANT lev, TreeOf(lev), pml4' = pml4, pml4 \in DOMAIN tables,
         NEW t \in DOMAIN tables, lev[t] > 1, NEW s \in Slots, ~ tables[t][s].present,
         NEW next, next \notin DOMAIN tables, NEW e, e.present, ~ e.large, e.frame = next,
         NEW CONSTANT lev2, lev2 = Extended(lev, t, next),
         DOMAIN tables' = DOMAIN tables \cup {next},
         \A i \in Slots : tables'[next][i] = Empty,
         \A u \in DOMAIN tables, i \in Slots :
            tables'[u][i] = IF u = t /\ i = s THEN e ELSE tables[u][i]
  PROVE  /\ TreeOf(lev2)'
         /\ \A p, i, n : IsLink(lev2, p, i, n)' <=>
              \/ IsLink(lev, p, i, n)
              \/ p = t /\ i = s /\ n = next
<1>1. /\ lev \in [DOMAIN tables -> 1 .. 4]
      /\ \A u \in DOMAIN tables : lev[u] = 4 <=> u = pml4
      /\ \A u, i, n : IsLink(lev, u, i, n) => n \in DOMAIN tables /\ lev[n] = lev[u] - 1
      /\ \A u \in DOMAIN tables \ {pml4} : \E p, i : IsLink(lev, p, i, u)
      /\ \A p, q, i, j, n : IsLink(lev, p, i, n) /\ IsLink(lev, q, j, n) => p = q /\ i = j
      /\ \A u \in DOMAIN tables, i \in Slots :
            tables[u][i].present /\ tables[u][i].large => lev[u] = 2
  BY DEF TreeOf
<1>2. /\ lev2 \in [DOMAIN tables' -> 1 .. 4] /\ lev2[next] = lev[t] - 1
      /\ \A u \in DOMAIN tables : lev2[u] = lev[u]
  BY <1>1 DEF Extended
<1>3. ~ Empty.present  BY DEF Empty
<1>4. \A p, i, n : IsLink(lev2, p, i, n)' <=> \/ IsLink(lev, p, i, n)
                                              \/ p = t /\ i = s /\ n = next
  <2> SUFFICES ASSUME NEW p, NEW i, NEW n
               PROVE  IsLink(lev2, p, i, n)' <=> \/ IsLink(lev, p, i, n)
                                                 \/ p = t /\ i = s /\ n = next
    OBVIOUS
  <2>1. CASE p = next  BY <2>1, <1>2, <1>3 DEF IsLink, PointsToTable
  <2>2. CASE p # next  BY <2>2, <1>2 DEF IsLink, PointsToTable
  <2> QED  BY <2>1, <2>2
<1>5. \A u \in DOMAIN tables' : lev2[u] = 4 <=> u = pml4'  BY <1>1, <1>2
<1>6. \A u, i, n : IsLink(lev2, u, i, n)' => n \in DOMAIN tables' /\ lev2[n] = lev2[u] - 1
  <2> SUFFICES ASSUME NEW u, NEW i, NEW n, IsLink(lev2, u, i, n)'
               PROVE  n \in DOMAIN tables' /\ lev2[n] = lev2[u] - 1
    OBVIOUS
  <2>1. CASE IsLink(lev, u, i, n)
    <3>1. u \in DOMAIN tables  BY <2>1 DEF IsLink
    <3> QED  BY <2>1, <3>1, <1>1, <1>2
  <2>2. CASE u = t /\ i = s /\ n = next  BY <2>2, <1>2
  <2> QED  BY <2>1, <2>2, <1>4
<1>7. \A u \in DOMAIN tables' \ {pml4'} : \E p, i : IsLink(lev2, p, i, u)'
  BY <1>1, <1>4
<1>8. \A p, q, i, j, n : IsLink(lev2, p, i, n)' /\ IsLink(lev2, q, j, n)' => p = q /\ i = j
  <2>1. \A p, i : ~ IsLink(lev, p, i, next)  BY <1>1
  <2> QED  BY <2>1, <1>1, <1>4
<1>9. \A u \in DOMAIN tables', i \in Slots :
        tables'[u][i].present /\ tables'[u][i].large => lev2[u] = 2
  BY <1>1, <1>2, <1>3
<1> QED  BY <1>2, <1>4, <1>5, <1>6, <1>7, <1>8, <1>9 DEF TreeOf

(* Steps that leave the tables alone keep the tree.                        *)
LEMMA TreeUnchanged ==
  ASSUME NEW CONSTANT lev, TreeOf(lev), FlagsOf(lev), UNCHANGED <<pml4, tables>>
  PROVE  /\ TreeOf(lev)' /\ FlagsOf(lev)'
         /\ \A p, i, n : IsLink(lev, p, i, n)' <=> IsLink(lev, p, i, n)
<1>1. \A p, i, n : IsLink(lev, p, i, n)' <=> IsLink(lev, p, i, n)
  BY DEF IsLink, PointsToTable
<1> QED  BY <1>1 DEF TreeOf, FlagsOf

(* A walk begins at the top, to which no entry points.                     *)
LEMMA WalkFromTop ==
  ASSUME NEW CONSTANT lev, TreeOf(lev), pml4 \in DOMAIN tables
  PROVE  lev[pml4] = 4 /\ \A p, i : ~ IsLink(lev, p, i, pml4)
<1>1. lev[pml4] = 4  BY DEF TreeOf
<1>2. \A p, i : IsLink(lev, p, i, pml4) => lev[p] \in 1 .. 4 /\ lev[pml4] = lev[p] - 1
  BY DEF TreeOf, IsLink
<1> QED  BY <1>1, <1>2

(* The step of a walk down an entry that points to a table.                *)
LEMMA FollowStep ==
  ASSUME TablesInv, Walking, at.level > 1, NEW next, Follow(next),
         at' = [at EXCEPT !.level = @ - 1, !.table = next],
         UNCHANGED <<pml4, pc, call, heap, result>>
  PROVE  TablesInv'
<1> DEFINE e == [Entry EXCEPT !.flags = @ \cup (call.flags \cap {"USER"})]
           T == at.table
<1>1. PICK lev : TreeOf(lev) /\ FlagsOf(lev) /\ WalkOf(lev)  BY DEF TablesInv, TreeInv
<1>2. MemoryInv /\ StateInv  BY DEF TablesInv
<1>3. /\ T \in DOMAIN tables /\ lev[T] = at.level
      /\ Entry \in entry /\ Entry = tables[T][Slot]
  BY <1>1, <1>2, WalkFacts
<1>4. Slot \in Slots /\ at.level \in 1 .. 4 /\ at.level - 1 \in 1 .. 4  BY <1>2, LocalsFacts
<1>5. /\ Entry.present /\ ~ Entry.large /\ next = Entry.frame /\ tables' = Set(e)
      /\ UNCHANGED allocator
  BY DEF Follow
<1>6. /\ e \in entry /\ e.present = Entry.present /\ e.large = Entry.large
      /\ e.frame = Entry.frame /\ e.flags = Entry.flags \cup (call.flags \cap {"USER"})
  BY <1>3 DEF entry, flag
<1>7. IsLink(lev, T, Slot, next)  BY <1>3, <1>4, <1>5 DEF IsLink, PointsToTable
<1> HIDE DEF e
<1>8. Writes(T, Slot, e) /\ \A t \in DOMAIN tables' : tables'[t] \in [Slots -> entry]
  BY <1>2, <1>3, <1>5, <1>6, SetWrites
<1>9. /\ TreeOf(lev)'
      /\ \A p, i, n : IsLink(lev, p, i, n)' <=> IsLink(lev, p, i, n)
  <2>1. PointsToTable(T, Slot) /\ e.present /\ ~ e.large /\ e.frame = tables[T][Slot].frame
    BY <1>3, <1>5, <1>6, <1>7 DEF IsLink
  <2> QED  BY <1>1, <1>8, <2>1, TreeWrite
<1>10. next \in DOMAIN tables /\ lev[next] = at.level - 1  BY <1>1, <1>3, <1>7 DEF TreeOf
<1>11. next # T  BY <1>3, <1>4, <1>10
<1>12. /\ at' \in Locals(DOMAIN tables') /\ at'.level = at.level - 1 /\ at'.table = next
  <2>1. at \in Locals(DOMAIN tables) /\ DOMAIN tables' = DOMAIN tables
    BY <1>2, <1>8 DEF StateInv, Writes
  <2>2. at' = [at EXCEPT !.level = at.level - 1, !.table = next]  OBVIOUS
  <2>3. next \in DOMAIN tables'  BY <1>10, <2>1
  <2> QED  BY <1>4, <2>1, <2>2, <2>3 DEF Locals
<1>13. FlagsOf(lev)'
  <2> SUFFICES ASSUME NEW p, NEW i, NEW n, IsLink(lev, p, i, n)'
               PROVE  /\ "READ_WRITE" \in tables'[p][i].flags
                      /\ \A j \in Slots : tables'[n][j].present /\ "USER" \in tables'[n][j].flags
                                            => "USER" \in tables'[p][i].flags
    BY DEF FlagsOf
  <2>1. IsLink(lev, p, i, n)  BY <1>9
  <2>2. p \in DOMAIN tables /\ i \in Slots /\ n \in DOMAIN tables
    BY <1>1, <2>1 DEF TreeOf, IsLink
  <2>3. "READ_WRITE" \in tables[p][i].flags
        /\ \A j \in Slots : tables[n][j].present /\ "USER" \in tables[n][j].flags
                              => "USER" \in tables[p][i].flags
    BY <1>1, <2>1 DEF FlagsOf
  <2>4. tables[p][i].flags \subseteq tables'[p][i].flags
    BY <1>3, <1>6, <1>8, <2>2 DEF Writes
  <2>5. CASE n # T  BY <2>2, <2>3, <2>4, <2>5, <1>8 DEF Writes
  <2>6. CASE n = T
    <3>1. "USER" \in call.flags => "USER" \in tables[p][i].flags
      BY <1>1, <2>1, <2>6 DEF WalkOf
    <3>2. \A j \in Slots : tables'[n][j].present /\ "USER" \in tables'[n][j].flags
                             => "USER" \in tables[p][i].flags
      BY <1>3, <1>4, <1>6, <1>8, <2>3, <2>6, <3>1 DEF Writes
    <3> QED  BY <2>3, <2>4, <3>2
  <2> QED  BY <2>5, <2>6
<1>14. WalkOf(lev)'
  <2>1. \A p, i : IsLink(lev, p, i, next)' => p = T /\ i = Slot
    BY <1>1, <1>7, <1>9 DEF TreeOf
  <2>2. "USER" \in call.flags => "USER" \in tables'[T][Slot].flags
    BY <1>3, <1>4, <1>6, <1>8 DEF Writes
  <2> QED  BY <1>8, <1>10, <1>12, <2>1, <2>2 DEF WalkOf, Writes
<1>15. TreeInv'  BY <1>9, <1>13, <1>14 DEF TreeInv
<1>16. MemoryInv'  BY <1>2, <1>5, <1>8 DEF MemoryInv, allocator, Writes
<1>17. StateInv'  BY <1>2, <1>8, <1>12 DEF StateInv, Writes
<1> QED  BY <1>15, <1>16, <1>17 DEF TablesInv

(* A leaf, a large page at the second level or a page at the lowest, is    *)
(* written into an entry that points to no table.                          *)
LEMMA LeafStep ==
  ASSUME TablesInv, Walking, NEW frame \in Nat, NEW large \in BOOLEAN,
         IF large THEN at.level = 2 /\ ~ HoldsTable ELSE at.level = 1,
         tables' = Set(Leaf(frame, call.flags, large)),
         pc' = "map_range", at' \in Locals(DOMAIN tables),
         UNCHANGED <<allocator, pml4, call, heap, result>>
  PROVE  TablesInv'
<1> DEFINE e == Leaf(frame, call.flags, large)
           T == at.table
<1>1. PICK lev : TreeOf(lev) /\ FlagsOf(lev) /\ WalkOf(lev)  BY DEF TablesInv, TreeInv
<1>2. MemoryInv /\ StateInv  BY DEF TablesInv
<1>3. /\ T \in DOMAIN tables /\ lev[T] = at.level
      /\ Entry \in entry /\ Entry = tables[T][Slot]
  BY <1>1, <1>2, WalkFacts
<1>4. Slot \in Slots  BY <1>2, LocalsFacts
<1>5. e \in entry /\ e.present /\ e.large = large /\ e.flags = call.flags
  BY <1>2 DEF Leaf, StateInv, entry
<1> HIDE DEF e
<1>6. Writes(T, Slot, e) /\ \A t \in DOMAIN tables' : tables'[t] \in [Slots -> entry]
  BY <1>2, <1>3, <1>5, SetWrites DEF e
<1>7. ~ PointsToTable(T, Slot) \/ lev[T] = 1  BY <1>3 DEF HoldsTable, PointsToTable
<1>8. /\ TreeOf(lev)'
      /\ \A p, i, n : IsLink(lev, p, i, n)' <=> IsLink(lev, p, i, n)
  <2>1. /\ lev[T] > 1 => (PointsToTable(T, Slot) <=> e.present /\ ~ e.large)
        /\ lev[T] > 1 /\ PointsToTable(T, Slot) => e.frame = tables[T][Slot].frame
        /\ e.present /\ e.large => lev[T] = 2
    BY <1>3, <1>5, <1>7
  <2> QED  BY <1>1, <1>6, <2>1, TreeWrite
<1>9. FlagsOf(lev)'
  <2> SUFFICES ASSUME NEW p, NEW i, NEW n, IsLink(lev, p, i, n)'
               PROVE  /\ "READ_WRITE" \in tables'[p][i].flags
                      /\ \A j \in Slots : tables'[n][j].present /\ "USER" \in tables'[n][j].flags
                                            => "USER" \in tables'[p][i].flags
    BY DEF FlagsOf
  <2>1. IsLink(lev, p, i, n)  BY <1>8
  <2>2. p \in DOMAIN tables /\ i \in Slots /\ n \in DOMAIN tables /\ ~ (p = T /\ i = Slot)
    BY <1>1, <1>7, <2>1 DEF TreeOf, IsLink
  <2>3. "READ_WRITE" \in tables[p][i].flags
        /\ \A j \in Slots : tables[n][j].present /\ "USER" \in tables[n][j].flags
                              => "USER" \in tables[p][i].flags
    BY <1>1, <2>1 DEF FlagsOf
  <2>4. tables'[p][i] = tables[p][i]  BY <1>6, <2>2 DEF Writes
  <2>5. n = T /\ "USER" \in call.flags => "USER" \in tables[p][i].flags
    BY <1>1, <2>1 DEF WalkOf
  <2>6. \A j \in Slots : \/ tables'[n][j] = tables[n][j]
                         \/ n = T /\ tables'[n][j].flags = call.flags
    BY <1>5, <1>6, <2>2 DEF Writes
  <2> QED  BY <2>3, <2>4, <2>5, <2>6
<1>10. TreeInv'  BY <1>8, <1>9 DEF TreeInv, WalkOf, Walking
<1>11. MemoryInv'  BY <1>2, <1>6 DEF MemoryInv, allocator, Writes
<1>12. StateInv'
  <2>1. pml4 # NoFrame  BY <1>2 DEF StateInv, Walking
  <2> QED  BY <1>2, <1>6, <2>1 DEF StateInv, Writes
<1> QED  BY <1>10, <1>11, <1>12 DEF TablesInv

(* A walk creates the table it needs, in a frame that was free.            *)
LEMMA CreateFacts ==
  ASSUME NEW lev, TreeOf(lev), WalkOf(lev), MemoryInv, StateInv, Walking, NEW next, Create(next)
  PROVE  /\ next \in Nat /\ next \in free /\ regions' = regions
         /\ free' = free \ {next} /\ held' = held \cup {next}
         /\ next \notin DOMAIN tables /\ next \notin heap
         /\ Link(next).present /\ ~ Link(next).large /\ Link(next).frame = next
         /\ Link(next).flags = {"READ_WRITE"} \cup (call.flags \cap {"USER"})
         /\ DOMAIN tables' = DOMAIN tables \cup {next}
         /\ \A i \in Slots : tables'[next][i] = Empty
         /\ \A t \in DOMAIN tables' : tables'[t] \in [Slots -> entry]
         /\ \A u \in DOMAIN tables, i \in Slots :
              tables'[u][i] = IF u = at.table /\ i = Slot THEN Link(next) ELSE tables[u][i]
<1> DEFINE e == Link(next)
           T == at.table
<1>1. T \in DOMAIN tables /\ Slot \in Slots  BY LocalsFacts, WalkFacts
<1>2. /\ next \in Nat /\ next \in free /\ regions' = regions
      /\ free' = free \ {next} /\ held' = held \cup {next}
  <2>1. Take("frame_allocate", 1, next)  BY DEF Create
  <2>2. \E r \in regions : next \in r  BY <2>1, TakeFacts
  <2>3. next \in Nat  BY <2>2 DEF MemoryInv
  <2> QED  BY <2>1, <2>3, TakeOneFacts
<1>3. next \notin DOMAIN tables /\ next \notin heap  BY <1>2 DEF MemoryInv
<1>4. /\ e \in entry /\ e.present /\ ~ e.large /\ e.frame = next
      /\ e.flags = {"READ_WRITE"} \cup (call.flags \cap {"USER"})
  BY <1>2 DEF Link, Leaf, entry, flag
<1> HIDE DEF e
<1>5. tables' = [t \in DOMAIN tables \cup {next} |->
                   IF t = next THEN ZeroedTable ELSE Set(e)[t]]
  BY DEF Create, e
<1>6. \A t \in DOMAIN tables : tables[t] \in [Slots -> entry]  BY DEF StateInv
<1>7. \A t \in DOMAIN tables :
         Set(e)[t] = IF t = T THEN [tables[t] EXCEPT ![Slot] = e] ELSE tables[t]
  BY DEF Set
<1>8. DOMAIN tables' = DOMAIN tables \cup {next} /\ tables'[next] = ZeroedTable  BY <1>5
<1>9. \A t \in DOMAIN tables :
         tables'[t] = IF t = T THEN [tables[t] EXCEPT ![Slot] = e] ELSE tables[t]
  BY <1>3, <1>5, <1>7
<1>10. ZeroedTable \in [Slots -> entry] /\ \A i \in Slots : tables'[next][i] = Empty
  <2>1. Empty \in entry  BY DEF Empty, entry
  <2> QED  BY <1>8, <2>1 DEF ZeroedTable
<1>11. \A t \in DOMAIN tables' : tables'[t] \in [Slots -> entry]
  <2> SUFFICES ASSUME NEW t \in DOMAIN tables' PROVE tables'[t] \in [Slots -> entry]
    OBVIOUS
  <2>1. CASE t = next  BY <2>1, <1>8, <1>10
  <2>2. CASE t # next
    <3>1. t \in DOMAIN tables /\ tables[t] \in [Slots -> entry]  BY <2>2, <1>6, <1>8
    <3>2. [tables[t] EXCEPT ![Slot] = e] \in [Slots -> entry]  BY <3>1, <1>1, <1>4
    <3> QED  BY <3>1, <3>2, <1>9
  <2> QED  BY <2>1, <2>2
<1>12. \A u \in DOMAIN tables, i \in Slots :
         tables'[u][i] = IF u = T /\ i = Slot THEN e ELSE tables[u][i]
  BY <1>1, <1>6, <1>9
<1> QED  BY <1>2, <1>3, <1>4, <1>8, <1>10, <1>11, <1>12 DEF e

LEMMA CreateStep ==
  ASSUME TablesInv, Walking, at.level > 1, NEW next, Create(next),
         at' = [at EXCEPT !.level = @ - 1, !.table = next],
         UNCHANGED <<pml4, pc, call, heap, result>>
  PROVE  TablesInv'
<1> DEFINE e == Link(next)
           T == at.table
<1>1. PICK lev : TreeOf(lev) /\ FlagsOf(lev) /\ WalkOf(lev)  BY DEF TablesInv, TreeInv
<1>2. MemoryInv /\ StateInv  BY DEF TablesInv
<1>3. /\ T \in DOMAIN tables /\ lev[T] = at.level /\ pml4 \in DOMAIN tables
      /\ Entry \in entry /\ Entry = tables[T][Slot] /\ ~ Entry.present
  BY <1>1, <1>2, WalkFacts DEF Create
<1>4. Slot \in Slots /\ at.level \in 1 .. 4 /\ at.level - 1 \in 1 .. 4  BY <1>2, LocalsFacts
<1>5. /\ next \in free /\ regions' = regions /\ free' = free \ {next}
      /\ held' = held \cup {next} /\ next \notin DOMAIN tables /\ next \notin heap
  BY <1>1, <1>2, CreateFacts
<1>6. /\ e.present /\ ~ e.large /\ e.frame = next
      /\ e.flags = {"READ_WRITE"} \cup (call.flags \cap {"USER"})
  BY <1>1, <1>2, CreateFacts
<1>7. /\ DOMAIN tables' = DOMAIN tables \cup {next}
      /\ \A i \in Slots : tables'[next][i] = Empty
      /\ \A t \in DOMAIN tables' : tables'[t] \in [Slots -> entry]
  BY <1>1, <1>2, CreateFacts
<1>8. \A u \in DOMAIN tables, i \in Slots :
        tables'[u][i] = IF u = T /\ i = Slot THEN e ELSE tables[u][i]
  BY <1>1, <1>2, CreateFacts
<1> HIDE DEF e
<1>9. PICK lev2 : lev2 = Extended(lev, T, next)  OBVIOUS
<1>10. /\ TreeOf(lev2)'
       /\ \A p, i, n : IsLink(lev2, p, i, n)' <=>
            \/ IsLink(lev, p, i, n)
            \/ p = T /\ i = Slot /\ n = next
  BY <1>1, <1>3, <1>4, <1>5, <1>6, <1>7, <1>8, <1>9, TreeCreate
<1>11. lev2[next] = at.level - 1  BY <1>3, <1>9 DEF Extended
<1>12. FlagsOf(lev2)'
  <2> SUFFICES ASSUME NEW p, NEW i, NEW n, IsLink(lev2, p, i, n)'
               PROVE  /\ "READ_WRITE" \in tables'[p][i].flags
                      /\ \A j \in Slots : tables'[n][j].present /\ "USER" \in tables'[n][j].flags
                                            => "USER" \in tables'[p][i].flags
    BY DEF FlagsOf
  <2>1. CASE p = T /\ i = Slot /\ n = next
    <3>1. ~ Empty.present  BY DEF Empty
    <3> QED  BY <2>1, <3>1, <1>3, <1>4, <1>6, <1>7, <1>8
  <2>2. CASE IsLink(lev, p, i, n)
    <3>1. p \in DOMAIN tables /\ i \in Slots /\ n \in DOMAIN tables /\ ~ (p = T /\ i = Slot)
      BY <1>1, <1>3, <2>2 DEF TreeOf, IsLink, PointsToTable
    <3>2. "READ_WRITE" \in tables[p][i].flags
          /\ \A j \in Slots : tables[n][j].present /\ "USER" \in tables[n][j].flags
                                => "USER" \in tables[p][i].flags
      BY <1>1, <2>2 DEF FlagsOf
    <3>3. tables'[p][i] = tables[p][i]  BY <1>8, <3>1
    <3>4. n = T /\ "USER" \in call.flags => "USER" \in tables[p][i].flags
      BY <1>1, <2>2 DEF WalkOf
    <3>5. \A j \in Slots : \/ tables'[n][j] = tables[n][j]
                           \/ n = T /\ ("USER" \in tables'[n][j].flags => "USER" \in call.flags)
      BY <1>6, <1>8, <3>1
    <3> QED  BY <3>2, <3>3, <3>4, <3>5
  <2> QED  BY <1>10, <2>1, <2>2
<1>13. at' \in Locals(DOMAIN tables') /\ at'.level = at.level - 1 /\ at'.table = next
  <2>1. at \in Locals(DOMAIN tables)  BY <1>2 DEF StateInv
  <2>2. at' = [at EXCEPT !.level = at.level - 1, !.table = next]  OBVIOUS
  <2> QED  BY <1>4, <1>7, <2>1, <2>2 DEF Locals
<1>14. WalkOf(lev2)'
  <2>1. \A p, i : IsLink(lev2, p, i, next)' => p = T /\ i = Slot
    BY <1>1, <1>5, <1>10 DEF TreeOf
  <2>2. "USER" \in call.flags => "USER" \in tables'[T][Slot].flags
    BY <1>3, <1>4, <1>6, <1>8
  <2> QED  BY <1>7, <1>11, <1>13, <2>1, <2>2 DEF WalkOf
<1>15. TreeInv'  BY <1>10, <1>12, <1>14 DEF TreeInv
<1>16. MemoryInv'  BY <1>2, <1>5, <1>7 DEF MemoryInv
<1>17. StateInv'  BY <1>2, <1>3, <1>7, <1>13 DEF StateInv
<1> QED  BY <1>15, <1>16, <1>17 DEF TablesInv

-----------------------------------------------------------------------------
(* The actions.                                                            *)

(* Outside a walk, the tree is safe as long as the tables are left alone.  *)
LEMMA QuietStep ==
  ASSUME TablesInv, UNCHANGED <<pml4, tables>>, MemoryInv', StateInv', ~ Walking'
  PROVE  TablesInv'
<1>1. PICK lev : TreeOf(lev) /\ FlagsOf(lev) /\ WalkOf(lev)  BY DEF TablesInv, TreeInv
<1>2. TreeOf(lev)' /\ FlagsOf(lev)'  BY <1>1, TreeUnchanged
<1>3. WalkOf(lev)'  BY DEF WalkOf
<1> QED  BY <1>2, <1>3 DEF TablesInv, TreeInv

(* A walk begins.                                                          *)
LEMMA WalkStep ==
  ASSUME TablesInv, pc \notin {"boot", "halt"}, NEW function \in {"map_large_page", "map_page"},
         Walk(function), UNCHANGED <<regions, free, held, pml4, tables, call, heap, result>>
  PROVE  TablesInv'
<1>1. PICK lev : TreeOf(lev) /\ FlagsOf(lev) /\ WalkOf(lev)  BY DEF TablesInv, TreeInv
<1>2. MemoryInv /\ StateInv  BY DEF TablesInv
<1>3. pml4 \in DOMAIN tables /\ pml4 # NoFrame  BY <1>2 DEF StateInv
<1>4. at' \in Locals(DOMAIN tables) /\ at'.level = 4 /\ at'.table = pml4
  <2>1. at \in Locals(DOMAIN tables)  BY <1>2 DEF StateInv
  <2>2. at' = [at EXCEPT !.level = 4, !.table = pml4]  BY DEF Walk
  <2>3. 4 \in 1 .. 4  OBVIOUS
  <2> QED  BY <1>3, <2>1, <2>2, <2>3 DEF Locals
<1>5. /\ TreeOf(lev)' /\ FlagsOf(lev)'
      /\ \A p, i, n : IsLink(lev, p, i, n)' <=> IsLink(lev, p, i, n)
  BY <1>1, TreeUnchanged
<1>6. lev[pml4] = 4 /\ \A p, i : ~ IsLink(lev, p, i, pml4)  BY <1>1, <1>3, WalkFromTop
<1>7. WalkOf(lev)'  BY <1>3, <1>4, <1>5, <1>6 DEF WalkOf
<1>8. MemoryInv'  BY <1>2 DEF MemoryInv
<1>9. StateInv'  BY <1>2, <1>3, <1>4 DEF StateInv, Walk
<1> QED  BY <1>5, <1>7, <1>8, <1>9 DEF TablesInv, TreeInv

LEMMA LocalsReset ==
  ASSUME NEW known
  PROVE  NoLocal \in Locals(known)
  BY SizeFacts DEF NoLocal, Locals

(* map_range returns.                                                      *)
LEMMA ReturnStep ==
  ASSUME TablesInv, pc \notin {"boot", "halt"}, NEW value \in {0, -1}, Return(value),
         UNCHANGED <<regions, free, held, pml4, tables, call, heap>>
  PROVE  TablesInv'
<1>1. MemoryInv /\ StateInv  BY DEF TablesInv
<1>2. at' \in Locals(DOMAIN tables')  BY LocalsReset DEF Return
<1>3. pc' \in {"release", "idle"} /\ result' \in {0, -1}  BY DEF Return
<1>4. MemoryInv'  BY <1>1 DEF MemoryInv
<1>5. StateInv'  BY <1>1, <1>2, <1>3 DEF StateInv
<1> QED  BY <1>3, <1>4, <1>5, QuietStep DEF Walking

(* The next page of the range.                                             *)
LEMMA AdvanceLocals ==
  ASSUME StateInv, NEW size \in Nat, Advance(size)
  PROVE  at' \in Locals(DOMAIN tables) /\ pc' = "map_range"
<1>1. at \in Locals(DOMAIN tables) /\ at.vaddr \in Nat /\ at.paddr \in Nat
  BY LocalsFacts DEF StateInv
<1>2. (at.vaddr + size) % Wrap \in 0 .. Wrap - 1 /\ (at.paddr + size) % PhysicalWrap \in Nat
  BY <1>1, SizeFacts, PhysicalFacts, DivMod
<1>3. at' = [at EXCEPT !.vaddr = (at.vaddr + size) % Wrap,
                       !.paddr = (at.paddr + size) % PhysicalWrap]
  BY DEF Advance
<1> QED  BY <1>1, <1>2, <1>3 DEF Locals, Advance

LEMMA LoopStep ==
  ASSUME TablesInv, Loop
  PROVE  TablesInv'
<1>1. CASE Walk("map_large_page") /\ UNCHANGED result
  BY <1>1, WalkStep DEF Loop, allocator
<1>2. CASE Walk("map_page") /\ UNCHANGED result
  BY <1>2, WalkStep DEF Loop, allocator
<1>3. CASE Return(0)  BY <1>3, ReturnStep DEF Loop, allocator
<1> QED  BY <1>1, <1>2, <1>3 DEF Loop

LEMMA NextTableStep ==
  ASSUME TablesInv, Walking, at.level > 1, next_table
  PROVE  TablesInv'
<1>1. PICK next : /\ Create(next) \/ Follow(next)
                  /\ at' = [at EXCEPT !.level = @ - 1, !.table = next]
                  /\ UNCHANGED <<pml4, pc, call, heap, result>>
  BY DEF next_table
<1>2. CASE Create(next)  BY <1>1, <1>2, CreateStep
<1>3. CASE Follow(next)  BY <1>1, <1>3, FollowStep
<1> QED  BY <1>1, <1>2, <1>3

(* The frame that a leaf is given.                                         *)
LEMMA FrameOfLeaf ==
  ASSUME StateInv
  PROVE  at.paddr \div PageSize \in Nat
  BY LocalsFacts, SizeFacts, DivMod

LEMMA MapLargePageStep ==
  ASSUME TablesInv, map_large_page
  PROVE  TablesInv'
<1>1. pc = "map_large_page" /\ Walking  BY DEF map_large_page, Walking
<1>2. StateInv  BY DEF TablesInv
<1>3. CASE at.level > 2 /\ next_table
  <2>1. at.level > 1  BY <1>2, <1>3, LocalsFacts
  <2> QED  BY <1>1, <1>3, <2>1, NextTableStep
<1>4. CASE NoNextTable /\ FallBack /\ UNCHANGED <<pml4, tables, call, heap, result>>
  <2>1. UNCHANGED <<regions, free, held>>  BY <1>4, RefuseFacts DEF NoNextTable, allocator
  <2> QED  BY <1>1, <1>4, <2>1, WalkStep DEF FallBack
<1>5. CASE FallBack /\ UNCHANGED <<allocator, pml4, tables, call, heap, result>>
  BY <1>1, <1>5, WalkStep DEF FallBack, allocator
<1>6. CASE /\ at.level = 2 /\ ~ HoldsTable
           /\ tables' = Set(Leaf(at.paddr \div PageSize, call.flags, TRUE))
           /\ Advance(LargePage)
           /\ UNCHANGED <<allocator, pml4, call, heap, result>>
  <2>1. at' \in Locals(DOMAIN tables) /\ pc' = "map_range"
    BY <1>2, <1>6, AdvanceLocals, SizeFacts
  <2> QED  BY <1>1, <1>2, <1>6, <2>1, FrameOfLeaf, LeafStep
<1> QED  BY <1>3, <1>4, <1>5, <1>6 DEF map_large_page

LEMMA MapPageStep ==
  ASSUME TablesInv, map_page
  PROVE  TablesInv'
<1>1. pc = "map_page" /\ Walking  BY DEF map_page, Walking
<1>2. StateInv /\ MemoryInv  BY DEF TablesInv
<1>3. CASE AbovePt /\ next_table  BY <1>1, <1>3, NextTableStep DEF AbovePt
<1>4. CASE NoNextTable /\ Return(-1) /\ UNCHANGED <<pml4, tables, call, heap>>
  <2>1. UNCHANGED <<regions, free, held>>  BY <1>4, RefuseFacts DEF NoNextTable, allocator
  <2> QED  BY <1>1, <1>4, <2>1, ReturnStep
<1>5. CASE Advance(PageSize) /\ UNCHANGED <<allocator, pml4, tables, call, heap, result>>
  <2>1. at' \in Locals(DOMAIN tables) /\ pc' = "map_range"
    BY <1>2, <1>5, AdvanceLocals, SizeFacts
  <2>2. pml4 # NoFrame  BY <1>1, <1>2 DEF StateInv
  <2>3. StateInv'  BY <1>2, <1>5, <2>1, <2>2 DEF StateInv
  <2>4. MemoryInv'  BY <1>2, <1>5 DEF MemoryInv, allocator
  <2> QED  BY <1>5, <2>1, <2>3, <2>4, QuietStep DEF Walking
<1>6. CASE Return(-1) /\ UNCHANGED <<allocator, pml4, tables, call, heap>>
  BY <1>1, <1>6, ReturnStep DEF allocator
<1>7. CASE /\ ~ AbovePt
           /\ tables' = Set(Leaf(at.paddr \div PageSize, call.flags, FALSE))
           /\ Advance(PageSize)
           /\ UNCHANGED <<allocator, pml4, call, heap, result>>
  <2>1. at' \in Locals(DOMAIN tables) /\ pc' = "map_range"
    BY <1>2, <1>7, AdvanceLocals, SizeFacts
  <2>2. at.level = 1  BY <1>2, <1>7, LocalsFacts DEF AbovePt
  <2> QED  BY <1>1, <1>2, <1>7, <2>1, <2>2, FrameOfLeaf, LeafStep
<1> QED  BY <1>3, <1>4, <1>5, <1>6, <1>7 DEF map_page

(* A call of map_range begins; get_heap calls it too.                      *)
Arguments == [vaddr: 0 .. Wrap - 1, paddr: Nat, length: Nat, flags: SUBSET flag]

LEMMA RangeArguments == Ranges \subseteq Arguments
  BY RangesAssumption, PhysicalFacts DEF Arguments

LEMMA EnterState ==
  ASSUME StateInv, pc = "idle", NEW op \in {"map_range", "get_heap"}, NEW c \in Arguments,
         Enter(op, c), UNCHANGED <<pml4, tables>>
  PROVE  StateInv' /\ pc' = "map_range"
<1>1. c.vaddr \in 0 .. Wrap - 1 /\ c.vaddr \in Nat /\ c.paddr \in Nat /\ c.length \in Nat
      /\ c.flags \in SUBSET flag
  BY SizeFacts DEF Arguments
<1>2. /\ RoundDown(c.vaddr) \in 0 .. Wrap - 1 /\ RoundDown(c.paddr) \in Nat
      /\ (c.vaddr + c.length) % Wrap \in 0 .. Wrap - 1
  <2>1. \A a \in Nat : RoundDown(a) \in Nat /\ RoundDown(a) <= a
    BY SizeFacts, DivMod DEF RoundDown
  <2>2. (c.vaddr + c.length) % Wrap \in 0 .. Wrap - 1  BY <1>1, SizeFacts, DivMod
  <2> QED  BY <1>1, <2>1, <2>2, SizeFacts
<1>3. at' \in Locals(DOMAIN tables')
  <2>1. at' = [NoLocal EXCEPT !.vaddr = RoundDown(c.vaddr), !.paddr = RoundDown(c.paddr),
                              !.end = (c.vaddr + c.length) % Wrap]
    BY DEF Enter
  <2>2. at' = [vaddr |-> RoundDown(c.vaddr), paddr |-> RoundDown(c.paddr),
               end |-> (c.vaddr + c.length) % Wrap, level |-> 4, table |-> NoFrame]
    BY <2>1 DEF NoLocal
  <2>3. 4 \in 1 .. 4  OBVIOUS
  <2> QED  BY <1>2, <2>2, <2>3 DEF Locals
<1>4. call' \in [op: {"none", "map_range", "get_heap"}, vaddr: 0 .. Wrap - 1, paddr: Nat,
                 length: Nat, flags: SUBSET flag]
  BY <1>1 DEF Enter
<1>5. pc' = "map_range" /\ result' = 0  BY DEF Enter
<1>6. pml4 # NoFrame  BY DEF StateInv
<1> QED  BY <1>3, <1>4, <1>5, <1>6 DEF StateInv

LEMMA MapRangeStep ==
  ASSUME TablesInv, NEW c \in Arguments, map_range(c)
  PROVE  TablesInv'
<1>1. MemoryInv /\ StateInv  BY DEF TablesInv
<1>2. StateInv' /\ pc' = "map_range"  BY <1>1, EnterState DEF map_range
<1>3. MemoryInv'  BY <1>1 DEF MemoryInv, map_range, allocator
<1> QED  BY <1>2, <1>3, QuietStep DEF map_range, Walking

LEMMA HeapPagesNat ==
  ASSUME NEW c \in [vaddr: 0 .. Wrap - 1, length: Nat]
  PROVE  HeapPages(c) \in Nat /\ HeapPages(c) * PageSize \in Nat
<1>1. c.length + PageSize - 1 \in Nat  BY SizeFacts
<1>2. HeapPages(c) \in Nat  BY <1>1, SizeFacts, DivMod DEF HeapPages
<1> QED  BY <1>2, SizeFacts

LEMMA GetHeapStep ==
  ASSUME TablesInv, NEW c \in [vaddr: 0 .. Wrap - 1, length: Nat], get_heap(c)
  PROVE  TablesInv'
<1> DEFINE n == HeapPages(c)
<1>1. MemoryInv /\ StateInv /\ pc = "idle" /\ UNCHANGED <<pml4, tables>>
  BY DEF TablesInv, get_heap
<1>2. n \in Nat /\ n * PageSize \in Nat  BY HeapPagesNat
<1> HIDE DEF n
<1>3. ASSUME NEW first \in free,
             Take("frames_allocate", n, first),
             heap' = first .. first + n - 1,
             Enter("get_heap", [vaddr |-> c.vaddr, paddr |-> first * PageSize,
                                length |-> n * PageSize, flags |-> {"READ_WRITE"}])
      PROVE  TablesInv'
  <2>1. first \in Nat /\ first * PageSize \in Nat  BY <1>1, SizeFacts DEF MemoryInv
  <2>2. [vaddr |-> c.vaddr, paddr |-> first * PageSize,
         length |-> n * PageSize, flags |-> {"READ_WRITE"}] \in Arguments
    BY <1>2, <2>1 DEF Arguments, flag
  <2>3. StateInv' /\ pc' = "map_range"  BY <1>1, <1>3, <2>2, EnterState
  <2>4. /\ regions' = regions /\ heap' \subseteq free
        /\ free' = free \ heap' /\ held' = held \cup heap'
    BY <1>2, <1>3, TakeFacts
  <2>5. MemoryInv'  BY <1>1, <2>4 DEF MemoryInv
  <2> QED  BY <1>1, <2>3, <2>5, QuietStep DEF Walking
<1>4. CASE /\ Memory!Refuse("frames_allocate", n)
           /\ heap' = {} /\ call' = NoCall /\ result' = -1
           /\ UNCHANGED <<pc, at>>
  <2>1. UNCHANGED <<regions, free, held>>  BY <1>4, RefuseFacts
  <2>2. MemoryInv'  BY <1>1, <1>4, <2>1 DEF MemoryInv
  <2>3. call' \in [op: {"none", "map_range", "get_heap"}, vaddr: 0 .. Wrap - 1, paddr: Nat,
                   length: Nat, flags: SUBSET flag]
    BY <1>4, SizeFacts DEF NoCall
  <2>4. StateInv'  BY <1>1, <1>4, <2>3 DEF StateInv
  <2> QED  BY <1>1, <1>4, <2>2, <2>4, QuietStep DEF Walking
<1> QED  BY <1>3, <1>4 DEF get_heap, n

LEMMA ReleaseHeapStep ==
  ASSUME TablesInv, ReleaseHeap
  PROVE  TablesInv'
<1>1. /\ MemoryInv /\ StateInv /\ pc = "release"
      /\ UNCHANGED <<pml4, tables, call, at, result>>
  BY DEF TablesInv, ReleaseHeap
<1>2. ASSUME NEW f \in heap, Memory!Release(f), heap' = heap \ {f}, UNCHANGED pc
      PROVE  TablesInv'
  <2>1. /\ free' = free \cup ({f} \cap UNION regions) /\ held' = held \ {f}
        /\ regions' = regions
    BY <1>2 DEF Memory!Release
  <2>2. MemoryInv'  BY <1>1, <1>2, <2>1 DEF MemoryInv
  <2>3. StateInv'  BY <1>1, <1>2 DEF StateInv
  <2> QED  BY <1>1, <1>2, <2>2, <2>3, QuietStep DEF Walking
<1>3. CASE heap = {} /\ pc' = "idle" /\ UNCHANGED <<allocator, heap>>
  <2>1. MemoryInv'  BY <1>1, <1>3 DEF MemoryInv, allocator
  <2>2. StateInv'  BY <1>1, <1>3 DEF StateInv
  <2> QED  BY <1>1, <1>3, <2>1, <2>2, QuietStep DEF Walking
<1> QED  BY <1>2, <1>3 DEF ReleaseHeap

(* The top level is the first table.                                       *)
LEMMA InitPml4Step ==
  ASSUME TablesInv, init_pml4
  PROVE  TablesInv'
<1>1. /\ MemoryInv /\ StateInv /\ pc = "boot" /\ UNCHANGED <<call, at, heap, result>>
  BY DEF TablesInv, init_pml4
<1>2. pml4 = NoFrame /\ DOMAIN tables = {}  BY <1>1 DEF StateInv
<1>3. ASSUME NEW f \in free, Take("frame_allocate", 1, f), pml4' = f,
             tables' = [t \in {f} |-> ZeroedTable], pc' = "idle"
      PROVE  TablesInv'
  <2>1. f \in Nat  BY <1>1 DEF MemoryInv
  <2>2. regions' = regions /\ free' = free \ {f} /\ held' = held \cup {f}
    BY <1>3, <2>1, TakeOneFacts
  <2>3. DOMAIN tables' = {f} /\ tables'[f] = ZeroedTable  BY <1>3
  <2>4. ZeroedTable \in [Slots -> entry] /\ \A i \in Slots : ~ ZeroedTable[i].present
    <3>1. Empty \in entry /\ ~ Empty.present  BY DEF Empty, entry
    <3> QED  BY <3>1 DEF ZeroedTable
  <2>5. MemoryInv'  BY <1>1, <1>2, <2>2, <2>3 DEF MemoryInv
  <2>6. at \in Locals(DOMAIN tables')
    BY <1>1, <1>2 DEF StateInv, Locals
  <2>7. StateInv'
    <3>1. f # NoFrame  BY <2>1 DEF NoFrame
    <3> QED  BY <1>1, <1>3, <2>1, <2>3, <2>4, <2>6, <3>1 DEF StateInv
  <2>8. PICK lev : lev = [t \in {f} |-> 4]  OBVIOUS
  <2>9. \A p, i, n : ~ IsLink(lev, p, i, n)'
    BY <2>3, <2>4 DEF IsLink, PointsToTable
  <2>10. TreeOf(lev)'
    BY <1>3, <2>3, <2>4, <2>8, <2>9 DEF TreeOf
  <2>11. FlagsOf(lev)' /\ WalkOf(lev)'  BY <1>3, <2>9 DEF FlagsOf, WalkOf, Walking
  <2> QED  BY <2>5, <2>7, <2>10, <2>11 DEF TablesInv, TreeInv
<1>4. CASE Memory!Refuse("frame_allocate", 1) /\ pc' = "halt" /\ UNCHANGED <<pml4, tables>>
  <2>1. UNCHANGED <<regions, free, held>>  BY <1>4, RefuseFacts
  <2>2. MemoryInv'  BY <1>1, <1>4, <2>1 DEF MemoryInv
  <2>3. StateInv'  BY <1>1, <1>2, <1>4 DEF StateInv
  <2> QED  BY <1>4, <2>2, <2>3, QuietStep DEF Walking
<1> QED  BY <1>3, <1>4 DEF init_pml4

-----------------------------------------------------------------------------
(* The invariant of the specification.                                     *)

LEMMA StartInv ==
  ASSUME NEW managed, NEW unused, UNION managed \subseteq Nat, unused \subseteq UNION managed,
         Start(managed, unused)
  PROVE  TablesInv
<1>1. DOMAIN tables = {}  BY DEF Start
<1>2. MemoryInv  BY <1>1 DEF Start, MemoryInv
<1>3. at \in Locals(DOMAIN tables)  BY LocalsReset DEF Start
<1>4. call \in [op: {"none", "map_range", "get_heap"}, vaddr: 0 .. Wrap - 1, paddr: Nat,
                length: Nat, flags: SUBSET flag]
  BY SizeFacts DEF Start, NoCall
<1>5. StateInv  BY <1>1, <1>3, <1>4 DEF Start, StateInv
<1>6. PICK lev : lev = [t \in {} |-> 4]  OBVIOUS
<1>7. TreeOf(lev) /\ FlagsOf(lev) /\ WalkOf(lev)
  BY <1>1, <1>6 DEF TreeOf, FlagsOf, WalkOf, IsLink, Walking, Start
<1> QED  BY <1>2, <1>5, <1>7 DEF TablesInv, TreeInv

LEMMA StutterStep ==
  ASSUME TablesInv, UNCHANGED vars
  PROVE  TablesInv'
<1>1. PICK lev : TreeOf(lev) /\ FlagsOf(lev) /\ WalkOf(lev)  BY DEF TablesInv, TreeInv
<1>2. /\ TreeOf(lev)' /\ FlagsOf(lev)'
      /\ \A p, i, n : IsLink(lev, p, i, n)' <=> IsLink(lev, p, i, n)
  BY <1>1, TreeUnchanged DEF vars
<1>3. WalkOf(lev)'  BY <1>1, <1>2 DEF WalkOf, Walking, vars
<1>4. MemoryInv' /\ StateInv'  BY DEF TablesInv, MemoryInv, StateInv, vars, allocator
<1> QED  BY <1>2, <1>3, <1>4 DEF TablesInv, TreeInv

PagingInv == TablesInv /\ regions = Regions

LEMMA PagingInvInit ==
  ASSUME Init
  PROVE  PagingInv
<1>1. PICK unused \in FreeSets : Start(Regions, unused)  BY DEF Init
<1>2. UNION Regions \subseteq Nat /\ unused \subseteq UNION Regions  BY RegionsAssumption
<1> QED  BY <1>1, <1>2, StartInv DEF PagingInv, Start

(* The regions do not change.                                              *)
LEMMA RegionsKept ==
  ASSUME [Next]_vars
  PROVE  regions' = regions
<1>1. ASSUME NEW op, NEW count, NEW first, Take(op, count, first)
      PROVE  regions' = regions
  BY <1>1 DEF Take, Memory!Grant
<1>2. ASSUME NEW op, NEW count, Memory!Refuse(op, count)
      PROVE  regions' = regions
  BY <1>2 DEF Memory!Refuse
<1>3. CASE init_pml4  BY <1>3, <1>1, <1>2 DEF init_pml4
<1>4. CASE next_table
  BY <1>4, <1>1 DEF next_table, Create, Follow, allocator
<1>5. CASE NoNextTable  BY <1>5, <1>2 DEF NoNextTable, allocator
<1>6. CASE UNCHANGED allocator  BY <1>6 DEF allocator
<1>7. CASE Loop  BY <1>7, <1>6 DEF Loop
<1>8. CASE map_large_page  BY <1>8, <1>4, <1>5, <1>6 DEF map_large_page
<1>9. CASE map_page  BY <1>9, <1>4, <1>5, <1>6 DEF map_page
<1>10. CASE ReleaseHeap  BY <1>10, <1>6 DEF ReleaseHeap, Memory!Release
<1>11. CASE \E c \in Ranges : map_range(c)  BY <1>11, <1>6 DEF map_range
<1>12. CASE \E c \in Heaps : get_heap(c)  BY <1>12, <1>1, <1>2 DEF get_heap
<1>13. CASE Halted \/ UNCHANGED vars  BY <1>13, <1>6 DEF Halted, vars
<1> QED
  BY <1>3, <1>7, <1>8, <1>9, <1>10, <1>11, <1>12, <1>13 DEF Next, Running

LEMMA PagingInvStep ==
  ASSUME PagingInv, [Next]_vars
  PROVE  PagingInv'
<1> SUFFICES TablesInv'  BY RegionsKept DEF PagingInv
<1>1. TablesInv  BY DEF PagingInv
<1>2. CASE init_pml4  BY <1>1, <1>2, InitPml4Step
<1>3. CASE Loop  BY <1>1, <1>3, LoopStep
<1>4. CASE map_large_page  BY <1>1, <1>4, MapLargePageStep
<1>5. CASE map_page  BY <1>1, <1>5, MapPageStep
<1>6. CASE ReleaseHeap  BY <1>1, <1>6, ReleaseHeapStep
<1>7. CASE \E c \in Ranges : map_range(c)
  BY <1>1, <1>7, MapRangeStep, RangeArguments
<1>8. CASE \E c \in Heaps : get_heap(c)  BY <1>1, <1>8, GetHeapStep, HeapsAssumption
<1>9. CASE Halted \/ UNCHANGED vars  BY <1>1, <1>9, StutterStep DEF Halted
<1> QED  BY <1>2, <1>3, <1>4, <1>5, <1>6, <1>7, <1>8, <1>9 DEF Next, Running

(* The tables form a tree at every step of every call: each is of one      *)
(* level, at most one entry points to it, and a call that has begun is on  *)
(* its way down that tree.                                                 *)
THEOREM PagingInvariant == Spec => []PagingInv
<1>1. Init => PagingInv  BY PagingInvInit
<1>2. PagingInv /\ [Next]_vars => PagingInv'  BY PagingInvStep
<1> QED  BY <1>1, <1>2, PTL DEF Spec

(* Table numbers, levels, addresses and entries stay in range, for any     *)
(* sequence of calls of map_range and get_heap.                            *)
THEOREM PagingTypeCorrect == Spec => []PagingTypeOK
<1>1. PagingInv => PagingTypeOK
  BY DEF PagingInv, TablesInv, MemoryInv, StateInv, Locals, PagingTypeOK
<1> QED  BY <1>1, PagingInvariant, PTL

-----------------------------------------------------------------------------
(* Each table has a frame of its own.                                      *)

Level(lev, k) == {t \in DOMAIN tables : lev[t] = k}

(* The tables of a level are the targets of the level above, one each.     *)
LEMMA LevelTargets ==
  ASSUME NEW lev, TreeOf(lev), MemoryInv, StateInv, pml4 # NoFrame, NEW k \in 2 .. 4
  PROVE  /\ Targets(Level(lev, k)) = Level(lev, k - 1)
         /\ ExistsBijection(Links(Level(lev, k)), Level(lev, k - 1))
<1> DEFINE L == Level(lev, k)
<1>1. \A t \in DOMAIN tables : t # NoFrame  BY DEF MemoryInv, NoFrame
<1>2. \A link \in Links(L) :
        /\ link = <<link[1], link[2]>>
        /\ IsLink(lev, link[1], link[2], Below(link[1], link[2]))
  <2> SUFFICES ASSUME NEW link \in Links(L)
               PROVE  /\ link = <<link[1], link[2]>>
                      /\ IsLink(lev, link[1], link[2], Below(link[1], link[2]))
    OBVIOUS
  <2>1. /\ link \in L \X Slots /\ PointsToTable(link[1], link[2])  BY DEF Links
  <2>2. link[1] \in DOMAIN tables /\ lev[link[1]] = k /\ link[2] \in Slots  BY <2>1 DEF Level
  <2>3. Below(link[1], link[2]) = tables[link[1]][link[2]].frame
    BY <1>1, <2>1, <2>2 DEF Below, PointsToTable
  <2> QED  BY <2>1, <2>2, <2>3 DEF IsLink
<1>3. \A link \in Links(L) : Below(link[1], link[2]) \in Level(lev, k - 1)
  <2> SUFFICES ASSUME NEW link \in Links(L)
               PROVE  Below(link[1], link[2]) \in Level(lev, k - 1)
    OBVIOUS
  <2>1. IsLink(lev, link[1], link[2], Below(link[1], link[2]))  BY <1>2
  <2>2. lev[link[1]] = k  BY DEF Links, Level
  <2> QED  BY <2>1, <2>2 DEF TreeOf, Level
<1>4. \A t \in Level(lev, k - 1) : \E link \in Links(L) : Below(link[1], link[2]) = t
  <2> SUFFICES ASSUME NEW t \in Level(lev, k - 1)
               PROVE  \E link \in Links(L) : Below(link[1], link[2]) = t
    OBVIOUS
  <2>1. t \in DOMAIN tables /\ lev[t] = k - 1 /\ t # pml4  BY DEF Level, TreeOf
  <2>2. PICK p, j : IsLink(lev, p, j, t)  BY <2>1 DEF TreeOf
  <2>3. p \in DOMAIN tables /\ lev[p] \in 1 .. 4 /\ lev[t] = lev[p] - 1 /\ j \in Slots
        /\ PointsToTable(p, j) /\ tables[p][j].frame = t
    BY <2>2 DEF TreeOf, IsLink
  <2>4. lev[p] = k  BY <2>1, <2>3
  <2>5. <<p, j>> \in L \X Slots  BY <2>3, <2>4 DEF Level
  <2>6. <<p, j>> \in Links(L)  BY <2>3, <2>5 DEF Links
  <2>7. Below(p, j) = t  BY <1>1, <2>3 DEF Below, PointsToTable
  <2> QED  BY <2>6, <2>7
<1>5. Targets(L) = Level(lev, k - 1)  BY <1>3, <1>4 DEF Targets
<1>6. \A a, b \in Links(L) : Below(a[1], a[2]) = Below(b[1], b[2]) => a = b
  <2> SUFFICES ASSUME NEW a \in Links(L), NEW b \in Links(L),
                      Below(a[1], a[2]) = Below(b[1], b[2])
               PROVE  a = b
    OBVIOUS
  <2>1. a[1] = b[1] /\ a[2] = b[2]  BY <1>2 DEF TreeOf
  <2> QED  BY <1>2, <2>1
<1> DEFINE f == [link \in Links(L) |-> Below(link[1], link[2])]
<1>7. f \in Bijection(Links(L), Level(lev, k - 1))
  <2> HIDE DEF L
  <2>1. f \in [Links(L) -> Level(lev, k - 1)]  BY <1>3
  <2>2. \A a, b \in Links(L) : f[a] = f[b] => a = b  BY <1>6
  <2>3. \A t \in Level(lev, k - 1) : \E a \in Links(L) : f[a] = t  BY <1>4
  <2> HIDE DEF f
  <2> QED  BY <2>1, <2>2, <2>3, Fun_IsBij
<1>8. ExistsBijection(Links(L), Level(lev, k - 1))  BY <1>7 DEF ExistsBijection
<1> QED  BY <1>5, <1>8

LEMMA LevelFinite ==
  ASSUME NEW lev, TreeOf(lev), MemoryInv, StateInv, pml4 # NoFrame, NEW k \in 2 .. 4,
         IsFiniteSet(Level(lev, k))
  PROVE  /\ IsFiniteSet(Level(lev, k - 1))
         /\ Cardinality(Level(lev, k - 1)) = Cardinality(Links(Level(lev, k)))
<1>1. IsFiniteSet(Slots)  BY SizeFacts, FS_Interval DEF Slots
<1>2. IsFiniteSet(Level(lev, k) \X Slots)  BY <1>1, FS_Product
<1>3. Links(Level(lev, k)) \in SUBSET (Level(lev, k) \X Slots)  BY DEF Links
<1>4. IsFiniteSet(Links(Level(lev, k)))  BY <1>2, <1>3, FS_Subset
<1>5. ExistsBijection(Links(Level(lev, k)), Level(lev, k - 1))  BY LevelTargets
<1> QED  BY <1>4, <1>5, FS_Bijection

LEMMA DisjointUnion ==
  ASSUME NEW S, NEW T, IsFiniteSet(S), IsFiniteSet(T), S \cap T = {}
  PROVE  /\ IsFiniteSet(S \cup T) /\ Cardinality(S \cup T) = Cardinality(S) + Cardinality(T)
<1>1. Cardinality(S) \in Nat /\ Cardinality(T) \in Nat  BY FS_CardinalityType
<1>2. Cardinality(S \cap T) = 0  BY FS_EmptySet
<1>3. /\ IsFiniteSet(S \cup T)
      /\ Cardinality(S \cup T) = Cardinality(S) + Cardinality(T) - Cardinality(S \cap T)
  BY FS_Union
<1> QED  BY <1>1, <1>2, <1>3

LEMMA TreeMeansDistinct ==
  ASSUME PagingInv
  PROVE  TablesDistinct
<1> SUFFICES ASSUME pml4 # NoFrame  PROVE TablesDistinct  BY DEF TablesDistinct
<1>1. MemoryInv /\ StateInv  BY DEF PagingInv, TablesInv
<1>2. PICK lev : TreeOf(lev)  BY DEF PagingInv, TablesInv, TreeInv
<1> DEFINE L(k) == Level(lev, k)
<1>3. L(4) = {pml4}  BY <1>1, <1>2 DEF Level, TreeOf, StateInv
<1>4. DOMAIN tables = L(4) \cup L(3) \cup L(2) \cup L(1)
  <2>1. \A t \in DOMAIN tables : lev[t] \in 1 .. 4  BY <1>2 DEF TreeOf
  <2>2. \A t \in DOMAIN tables : lev[t] = 4 \/ lev[t] = 3 \/ lev[t] = 2 \/ lev[t] = 1  BY <2>1
  <2> QED  BY <2>2 DEF Level
<1>5. Targets(L(4)) = L(3) /\ Targets(L(3)) = L(2) /\ Targets(L(2)) = L(1)
  <2>1. 4 \in 2 .. 4 /\ 3 \in 2 .. 4 /\ 2 \in 2 .. 4 /\ 4 - 1 = 3 /\ 3 - 1 = 2 /\ 2 - 1 = 1
    OBVIOUS
  <2>2. Targets(L(4)) = L(4 - 1)  BY <1>1, <1>2, <2>1, LevelTargets
  <2>3. Targets(L(3)) = L(3 - 1)  BY <1>1, <1>2, <2>1, LevelTargets
  <2>4. Targets(L(2)) = L(2 - 1)  BY <1>1, <1>2, <2>1, LevelTargets
  <2> QED  BY <2>1, <2>2, <2>3, <2>4
<1>6. IsFiniteSet(L(4)) /\ Cardinality(L(4)) = 1  BY <1>3, FS_Singleton
<1>7. IsFiniteSet(L(3)) /\ Cardinality(L(3)) = Cardinality(Links(L(4)))
  <2>1. 4 \in 2 .. 4 /\ 4 - 1 = 3  OBVIOUS
  <2>2. IsFiniteSet(L(4 - 1)) /\ Cardinality(L(4 - 1)) = Cardinality(Links(L(4)))
    BY <1>1, <1>2, <1>6, <2>1, LevelFinite
  <2> QED  BY <2>1, <2>2
<1>8. IsFiniteSet(L(2)) /\ Cardinality(L(2)) = Cardinality(Links(L(3)))
  <2>1. 3 \in 2 .. 4 /\ 3 - 1 = 2  OBVIOUS
  <2>2. IsFiniteSet(L(3 - 1)) /\ Cardinality(L(3 - 1)) = Cardinality(Links(L(3)))
    BY <1>1, <1>2, <1>7, <2>1, LevelFinite
  <2> QED  BY <2>1, <2>2
<1>9. IsFiniteSet(L(1)) /\ Cardinality(L(1)) = Cardinality(Links(L(2)))
  <2>1. 2 \in 2 .. 4 /\ 2 - 1 = 1  OBVIOUS
  <2>2. IsFiniteSet(L(2 - 1)) /\ Cardinality(L(2 - 1)) = Cardinality(Links(L(2)))
    BY <1>1, <1>2, <1>8, <2>1, LevelFinite
  <2> QED  BY <2>1, <2>2
<1>10. Cardinality(DOMAIN tables) =
         Cardinality(L(4)) + Cardinality(L(3)) + Cardinality(L(2)) + Cardinality(L(1))
  <2>1. L(4) \cap L(3) = {} /\ (L(4) \cup L(3)) \cap L(2) = {}
        /\ (L(4) \cup L(3) \cup L(2)) \cap L(1) = {}
    BY DEF Level
  <2>2. /\ IsFiniteSet(L(4) \cup L(3))
        /\ Cardinality(L(4) \cup L(3)) = Cardinality(L(4)) + Cardinality(L(3))
    BY <1>6, <1>7, <2>1, DisjointUnion
  <2>3. /\ IsFiniteSet(L(4) \cup L(3) \cup L(2))
        /\ Cardinality(L(4) \cup L(3) \cup L(2)) =
             Cardinality(L(4) \cup L(3)) + Cardinality(L(2))
    BY <1>8, <2>1, <2>2, DisjointUnion
  <2>4. Cardinality(L(4) \cup L(3) \cup L(2) \cup L(1)) =
          Cardinality(L(4) \cup L(3) \cup L(2)) + Cardinality(L(1))
    BY <1>9, <2>1, <2>3, DisjointUnion
  <2> QED  BY <1>4, <2>2, <2>3, <2>4
<1>11. DOMAIN tables \subseteq held \ heap  BY <1>1 DEF MemoryInv
<1>12. TablesDistinct <=>
         /\ DOMAIN tables = {pml4} \cup Targets({pml4}) \cup Targets(Targets({pml4}))
                              \cup Targets(Targets(Targets({pml4})))
         /\ Cardinality(DOMAIN tables) =
              1 + Cardinality(Links({pml4})) + Cardinality(Links(Targets({pml4})))
                + Cardinality(Links(Targets(Targets({pml4}))))
         /\ DOMAIN tables \subseteq held \ heap
  BY DEF TablesDistinct
<1> HIDE DEF L
<1> QED  BY <1>3, <1>4, <1>5, <1>6, <1>7, <1>8, <1>9, <1>10, <1>11, <1>12

(* Every table has a frame of its own, which the allocator counts as in    *)
(* use and which is in no heap, whatever was mapped and however calls      *)
(* failed: there are as many tables as entries that point to one, and the  *)
(* top.                                                                    *)
THEOREM TablesStayDistinct == Spec => []TablesDistinct
BY PagingInvariant, TreeMeansDistinct, PTL

-----------------------------------------------------------------------------
(* Permissions.                                                            *)

(* The tables on the way to a page, with the links between them.           *)
LEMMA PathFacts ==
  ASSUME NEW lev, TreeOf(lev), MemoryInv, StateInv, NEW v \in Nat
  PROVE  /\ Index(v, 4) \in Slots /\ Index(v, 3) \in Slots
         /\ Index(v, 2) \in Slots /\ Index(v, 1) \in Slots
         /\ Pdp(v) # NoFrame => pml4 # NoFrame /\ IsLink(lev, pml4, Index(v, 4), Pdp(v))
                                /\ Pdp(v) \in DOMAIN tables /\ lev[Pdp(v)] = 3
         /\ Pd(v) # NoFrame => Pdp(v) # NoFrame /\ IsLink(lev, Pdp(v), Index(v, 3), Pd(v))
                               /\ Pd(v) \in DOMAIN tables /\ lev[Pd(v)] = 2
         /\ Pt(v) # NoFrame => Pd(v) # NoFrame /\ IsLink(lev, Pd(v), Index(v, 2), Pt(v))
                               /\ Pt(v) \in DOMAIN tables /\ lev[Pt(v)] = 1
<1>1. /\ Index(v, 4) \in Slots /\ Index(v, 3) \in Slots
      /\ Index(v, 2) \in Slots /\ Index(v, 1) \in Slots
  BY IndexInSlots
<1>2. ASSUME NEW t, NEW k, t # NoFrame => t \in DOMAIN tables /\ lev[t] = k,
             k \in 2 .. 4, NEW j \in Slots, Below(t, j) # NoFrame
      PROVE  /\ t # NoFrame /\ IsLink(lev, t, j, Below(t, j))
             /\ Below(t, j) \in DOMAIN tables /\ lev[Below(t, j)] = k - 1
  <2>1. t # NoFrame /\ PointsToTable(t, j) /\ Below(t, j) = tables[t][j].frame
    BY <1>2 DEF Below, PointsToTable
  <2>2. IsLink(lev, t, j, Below(t, j))  BY <1>2, <2>1 DEF IsLink
  <2> QED  BY <1>2, <2>1, <2>2 DEF TreeOf
<1>3. pml4 # NoFrame => pml4 \in DOMAIN tables /\ lev[pml4] = 4  BY DEF StateInv, TreeOf
<1>4. Pdp(v) # NoFrame => /\ pml4 # NoFrame /\ IsLink(lev, pml4, Index(v, 4), Pdp(v))
                          /\ Pdp(v) \in DOMAIN tables /\ lev[Pdp(v)] = 3
  BY <1>1, <1>2, <1>3 DEF Pdp
<1>5. Pd(v) # NoFrame => /\ Pdp(v) # NoFrame /\ IsLink(lev, Pdp(v), Index(v, 3), Pd(v))
                         /\ Pd(v) \in DOMAIN tables /\ lev[Pd(v)] = 2
  BY <1>1, <1>2, <1>4 DEF Pd
<1>6. Pt(v) # NoFrame => /\ Pd(v) # NoFrame /\ IsLink(lev, Pd(v), Index(v, 2), Pt(v))
                         /\ Pt(v) \in DOMAIN tables /\ lev[Pt(v)] = 1
  BY <1>1, <1>2, <1>5 DEF Pt
<1> QED  BY <1>1, <1>4, <1>5, <1>6

LEMMA FlagsMeanLeafDecides ==
  ASSUME PagingInv
  PROVE  LeafDecides
<1>1. MemoryInv /\ StateInv  BY DEF PagingInv, TablesInv
<1>2. PICK lev : TreeOf(lev) /\ FlagsOf(lev)  BY DEF PagingInv, TablesInv, TreeInv
<1> SUFFICES ASSUME NEW v \in VPages, LeafOf(v).present, NEW e \in Uppers(v)
             PROVE  {"READ_WRITE"} \cup (LeafOf(v).flags \cap {"USER"}) \subseteq e.flags
  BY DEF LeafDecides
<1>3. v \in Nat
  <2>1. Entries * Entries * Entries * Entries \in Int  BY SizeFacts
  <2> QED  BY <2>1 DEF VPages
<1> DEFINE e4 == tables[pml4][Index(v, 4)]
           e3 == tables[Pdp(v)][Index(v, 3)]
           e2 == tables[Pd(v)][Index(v, 2)]
           e1 == tables[Pt(v)][Index(v, 1)]
<1>4. ASSUME Pd(v) # NoFrame, e2.present
      PROVE  /\ {"READ_WRITE"} \cup (e2.flags \cap {"USER"}) \subseteq e3.flags
             /\ {"READ_WRITE"} \cup (e2.flags \cap {"USER"}) \subseteq e4.flags
  <2>1. /\ IsLink(lev, Pdp(v), Index(v, 3), Pd(v)) /\ IsLink(lev, pml4, Index(v, 4), Pdp(v))
        /\ Index(v, 3) \in Slots /\ Index(v, 2) \in Slots
    BY <1>1, <1>2, <1>3, <1>4, PathFacts
  <2>2. e3.present  BY <2>1 DEF IsLink, PointsToTable
  <2>3. "READ_WRITE" \in e3.flags /\ ("USER" \in e2.flags => "USER" \in e3.flags)
    BY <1>2, <1>4, <2>1 DEF FlagsOf
  <2>4. "READ_WRITE" \in e4.flags /\ ("USER" \in e3.flags => "USER" \in e4.flags)
    BY <1>2, <2>1, <2>2 DEF FlagsOf
  <2> QED  BY <2>3, <2>4
<1>5. CASE Pt(v) # NoFrame
  <2>1. LeafOf(v) = e1 /\ e \in {e4, e3, e2}  BY <1>5 DEF LeafOf, Uppers
  <2>2. IsLink(lev, Pd(v), Index(v, 2), Pt(v)) /\ Pd(v) # NoFrame /\ Index(v, 1) \in Slots
    BY <1>1, <1>2, <1>3, <1>5, PathFacts
  <2>3. e2.present  BY <2>2 DEF IsLink, PointsToTable
  <2>4. "READ_WRITE" \in e2.flags /\ ("USER" \in e1.flags => "USER" \in e2.flags)
    BY <1>2, <2>1, <2>2 DEF FlagsOf
  <2> HIDE DEF e1, e2, e3, e4
  <2> QED  BY <1>4, <2>1, <2>2, <2>3, <2>4
<1>6. CASE Pt(v) = NoFrame /\ Pd(v) # NoFrame
  <2>1. LeafOf(v) = e2 /\ e \in {e4, e3}  BY <1>6 DEF LeafOf, Uppers
  <2> HIDE DEF e1, e2, e3, e4
  <2> QED  BY <1>4, <1>6, <2>1
<1>7. CASE Pt(v) = NoFrame /\ Pd(v) = NoFrame  BY <1>7 DEF LeafOf, Empty
<1> QED  BY <1>5, <1>6, <1>7

(* The permissions of a page are those of its leaf: no table above takes   *)
(* away what the leaf grants, in whatever order pages with and without     *)
(* USER come to share tables.                                              *)
THEOREM LeafAlwaysDecides == Spec => []LeafDecides
BY PagingInvariant, FlagsMeanLeafDecides, PTL
=============================================================================
