---------------------------- MODULE Stage2Proofs ----------------------------
(***************************************************************************)
(* The tables of all VMs, with the RAM they map, are a forest: a frame is  *)
(* led to from at most one entry, and from none if it is the first table   *)
(* of a VM.  map_page() keeps the forest and changes one walk of one VM,   *)
(* whatever frames and page it is given; the safety of stage 2, and that   *)
(* it implements PrivateMemory, follow from this.                          *)
(***************************************************************************)
EXTENDS Stage2, TLAPS

Entry  == [to : Nat, kind : Kinds]
Memory == [FrameNos -> [Index -> Entry]]

\* Entries that stand for a frame.
Points(e) == e.kind \in {"table", "ram"}

\* Nothing leads to frame f.
Loose(m, f) ==
  /\ \A v \in VMs : lv1[v] # f
  /\ \A t \in FrameNos, i \in Index : Points(m[t][i]) => m[t][i].to # f

\* The forest m, on the frames below n.
Forest(m, n) ==
  /\ \A v \in VMs : lv1[v] < n
  /\ \A v, w \in VMs : lv1[v] # None /\ lv1[v] = lv1[w] => v = w
  /\ \A t \in FrameNos, i \in Index : Points(m[t][i]) =>
       m[t][i].to < n /\ \A v \in VMs : lv1[v] # m[t][i].to
  /\ \A t, u \in FrameNos, i, j \in Index :
       Points(m[t][i]) /\ Points(m[u][j]) /\ m[t][i].to = m[u][j].to => t = u /\ i = j
  /\ \A t \in FrameNos, i \in Index : n <= t => m[t][i] = Empty

\* An entry of one of the first two levels.
Upper(e) == e = Empty \/ e.kind = "table"

\* The tables of the first two levels lead to tables only.
Levels(m) ==
  \A v \in VMs, i, j \in Index : lv1[v] # None =>
    /\ Upper(m[lv1[v]][i])
    /\ m[lv1[v]][i] # Empty => Upper(m[m[lv1[v]][i].to][j])

Sound(m, n) ==
  /\ m \in Memory /\ n \in 0 .. Frames /\ lv1 \in [VMs -> {None} \cup FrameNos]
  /\ Forest(m, n)
  /\ Levels(m)

\* Walk in a memory that is being built.
WalkIn(m, v, p) ==
  IF lv1[v] = None THEN Empty
  ELSE LET e1 == m[lv1[v]][Lv1(p)]
           e2 == m[e1.to][Lv2(p)]
       IN  IF e1 = Empty \/ e2 = Empty THEN Empty ELSE m[e2.to][Lv3(p)]

\* Where the loading of a VM is: what is still to be mapped is free.
Loading ==
  /\ pc \in {"image", "devices"} =>
       /\ lv1[vm] # None
       /\ \A q \in Pages : virt <= q => Walk(vm, q) = Empty
  /\ pc = "image" =>
       /\ virt + pages <= DeviceFirst
       /\ phys + pages <= taken
       /\ \A f \in phys .. phys + pages - 1 : Loose(memory, f)
  /\ pc = "devices" => virt \in DeviceFirst .. DeviceLast

\* The inductive invariant.
IInv == TypeOK /\ Sound(memory, taken) /\ Loading

-----------------------------------------------------------------------------
(* Page numbers *)

\* The three indices that the walk takes from a page are indices of tables.
LEMMA Indices ==
  ASSUME NEW p \in Pages PROVE Lv1(p) \in Index /\ Lv2(p) \in Index /\ Lv3(p) \in Index
<1> USE PagingAssumption
<1>1. p \in Nat /\ Entries \in Nat /\ Entries > 0 /\ Entries * Entries > 0
  BY DEF Pages
<1>2. p < Gigs * (Entries * Entries)
  BY DEF Pages
<1>3. p \div (Entries * Entries) < Gigs
  BY <1>1, <1>2
<1>4. p \div (Entries * Entries) \in Nat
  BY <1>1
<1>5. (p \div Entries) % Entries \in 0 .. Entries - 1 /\ p % Entries \in 0 .. Entries - 1
  BY <1>1
<1> QED BY <1>1, <1>3, <1>4, <1>5 DEF Index, Lv1, Lv2, Lv3

\* Dividing twice.
LEMMA DivDiv ==
  ASSUME NEW p \in Nat, NEW e \in Nat, e > 0
  PROVE  (p \div e) \div e = p \div (e * e)
<1> DEFINE a == p \div e
           b == a \div e
<1>1. a \in Nat /\ e * a <= p /\ p < e * a + e
  OBVIOUS
<1>2. b \in Nat /\ e * b <= a /\ a < e * b + e
  BY <1>1
<1> HIDE DEF a, b
<1>3. (e * e) * b <= p /\ p < (e * e) * b + (e * e)
  BY <1>1, <1>2
<1>4. p \div (e * e) = b
  BY <1>2, <1>3
<1> QED BY <1>4 DEF a, b

\* The three indices determine the page.
LEMMA SameIndices ==
  ASSUME NEW p \in Pages, NEW q \in Pages,
         Lv1(p) = Lv1(q), Lv2(p) = Lv2(q), Lv3(p) = Lv3(q)
  PROVE  p = q
<1> USE PagingAssumption
<1>1. p \in Nat /\ q \in Nat /\ Entries \in Nat /\ Entries > 0
  BY DEF Pages
<1>2. (p \div Entries) \div Entries = (q \div Entries) \div Entries
  BY <1>1, DivDiv DEF Lv1
<1>3. p \div Entries = q \div Entries
  BY <1>1, <1>2 DEF Lv2
<1> QED BY <1>1, <1>3 DEF Lv3

-----------------------------------------------------------------------------
(* Edits of the tables *)

\* An empty entry leads nowhere.
LEMMA EmptyEntry == Empty \in Entry /\ ~ Points(Empty)
BY DEF Empty, Entry, Kinds, Points

\* The entry of a table leads to it.
LEMMA TableEntry ==
  ASSUME NEW t \in Nat
  PROVE  /\ Table(t) \in Entry /\ Points(Table(t)) /\ Table(t) # Empty
         /\ Upper(Table(t)) /\ Table(t).to = t /\ Table(t).kind = "table"
BY DEF Table, Entry, Kinds, Points, Empty, Upper

\* An entry of the first two levels that is there is that of a table.
LEMMA UpperEntry ==
  ASSUME NEW e \in Entry, Upper(e), e # Empty
  PROVE  Points(e) /\ e = Table(e.to)
BY DEF Upper, Points, Entry, Table

\* w is m but for entry i of table t, which is e.
Edited(m, w, t, i, e) ==
  w \in Memory /\ \A u \in FrameNos, j \in Index : w[u][j] = IF u = t /\ j = i THEN e ELSE m[u][j]

\* If e leads to a frame, it is one below k that nothing but entry i of table
\* t leads to.
Fits(m, k, t, i, e) ==
  Points(e) => /\ e.to < k
               /\ \A v \in VMs : lv1[v] # e.to
               /\ \A u \in FrameNos, j \in Index :
                    Points(m[u][j]) /\ m[u][j].to = e.to => u = t /\ j = i

\* What EXCEPT does to one entry of one table.
LEMMA Edit ==
  ASSUME NEW m \in Memory, NEW t \in FrameNos, NEW i \in Index, NEW e \in Entry,
         NEW w, w = [m EXCEPT ![t][i] = e]
  PROVE  Edited(m, w, t, i, e)
BY DEF Memory, Edited

\* An entry may be written that leads to no frame, or to one that no other
\* entry leads to.
LEMMA EditKeepsForest ==
  ASSUME NEW m, NEW n, Sound(m, n), NEW k \in n .. Frames,
         NEW t \in FrameNos, t < k, NEW i \in Index, NEW e \in Entry, Fits(m, k, t, i, e),
         NEW w, Edited(m, w, t, i, e)
  PROVE  Forest(w, k)
<1>1. \A u \in FrameNos, j \in Index : w[u][j] = IF u = t /\ j = i THEN e ELSE m[u][j]
  BY DEF Edited
<1>2. n \in Nat /\ k \in Nat /\ n <= k /\ t \in Nat
  BY DEF Sound, FrameNos
<1>3. m \in Memory /\ lv1 \in [VMs -> {None} \cup FrameNos] /\ Forest(m, n)
  BY DEF Sound
<1>4. \A u \in FrameNos, j \in Index : m[u][j] \in Entry
  BY <1>3 DEF Memory
<1>5. /\ \A v \in VMs : lv1[v] < k
      /\ \A v, x \in VMs : lv1[v] # None /\ lv1[v] = lv1[x] => v = x
  BY <1>2, <1>3 DEF Forest, None, FrameNos
<1>6. \A u \in FrameNos, j \in Index : Points(w[u][j]) =>
        w[u][j].to < k /\ \A v \in VMs : lv1[v] # w[u][j].to
  BY <1>1, <1>2, <1>3, <1>4 DEF Forest, Entry, Fits
<1>7. \A u, x \in FrameNos, j, l \in Index :
        Points(w[u][j]) /\ Points(w[x][l]) /\ w[u][j].to = w[x][l].to => u = x /\ j = l
  BY <1>1, <1>3 DEF Forest, Fits
<1>8. \A u \in FrameNos, j \in Index : k <= u => w[u][j] = Empty
  BY <1>1, <1>2, <1>3 DEF Forest, FrameNos
<1> QED BY <1>5, <1>6, <1>7, <1>8 DEF Forest

\* Frames may be taken without being used yet.
LEMMA SoundLater ==
  ASSUME NEW m, NEW n, Sound(m, n), NEW k \in n .. Frames
  PROVE  Sound(m, k)
<1> USE DEF Sound, FrameNos, None
<1>1. \A t \in FrameNos, i \in Index : m[t][i].to \in Nat
  BY DEF Memory, Entry
<1> QED BY <1>1 DEF Forest

\* A frame that has not been taken is empty, and nothing leads to it.
LEMMA FreeFrame ==
  ASSUME NEW m, NEW n, Sound(m, n), NEW f \in FrameNos, n <= f
  PROVE  Loose(m, f) /\ \A i \in Index : m[f][i] = Empty
BY DEF Sound, Forest, Loose, FrameNos, None, Memory, Entry

\* map_table() returns a table that is there, or a fresh one; it stays the
\* only thing its entry leads to.
LEMMA MapTableKeeps ==
  ASSUME NEW m, NEW n, Sound(m, n), n < Frames,
         NEW t \in FrameNos, t < n, NEW i \in Index, Upper(m[t][i]),
         NEW t2, t2 = map_table(m, n, t, i),
         NEW n2, n2 = IF t2 = n THEN n + 1 ELSE n,
         NEW m2, Edited(m, m2, t, i, Table(t2))
  PROVE  /\ t2 \in FrameNos /\ n2 \in n .. Frames /\ t2 < n2
         /\ m2 \in Memory /\ Forest(m2, n2) /\ m2[t][i] = Table(t2)
         /\ \A u \in FrameNos, j \in Index : u # t \/ j # i => m2[u][j] = m[u][j]
         /\ m[t][i] # Empty => m2 = m
         /\ m[t][i] = Empty => t2 # t /\ \A j \in Index : m[t2][j] = Empty
         /\ \A f \in FrameNos : f # n /\ Loose(m, f) => Loose(m2, f)
<1>1. m \in Memory /\ Forest(m, n) /\ n \in Nat /\ n \in FrameNos /\ Frames \in Nat
  BY PagingAssumption DEF Sound, FrameNos
<1>2. m[t][i] \in Entry
  BY <1>1 DEF Memory
<1>3. CASE m[t][i] # Empty
  <2>1. Points(m[t][i]) /\ m[t][i] = Table(m[t][i].to) /\ t2 = m[t][i].to
    BY <1>2, <1>3, UpperEntry DEF map_table
  <2>2. t2 \in FrameNos /\ t2 < n
    BY <1>1, <1>2, <2>1 DEF Forest, FrameNos, Entry
  <2>3. n2 = n /\ n2 \in n .. Frames
    BY <1>1, <2>2 DEF FrameNos
  <2>4. m2 = m
    <3>1. /\ m \in Memory /\ m2 \in Memory
          /\ \A u \in FrameNos, j \in Index : m2[u][j] = m[u][j]
      BY <1>1, <2>1 DEF Edited
    <3> QED BY <3>1 DEF Memory
  <2> QED BY <1>1, <1>3, <2>1, <2>2, <2>3, <2>4 DEF Edited
<1>4. CASE m[t][i] = Empty
  <2>1. t2 = n /\ n2 = n + 1 /\ n2 \in n .. Frames /\ t2 \in FrameNos /\ t2 < n2 /\ t2 # t
    BY <1>1, <1>4 DEF map_table
  <2>2. Loose(m, t2) /\ \A j \in Index : m[t2][j] = Empty
    BY <1>1, <2>1, FreeFrame
  <2>3. /\ Table(t2) \in Entry /\ Points(Table(t2)) /\ Table(t2).to = t2
    BY <2>1, TableEntry DEF FrameNos
  <2>4. t < n2
    BY <1>1, <2>1 DEF FrameNos
  <2>5. Edited(m, m2, t, i, Table(t2))
    OBVIOUS
  <2>6. Forest(m2, n2)
    <3>1. Fits(m, n2, t, i, Table(t2))
      BY <2>1, <2>2, <2>3 DEF Fits, Loose
    <3> QED BY <2>1, <2>3, <2>4, <2>5, <3>1, EditKeepsForest
  <2>7. \A f \in FrameNos : f # n /\ Loose(m, f) => Loose(m2, f)
    BY <2>1, <2>3, <2>5 DEF Loose, Edited
  <2>8. /\ m2 \in Memory /\ m2[t][i] = Table(t2)
        /\ \A u \in FrameNos, j \in Index : u # t \/ j # i => m2[u][j] = m[u][j]
    BY <2>5 DEF Edited
  <2> QED BY <1>4, <2>1, <2>2, <2>6, <2>7, <2>8
<1> QED BY <1>3, <1>4

\* A table that is not one of the last level.
Inner(m, t) ==
  \A w \in VMs, j, k \in Index :
    LET e1 == m[lv1[w]][j]
        e2 == m[e1.to][k]
    IN  lv1[w] # None /\ e1 # Empty /\ e2 # Empty => e2.to # t

\* What the entries of a walk are.
LEMMA WalkEntries ==
  ASSUME NEW m, NEW n, Sound(m, n), NEW w \in VMs, lv1[w] # None,
         NEW j \in Index, NEW k \in Index
  PROVE  LET e1 == m[lv1[w]][j]
             e2 == m[e1.to][k]
         IN  /\ lv1[w] \in FrameNos /\ lv1[w] < n
             /\ e1 \in Entry /\ Upper(e1)
             /\ e1 # Empty =>
                  /\ Points(e1) /\ e1 = Table(e1.to) /\ e1.to \in FrameNos /\ e1.to < n
                  /\ e2 \in Entry /\ Upper(e2)
                  /\ e2 # Empty =>
                       Points(e2) /\ e2 = Table(e2.to) /\ e2.to \in FrameNos /\ e2.to < n
<1> DEFINE e1 == m[lv1[w]][j]
           e2 == m[e1.to][k]
<1>1. m \in Memory /\ Forest(m, n) /\ Levels(m) /\ n \in 0 .. Frames /\ Frames \in Nat
  BY PagingAssumption DEF Sound
<1>2. lv1[w] \in FrameNos /\ lv1[w] < n
  BY <1>1 DEF Sound, Forest
<1>3. e1 \in Entry /\ Upper(e1)
  BY <1>1, <1>2 DEF Memory, Levels
<1>4. ASSUME e1 # Empty
      PROVE  Points(e1) /\ e1 = Table(e1.to) /\ e1.to \in FrameNos /\ e1.to < n
  <2>1. Points(e1) /\ e1 = Table(e1.to)
    BY <1>3, <1>4, UpperEntry
  <2>2. e1.to < n /\ e1.to \in Nat
    BY <1>1, <1>2, <1>3, <2>1 DEF Forest, Entry
  <2> QED BY <1>1, <2>1, <2>2 DEF FrameNos
<1>5. ASSUME e1 # Empty PROVE e2 \in Entry /\ Upper(e2)
  BY <1>1, <1>4, <1>5 DEF Memory, Levels
<1>6. ASSUME e1 # Empty, e2 # Empty
      PROVE  Points(e2) /\ e2 = Table(e2.to) /\ e2.to \in FrameNos /\ e2.to < n
  <2>1. e1 \in Entry /\ e2 \in Entry /\ Upper(e2) /\ e1.to \in FrameNos
    BY <1>3, <1>4, <1>5, <1>6
  <2>2. Points(e2) /\ e2 = Table(e2.to)
    BY <1>6, <2>1, UpperEntry
  <2>3. e2.to < n
    BY <1>1, <2>1, <2>2 DEF Forest
  <2>4. e2.to \in FrameNos
    <3> HIDE DEF e2
    <3> QED BY <1>1, <2>1, <2>3 DEF FrameNos, Entry
  <2> QED BY <2>2, <2>3, <2>4
<1> QED BY <1>2, <1>3, <1>4, <1>5, <1>6

\* A fresh table at a level above the last changes no walk.
LEMMA FreshTableKeeps ==
  ASSUME NEW m, NEW n, Sound(m, n), NEW t \in FrameNos, NEW i \in Index, Inner(m, t),
         m[t][i] = Empty, NEW t2 \in FrameNos, t2 # t, \A j \in Index : m[t2][j] = Empty,
         NEW m2, Edited(m, m2, t, i, Table(t2))
  PROVE  /\ Levels(m2)
         /\ \A w \in VMs, q \in Pages : WalkIn(m2, w, q) = WalkIn(m, w, q)
<1>1. /\ Upper(Empty) /\ Upper(Table(t2)) /\ Table(t2) # Empty
      /\ Table(t2).to = t2
  BY TableEntry DEF FrameNos, Upper
<1>2. \A u \in FrameNos, j \in Index : m2[u][j] = IF u = t /\ j = i THEN Table(t2) ELSE m[u][j]
  BY DEF Edited
<1>3. \A j \in Index : m2[t2][j] = Empty
  BY <1>2
<1>4. SUFFICES ASSUME NEW w \in VMs, lv1[w] # None
               PROVE  /\ \A j, k \in Index :
                           /\ Upper(m2[lv1[w]][j])
                           /\ m2[lv1[w]][j] # Empty => Upper(m2[m2[lv1[w]][j].to][k])
                      /\ \A q \in Pages : WalkIn(m2, w, q) = WalkIn(m, w, q)
  BY DEF Levels, WalkIn
<1> DEFINE Last(x, j, k, l) ==
             IF x[lv1[w]][j] = Empty \/ x[x[lv1[w]][j].to][k] = Empty
             THEN Empty ELSE x[x[x[lv1[w]][j].to][k].to][l]
<1>5. ASSUME NEW j \in Index, NEW k \in Index, NEW l \in Index
      PROVE  LET e1 == m[lv1[w]][j]
                 e2 == m[e1.to][k]
                 d1 == m2[lv1[w]][j]
                 d2 == m2[d1.to][k]
             IN  /\ Upper(d1) /\ (d1 # Empty => Upper(d2))
                 /\ Last(m2, j, k, l) = Last(m, j, k, l)
  <2> DEFINE e1 == m[lv1[w]][j]
             e2 == m[e1.to][k]
             d1 == m2[lv1[w]][j]
             d2 == m2[d1.to][k]
  <2>1. /\ lv1[w] \in FrameNos /\ Upper(e1)
        /\ e1 # Empty =>
             /\ e1.to \in FrameNos /\ Upper(e2)
             /\ e2 # Empty => e2.to \in FrameNos /\ e2.to # t
    BY <1>4, WalkEntries DEF Inner
  <2>2. CASE lv1[w] = t /\ j = i
    <3>1. d1 = Table(t2) /\ d2 = Empty /\ e1 = Empty
      BY <1>1, <1>2, <1>3, <2>1, <2>2
    <3> QED BY <1>1, <3>1
  <2>3. CASE ~ (lv1[w] = t /\ j = i) /\ e1 = Empty
    BY <1>1, <1>2, <2>1, <2>3
  <2>4. CASE ~ (lv1[w] = t /\ j = i) /\ e1 # Empty /\ e1.to = t /\ k = i
    <3>0. d1 = e1 /\ e1.to = t
      BY <1>2, <2>1, <2>4
    <3>1. d1 = e1 /\ d2 = Table(t2) /\ e2 = Empty /\ m2[d2.to][l] = Empty
      <4>1. d2 = Table(t2)
        BY <1>2, <2>4, <3>0
      <4>2. m2[d2.to][l] = Empty
        BY <1>1, <1>3, <4>1
      <4>3. e2 = Empty
        BY <2>4
      <4> QED BY <3>0, <4>1, <4>2, <4>3
    <3>2. Upper(d1) /\ Upper(d2)
      BY <1>1, <2>1, <3>1
    <3>3. Last(m, j, k, l) = Empty
      BY <3>1
    <3>4. Last(m2, j, k, l) = Empty
      BY <3>1
    <3> QED BY <3>2, <3>3, <3>4
  <2>5. CASE ~ (lv1[w] = t /\ j = i) /\ e1 # Empty /\ ~ (e1.to = t /\ k = i)
    <3>1. d1 = e1 /\ d2 = e2
      BY <1>2, <2>1, <2>5
    <3>2. e2 # Empty => m2[e2.to][l] = m[e2.to][l]
      BY <1>2, <2>1, <2>5
    <3> QED BY <2>1, <2>5, <3>1, <3>2
  <2> QED BY <2>2, <2>3, <2>4, <2>5
<1>6. ASSUME NEW q \in Pages PROVE WalkIn(m2, w, q) = WalkIn(m, w, q)
  <2>1. Lv1(q) \in Index /\ Lv2(q) \in Index /\ Lv3(q) \in Index
    BY Indices
  <2>2. Last(m2, Lv1(q), Lv2(q), Lv3(q)) = Last(m, Lv1(q), Lv2(q), Lv3(q))
    <3> HIDE DEF Last
    <3> QED BY <1>5, <2>1
  <2> QED BY <1>4, <2>2 DEF WalkIn
<1> QED BY <1>5, <1>6

\* The first table of a VM, and a table it leads to, are not of the last level.
LEMMA InnerTables ==
  ASSUME NEW m, NEW n, Sound(m, n), NEW v \in VMs, lv1[v] # None, NEW i \in Index
  PROVE  Inner(m, lv1[v]) /\ (m[lv1[v]][i] # Empty => Inner(m, m[lv1[v]][i].to))
<1>1. Forest(m, n) /\ lv1[v] \in FrameNos
  BY WalkEntries DEF Sound
<1>2. ASSUME NEW w \in VMs, NEW j \in Index, NEW k \in Index, lv1[w] # None,
             m[lv1[w]][j] # Empty, m[m[lv1[w]][j].to][k] # Empty
      PROVE  /\ m[m[lv1[w]][j].to][k].to # lv1[v]
             /\ m[lv1[v]][i] # Empty => m[m[lv1[w]][j].to][k].to # m[lv1[v]][i].to
  <2> DEFINE e1 == m[lv1[w]][j]
             e2 == m[e1.to][k]
             a  == m[lv1[v]][i]
  <2>1. /\ lv1[w] \in FrameNos /\ Points(e1) /\ e1.to \in FrameNos /\ Points(e2)
    BY <1>2, WalkEntries
  <2>2. e2.to # lv1[v] /\ e1.to # lv1[v]
    <3>1. \A t \in FrameNos, q \in Index : Points(m[t][q]) => lv1[v] # m[t][q].to
      BY <1>1 DEF Forest
    <3> QED BY <1>2, <2>1, <3>1
  <2>3. a # Empty => Points(a)
    BY WalkEntries
  <2>4. a # Empty => e2.to # a.to
    BY <1>1, <2>1, <2>2, <2>3 DEF Forest
  <2> QED BY <2>2, <2>4
<1> QED BY <1>2 DEF Inner

\* One of the two calls of map_table() in map_page().
LEMMA MapTableSound ==
  ASSUME NEW m, NEW n, Sound(m, n), n < Frames,
         NEW t \in FrameNos, t < n, NEW i \in Index, Upper(m[t][i]), Inner(m, t),
         NEW t2, t2 = map_table(m, n, t, i),
         NEW n2, n2 = IF t2 = n THEN n + 1 ELSE n,
         NEW m2, Edited(m, m2, t, i, Table(t2))
  PROVE  /\ Sound(m2, n2)
         /\ t2 \in FrameNos /\ n2 \in n .. Frames /\ t2 < n2 /\ m2[t][i] = Table(t2)
         /\ \A u \in FrameNos, j \in Index : u # t \/ j # i => m2[u][j] = m[u][j]
         /\ m[t][i] = Empty => \A j \in Index : m2[t2][j] = Empty
         /\ m[t][i] # Empty => m2 = m
         /\ \A w \in VMs, q \in Pages : WalkIn(m2, w, q) = WalkIn(m, w, q)
         /\ \A f \in FrameNos : f # n /\ Loose(m, f) => Loose(m2, f)
<1>1. /\ t2 \in FrameNos /\ n2 \in n .. Frames /\ t2 < n2
      /\ m2 \in Memory /\ Forest(m2, n2) /\ m2[t][i] = Table(t2)
      /\ \A u \in FrameNos, j \in Index : u # t \/ j # i => m2[u][j] = m[u][j]
      /\ m[t][i] # Empty => m2 = m
      /\ m[t][i] = Empty => t2 # t /\ \A j \in Index : m[t2][j] = Empty
      /\ \A f \in FrameNos : f # n /\ Loose(m, f) => Loose(m2, f)
  BY MapTableKeeps
<1>2. m \in Memory /\ Levels(m) /\ n \in 0 .. Frames
      /\ lv1 \in [VMs -> {None} \cup FrameNos]
  BY DEF Sound
<1>3. /\ Levels(m2)
      /\ \A w \in VMs, q \in Pages : WalkIn(m2, w, q) = WalkIn(m, w, q)
  <2>1. CASE m[t][i] # Empty
    BY <1>1, <1>2, <2>1
  <2>2. CASE m[t][i] = Empty
    <3> QED BY <1>1, <2>2, FreshTableKeeps
  <2> QED BY <2>1, <2>2
<1>4. n2 \in 0 .. Frames
  BY <1>1, <1>2, PagingAssumption
<1>5. Sound(m2, n2)
  BY <1>1, <1>2, <1>3, <1>4 DEF Sound
<1> QED BY <1>1, <1>3, <1>5

\* The last write of map_page().
LEMMA LeafSound ==
  ASSUME NEW m, NEW n, Sound(m, n), NEW v \in VMs, lv1[v] # None, NEW p \in Pages,
         NEW t2 \in FrameNos, m[lv1[v]][Lv1(p)] = Table(t2),
         NEW t3 \in FrameNos, t3 < n, m[t2][Lv2(p)] = Table(t3),
         NEW e \in Entry, e.kind \in {"ram", "device"},
         e.kind = "ram" => e.to < n /\ Loose(m, e.to),
         NEW w, Edited(m, w, t3, Lv3(p), e)
  PROVE  /\ Sound(w, n)
         /\ \A x \in VMs, q \in Pages :
              WalkIn(w, x, q) = IF x = v /\ q = p THEN e ELSE WalkIn(m, x, q)
         /\ \A f \in FrameNos : Loose(m, f) /\ (e.kind = "ram" => f # e.to) => Loose(w, f)
<1>1. /\ m \in Memory /\ Forest(m, n) /\ Levels(m) /\ n \in 0 .. Frames
      /\ lv1 \in [VMs -> {None} \cup FrameNos]
  BY DEF Sound
<1>2. Lv1(p) \in Index /\ Lv2(p) \in Index /\ Lv3(p) \in Index
  BY Indices
<1>3. /\ \A u \in FrameNos, j \in Index : w[u][j] = IF u = t3 /\ j = Lv3(p) THEN e ELSE m[u][j]
      /\ w \in Memory
  BY DEF Edited
<1>4. Forest(w, n)
  <2>1. Fits(m, n, t3, Lv3(p), e)
    BY DEF Fits, Points, Loose
  <2>2. n \in n .. Frames
    BY <1>1, PagingAssumption
  <2> QED BY <1>2, <2>1, <2>2, EditKeepsForest
<1>5. /\ Points(Table(t2)) /\ Table(t2).to = t2 /\ Points(Table(t3)) /\ Table(t3).to = t3
      /\ Table(t2) # Empty /\ Table(t3) # Empty
  BY TableEntry DEF FrameNos
<1>6. lv1[v] \in FrameNos
  BY <1>1
<1>7. \A x \in VMs : lv1[x] # t2 /\ lv1[x] # t3
  BY <1>1, <1>2, <1>5, <1>6 DEF Forest
<1>8. ASSUME NEW x \in VMs, lv1[x] # None, NEW j \in Index, NEW k \in Index
      PROVE  LET e1 == m[lv1[x]][j]
                 e2 == m[e1.to][k]
             IN  /\ w[lv1[x]][j] = e1
                 /\ e1 # Empty => /\ w[e1.to][k] = e2
                                  /\ e2 # Empty /\ e2.to = t3 => x = v /\ j = Lv1(p) /\ k = Lv2(p)
                                  /\ e2 # Empty => e2.to \in FrameNos
  <2> DEFINE e1 == m[lv1[x]][j]
             e2 == m[e1.to][k]
  <2>1. /\ lv1[x] \in FrameNos
        /\ e1 # Empty =>
             /\ Points(e1) /\ e1.to \in FrameNos
             /\ e2 # Empty => Points(e2) /\ e2.to \in FrameNos
    BY <1>8, WalkEntries
  <2>2. w[lv1[x]][j] = e1
    BY <1>3, <1>7, <2>1
  <2>3. e1 # Empty => e1.to # t3
    BY <1>1, <1>2, <1>5, <1>7, <2>1 DEF Forest
  <2>4. e1 # Empty => w[e1.to][k] = e2
    BY <1>3, <2>1, <2>3
  <2>5. ASSUME e1 # Empty, e2 # Empty, e2.to = t3
        PROVE  x = v /\ j = Lv1(p) /\ k = Lv2(p)
    <3>1. e1.to = t2 /\ k = Lv2(p)
      BY <1>1, <1>2, <1>5, <2>1, <2>5 DEF Forest
    <3>2. lv1[x] = lv1[v] /\ j = Lv1(p)
      BY <1>1, <1>2, <1>5, <1>6, <2>1, <2>5, <3>1 DEF Forest
    <3> QED BY <1>1, <1>8, <3>1, <3>2 DEF Forest
  <2> QED BY <2>1, <2>2, <2>4, <2>5
<1>9. Levels(w)
  <2>1. SUFFICES ASSUME NEW x \in VMs, lv1[x] # None, NEW j \in Index, NEW k \in Index
                 PROVE  /\ Upper(w[lv1[x]][j])
                        /\ w[lv1[x]][j] # Empty => Upper(w[w[lv1[x]][j].to][k])
    BY DEF Levels
  <2>2. /\ Upper(m[lv1[x]][j])
        /\ m[lv1[x]][j] # Empty => Upper(m[m[lv1[x]][j].to][k])
    BY <1>1, <2>1 DEF Levels
  <2>3. /\ w[lv1[x]][j] = m[lv1[x]][j]
        /\ m[lv1[x]][j] # Empty => w[m[lv1[x]][j].to][k] = m[m[lv1[x]][j].to][k]
    BY ZenonT(40), <1>8, <2>1
  <2> QED BY <2>2, <2>3
<1>10. ASSUME NEW x \in VMs, NEW q \in Pages
       PROVE  WalkIn(w, x, q) = IF x = v /\ q = p THEN e ELSE WalkIn(m, x, q)
  <2>1. CASE lv1[x] = None
    BY <2>1 DEF WalkIn
  <2>2. CASE lv1[x] # None
    <3> DEFINE e1 == m[lv1[x]][Lv1(q)]
               e2 == m[e1.to][Lv2(q)]
    <3>1. Lv1(q) \in Index /\ Lv2(q) \in Index /\ Lv3(q) \in Index
      BY Indices
    <3>2. /\ w[lv1[x]][Lv1(q)] = e1
          /\ e1 # Empty =>
               /\ w[e1.to][Lv2(q)] = e2
               /\ e2 # Empty /\ e2.to = t3 => x = v /\ Lv1(q) = Lv1(p) /\ Lv2(q) = Lv2(p)
               /\ e2 # Empty => e2.to \in FrameNos
      BY <1>8, <2>2, <3>1
    <3>3. CASE x = v /\ q = p
      <4>1. e1 = Table(t2) /\ e2 = Table(t3) /\ w[t3][Lv3(q)] = e
        BY <1>2, <1>3, <1>5, <3>3
      <4>2. WalkIn(w, x, q) = e
        BY <1>5, <2>2, <3>2, <4>1 DEF WalkIn
      <4> QED BY <3>3, <4>2
    <3>4. CASE ~ (x = v /\ q = p)
      <4>1. ASSUME e1 # Empty, e2 # Empty PROVE w[e2.to][Lv3(q)] = m[e2.to][Lv3(q)]
        <5>1. ~ (e2.to = t3 /\ Lv3(q) = Lv3(p))
          BY <3>2, <3>4, <4>1, SameIndices
        <5> QED BY <1>3, <3>1, <3>2, <4>1, <5>1
      <4>2. WalkIn(w, x, q) = WalkIn(m, x, q)
        BY <3>2, <4>1 DEF WalkIn
      <4> QED BY <3>4, <4>2
    <3> QED BY <3>3, <3>4
  <2> QED BY <2>1, <2>2
<1>11. \A f \in FrameNos : Loose(m, f) /\ (e.kind = "ram" => f # e.to) => Loose(w, f)
  BY <1>3 DEF Loose, Points
<1> QED BY <1>1, <1>3, <1>4, <1>9, <1>10, <1>11 DEF Sound

-----------------------------------------------------------------------------
(* map_page() *)

\* map_page() keeps the forest and changes one walk, that of its page: tables
\* that are there are found again, and those of the other VMs are not touched.
THEOREM MapPageSound ==
  ASSUME NEW free, Sound(memory, free), free + 2 <= Frames,
         NEW v \in VMs, lv1[v] # None, NEW page \in Pages,
         NEW frame \in Nat, NEW kind \in {"ram", "device"},
         kind = "ram" => frame < free /\ Loose(memory, frame),
         map_page(v, free, frame, page, kind)
  PROVE  /\ Sound(memory', taken') /\ taken' \in free .. Frames
         /\ \A w \in VMs, q \in Pages :
              WalkIn(memory', w, q) =
                IF w = v /\ q = page THEN [to |-> frame, kind |-> kind] ELSE Walk(w, q)
         /\ \A f \in FrameNos : f < free /\ Loose(memory, f) /\ (kind = "ram" => f # frame) =>
              Loose(memory', f)
<1> DEFINE i1 == Lv1(page)
           i2 == Lv2(page)
           i3 == Lv3(page)
           table2 == map_table(memory, free, lv1[v], i1)
           free2  == IF table2 = free THEN free + 1 ELSE free
           with2  == [memory EXCEPT ![lv1[v]][i1] = Table(table2)]
           table3 == map_table(with2, free2, table2, i2)
           free3  == IF table3 = free2 THEN free2 + 1 ELSE free2
           with3  == [with2 EXCEPT ![table2][i2] = Table(table3)]
           e      == [to |-> frame, kind |-> kind]
<1>1. memory' = [with3 EXCEPT ![table3][i3] = e] /\ taken' = free3
  BY DEF map_page
<1>2. /\ memory \in Memory /\ free \in Nat /\ free < Frames /\ Frames \in Nat
      /\ i1 \in Index /\ i2 \in Index /\ i3 \in Index
      /\ e \in Entry /\ e.kind = kind /\ e.to = frame
  BY Indices, PagingAssumption DEF Sound, Entry, Kinds
<1>3. lv1[v] \in FrameNos /\ lv1[v] < free /\ Upper(memory[lv1[v]][i1])
  BY <1>2, WalkEntries
<1>4. Inner(memory, lv1[v])
  BY <1>2, InnerTables
<1>5. Edited(memory, with2, lv1[v], i1, Table(table2))
  <2>1. table2 \in Nat
    BY <1>2, <1>3 DEF map_table, Memory, Entry
  <2>2. Table(table2) \in Entry
    BY <2>1, TableEntry
  <2> QED BY <1>2, <1>3, <2>2, Edit
<1>6. /\ Sound(with2, free2)
      /\ table2 \in FrameNos /\ free2 \in free .. Frames /\ table2 < free2
      /\ with2[lv1[v]][i1] = Table(table2)
      /\ \A w \in VMs, q \in Pages : WalkIn(with2, w, q) = WalkIn(memory, w, q)
      /\ \A f \in FrameNos : f # free /\ Loose(memory, f) => Loose(with2, f)
  <2> HIDE DEF with2, table2, i1
  <2>1. table2 = map_table(memory, free, lv1[v], i1)
    BY DEF table2
  <2> QED BY <1>2, <1>3, <1>4, <1>5, <2>1, MapTableSound
<1>7. free2 < Frames /\ free2 \in Nat
  BY <1>2
<1> HIDE DEF with2, free2, table2, i1, i2, i3, e
<1>8. Table(table2) # Empty /\ Table(table2).to = table2 /\ Points(Table(table2))
  BY <1>6, TableEntry DEF FrameNos
<1>9. Upper(with2[table2][i2])
  <2>1. with2[lv1[v]][i1] # Empty /\ with2[lv1[v]][i1].to = table2
    BY <1>6, <1>8
  <2> QED BY <1>2, <1>6, <2>1, WalkEntries
<1>10. Inner(with2, table2)
  BY <1>2, <1>6, <1>8, InnerTables
<1>11. Edited(with2, with3, table2, i2, Table(table3))
  <2>1. with2 \in Memory
    BY <1>6 DEF Sound
  <2>2. table3 \in Nat
    BY <1>2, <1>6, <1>7, <2>1 DEF map_table, Memory, Entry
  <2>3. Table(table3) \in Entry
    BY <2>2, TableEntry
  <2> QED BY <1>2, <1>6, <2>1, <2>3, Edit
<1>12. /\ Sound(with3, free3)
       /\ table3 \in FrameNos /\ free3 \in free2 .. Frames /\ table3 < free3
       /\ with3[table2][i2] = Table(table3)
       /\ \A u \in FrameNos, j \in Index : u # table2 \/ j # i2 => with3[u][j] = with2[u][j]
       /\ \A w \in VMs, q \in Pages : WalkIn(with3, w, q) = WalkIn(with2, w, q)
       /\ \A f \in FrameNos : f # free2 /\ Loose(with2, f) => Loose(with3, f)
  <2> HIDE DEF with3, table3
  <2>1. table3 = map_table(with2, free2, table2, i2)
    BY DEF table3
  <2> QED BY <1>2, <1>6, <1>7, <1>9, <1>10, <1>11, <2>1, MapTableSound
<1>13. with3[lv1[v]][i1] = Table(table2)
  <2>1. lv1[v] # table2
    BY <1>2, <1>3, <1>6, <1>8 DEF Sound, Forest
  <2> QED BY <1>2, <1>3, <1>6, <1>12, <2>1
<1> HIDE DEF with3, table3, free3
<1>14. e.kind = "ram" => e.to < free3 /\ Loose(with3, e.to)
  <2>1. ASSUME kind = "ram"
        PROVE  frame \in FrameNos /\ frame < free /\ free <= free2 /\ free2 <= free3
               /\ Loose(memory, frame) /\ free3 \in Nat
    BY <1>2, <1>6, <1>7, <1>12, <2>1 DEF FrameNos
  <2>2. ASSUME kind = "ram" PROVE Loose(with3, frame)
    BY <1>2, <1>6, <1>7, <1>12, <2>1, <2>2
  <2> QED BY <1>2, <1>7, <2>1, <2>2
<1>15. Edited(with3, memory', table3, i3, e)
  <2>1. with3 \in Memory
    BY <1>12 DEF Sound
  <2> QED BY <1>1, <1>2, <1>12, <2>1, Edit
<1>16. /\ Sound(memory', free3)
       /\ \A x \in VMs, q \in Pages :
            WalkIn(memory', x, q) = IF x = v /\ q = page THEN e ELSE WalkIn(with3, x, q)
       /\ \A f \in FrameNos : Loose(with3, f) /\ (e.kind = "ram" => f # e.to) => Loose(memory', f)
  BY <1>2, <1>6, <1>12, <1>13, <1>14, <1>15, LeafSound DEF i1, i2, i3
<1>17. ASSUME NEW w \in VMs, NEW q \in Pages
       PROVE  WalkIn(memory', w, q) =
                IF w = v /\ q = page THEN [to |-> frame, kind |-> kind] ELSE Walk(w, q)
  <2>1. WalkIn(memory, w, q) = Walk(w, q)
    BY DEF WalkIn, Walk
  <2> QED BY <1>6, <1>12, <1>16, <2>1 DEF e
<1>18. ASSUME NEW f \in FrameNos, f < free, Loose(memory, f), kind = "ram" => f # frame
       PROVE  Loose(memory', f)
  BY <1>2, <1>6, <1>7, <1>12, <1>16, <1>18
<1>19. taken' \in free .. Frames
  BY <1>1, <1>2, <1>6, <1>7, <1>12
<1> QED BY <1>1, <1>16, <1>17, <1>18, <1>19

-----------------------------------------------------------------------------
(* The inductive invariant, action by action *)

\* A step that leaves the first tables alone.
LEMMA SameRoots ==
  ASSUME lv1' = lv1
  PROVE  /\ Sound(memory', taken') => Sound(memory, taken)'
         /\ \A f \in FrameNos : Loose(memory', f) => Loose(memory, f)'
         /\ \A w \in VMs, q \in Pages : Walk(w, q)' = WalkIn(memory', w, q)
BY DEF Sound, Forest, Levels, Loose, Walk, WalkIn

\* The devices lie below the end of the guest address space.
LEMMA PagesBelow == \A q \in 0 .. DeviceLast : q \in Pages
<1>1. Entries * Entries \in Nat /\ Gigs * Entries * Entries >= Entries * Entries
  BY PagingAssumption
<1> QED BY <1>1, PagingAssumption DEF Pages

\* Before vm_init() there are no tables.
THEOREM InitIInv == Init => IInv
<1> SUFFICES ASSUME Init PROVE IInv
  OBVIOUS
<1> USE DEF Init
<1>1. \A t \in FrameNos, i \in Index : memory[t][i] = Empty
  OBVIOUS
<1>2. TypeOK /\ memory \in Memory
  BY EmptyEntry, PagingAssumption DEF TypeOK, Memory, Entry
<1>3. Forest(memory, taken) /\ Levels(memory)
  BY <1>1, EmptyEntry DEF Forest, Levels, None
<1>4. Sound(memory, taken)
  BY <1>2, <1>3, PagingAssumption DEF Sound, None
<1> QED BY <1>2, <1>4 DEF IInv, Loading

\* A new VM has an empty first table, and its image is read into frames that
\* nothing leads to.
LEMMA CreateVmStep ==
  ASSUME IInv, NEW v \in VMs, CreateVm(v)
  PROVE  IInv' /\ \A w \in VMs, q \in Pages : Walk(w, q)' = Walk(w, q)
<1>1. PICK n \in 1 .. MaxImage : Room(n + 1) /\ pages' = n /\ taken' = taken + n + 1
  BY DEF CreateVm
<1>2. /\ lv1[v] = None /\ lv1' = [lv1 EXCEPT ![v] = taken] /\ memory' = memory /\ pc' = "image"
      /\ vm' = v /\ virt' = LoadPage /\ phys' = taken + 1
  BY DEF CreateVm
<1>3. /\ TypeOK /\ Sound(memory, taken)
      /\ Frames \in Nat /\ MaxImage \in Nat /\ LoadPage \in Nat /\ DeviceFirst \in Nat
      /\ LoadPage + MaxImage <= DeviceFirst
  BY PagingAssumption DEF IInv
<1>4. /\ taken \in FrameNos /\ taken \in Nat /\ taken' \in 0 .. Frames /\ taken < taken'
      /\ taken # None
  BY <1>1, <1>3 DEF Room, FrameNos, TypeOK, None
<1>5. /\ lv1 \in [VMs -> {None} \cup FrameNos] /\ lv1' \in [VMs -> {None} \cup FrameNos]
      /\ \A w \in VMs : lv1'[w] = IF w = v THEN taken ELSE lv1[w]
  BY <1>2, <1>3, <1>4 DEF TypeOK
<1>6. TypeOK'
  BY <1>1, <1>2, <1>3, <1>4, <1>5 DEF TypeOK
<1>7. \A i \in Index : memory[taken][i] = Empty
  BY <1>3, <1>4, FreeFrame
<1>8. /\ memory \in Memory /\ Forest(memory, taken) /\ Levels(memory)
      /\ \A w \in VMs : lv1[w] < taken
      /\ \A t \in FrameNos, i \in Index :
           memory[t][i].to \in Nat /\ (Points(memory[t][i]) => memory[t][i].to < taken)
  BY <1>3 DEF Sound, Forest, Memory, Entry
<1>9. Forest(memory, taken)'
  <2>1. /\ \A w \in VMs : lv1'[w] < taken'
        /\ \A w, x \in VMs : lv1'[w] # None /\ lv1'[w] = lv1'[x] => w = x
    BY <1>4, <1>5, <1>8 DEF Forest, None, FrameNos
  <2>2. \A t \in FrameNos, i \in Index : Points(memory[t][i]) =>
          memory[t][i].to < taken' /\ \A w \in VMs : lv1'[w] # memory[t][i].to
    BY <1>4, <1>5, <1>8 DEF Forest
  <2>3. \A t \in FrameNos, i \in Index : taken' <= t => memory[t][i] = Empty
    BY <1>4, <1>8 DEF Forest, FrameNos
  <2> QED BY <1>2, <1>8, <2>1, <2>2, <2>3 DEF Forest
<1>10. Levels(memory)'
  <2>1. SUFFICES ASSUME NEW w \in VMs, lv1'[w] # None, NEW i \in Index, NEW j \in Index
                 PROVE  /\ Upper(memory[lv1'[w]][i])
                        /\ memory[lv1'[w]][i] # Empty => Upper(memory[memory[lv1'[w]][i].to][j])
    BY <1>2 DEF Levels
  <2>2. CASE w = v
    BY <1>5, <1>7, <2>2 DEF Upper
  <2>3. CASE w # v
    BY <1>5, <1>8, <2>1, <2>3 DEF Levels
  <2> QED BY <2>2, <2>3
<1>11. Sound(memory, taken)'
  BY <1>2, <1>4, <1>5, <1>8, <1>9, <1>10 DEF Sound
<1>12. ASSUME NEW w \in VMs, NEW q \in Pages PROVE Walk(w, q)' = Walk(w, q)
  BY <1>2, <1>4, <1>5, <1>7, Indices DEF Walk
<1>13. \A q \in Pages : Walk(v, q)' = Empty
  BY ZenonT(40), <1>2, <1>12 DEF Walk
<1>14. ASSUME NEW f \in phys' .. phys' + pages' - 1 PROVE Loose(memory, f)'
  <2>1. f \in FrameNos /\ taken <= f /\ f # taken
    BY <1>1, <1>2, <1>3, <1>4 DEF FrameNos
  <2>2. Loose(memory, f)
    BY <1>3, <2>1, FreeFrame
  <2> QED BY <1>2, <1>5, <2>1, <2>2 DEF Loose
<1>15. Loading'
  BY <1>1, <1>2, <1>3, <1>4, <1>5, <1>13, <1>14 DEF Loading
<1> QED BY <1>6, <1>11, <1>12, <1>15 DEF IInv

\* Entry e is placed at page p of v, which leads nowhere yet.
Placed(v, p, e) ==
  \A w \in VMs, q \in Pages : Walk(w, q)' = IF w = v /\ q = p THEN e ELSE Walk(w, q)

\* The next page of the image is placed where nothing was.
LEMMA MapImageStep ==
  ASSUME IInv, MapImage
  PROVE  /\ IInv' /\ Placed(vm, virt, [to |-> phys, kind |-> "ram"])
         /\ virt \in Pages /\ Walk(vm, virt) = Empty /\ phys \in FrameNos /\ Loose(memory, phys)
<1>1. /\ pc = "image" /\ pages > 0 /\ Room(2) /\ map_page(vm, taken, phys, virt, "ram")
      /\ phys' = phys + 1 /\ virt' = virt + 1 /\ pages' = pages - 1
      /\ lv1' = lv1 /\ pc' = pc /\ vm' = vm
  BY DEF MapImage
<1>2. /\ Sound(memory, taken) /\ vm \in VMs /\ virt \in Nat /\ phys \in Nat
      /\ pages \in 0 .. MaxImage /\ MaxImage \in Nat /\ taken \in 0 .. Frames /\ Frames \in Nat
      /\ DeviceFirst \in Nat /\ DeviceLast \in Nat /\ DeviceFirst <= DeviceLast
      /\ lv1[vm] # None /\ virt + pages <= DeviceFirst /\ phys + pages <= taken
      /\ \A f \in phys .. phys + pages - 1 : Loose(memory, f)
      /\ \A q \in Pages : virt <= q => Walk(vm, q) = Empty
      /\ lv1 \in [VMs -> {None} \cup FrameNos]
  BY <1>1, PagingAssumption DEF IInv, TypeOK, Loading
<1>3. /\ virt \in Pages /\ phys < taken /\ Loose(memory, phys) /\ taken + 2 <= Frames
      /\ phys \in FrameNos /\ Walk(vm, virt) = Empty
  BY <1>1, <1>2, PagesBelow DEF Room, FrameNos
<1>4. /\ Sound(memory', taken') /\ taken' \in taken .. Frames
      /\ \A w \in VMs, q \in Pages :
           WalkIn(memory', w, q) =
             IF w = vm /\ q = virt THEN [to |-> phys, kind |-> "ram"] ELSE Walk(w, q)
      /\ \A f \in FrameNos : f < taken /\ Loose(memory, f) /\ f # phys => Loose(memory', f)
  BY <1>1, <1>2, <1>3, MapPageSound
<1>5. Placed(vm, virt, [to |-> phys, kind |-> "ram"])
  BY <1>1, <1>4, SameRoots DEF Placed
<1>6. TypeOK'
  BY <1>1, <1>2, <1>4 DEF TypeOK, Sound, Memory, Entry
<1>7. \A q \in Pages : virt' <= q => Walk(vm, q)' = Empty
  BY <1>1, <1>2, <1>5 DEF Placed, Pages
<1>8. ASSUME NEW f \in phys' .. phys' + pages' - 1 PROVE Loose(memory, f)'
  <2>1. f \in FrameNos /\ f < taken /\ f # phys /\ f \in phys .. phys + pages - 1
    BY <1>1, <1>2 DEF FrameNos
  <2> QED BY <1>1, <1>2, <1>4, <2>1, SameRoots
<1>9. Loading'
  BY <1>1, <1>2, <1>4, <1>7, <1>8 DEF Loading
<1> QED BY <1>1, <1>3, <1>4, <1>5, <1>6, <1>9, SameRoots DEF IInv

\* Above the image nothing is mapped yet.
LEMMA ImageMappedStep ==
  ASSUME IInv, ImageMapped
  PROVE  IInv' /\ \A w \in VMs, q \in Pages : Walk(w, q)' = Walk(w, q)
<1>1. /\ pc = "image" /\ pages = 0 /\ virt' = DeviceFirst /\ pc' = "devices"
      /\ memory' = memory /\ taken' = taken /\ lv1' = lv1 /\ vm' = vm /\ phys' = phys
      /\ pages' = pages
  BY DEF ImageMapped
<1>2. /\ TypeOK /\ Sound(memory, taken) /\ virt \in Nat /\ virt <= DeviceFirst
      /\ DeviceFirst \in Nat /\ DeviceLast \in Nat /\ DeviceFirst <= DeviceLast
      /\ lv1[vm] # None /\ \A q \in Pages : virt <= q => Walk(vm, q) = Empty
  BY <1>1, PagingAssumption DEF IInv, TypeOK, Loading
<1>3. \A w \in VMs, q \in Pages : Walk(w, q)' = Walk(w, q)
  BY <1>1 DEF Walk
<1>4. Sound(memory, taken)' /\ TypeOK'
  BY <1>1, <1>2, SameRoots DEF TypeOK
<1>5. \A q \in Pages : virt' <= q => Walk(vm, q)' = Empty
  BY <1>1, <1>2, <1>3 DEF Pages, TypeOK
<1>6. Loading'
  BY <1>1, <1>2, <1>5 DEF Loading
<1> QED BY <1>3, <1>4, <1>6 DEF IInv

\* The next device page is placed where nothing was.
LEMMA MapDeviceStep ==
  ASSUME IInv, MapDevice
  PROVE  /\ IInv' /\ Placed(vm, virt, [to |-> virt, kind |-> "device"])
         /\ virt \in Pages /\ Walk(vm, virt) = Empty
<1>1. /\ pc = "devices" /\ virt <= DeviceLast /\ Room(2)
      /\ map_page(vm, taken, virt, virt, "device")
      /\ virt' = virt + 1 /\ pc' = IF virt' <= DeviceLast THEN pc ELSE "idle"
      /\ lv1' = lv1 /\ vm' = vm /\ phys' = phys /\ pages' = pages
  BY DEF MapDevice
<1>2. /\ Sound(memory, taken) /\ vm \in VMs /\ virt \in Nat /\ phys \in Nat
      /\ pages \in 0 .. MaxImage /\ taken \in 0 .. Frames /\ Frames \in Nat
      /\ DeviceFirst \in Nat /\ DeviceLast \in Nat /\ DeviceFirst <= virt
      /\ lv1[vm] # None
      /\ \A q \in Pages : virt <= q => Walk(vm, q) = Empty
      /\ lv1 \in [VMs -> {None} \cup FrameNos]
  BY <1>1, PagingAssumption DEF IInv, TypeOK, Loading
<1>3. virt \in Pages /\ taken + 2 <= Frames /\ Walk(vm, virt) = Empty
  BY <1>1, <1>2, PagesBelow DEF Room
<1>4. /\ Sound(memory', taken') /\ taken' \in taken .. Frames
      /\ \A w \in VMs, q \in Pages :
           WalkIn(memory', w, q) =
             IF w = vm /\ q = virt THEN [to |-> virt, kind |-> "device"] ELSE Walk(w, q)
  BY <1>1, <1>2, <1>3, MapPageSound
<1>5. Placed(vm, virt, [to |-> virt, kind |-> "device"])
  BY <1>1, <1>4, SameRoots DEF Placed
<1>6. TypeOK'
  BY <1>1, <1>2, <1>4 DEF TypeOK, Sound, Memory, Entry
<1>7. \A q \in Pages : virt' <= q => Walk(vm, q)' = Empty
  BY <1>1, <1>2, <1>5 DEF Placed, Pages
<1>8. Loading'
  BY <1>1, <1>2, <1>7 DEF Loading
<1> QED BY <1>1, <1>3, <1>4, <1>5, <1>6, <1>8, SameRoots DEF IInv

\* The first schedule() changes no table.
LEMMA BootDoneStep ==
  ASSUME IInv, BootDone
  PROVE  IInv' /\ \A w \in VMs, q \in Pages : Walk(w, q)' = Walk(w, q)
<1>1. /\ pc = "idle" /\ pc' = "run"
      /\ memory' = memory /\ taken' = taken /\ lv1' = lv1 /\ vm' = vm /\ virt' = virt
      /\ phys' = phys /\ pages' = pages
  BY DEF BootDone
<1>2. Sound(memory, taken)' /\ TypeOK' /\ Loading'
  BY <1>1, SameRoots DEF IInv, TypeOK, Loading
<1> QED BY <1>1, <1>2 DEF IInv, Walk

\* Wherever the fault is reported, the page taken for it is one nothing led to.
LEMMA DataAbortStep ==
  ASSUME IInv, NEW v \in VMs, NEW p \in Touched, DataAbort(v, p)
  PROVE  /\ IInv' /\ Placed(v, Far[p], [to |-> taken, kind |-> "ram"])
         /\ Far[p] \in Pages /\ taken \in FrameNos /\ Loose(memory, taken)
<1>1. /\ pc = "run" /\ lv1[v] # None /\ Room(3)
      /\ map_page(v, taken + 1, taken, Far[p], "ram")
      /\ lv1' = lv1 /\ pc' = pc /\ vm' = vm /\ virt' = virt /\ phys' = phys /\ pages' = pages
  BY DEF DataAbort
<1>2. /\ TypeOK /\ Sound(memory, taken) /\ taken \in 0 .. Frames /\ Frames \in Nat
      /\ lv1 \in [VMs -> {None} \cup FrameNos] /\ Far[p] \in Pages
  BY PagingAssumption DEF IInv, TypeOK
<1>3. taken \in FrameNos /\ taken \in Nat /\ taken + 1 \in taken .. Frames /\ taken + 3 <= Frames
  BY <1>1, <1>2 DEF Room, FrameNos
<1>4. Sound(memory, taken + 1) /\ Loose(memory, taken)
  BY <1>2, <1>3, SoundLater, FreeFrame
<1>5. /\ Sound(memory', taken') /\ taken' \in taken + 1 .. Frames
      /\ \A w \in VMs, q \in Pages :
           WalkIn(memory', w, q) =
             IF w = v /\ q = Far[p] THEN [to |-> taken, kind |-> "ram"] ELSE Walk(w, q)
  <2> DEFINE free == taken + 1
  <2>1. /\ Sound(memory, free) /\ free + 2 <= Frames /\ taken < free
        /\ map_page(v, free, taken, Far[p], "ram")
    BY <1>1, <1>3, <1>4
  <2> HIDE DEF free
  <2>2. /\ Sound(memory', taken') /\ taken' \in free .. Frames
        /\ \A w \in VMs, q \in Pages :
             WalkIn(memory', w, q) =
               IF w = v /\ q = Far[p] THEN [to |-> taken, kind |-> "ram"] ELSE Walk(w, q)
    BY <1>1, <1>2, <1>3, <1>4, <2>1, MapPageSound
  <2> QED BY <2>2 DEF free
<1>6. Placed(v, Far[p], [to |-> taken, kind |-> "ram"])
  BY <1>1, <1>5, SameRoots DEF Placed
<1>7. TypeOK'
  BY <1>1, <1>2, <1>3, <1>5 DEF TypeOK, Sound, Memory, Entry
<1>8. Loading'
  BY <1>1 DEF Loading
<1> QED BY <1>1, <1>2, <1>3, <1>4, <1>5, <1>6, <1>7, <1>8, SameRoots DEF IInv

\* A step that changes nothing.
LEMMA StutterIInv ==
  ASSUME IInv, UNCHANGED vars
  PROVE  IInv' /\ \A w \in VMs, q \in Pages : Walk(w, q)' = Walk(w, q)
<1>1. /\ memory' = memory /\ taken' = taken /\ lv1' = lv1 /\ pc' = pc /\ vm' = vm
      /\ virt' = virt /\ phys' = phys /\ pages' = pages
  BY DEF vars
<1>2. \A w \in VMs, q \in Pages : Walk(w, q)' = Walk(w, q)
  BY <1>1 DEF Walk
<1>3. TypeOK' /\ Sound(memory, taken)'
  BY <1>1, SameRoots DEF IInv, TypeOK
<1>4. \A f : Loose(memory, f)' <=> Loose(memory, f)
  BY <1>1 DEF Loose
<1>5. Loading'
  BY <1>1, <1>2, <1>4 DEF IInv, Loading, TypeOK
<1> QED BY <1>2, <1>3, <1>5 DEF IInv

\* The invariant is inductive.
THEOREM NextIInv == IInv /\ [Next]_vars => IInv'
<1> SUFFICES ASSUME IInv, [Next]_vars PROVE IInv'
  OBVIOUS
<1>1. ASSUME NEW v \in VMs, CreateVm(v) PROVE IInv'
  BY <1>1, CreateVmStep
<1>2. CASE MapImage
  BY <1>2, MapImageStep
<1>3. CASE ImageMapped
  BY <1>3, ImageMappedStep
<1>4. CASE MapDevice
  BY <1>4, MapDeviceStep
<1>5. CASE BootDone
  BY <1>5, BootDoneStep
<1>6. ASSUME NEW v \in VMs, NEW p \in Touched, DataAbort(v, p) PROVE IInv'
  BY <1>6, DataAbortStep
<1>7. CASE UNCHANGED vars
  BY <1>7, StutterIInv
<1> QED BY <1>1, <1>2, <1>3, <1>4, <1>5, <1>6, <1>7 DEF Next

\* All tables form a forest, and vm_init() maps only frames nothing leads to, in
\* every reachable state.
THEOREM Invariance == Spec => []IInv
BY InitIInv, NextIInv, PTL DEF Spec

-----------------------------------------------------------------------------
(* Safety, wherever faults are reported *)

\* Tables hold entries, frame numbers stay in range and the loop variables of
\* map_virtual_address_space() in theirs, through vm_init() and all faults.
THEOREM TypeCorrect == Spec => []TypeOK
<1>1. IInv => TypeOK
  BY DEF IInv
<1> QED BY <1>1, Invariance, PTL

\* No VM can write the tables of any VM: a frame mapped as RAM is none of the
\* tables, at any level, of any VM (map_page(), handle_sync_data_abort()).
THEOREM TablesAreHidden == Spec => []TablesHidden
<1>1. IInv => TablesHidden
  <2> SUFFICES ASSUME IInv, NEW v \in VMs, NEW p \in Pages, Walk(v, p).kind = "ram"
               PROVE  Walk(v, p).to \notin Tables
    BY DEF TablesHidden
  <2>1. Sound(memory, taken) /\ Forest(memory, taken)
    BY DEF IInv, Sound
  <2>2. PICK t \in FrameNos, i \in Index : Walk(v, p) = memory[t][i]
    <3> Walk(v, p) # Empty
      BY DEF Empty
    <3>1. Walk(v, p) # Empty /\ lv1[v] # None
      BY DEF Walk
    <3>2. Lv1(p) \in Index /\ Lv2(p) \in Index /\ Lv3(p) \in Index
      BY Indices
    <3> QED BY <2>1, <3>1, <3>2, WalkEntries DEF Walk
  <2>3. Points(memory[t][i])
    BY <2>2 DEF Points
  <2>4. \A w \in VMs : lv1[w] # memory[t][i].to
    BY <2>1, <2>3 DEF Forest
  <2>5. \A u \in FrameNos, j \in Index : memory[u][j] # Table(memory[t][i].to)
    <3> SUFFICES ASSUME NEW u \in FrameNos, NEW j \in Index,
                        memory[u][j] = Table(memory[t][i].to)
                 PROVE  FALSE
      OBVIOUS
    <3>1. Points(memory[u][j]) /\ memory[u][j].to = memory[t][i].to /\ memory[u][j].kind = "table"
      BY DEF Table, Points
    <3>2. u = t /\ j = i
      BY <2>1, <2>3, <3>1 DEF Forest
    <3> QED BY <2>2, <3>1, <3>2
  <2> DEFINE first == {lv1[w] : w \in VMs} \ {None}
             Below(ts) == {memory[u][j].to : u \in ts, j \in Index}
             Down(ts) == {f \in Below(ts) : \E u \in ts, j \in Index : memory[u][j] = Table(f)}
             Led == {f \in FrameNos : \E u \in FrameNos, j \in Index : memory[u][j] = Table(f)}
  <2>6. Tables = first \cup Down(first) \cup Down(Down(first))
    BY DEF Tables
  <2>7. ASSUME NEW ts \in SUBSET FrameNos PROVE Down(ts) \subseteq Led
    <3> SUFFICES ASSUME NEW u \in ts, NEW j \in Index, memory[u][j] = Table(memory[u][j].to)
                 PROVE  memory[u][j].to \in FrameNos
      BY DEF Table
    <3>1. Points(memory[u][j]) /\ memory[u][j].to \in Nat
      BY <2>1 DEF Table, Points, Sound, Memory, Entry
    <3> QED BY <2>1, <3>1, PagingAssumption DEF Forest, Sound, FrameNos
  <2>8. first \subseteq FrameNos
    BY <2>1 DEF Sound
  <2>9. Down(first) \subseteq Led /\ Down(Down(first)) \subseteq Led
    <3> HIDE DEF first, Down
    <3>1. Down(first) \subseteq Led
      BY <2>7, <2>8
    <3>2. Down(first) \in SUBSET FrameNos
      BY <3>1
    <3> QED BY <2>7, <3>1, <3>2
  <2>10. Walk(v, p).to \notin first /\ Walk(v, p).to \notin Led
    BY <2>2, <2>4, <2>5
  <2> HIDE DEF first, Down, Led
  <2> QED BY <2>6, <2>9, <2>10
<1> QED BY <1>1, Invariance, PTL

\* A page of RAM is led to by one entry, that of its third index in its table.
LEMMA WalkPath ==
  ASSUME IInv, NEW v \in VMs, NEW p \in Pages, Walk(v, p).kind = "ram"
  PROVE  \E t1 \in FrameNos, t2 \in FrameNos, t3 \in FrameNos :
           /\ lv1[v] # None /\ t1 = lv1[v]
           /\ Points(memory[t1][Lv1(p)]) /\ memory[t1][Lv1(p)].to = t2
           /\ Points(memory[t2][Lv2(p)]) /\ memory[t2][Lv2(p)].to = t3
           /\ Points(memory[t3][Lv3(p)]) /\ memory[t3][Lv3(p)] = Walk(v, p)
<1> DEFINE e1 == memory[lv1[v]][Lv1(p)]
           e2 == memory[e1.to][Lv2(p)]
<1>1. Walk(v, p) # Empty
  BY DEF Empty
<1>2. lv1[v] # None /\ e1 # Empty /\ e2 # Empty /\ Walk(v, p) = memory[e2.to][Lv3(p)]
  BY <1>1 DEF Walk
<1>3. Lv1(p) \in Index /\ Lv2(p) \in Index /\ Lv3(p) \in Index
  BY Indices
<1>4. Sound(memory, taken)
  BY DEF IInv
<1>5. /\ lv1[v] \in FrameNos
      /\ Points(e1) /\ e1.to \in FrameNos
      /\ Points(e2) /\ e2.to \in FrameNos
  BY <1>2, <1>3, <1>4, WalkEntries
<1>6. Points(Walk(v, p))
  BY DEF Points
<1> QED BY <1>2, <1>5, <1>6

\* Two pages of RAM, of one VM or of two, are never the same frame: no VM reads
\* or writes the memory of another, wherever its faults are reported
\* (map_page(), handle_sync_data_abort()).
THEOREM FramesArePrivate ==
  Spec => [](\A v, w \in VMs, p, q \in Pages :
               /\ Walk(v, p).kind = "ram" /\ Walk(w, q).kind = "ram"
               /\ Walk(v, p).to = Walk(w, q).to
               => v = w /\ p = q)
<1>1. ASSUME IInv, NEW v \in VMs, NEW w \in VMs, NEW p \in Pages, NEW q \in Pages,
             Walk(v, p).kind = "ram", Walk(w, q).kind = "ram",
             Walk(v, p).to = Walk(w, q).to
      PROVE  v = w /\ p = q
  <2>1. /\ Lv1(p) \in Index /\ Lv2(p) \in Index /\ Lv3(p) \in Index
        /\ Lv1(q) \in Index /\ Lv2(q) \in Index /\ Lv3(q) \in Index
    BY Indices
  <2>2. PICK t1 \in FrameNos, t2 \in FrameNos, t3 \in FrameNos :
           /\ lv1[v] # None /\ t1 = lv1[v]
           /\ Points(memory[t1][Lv1(p)]) /\ memory[t1][Lv1(p)].to = t2
           /\ Points(memory[t2][Lv2(p)]) /\ memory[t2][Lv2(p)].to = t3
           /\ Points(memory[t3][Lv3(p)]) /\ memory[t3][Lv3(p)] = Walk(v, p)
    BY <1>1, WalkPath
  <2>3. PICK u1 \in FrameNos, u2 \in FrameNos, u3 \in FrameNos :
           /\ lv1[w] # None /\ u1 = lv1[w]
           /\ Points(memory[u1][Lv1(q)]) /\ memory[u1][Lv1(q)].to = u2
           /\ Points(memory[u2][Lv2(q)]) /\ memory[u2][Lv2(q)].to = u3
           /\ Points(memory[u3][Lv3(q)]) /\ memory[u3][Lv3(q)] = Walk(w, q)
    BY <1>1, WalkPath
  <2>4. /\ \A t, u \in FrameNos, i, j \in Index :
             /\ Points(memory[t][i]) /\ Points(memory[u][j])
             /\ memory[t][i].to = memory[u][j].to
             => t = u /\ i = j
        /\ \A x, y \in VMs : lv1[x] # None /\ lv1[x] = lv1[y] => x = y
    BY <1>1 DEF IInv, Sound, Forest
  <2>5. t3 = u3 /\ Lv3(p) = Lv3(q)
    BY <1>1, <2>1, <2>2, <2>3, <2>4
  <2>6. t2 = u2 /\ Lv2(p) = Lv2(q)
    BY <2>1, <2>2, <2>3, <2>4, <2>5
  <2>7. t1 = u1 /\ Lv1(p) = Lv1(q)
    BY <2>1, <2>2, <2>3, <2>4, <2>6
  <2>8. v = w
    <3>1. lv1[v] # None /\ lv1[v] = lv1[w]
      BY <2>2, <2>3, <2>7
    <3> QED BY <1>1, <2>4, <3>1
  <2> QED BY <2>5, <2>6, <2>7, <2>8, SameIndices
<1>2. IInv => \A v, w \in VMs, p, q \in Pages :
                /\ Walk(v, p).kind = "ram" /\ Walk(w, q).kind = "ram"
                /\ Walk(v, p).to = Walk(w, q).to
                => v = w /\ p = q
  BY <1>1
<1> QED BY <1>2, Invariance, PTL

\* What ipa_to_phys() finds below 1 GB is what the hardware finds, in every
\* memory (paging.c:84-100).
THEOREM GuestPageIsSeen == Spec => []SeesGuestPage
<1>1. SeesGuestPage
  <2> SUFFICES ASSUME NEW v \in VMs, NEW p \in Pages, Lv1(p) = 0, Walk(v, p).kind = "ram"
               PROVE  ipa_to_phys(v, p) = Walk(v, p).to
    BY DEF SeesGuestPage
  <2>1. Walk(v, p) # Empty
    BY DEF Empty
  <2> QED BY <2>1 DEF Walk, ipa_to_phys
<1> QED BY <1>1, PTL

-----------------------------------------------------------------------------
(* Safety, when faults are reported at the pages they are about *)

\* map_page() is given far_el2 (sync.c:280): the guest's own translation has
\* to be off, or flat, on the pages it touches.
FlatFaults == \A p \in Touched : Far[p] = p

\* A fault then gives a place to a page that has none.
LEMMA FlatAbortStep ==
  ASSUME FlatFaults, IInv, NEW v \in VMs, NEW p \in Touched, DataAbort(v, p)
  PROVE  /\ Placed(v, p, [to |-> taken, kind |-> "ram"]) /\ p \in Pages /\ Walk(v, p) = Empty
         /\ taken \in FrameNos /\ Loose(memory, taken)
BY DataAbortStep DEF FlatFaults, DataAbort

-----------------------------------------------------------------------------
(* Stage 2 implements PrivateMemory *)

place == [v \in VMs |-> [p \in Pages |->
            CASE Walk(v, p).kind = "ram"    -> Walk(v, p).to
              [] Walk(v, p).kind = "device" -> -2
              [] OTHER                      -> -1]]

\* Where an entry places its page.
Where(e) == CASE e.kind = "ram" -> e.to [] e.kind = "device" -> -2 [] OTHER -> -1

\* The place of a page is that of the entry its walk ends at.
LEMMA PlaceOf ==
  /\ \A v \in VMs, p \in Pages : place[v][p] = Where(Walk(v, p))
  /\ \A v \in VMs, p \in Pages : place'[v][p] = Where(Walk(v, p)')
BY DEF place, Where

\* Nothing is placed on a frame that nothing leads to.
LEMMA LooseIsUnused ==
  ASSUME IInv, NEW f \in FrameNos, Loose(memory, f), NEW v \in VMs, NEW p \in Pages
  PROVE  place[v][p] # f
<1>1. CASE Walk(v, p).kind = "ram"
  <2> Walk(v, p) # Empty
    BY <1>1 DEF Empty
  <2>1. Walk(v, p) # Empty /\ lv1[v] # None
    BY DEF Walk
  <2>2. Lv1(p) \in Index /\ Lv2(p) \in Index /\ Lv3(p) \in Index
    BY Indices
  <2>3. PICK t \in FrameNos, i \in Index : Walk(v, p) = memory[t][i]
    BY <2>1, <2>2, WalkEntries DEF Walk, IInv
  <2>4. Walk(v, p).to # f
    BY <1>1, <2>3 DEF Loose, Points
  <2> QED BY <1>1, <2>4 DEF place
<1>2. CASE Walk(v, p).kind # "ram"
  BY <1>2, PlaceOf DEF Where, FrameNos
<1> QED BY <1>1, <1>2

\* Placing an entry at a page that has none is a step of PrivateMemory.
LEMMA PlacedIsPlace ==
  ASSUME IInv, NEW v \in VMs, NEW p \in Pages, Walk(v, p) = Empty,
         NEW e, Placed(v, p, e),
         \/ e.kind = "device"
         \/ e.kind = "ram" /\ e.to \in FrameNos /\ Loose(memory, e.to)
  PROVE  P!Place(v, p)
<1>1. place[v][p] = -1
  BY PlaceOf DEF Where, Empty
<1>2. \A w \in VMs, q \in Pages : Walk(w, q)' = IF w = v /\ q = p THEN e ELSE Walk(w, q)
  BY DEF Placed
<1>3. place' = [place EXCEPT ![v][p] = place'[v][p]]
  <2>1. \A w \in VMs, q \in Pages :
          place'[w][q] = IF w = v /\ q = p THEN place'[v][p] ELSE place[w][q]
    BY <1>2, PlaceOf
  <2>2. /\ place = [w \in VMs |-> [q \in Pages |-> place[w][q]]]
        /\ place' = [w \in VMs |-> [q \in Pages |-> place'[w][q]]]
    BY DEF place
  <2> QED BY <2>1, <2>2
<1>4. place'[v][p] = Where(e)
  BY <1>2, PlaceOf
<1>5. Where(e) \in {-2} \cup (FrameNos \ ({place[w][q] : w \in VMs, q \in Pages} \cap FrameNos))
  <2>1. CASE e.kind = "device"
    BY <2>1 DEF Where
  <2>2. CASE e.kind = "ram" /\ e.to \in FrameNos /\ Loose(memory, e.to)
    BY <2>2, LooseIsUnused DEF Where
  <2> QED BY <2>1, <2>2
<1> QED BY <1>1, <1>3, <1>4, <1>5 DEF P!Place, P!Used, place

\* A step that changes no walk is a stutter of PrivateMemory.
LEMMA SamePlace ==
  ASSUME \A w \in VMs, q \in Pages : Walk(w, q)' = Walk(w, q)
  PROVE  place' = place
BY DEF place

\* Every guest page is nowhere until it is a device page or a page of RAM that
\* is shared with no other page of any VM, and is then what it is for ever: each
\* step of vm_init() and each fault is a step of PrivateMemory or none.
THEOREM ImplementsPrivate ==
  ASSUME FlatFaults PROVE Spec => IsPrivate
<1>1. Init => P!Init
  <2> SUFFICES ASSUME Init PROVE P!Init
    OBVIOUS
  <2>1. \A v \in VMs, p \in Pages : Where(Walk(v, p)) = -1
    BY DEF Init, Walk, Where, Empty
  <2>2. \A v \in VMs, p \in Pages : place[v][p] = -1
    BY <2>1, PlaceOf
  <2> QED BY <2>2 DEF place, P!Init
<1>2. IInv /\ [Next]_vars => [P!Next]_place
  <2> SUFFICES ASSUME IInv, [Next]_vars PROVE P!Next \/ place' = place
    OBVIOUS
  <2>1. ASSUME NEW v \in VMs, CreateVm(v) PROVE place' = place
    BY <2>1, CreateVmStep, SamePlace
  <2>2. CASE MapImage
    <3>1. vm \in VMs /\ phys \in FrameNos /\ virt \in Pages
      BY <2>2, MapImageStep DEF IInv, TypeOK
    <3>2. P!Place(vm, virt)
      BY <2>2, <3>1, MapImageStep, PlacedIsPlace
    <3> QED BY <3>1, <3>2 DEF P!Next
  <2>3. CASE ImageMapped
    BY <2>3, ImageMappedStep, SamePlace
  <2>4. CASE MapDevice
    <3>1. vm \in VMs /\ virt \in Pages
      BY <2>4, MapDeviceStep DEF IInv, TypeOK
    <3>2. P!Place(vm, virt)
      BY <2>4, <3>1, MapDeviceStep, PlacedIsPlace
    <3> QED BY <3>1, <3>2 DEF P!Next
  <2>5. CASE BootDone
    BY <2>5, BootDoneStep, SamePlace
  <2>6. ASSUME NEW v \in VMs, NEW p \in Touched, DataAbort(v, p) PROVE P!Next
    <3>1. p \in Pages
      BY <2>6, FlatAbortStep
    <3>2. P!Place(v, p)
      BY <2>6, <3>1, FlatAbortStep, PlacedIsPlace
    <3> QED BY <3>1, <3>2 DEF P!Next
  <2>7. CASE UNCHANGED vars
    BY <2>7, StutterIInv, SamePlace
  <2> QED BY <2>1, <2>2, <2>3, <2>4, <2>5, <2>6, <2>7 DEF Next
<1> QED BY <1>1, <1>2, Invariance, PTL DEF Spec, IsPrivate, P!Spec, place
=============================================================================
