--------------------------- MODULE EnclaveProofs ---------------------------
(***************************************************************************)
(* For every sound card, every set of names and contents and any number of *)
(* losses of power: at every moment the links in the FAT on the card are   *)
(* apart and the count of free clusters in FSInfo is not below the truth.  *)
(*                                                                         *)
(* The proof follows the functions of Fat.  What they preserve is that the *)
(* card is sound after each of the writes so far (Trail), that the FAT as  *)
(* memory has it, the window included, is sound too, and that whatever is  *)
(* free on the card, or in memory, or was taken since FSInfo was written,  *)
(* is counted there.  A window holds one sector of the FAT, so that the    *)
(* FAT on the card is the one of memory as soon as a sector is written.    *)
(***************************************************************************)
EXTENDS Enclave, FiniteSetTheorems, SequenceTheorems, WellFoundedInduction, TLAPS

-----------------------------------------------------------------------------
(* The geometry of a volume: what mounting reads from the sectors up to    *)
(* the boot sector, which nothing ever writes.                             *)

Geometry(v) ==
  [fs_type |-> v.fs_type, n_fats |-> v.n_fats, csize |-> v.csize,
   n_rootdir |-> v.n_rootdir, n_fatent |-> v.n_fatent, fsize |-> v.fsize,
   volbase |-> v.volbase, fatbase |-> v.fatbase, dirbase |-> v.dirbase,
   database |-> v.database, info |-> v.fsi_flag # "disabled",
   front |-> [s \in 0 .. v.volbase |-> v.card[s]]]

FatSectors(g) == g.fatbase .. g.fatbase + g.fsize - 1

\* What Proper() and Formatted leave of the possible geometries.
Shape(g) ==
  /\ g.volbase \in Nat /\ g.fatbase \in Nat /\ g.volbase < g.fatbase
  /\ g.fsize \in Nat /\ g.csize \in Nat \ {0} /\ g.database \in Nat
  /\ g.n_fatent \in Nat /\ 3 <= g.n_fatent /\ g.n_fatent <= EOC
  /\ g.n_fatent <= g.fsize * SS
  /\ g.fatbase + g.fsize <= g.database
  /\ g.n_fats = 2 => g.fatbase + g.fsize + g.fsize <= g.database
  /\ g.fs_type # 0
  /\ g.n_rootdir \in Nat /\ g.n_rootdir % SS = 0
  /\ g.fs_type # 32 => /\ g.n_rootdir # 0
                       /\ g.dirbase \in Nat /\ g.fatbase + g.fsize <= g.dirbase
                       /\ g.dirbase + g.n_rootdir \div SS <= g.database
  /\ g.info => g.fs_type = 32 /\ g.volbase + 1 < g.fatbase

\* The sector of the FAT that has the cell of cluster c.
Home(g, c) == g.fatbase + c \div SS

\* The FAT as the sectors C have it, and as the volume v has it with its window.
Tab(g, C) == [c \in Clusts(g) |-> C[Home(g, c)][c % SS]]
Mem(g, v) == [c \in Clusts(g) |->
                IF Home(g, c) = v.winsect THEN v.win[c % SS] ELSE v.card[Home(g, c)][c % SS]]

Links(g, t) ==
  \A c \in Clusts(g) : t[c] \in Clusts(g) =>
    /\ t[t[c]] # 0
    /\ \A d \in Clusts(g) : t[d] = t[c] => d = c

Free(g, t) == {c \in Clusts(g) : t[c] = 0}

\* FSInfo in the sectors C counts at least the clusters of F, if it counts.
Counted(g, C, F) ==
  (g.info /\ C[g.volbase + 1].sig /\ C[g.volbase + 1].free <= g.n_fatent - 2)
     => Cardinality(F) <= C[g.volbase + 1].free

Layout(g, C) ==
  /\ 0 .. g.fatbase + g.fsize - 1 \subseteq DOMAIN C
  /\ DataSectors(g) \subseteq DOMAIN C
  /\ \A s \in 0 .. g.volbase : C[s] = g.front[s]
  /\ \A s \in FatSectors(g) : C[s] \in [Cells -> Nat]
  /\ \A s \in DataSectors(g) : DOMAIN C[s] = Cells
  /\ g.info => C[g.volbase + 1].free \in Nat

\* A card of this geometry that the machine may find when it is started.
OkCard(g, C) ==
  /\ Layout(g, C)
  /\ Links(g, Tab(g, C))
  /\ Counted(g, C, Free(g, Tab(g, C)))

\* The sectors C with x written to sector s.
With(C, s, x) == [C EXCEPT ![s] = x]

\* The writes of log lead from the sectors K to the sectors C, past sound cards only.
Trail(g, K, log, C) ==
  \E S, t :
    /\ log \in Seq(S)
    /\ t[0] = K /\ t[Len(log)] = C
    /\ \A i \in 1 .. Len(log) : t[i] = With(t[i - 1], log[i][1], log[i][2])
    /\ \A i \in 0 .. Len(log) : OkCard(g, t[i])

-----------------------------------------------------------------------------
(* What the functions of Fat preserve. *)

Same(g, v) ==
  /\ v.fs_type = g.fs_type /\ v.n_fats = g.n_fats /\ v.csize = g.csize
  /\ v.n_rootdir = g.n_rootdir /\ v.n_fatent = g.n_fatent /\ v.fsize = g.fsize
  /\ v.volbase = g.volbase /\ v.fatbase = g.fatbase /\ v.dirbase = g.dirbase
  /\ v.database = g.database
  /\ g.info <=> v.fsi_flag # "disabled"
  /\ v.stat # "STA_NOINIT"

Window(g, v) ==
  /\ v.wflag \in BOOLEAN
  /\ v.wflag => v.winsect \in FatSectors(g) \union DataSectors(g)
  /\ v.winsect \in FatSectors(g) =>
       v.win \in [Cells -> Nat] /\ (~v.wflag => v.win = v.card[v.winsect])
  /\ v.winsect \in DataSectors(g) => DOMAIN v.win = Cells

\* B: the clusters taken since FSInfo was written, with all they lead to.
\* h: one of them that nothing leads to, unless it is 0.
Hold(g, m, B, h) ==
  /\ B \subseteq Clusts(g)
  /\ \A c \in B : m[c] \in Clusts(g) => m[c] \in B
  /\ h # 0 => h \in B /\ m[h] # 0 /\ \A c \in Clusts(g) : m[c] # h

Body(g, K, v, B, h) ==
  /\ Same(g, v)
  /\ Window(g, v)
  /\ OkCard(g, v.card)
  /\ Trail(g, K, v.log, v.card)
  /\ Links(g, Mem(g, v))
  /\ Hold(g, Mem(g, v), B, h)
  /\ Counted(g, v.card, Free(g, Mem(g, v)) \union Free(g, Tab(g, v.card)) \union B)

\* f is a count of free clusters not below the truth, or none.
Enough(g, m, f) == f \in Nat /\ (f <= g.n_fatent - 2 => Cardinality(Free(g, m)) <= f)

Fine(g, K, v, B, h) == Body(g, K, v, B, h) /\ Enough(g, Mem(g, v), v.free_clst)

Ok(g, K, h, v) == Shape(g) /\ \E B : Fine(g, K, v, B, h)

\* A mounted volume between two calls of a handler that began with the sectors K.
Up(K, v) == Ok(Geometry(OnCard(K)), K, 0, v)

\* Any volume between two such calls: mounted, or with nothing written.
Held(K, v) ==
  IF v.fs_type = 0 THEN v.card = K /\ v.log = <<>> /\ v.sd \in BOOLEAN ELSE Up(K, v)

\* The inductive invariant: the sectors still to be written lead past sound cards
\* to the one that the volume in memory takes for the card.
EInv ==
  /\ SoundCard(card)
  /\ fs.log = <<>>
  /\ fs.fs_type = 0 => queue = <<>>
  /\ fs.fs_type # 0 => \E D : Up(card, [fs EXCEPT !.card = D, !.log = queue])

-----------------------------------------------------------------------------
(* Induction and loops. *)

\* A set of natural numbers that is not empty has a least member.
LEMMA Least ==
  ASSUME NEW S \in SUBSET Nat, S # {}
  PROVE  \E m \in S : \A n \in S : m <= n
<1> DEFINE R == OpToRel(<, Nat)
<1>1. IsWellFoundedOn(R, Nat)
  BY NatLessThanWellFounded
<1>2. PICK m \in S : \A n \in S : ~ (<<n, m>> \in R)
  <2> HIDE DEF R
  <2> QED BY <1>1, WFMin
<1>3. ASSUME NEW n \in S PROVE m <= n
  <2>1. n < m => <<n, m>> \in R
    BY DEF OpToRel
  <2>2. ~ (n < m)
    BY <1>2, <2>1
  <2>3. n \in Nat /\ m \in Nat
    BY <1>2
  <2> QED BY <2>2, <2>3
<1> QED BY <1>2, <1>3

\* A set with 0 and the successor of each of its numbers has them all.
LEMMA Induct ==
  ASSUME NEW S, 0 \in S, \A n \in Nat : n \in S => n + 1 \in S
  PROVE  Nat \subseteq S
<1> SUFFICES ASSUME Nat \ S # {} PROVE FALSE
  OBVIOUS
<1>1. PICK m \in Nat \ S : \A n \in Nat \ S : m <= n
  BY Least
<1>2. m - 1 \in Nat
  BY <1>1
<1>3. m - 1 \in S
  BY <1>1, <1>2
<1> QED BY <1>1, <1>2, <1>3

\* One cluster further, if the chain goes on.
Grow(v, s) ==
  IF s = <<>> \/ ~IsClst(v, Cell(v, Last(s))) \/ Cell(v, Last(s)) \in ToSet(s)
  THEN s ELSE Append(s, Cell(v, Last(s)))

\* The bodies of the loops of Fat, so that one lemma can speak of all of them:
\* x is the state of the loop, i the number of the round, p what it is given.
Step(loop, p, x, i) ==
  CASE loop = "try"    -> Try(x, p[i])
    [] loop = "remove" -> Removed(x)
    [] loop = "clear"  -> disk_write(x, p + i - 1, ZeroSector)
    [] loop = "search" -> Look(x, p)
    [] loop = "walk"   -> Enters(x, p[i], i = Len(p))
    [] loop = "read"   -> ReadOn(x)
    [] loop = "write"  -> WriteOn(x)
    [] loop = "grow"   -> Grow(p, x)
    [] OTHER           -> x

\* f has the states of a loop of N rounds that begins with s.
Runs(f, loop, p, s, N) ==
  f = [i \in 0 .. N |-> IF i = 0 THEN s ELSE Step(loop, p, f[i - 1], i)]

\* A loop has a state after each of its rounds.
LEMMA LoopRuns ==
  ASSUME NEW loop, NEW p, NEW s, NEW N \in Nat
  PROVE  \E f : Runs(f, loop, p, s, N)
<1> HIDE DEF Step
<1> DEFINE T(f, n) == f = [i \in 0 .. n |-> IF i = 0 THEN s ELSE Step(loop, p, f[i - 1], i)]
<1> DEFINE S == {n \in Nat : \E f : T(f, n)}
<1>1. 0 \in S
  <2>1. T([i \in 0 .. 0 |-> s], 0)
    OBVIOUS
  <2> HIDE DEF T
  <2> QED BY <2>1
<1>2. ASSUME NEW n \in Nat, n \in S PROVE n + 1 \in S
  <2>1. PICK f : T(f, n)
    <3> HIDE DEF T
    <3> QED BY <1>2
  <2> DEFINE g == [i \in 0 .. n + 1 |-> IF i = n + 1 THEN Step(loop, p, f[n], n + 1) ELSE f[i]]
  <2>2. ASSUME NEW i \in 0 .. n + 1 PROVE g[i] = IF i = 0 THEN s ELSE Step(loop, p, g[i - 1], i)
    <3>1. CASE i = n + 1
      <4>1. n \in 0 .. n + 1 /\ n # n + 1
        OBVIOUS
      <4>2. g[n] = f[n]
        BY <4>1
      <4> QED BY <3>1, <4>2
    <3>2. CASE i # n + 1
      <4>1. i \in 0 .. n /\ (i # 0 => i - 1 \in 0 .. n + 1 /\ i - 1 # n + 1)
        BY <3>2
      <4>2. g[i] = f[i] /\ (i # 0 => g[i - 1] = f[i - 1])
        BY <4>1, <3>2
      <4> QED BY <4>1, <4>2, <2>1
    <3> QED BY <3>1, <3>2
  <2>3. T(g, n + 1)
    <3>1. g = [i \in 0 .. n + 1 |-> g[i]]
      OBVIOUS
    <3> HIDE DEF g
    <3> QED BY <2>2, <3>1
  <2> HIDE DEF T, g
  <2> QED BY <2>3
<1> HIDE DEF S
<1>3. N \in S
  BY <1>1, <1>2, Induct
<1> QED BY <1>3 DEF S, Runs

-----------------------------------------------------------------------------
(* Arithmetic. *)

\* Quotient and remainder are what they should be.
LEMMA DivMod ==
  ASSUME NEW n \in Nat, NEW k \in Nat \ {0}
  PROVE  /\ n \div k \in Nat /\ n % k \in 0 .. k - 1
         /\ n = k * (n \div k) + (n % k)
  OBVIOUS

\* They determine the number, and it them.
LEMMA DivUnique ==
  ASSUME NEW k \in Nat \ {0}, NEW q \in Nat, NEW r \in 0 .. k - 1, NEW n \in Nat,
         n = k * q + r
  PROVE  n \div k = q /\ n % k = r
<1>1. n \div k \in Nat /\ n % k \in 0 .. k - 1 /\ n = k * (n \div k) + (n % k)
  BY DivMod
<1> DEFINE a == n \div k
<1> HIDE DEF a
<1>2. a \in Nat /\ k * a + (n % k) = k * q + r
  BY <1>1 DEF a
<1>3. ~ a < q
  <2> SUFFICES ASSUME a + 1 <= q PROVE FALSE
    BY <1>2
  <2>1. k * (a + 1) <= k * q
    BY <1>2
  <2>2. k * (a + 1) = k * a + k
    BY <1>2
  <2> QED BY <1>1, <1>2, <2>1, <2>2
<1>4. ~ q < a
  <2> SUFFICES ASSUME q + 1 <= a PROVE FALSE
    BY <1>2
  <2>1. k * (q + 1) <= k * a
    BY <1>2
  <2>2. k * (q + 1) = k * q + k
    OBVIOUS
  <2> QED BY <1>1, <1>2, <2>1, <2>2
<1>5. a = q
  BY <1>2, <1>3, <1>4
<1> QED BY <1>1, <1>2, <1>5 DEF a

\* Counting one further: within a block of k, or to the start of the next.
LEMMA DivNext ==
  ASSUME NEW n \in Nat, NEW k \in Nat \ {0}
  PROVE  /\ (n + 1) % k # 0 => (n + 1) \div k = n \div k /\ (n + 1) % k = (n % k) + 1
         /\ (n + 1) % k = 0 => (n + 1) \div k = n \div k + 1
<1>1. n \div k \in Nat /\ n % k \in 0 .. k - 1 /\ n = k * (n \div k) + (n % k)
  BY DivMod
<1> DEFINE q == n \div k
           r == n % k
           m == n + 1
<1>2. q \in Nat /\ r \in 0 .. k - 1 /\ n = k * q + r /\ m \in Nat
  BY <1>1
<1> HIDE DEF q, r
<1>3. CASE r + 1 < k
  <2> DEFINE t == r + 1
  <2>1. t \in 0 .. k - 1 /\ m = k * q + t
    BY <1>2, <1>3
  <2> HIDE DEF t, m
  <2>2. m \div k = q /\ m % k = t
    BY <1>2, <2>1, DivUnique
  <2>3. m % k # 0
    BY <1>2, <2>2 DEF t
  <2> QED BY <2>2, <2>3 DEF q, r, t, m
<1>4. CASE r + 1 = k
  <2> DEFINE t == q + 1
             z == 0
  <2>1. t \in Nat /\ z \in 0 .. k - 1 /\ m = k * t + z
    BY <1>2, <1>4
  <2> HIDE DEF t, m, z
  <2>2. m \div k = t /\ m % k = z
    BY <2>1, DivUnique, <1>2
  <2> QED BY <2>2 DEF q, r, t, m, z
<1> QED BY <1>2, <1>3, <1>4

\* A quotient is below what the number is below a multiple of.
LEMMA DivBelow ==
  ASSUME NEW n \in Nat, NEW k \in Nat \ {0}, NEW m \in Nat, n < m * k
  PROVE  n \div k < m
<1>1. n \div k \in Nat /\ n % k \in 0 .. k - 1 /\ n = k * (n \div k) + (n % k)
  BY DivMod
<1> DEFINE a == n \div k
<1>2. a \in Nat /\ n >= k * a
  BY <1>1
<1> HIDE DEF a
<1>3. ~ m <= a
  <2> SUFFICES ASSUME m <= a PROVE FALSE
    OBVIOUS
  <2>1. k * m <= k * a
    BY <1>2
  <2> QED BY <1>2, <2>1
<1> QED BY <1>2, <1>3 DEF a

\* Multiplication is monotonic.
LEMMA TimesUp ==
  ASSUME NEW k \in Nat, NEW a \in Int, NEW b \in Int, a <= b
  PROVE  k * a <= k * b
  OBVIOUS

-----------------------------------------------------------------------------
(* Where things lie on a volume. *)

\* The FAT lies behind the boot sector and FSInfo, the data behind the FAT.
LEMMA Regions ==
  ASSUME NEW g, Shape(g)
  PROVE  /\ \A s \in FatSectors(g) : s \in Nat /\ s \notin 0 .. g.volbase /\ s \notin DataSectors(g)
         /\ \A s \in DataSectors(g) : s \in Nat /\ s \notin 0 .. g.volbase /\ s \notin FatSectors(g)
         /\ g.info => g.volbase + 1 \notin FatSectors(g) \union DataSectors(g) \union (0 .. g.volbase)
         /\ g.csize * (g.n_fatent - 2) \in Nat
         /\ Clusts(g) \subseteq Nat /\ EOC \notin Clusts(g) /\ 0 \notin Clusts(g)
         /\ 1 \notin Clusts(g) /\ EOC \in Nat /\ EOC # 0
         /\ SS \in Nat \ {0} /\ Cells \subseteq Nat
<1>1. g.csize * (g.n_fatent - 2) \in Nat
  BY DEF Shape
<1> DEFINE size == g.csize * (g.n_fatent - 2)
<1> HIDE DEF size
<1>2. DataSectors(g) = g.fatbase + g.fsize .. g.database + size - 1 /\ size \in Nat
  BY <1>1 DEF DataSectors, size
<1>3. /\ g.volbase \in Nat /\ g.fatbase \in Nat /\ g.volbase < g.fatbase
      /\ g.fsize \in Nat /\ g.database \in Nat /\ g.fatbase + g.fsize <= g.database
      /\ g.n_fatent \in Nat /\ g.n_fatent <= EOC /\ 3 <= g.n_fatent
      /\ g.info => g.volbase + 1 < g.fatbase
  BY DEF Shape
<1>4. /\ \A s \in FatSectors(g) : s \in Nat /\ s \notin 0 .. g.volbase /\ s \notin DataSectors(g)
      /\ \A s \in DataSectors(g) : s \in Nat /\ s \notin 0 .. g.volbase /\ s \notin FatSectors(g)
  <2>1. ASSUME NEW s \in FatSectors(g)
        PROVE  s \in Nat /\ s \notin 0 .. g.volbase /\ s \notin DataSectors(g)
    <3>1. s \in g.fatbase .. g.fatbase + g.fsize - 1
      BY DEF FatSectors
    <3> QED BY <3>1, <1>2, <1>3
  <2>2. ASSUME NEW s \in DataSectors(g)
        PROVE  s \in Nat /\ s \notin 0 .. g.volbase /\ s \notin FatSectors(g)
    <3>1. s \in g.fatbase + g.fsize .. g.database + size - 1
      BY <1>2
    <3> QED BY <3>1, <1>2, <1>3 DEF FatSectors
  <2> QED BY <2>1, <2>2
<1>5. g.info => g.volbase + 1 \notin FatSectors(g) \union DataSectors(g) \union (0 .. g.volbase)
  BY <1>2, <1>3 DEF FatSectors
<1>6. /\ Clusts(g) \subseteq Nat /\ EOC \notin Clusts(g) /\ 0 \notin Clusts(g)
      /\ 1 \notin Clusts(g) /\ EOC \in Nat /\ EOC # 0
      /\ SS \in Nat \ {0} /\ Cells \subseteq Nat
  BY <1>3, FatAssumption DEF Clusts, Cells
<1> QED BY <1>1, <1>4, <1>5, <1>6

\* The cell of a cluster is in a sector of the FAT.
LEMMA HomePlace ==
  ASSUME NEW g, Shape(g), NEW c \in Clusts(g)
  PROVE  Home(g, c) \in FatSectors(g) /\ c % SS \in Cells /\ c \in Nat
<1>1. c \in Nat /\ c < g.n_fatent /\ SS \in Nat \ {0} /\ g.fsize \in Nat /\ g.fatbase \in Nat
  BY FatAssumption DEF Shape, Clusts
<1>2. c < g.fsize * SS
  <2> DEFINE top == g.fsize * SS
  <2>1. top \in Nat /\ g.n_fatent <= top /\ g.n_fatent \in Nat
    BY <1>1 DEF Shape
  <2> HIDE DEF top
  <2>2. c < top
    BY <1>1, <2>1
  <2> QED BY <2>2 DEF top
<1>3. c \div SS < g.fsize
  BY <1>1, <1>2, DivBelow
<1>4. c \div SS \in Nat /\ c % SS \in 0 .. SS - 1
  BY <1>1, DivMod
<1> DEFINE q == c \div SS
           r == c % SS
<1> HIDE DEF q, r
<1>5. q \in Nat /\ q < g.fsize /\ r \in 0 .. SS - 1
  BY <1>3, <1>4 DEF q, r
<1>6. g.fatbase + q \in FatSectors(g)
  BY <1>1, <1>5 DEF FatSectors
<1> QED BY <1>1, <1>5, <1>6 DEF q, r, Home, Cells

\* Two clusters do not share a cell.
LEMMA HomeApart ==
  ASSUME NEW g, Shape(g), NEW c \in Clusts(g), NEW d \in Clusts(g),
         Home(g, c) = Home(g, d), c % SS = d % SS
  PROVE  c = d
<1>1. c \in Nat /\ d \in Nat /\ SS \in Nat \ {0} /\ g.fatbase \in Nat
  BY FatAssumption DEF Shape, Clusts
<1>2. c \div SS \in Nat /\ c = SS * (c \div SS) + (c % SS)
  BY <1>1, DivMod
<1>3. d \div SS \in Nat /\ d = SS * (d \div SS) + (d % SS)
  BY <1>1, DivMod
<1>4. c \div SS = d \div SS
  <2> DEFINE p == c \div SS
             q == d \div SS
  <2>1. p \in Nat /\ q \in Nat /\ g.fatbase + p = g.fatbase + q
    BY <1>2, <1>3 DEF Home
  <2> HIDE DEF p, q
  <2>2. p = q
    BY <1>1, <2>1
  <2> QED BY <2>2 DEF p, q
<1> QED BY <1>2, <1>3, <1>4

\* The sectors of a cluster are data sectors.
LEMMA ClusterPlace ==
  ASSUME NEW g, Shape(g), NEW c \in Clusts(g), NEW k \in 0 .. g.csize - 1
  PROVE  /\ clst2sect(g, c) \in Nat \ {0}
         /\ clst2sect(g, c) + k \in DataSectors(g)
<1> DEFINE n == g.n_fatent - 2
           i == c - 2
<1>1. g.csize \in Nat /\ n \in Nat /\ i \in Nat /\ i + 1 <= n
  BY DEF Shape, Clusts
<1>0. /\ g.fatbase \in Nat /\ g.fsize \in Nat /\ g.database \in Nat /\ g.fatbase > 0
      /\ g.fatbase + g.fsize <= g.database
  BY DEF Shape
<1>2. clst2sect(g, c) = g.database + g.csize * i
  BY DEF clst2sect, IsClst, Clusts
<1> HIDE DEF n, i
<1>3. g.csize * (i + 1) <= g.csize * n
  BY <1>1, TimesUp
<1>4. g.csize * (i + 1) = g.csize * i + g.csize
  <2> DEFINE z == g.csize
  <2>1. z \in Nat
    BY <1>1
  <2> HIDE DEF z
  <2>2. z * (i + 1) = z * i + z
    BY <1>1, <2>1
  <2> QED BY <2>2 DEF z
<1> DEFINE p == g.csize * i
           q == g.csize * n
<1>5. p \in Nat /\ q \in Nat /\ p + g.csize <= q
  BY <1>1, <1>3, <1>4
<1>6. DataSectors(g) = g.fatbase + g.fsize .. g.database + q - 1
  BY DEF DataSectors, n
<1>7. clst2sect(g, c) = g.database + p
  BY <1>2
<1> HIDE DEF p, q
<1>8. clst2sect(g, c) \in Nat \ {0}
  <2>1. g.database > 0
    BY <1>0
  <2>2. g.database + p \in Nat /\ g.database + p > 0
    BY <2>1, <1>0, <1>5
  <2> QED BY <2>2, <1>7
<1>9. g.database + p + k \in g.fatbase + g.fsize .. g.database + q - 1
  <2>1. k \in Nat /\ k <= g.csize - 1
    BY <1>1
  <2> QED BY <2>1, <1>0, <1>1, <1>5
<1> QED BY <1>6, <1>7, <1>8, <1>9

\* So are the sectors of the root directory of a FAT16 volume.
LEMMA RootPlace ==
  ASSUME NEW g, Shape(g), g.fs_type # 32, NEW n \in Nat, n < g.n_rootdir
  PROVE  g.dirbase + n \div SS \in DataSectors(g)
<1>1. /\ SS \in Nat \ {0} /\ g.n_rootdir \in Nat /\ g.n_rootdir % SS = 0
      /\ g.dirbase \in Nat /\ g.fatbase + g.fsize <= g.dirbase
      /\ g.dirbase + g.n_rootdir \div SS <= g.database
      /\ g.fatbase \in Nat /\ g.fsize \in Nat /\ g.database \in Nat
  BY FatAssumption DEF Shape
<1> DEFINE size == g.csize * (g.n_fatent - 2)
           top  == g.n_rootdir \div SS
           q    == n \div SS
<1>2. size \in Nat
  BY DEF Shape
<1>3. top \in Nat /\ g.n_rootdir = SS * top + (g.n_rootdir % SS)
  BY <1>1, DivMod
<1>4. q \in Nat
  BY <1>1, DivMod
<1>5. DataSectors(g) = g.fatbase + g.fsize .. g.database + size - 1
  BY DEF DataSectors
<1> HIDE DEF size
<1>6. q < top
  <2> HIDE DEF top
  <2>1. n < top * SS
    BY <1>1, <1>3
  <2> QED BY <1>1, <1>3, <2>1, DivBelow
<1>8. /\ g.dirbase \in Nat /\ g.fatbase + g.fsize <= g.dirbase
      /\ g.dirbase + top <= g.database
      /\ g.fatbase \in Nat /\ g.fsize \in Nat /\ g.database \in Nat
  BY <1>1
<1> HIDE DEF q, top
<1>7. g.dirbase + q \in DataSectors(g)
  BY <1>2, <1>3, <1>4, <1>5, <1>6, <1>8
<1> QED BY <1>7 DEF q

-----------------------------------------------------------------------------
(* Tables, counts and trails. *)

\* The clusters of a volume can be counted, and so can any of them.
LEMMA SubCount ==
  ASSUME NEW g, Shape(g), NEW F, NEW G, F \subseteq G, G \subseteq Clusts(g)
  PROVE  /\ IsFiniteSet(F) /\ IsFiniteSet(G)
         /\ Cardinality(F) \in Nat /\ Cardinality(G) \in Nat
         /\ Cardinality(F) <= Cardinality(G)
         /\ Cardinality(G) <= g.n_fatent - 2
<1>1. IsFiniteSet(Clusts(g)) /\ Cardinality(Clusts(g)) = g.n_fatent - 2
  <2> DEFINE m == g.n_fatent - 1
  <2>1. m \in Int /\ m >= 2
    BY DEF Shape
  <2>2. g.n_fatent - 2 = m - 2 + 1
    BY DEF Shape
  <2> HIDE DEF m
  <2>3. IsFiniteSet(2 .. m) /\ Cardinality(2 .. m) = m - 2 + 1
    BY <2>1, FS_Interval
  <2> QED BY <2>2, <2>3 DEF Clusts, m
<1>2. IsFiniteSet(G) /\ Cardinality(G) <= Cardinality(Clusts(g))
  BY <1>1, FS_Subset
<1>3. IsFiniteSet(F) /\ Cardinality(F) <= Cardinality(G)
  BY <1>2, FS_Subset
<1>4. Cardinality(F) \in Nat /\ Cardinality(G) \in Nat
  BY <1>2, <1>3, FS_CardinalityType
<1> QED BY <1>1, <1>2, <1>3, <1>4

\* Counting fewer clusters, by the same FSInfo.
LEMMA CountedLess ==
  ASSUME NEW g, Shape(g), NEW C, Layout(g, C), NEW F, NEW G, F \subseteq G, G \subseteq Clusts(g),
         Counted(g, C, G), NEW D, g.info => D[g.volbase + 1] = C[g.volbase + 1]
  PROVE  Counted(g, D, F)
<1>1. Cardinality(F) \in Nat /\ Cardinality(G) \in Nat /\ Cardinality(F) <= Cardinality(G)
  BY SubCount
<1>2. g.info => C[g.volbase + 1].free \in Nat
  BY DEF Layout
<1> QED BY <1>1, <1>2 DEF Counted

\* The cells of the FAT are numbers.
LEMMA TabType ==
  ASSUME NEW g, Shape(g), NEW C, Layout(g, C)
  PROVE  Tab(g, C) \in [Clusts(g) -> Nat]
<1>1. ASSUME NEW c \in Clusts(g) PROVE C[Home(g, c)][c % SS] \in Nat
  BY HomePlace DEF Layout
<1> QED BY <1>1 DEF Tab

\* So they are with the window.
LEMMA MemType ==
  ASSUME NEW g, Shape(g), NEW v, Layout(g, v.card), Window(g, v)
  PROVE  Mem(g, v) \in [Clusts(g) -> Nat]
<1>1. ASSUME NEW c \in Clusts(g), Home(g, c) = v.winsect PROVE v.win[c % SS] \in Nat
  BY <1>1, HomePlace DEF Window
<1>2. ASSUME NEW c \in Clusts(g) PROVE v.card[Home(g, c)][c % SS] \in Nat
  BY HomePlace DEF Layout
<1>3. ASSUME NEW c \in Clusts(g)
      PROVE  (IF Home(g, c) = v.winsect THEN v.win[c % SS] ELSE v.card[Home(g, c)][c % SS]) \in Nat
  BY <1>1, <1>2
<1> QED BY <1>3 DEF Mem

\* A window that is not dirty holds nothing the card does not have.
LEMMA CleanTab ==
  ASSUME NEW g, Shape(g), NEW v, Window(g, v), ~v.wflag
  PROVE  Tab(g, v.card) = Mem(g, v)
<1>1. ASSUME NEW c \in Clusts(g), Home(g, c) = v.winsect PROVE v.win = v.card[Home(g, c)]
  BY <1>1, HomePlace DEF Window
<1> QED BY <1>1 DEF Tab, Mem

\* One more write, to a sound card.
LEMMA TrailOn ==
  ASSUME NEW g, NEW K, NEW log, NEW C, Trail(g, K, log, C), NEW s, NEW x,
         OkCard(g, With(C, s, x))
  PROVE  Trail(g, K, Append(log, <<s, x>>), With(C, s, x))
<1>1. PICK S, t :
        /\ log \in Seq(S)
        /\ t[0] = K /\ t[Len(log)] = C
        /\ \A i \in 1 .. Len(log) : t[i] = With(t[i - 1], log[i][1], log[i][2])
        /\ \A i \in 0 .. Len(log) : OkCard(g, t[i])
  BY DEF Trail
<1> HIDE DEF OkCard
<1> DEFINE n == Len(log)
           e == <<s, x>>
           l == Append(log, e)
           D == With(C, s, x)
           T == S \union {e}
           f == [i \in 0 .. n + 1 |-> IF i = n + 1 THEN D ELSE t[i]]
<1>2. n \in Nat
  BY <1>1
<1>3. log \in Seq(T)
  <2>1. \A i \in 1 .. Len(log) : log[i] \in T
    BY <1>1
  <2>2. log = [i \in 1 .. Len(log) |-> log[i]]
    BY <1>1
  <2> QED BY <1>2, <2>1, <2>2
<1>4. l \in Seq(T) /\ Len(l) = n + 1 /\ l[n + 1] = e /\ \A i \in 1 .. n : l[i] = log[i]
  BY <1>3
<1>5. f[0] = K /\ f[n + 1] = D /\ f[n] = C /\ \A i \in 0 .. n : f[i] = t[i]
  BY <1>1, <1>2
<1> HIDE DEF f, l
<1>6. ASSUME NEW i \in 1 .. Len(l) PROVE f[i] = With(f[i - 1], l[i][1], l[i][2])
  <2>1. CASE i = n + 1
    <3>1. i - 1 = n /\ l[i][1] = s /\ l[i][2] = x
      BY <1>2, <1>4, <2>1
    <3> QED BY <1>5, <2>1, <3>1
  <2>2. CASE i # n + 1
    <3>1. i \in 1 .. n /\ i - 1 \in 0 .. n /\ i \in 0 .. n
      BY <1>2, <1>4, <2>2
    <3>2. f[i] = t[i] /\ f[i - 1] = t[i - 1] /\ l[i] = log[i]
      BY <1>4, <1>5, <3>1
    <3> QED BY <1>1, <3>1, <3>2
  <2> QED BY <2>1, <2>2
<1>7. ASSUME NEW i \in 0 .. Len(l) PROVE OkCard(g, f[i])
  <2>1. CASE i = n + 1
    BY <1>5, <2>1
  <2>2. CASE i # n + 1
    <3>1. i \in 0 .. n
      BY <1>2, <1>4, <2>2
    <3> QED BY <1>1, <1>5, <3>1
  <2> QED BY <2>1, <2>2
<1> HIDE DEF D, T
<1>8. Trail(g, K, l, D)
  <2>1. f[Len(l)] = D
    BY <1>4, <1>5
  <2>2. \A i \in 0 .. Len(l) : OkCard(g, f[i])
    BY <1>7
  <2>3. \A i \in 1 .. Len(l) : f[i] = With(f[i - 1], l[i][1], l[i][2])
    BY <1>6
  <2> QED BY <1>4, <1>5, <2>1, <2>2, <2>3, Zenon DEF Trail
<1> QED BY <1>8 DEF l, D

\* The parts of a sound card that a write to another sector leaves alone.
LEMMA LayoutOn ==
  ASSUME NEW g, Shape(g), NEW C, Layout(g, C), NEW s, NEW x,
         s \in FatSectors(g) => x \in [Cells -> Nat],
         s \in DataSectors(g) => DOMAIN x = Cells,
         s \in FatSectors(g) \union DataSectors(g) \/ (g.info /\ s = g.volbase + 1 /\ x.free \in Nat)
  PROVE  Layout(g, With(C, s, x))
<1> DEFINE D == With(C, s, x)
<1>1. DOMAIN D = DOMAIN C /\ (\A i \in DOMAIN C : D[i] = IF i = s THEN x ELSE C[i])
  BY DEF With
<1>2. s \notin 0 .. g.volbase
  BY Regions
<1>3. /\ g.volbase \in Nat /\ g.volbase < g.fatbase /\ g.fatbase \in Nat /\ g.fsize \in Nat
      /\ g.info => g.volbase + 1 < g.fatbase
  BY DEF Shape
<1>4. 0 .. g.volbase \subseteq DOMAIN C /\ FatSectors(g) \subseteq DOMAIN C
  BY <1>3 DEF Layout, FatSectors
<1>5. DataSectors(g) \subseteq DOMAIN C
  BY DEF Layout
<1>6. g.info => g.volbase + 1 \in DOMAIN C
  BY <1>3 DEF Layout
<1> HIDE DEF D
<1>7. \A i \in 0 .. g.volbase : D[i] = g.front[i]
  BY <1>1, <1>2, <1>4 DEF Layout
<1>8. \A i \in FatSectors(g) : D[i] \in [Cells -> Nat]
  BY <1>1, <1>4 DEF Layout
<1>9. \A i \in DataSectors(g) : DOMAIN D[i] = Cells
  BY <1>1, <1>5 DEF Layout
<1>10. g.info => D[g.volbase + 1].free \in Nat
  BY <1>1, <1>6, Regions DEF Layout
<1>11. Layout(g, D)
  BY <1>1, <1>7, <1>8, <1>9, <1>10 DEF Layout
<1> QED BY <1>11 DEF D

-----------------------------------------------------------------------------
(* The window and the sectors it is written to. *)

\* w is v, as far as the FAT and the number of free clusters are concerned.
Like(g, v, w) == Mem(g, w) = Mem(g, v) /\ w.free_clst = v.free_clst

\* What disk_write() changes and what not.
LEMMA Wrote ==
  ASSUME NEW v, NEW s, NEW x
  PROVE  LET w == disk_write(v, s, x)
         IN  /\ w.card = With(v.card, s, x) /\ w.log = Append(v.log, <<s, x>>)
             /\ w.winsect = v.winsect /\ w.win = v.win /\ w.wflag = v.wflag
             /\ w.free_clst = v.free_clst
             /\ \A g : Same(g, v) => Same(g, w)
  BY DEF disk_write, Same, With

\* disk_write() of a sector of a directory or a file, or of a copy of the FAT.
LEMMA StoreData ==
  ASSUME NEW g, Shape(g), NEW K, NEW v, NEW B, NEW h, Body(g, K, v, B, h),
         NEW s \in DataSectors(g), NEW x, DOMAIN x = Cells
  PROVE  /\ Body(g, K, disk_write(v, s, x), B, h)
         /\ Like(g, v, disk_write(v, s, x))
         /\ Tab(g, disk_write(v, s, x).card) = Tab(g, v.card)
<1> DEFINE D == With(v.card, s, x)
           w == disk_write(v, s, x)
<1>1. /\ w.card = D /\ w.log = Append(v.log, <<s, x>>)
      /\ w.winsect = v.winsect /\ w.win = v.win /\ w.wflag = v.wflag
      /\ w.free_clst = v.free_clst
  BY Wrote
<1>2. Same(g, w)
  BY Wrote DEF Body
<1> HIDE DEF w
<1>3. Layout(g, v.card) /\ Window(g, v)
  BY DEF Body, OkCard
<1>4. \A i \in DOMAIN v.card : i # s => D[i] = v.card[i]
  BY DEF With
<1> HIDE DEF D
<1>5. FatSectors(g) \subseteq DOMAIN v.card /\ (g.info => g.volbase + 1 \in DOMAIN v.card)
  BY <1>3 DEF Layout, Shape, FatSectors
<1>6. \A i \in FatSectors(g) : D[i] = v.card[i]
  BY <1>4, <1>5, Regions
<1>7. g.info => D[g.volbase + 1] = v.card[g.volbase + 1]
  BY <1>4, <1>5, Regions
<1>8. Tab(g, D) = Tab(g, v.card)
  BY <1>6, HomePlace DEF Tab
<1>9. Mem(g, w) = Mem(g, v)
  BY <1>1, <1>6, HomePlace DEF Mem
<1>10. Layout(g, D)
  <2>1. s \notin FatSectors(g)
    BY Regions
  <2> QED BY <1>3, <2>1, LayoutOn DEF D
<1>11. OkCard(g, D)
  BY <1>7, <1>8, <1>10 DEF Body, OkCard, Counted
<1>12. Trail(g, K, w.log, D)
  BY <1>1, <1>11, TrailOn DEF Body, D
<1>13. Window(g, w)
  BY <1>1, <1>3, <1>6 DEF Window
<1>14. Counted(g, D, Free(g, Mem(g, w)) \union Free(g, Tab(g, D)) \union B)
  BY <1>7, <1>8, <1>9 DEF Body, Counted
<1>15. Body(g, K, w, B, h)
  BY <1>1, <1>2, <1>8, <1>9, <1>11, <1>12, <1>13, <1>14 DEF Body
<1> QED BY <1>1, <1>8, <1>9, <1>15 DEF w, Like

\* The first write of sync_window(): the card has the FAT that memory has.
LEMMA StoreWindow ==
  ASSUME NEW g, Shape(g), NEW K, NEW v, NEW B, NEW h, Body(g, K, v, B, h), v.wflag = TRUE
  PROVE  /\ Body(g, K, disk_write(v, v.winsect, v.win), B, h)
         /\ Like(g, v, disk_write(v, v.winsect, v.win))
         /\ Tab(g, disk_write(v, v.winsect, v.win).card) = Mem(g, v)
         /\ v.winsect \in FatSectors(g) =>
              disk_write(v, v.winsect, v.win).card[v.winsect] = v.win
<1>0. PICK s, x : s = v.winsect /\ x = v.win
  OBVIOUS
<1> DEFINE D == With(v.card, s, x)
           w == disk_write(v, s, x)
<1>1. /\ w.card = D /\ w.log = Append(v.log, <<s, x>>)
      /\ w.winsect = v.winsect /\ w.win = v.win /\ w.wflag = v.wflag
      /\ w.free_clst = v.free_clst
  BY Wrote
<1>2. Same(g, w)
  BY Wrote DEF Body
<1> HIDE DEF w
<1>3. Layout(g, v.card) /\ Window(g, v) /\ s \in FatSectors(g) \union DataSectors(g)
  BY <1>0 DEF Body, OkCard, Window
<1>4. \A i \in DOMAIN v.card : D[i] = IF i = s THEN x ELSE v.card[i]
  BY DEF With
<1> HIDE DEF D
<1>5. FatSectors(g) \subseteq DOMAIN v.card /\ (g.info => g.volbase + 1 \in DOMAIN v.card)
  BY <1>3 DEF Layout, Shape, FatSectors
<1>6. \A i \in FatSectors(g) : D[i] = IF i = s THEN x ELSE v.card[i]
  BY <1>4, <1>5
<1>7. g.info => D[g.volbase + 1] = v.card[g.volbase + 1]
  BY <1>3, <1>4, <1>5, Regions
<1>8. Tab(g, D) = Mem(g, v)
  <2>1. ASSUME NEW c \in Clusts(g)
        PROVE  D[Home(g, c)] = IF Home(g, c) = s THEN x ELSE v.card[Home(g, c)]
    BY <1>6, HomePlace
  <2> QED BY <2>1, <1>0 DEF Tab, Mem
<1>9. Mem(g, w) = Mem(g, v)
  <2>1. ASSUME NEW c \in Clusts(g), Home(g, c) # s PROVE D[Home(g, c)] = v.card[Home(g, c)]
    BY <1>6, <2>1, HomePlace
  <2> QED BY <1>0, <1>1, <2>1 DEF Mem
<1>10. Layout(g, D)
  <2>1. /\ s \in FatSectors(g) => x \in [Cells -> Nat]
        /\ s \in DataSectors(g) => DOMAIN x = Cells
    BY <1>3, <1>0 DEF Window
  <2> QED BY <1>3, <2>1, LayoutOn DEF D
<1> DEFINE F == Free(g, Mem(g, v))
           G == F \union Free(g, Tab(g, v.card)) \union B
<1>11. Counted(g, v.card, G) /\ F \subseteq G /\ G \subseteq Clusts(g) /\ F \union F \union B \subseteq G
  BY DEF Body, Free, Hold
<1> HIDE DEF F, G
<1>12. Counted(g, D, F) /\ Counted(g, D, F \union F \union B)
  BY <1>3, <1>7, <1>11, CountedLess
<1>13. OkCard(g, D)
  BY <1>8, <1>10, <1>12 DEF Body, OkCard, F
<1>14. Trail(g, K, w.log, D)
  BY <1>1, <1>13, TrailOn DEF Body, D
<1>15. Window(g, w)
  BY <1>0, <1>1, <1>3, <1>6 DEF Window
<1>16. Body(g, K, w, B, h)
  BY <1>1, <1>2, <1>8, <1>9, <1>12, <1>13, <1>14, <1>15 DEF Body, F
<1>17. s \in FatSectors(g) => D[s] = x
  BY <1>6
<1> QED BY <1>0, <1>1, <1>8, <1>9, <1>16, <1>17 DEF w, Like

\* The second copy of a FAT sector lies before the directories.
LEMMA MirrorPlace ==
  ASSUME NEW base \in Nat, NEW length \in Nat, NEW data \in Nat, NEW size \in Nat,
         base + length + length <= data, NEW s \in base .. base + length - 1
  PROVE  s + length \in base + length .. data + size - 1
OBVIOUS

\* sync_window(): the card has what memory has.
LEMMA SyncWindow ==
  ASSUME NEW g, Shape(g), NEW K, NEW v, NEW B, NEW h, Body(g, K, v, B, h)
  PROVE  /\ Body(g, K, sync_window(v), B, h)
         /\ Like(g, v, sync_window(v))
         /\ ~sync_window(v).wflag
         /\ Tab(g, sync_window(v).card) = Mem(g, v)
<1>1. CASE ~v.wflag
  BY <1>1, CleanTab DEF sync_window, Body, Like
<1>2. CASE v.wflag = TRUE
  <2> DEFINE first  == disk_write(v, v.winsect, v.win)
             mirror == /\ v.winsect \in v.fatbase .. v.fatbase + v.fsize - 1
                       /\ v.n_fats = 2
             both   == IF mirror THEN disk_write(first, v.winsect + v.fsize, v.win) ELSE first
             w      == [both EXCEPT !.wflag = FALSE]
  <2>1. sync_window(v) = w
    BY <1>2 DEF sync_window
  <2>2. /\ Body(g, K, first, B, h) /\ Like(g, v, first) /\ Tab(g, first.card) = Mem(g, v)
        /\ v.winsect \in FatSectors(g) => first.card[v.winsect] = v.win
    BY <1>2, StoreWindow
  <2>3. /\ first.winsect = v.winsect /\ first.win = v.win /\ first.wflag = v.wflag
    BY DEF disk_write
  <2> HIDE DEF first
  <2>4. ASSUME mirror
        PROVE  /\ v.winsect \in FatSectors(g) /\ v.winsect + v.fsize \in DataSectors(g)
               /\ DOMAIN v.win = Cells
    <3>1. /\ v.fatbase = g.fatbase /\ v.fsize = g.fsize /\ v.n_fats = g.n_fats
          /\ g.fatbase \in Nat /\ g.fsize \in Nat /\ g.database \in Nat
          /\ g.fatbase + g.fsize + g.fsize <= g.database
      BY <2>4 DEF Body, Same, Shape
    <3>2. v.winsect \in FatSectors(g)
      BY <2>4, <3>1 DEF FatSectors
    <3> DEFINE size == g.csize * (g.n_fatent - 2)
    <3>3. size \in Nat /\ DataSectors(g) = g.fatbase + g.fsize .. g.database + size - 1
      BY Regions DEF DataSectors
    <3> HIDE DEF size
    <3>4. v.winsect + v.fsize \in DataSectors(g)
      <4>1. v.winsect \in g.fatbase .. g.fatbase + g.fsize - 1
        BY <3>2 DEF FatSectors
      <4>2. v.winsect + g.fsize \in g.fatbase + g.fsize .. g.database + size - 1
        BY <3>1, <3>3, <4>1, MirrorPlace
      <4> QED BY <3>1, <3>3, <4>2
    <3> QED BY <3>2, <3>4 DEF Body, Window
  <2>5. /\ Body(g, K, both, B, h) /\ Like(g, v, both) /\ Tab(g, both.card) = Mem(g, v)
        /\ both.winsect = v.winsect /\ both.win = v.win
        /\ v.winsect \in FatSectors(g) => both.card[v.winsect] = v.win
    <3>1. CASE ~mirror
      BY <2>2, <2>3, <3>1
    <3>2. CASE mirror
      <4> DEFINE m == v.winsect + v.fsize
                 x == v.win
                 u == disk_write(first, m, x)
      <4>1. m \in DataSectors(g) /\ DOMAIN x = Cells /\ v.winsect \in FatSectors(g)
        BY <2>4, <3>2
      <4>2. u.winsect = first.winsect /\ u.win = first.win /\ u.card = With(first.card, m, x)
        BY Wrote
      <4> HIDE DEF m, x
      <4>3. Body(g, K, u, B, h) /\ Like(g, first, u) /\ Tab(g, u.card) = Tab(g, first.card)
        BY <2>2, <4>1, StoreData
      <4>4. u.card[v.winsect] = v.win
        <5>1. v.winsect # m
          BY <4>1, Regions
        <5>2. v.winsect \in DOMAIN first.card
          BY <2>2, <4>1 DEF Body, OkCard, Layout, FatSectors, Shape
        <5> QED BY <2>2, <4>1, <4>2, <5>1, <5>2 DEF With
      <4>5. both = u
        BY <3>2 DEF m, x
      <4> HIDE DEF u, both
      <4> QED BY <2>2, <2>3, <4>2, <4>3, <4>4, <4>5 DEF Like
    <3> QED BY <3>1, <3>2
  <2> HIDE DEF both
  <2>6. /\ w.card = both.card /\ w.log = both.log /\ ~w.wflag /\ w.wflag \in BOOLEAN
        /\ w.winsect = both.winsect /\ w.win = both.win /\ w.free_clst = both.free_clst
    OBVIOUS
  <2>7. Same(g, w)
    BY <2>5 DEF Body, Same
  <2> HIDE DEF w
  <2>8. Window(g, w)
    BY <2>5, <2>6 DEF Body, Window
  <2>9. Mem(g, w) = Mem(g, both)
    BY <2>6 DEF Mem
  <2>10. Body(g, K, w, B, h)
    BY <2>5, <2>6, <2>7, <2>8, <2>9 DEF Body
  <2> QED BY <2>1, <2>5, <2>6, <2>9, <2>10 DEF Like
<1>3. v.wflag \in BOOLEAN
  BY DEF Body, Window
<1> QED BY <1>1, <1>2, <1>3

\* move_window(): the window shows another sector, and nothing is lost.
LEMMA MoveWindow ==
  ASSUME NEW g, Shape(g), NEW K, NEW v, NEW B, NEW h, Body(g, K, v, B, h), NEW s
  PROVE  /\ Body(g, K, move_window(v, s), B, h)
         /\ Like(g, v, move_window(v, s))
         /\ move_window(v, s).winsect = s
<1>1. CASE s = v.winsect
  BY <1>1 DEF move_window, Like
<1>2. CASE s # v.winsect
  <2> DEFINE u == sync_window(v)
             w == [u EXCEPT !.winsect = s, !.win = u.card[s]]
  <2>1. move_window(v, s) = w
    BY <1>2 DEF move_window
  <2>2. /\ Body(g, K, u, B, h) /\ Like(g, v, u) /\ u.wflag = FALSE
        /\ Tab(g, u.card) = Mem(g, v)
    BY SyncWindow DEF Body, Window
  <2> HIDE DEF u
  <2>3. /\ w.card = u.card /\ w.log = u.log /\ w.wflag = u.wflag /\ w.free_clst = u.free_clst
        /\ w.winsect = s /\ w.win = u.card[s]
    OBVIOUS
  <2>4. Same(g, w)
    BY <2>2 DEF Body, Same
  <2> HIDE DEF w
  <2>5. Window(g, w)
    BY <2>2, <2>3 DEF Body, Window, OkCard, Layout
  <2>6. Mem(g, w) = Mem(g, v)
    <3>1. Tab(g, w.card) = Mem(g, w)
      BY <2>2, <2>3, <2>5, CleanTab
    <3> QED BY <2>2, <2>3, <3>1
  <2>7. Mem(g, u) = Mem(g, v) /\ u.free_clst = v.free_clst
    BY <2>2 DEF Like
  <2>8. Body(g, K, w, B, h)
    BY <2>2, <2>3, <2>4, <2>5, <2>6, <2>7 DEF Body
  <2> QED BY <2>1, <2>3, <2>6, <2>7, <2>8 DEF Like
<1> QED BY <1>1, <1>2

\* What is written to the window of a directory, or of a file's entry.
LEMMA Dirtied ==
  ASSUME NEW g, Shape(g), NEW K, NEW v, NEW B, NEW h, Body(g, K, v, B, h),
         v.winsect \in DataSectors(g), NEW x, DOMAIN x = Cells
  PROVE  /\ Body(g, K, [v EXCEPT !.win = x, !.wflag = TRUE], B, h)
         /\ Like(g, v, [v EXCEPT !.win = x, !.wflag = TRUE])
<1> DEFINE w == [v EXCEPT !.win = x, !.wflag = TRUE]
<1>1. /\ w.card = v.card /\ w.log = v.log /\ w.wflag = TRUE /\ w.free_clst = v.free_clst
      /\ w.winsect = v.winsect /\ w.win = x
  OBVIOUS
<1>2. Same(g, w)
  BY DEF Body, Same
<1> HIDE DEF w
<1>3. v.winsect \notin FatSectors(g)
  BY Regions
<1>4. Window(g, w)
  BY <1>1, <1>3 DEF Window
<1>5. Mem(g, w) = Mem(g, v)
  BY <1>1, <1>3, HomePlace DEF Mem
<1>6. Body(g, K, w, B, h)
  BY <1>1, <1>2, <1>4, <1>5 DEF Body
<1> QED BY <1>1, <1>5, <1>6 DEF w, Like

\* get_fat() returns the cell of a cluster, and 1 for what is none.
LEMMA GetFat ==
  ASSUME NEW g, Shape(g), NEW K, NEW v, NEW B, NEW h, Body(g, K, v, B, h), NEW c
  PROVE  /\ Body(g, K, get_fat(v, c).v, B, h)
         /\ Like(g, v, get_fat(v, c).v)
         /\ get_fat(v, c).val = IF c \in Clusts(g) THEN Mem(g, v)[c] ELSE 1
<1>1. v.n_fatent = g.n_fatent /\ v.fatbase = g.fatbase
  BY DEF Body, Same
<1>2. IsClst(v, c) <=> c \in Clusts(g)
  BY <1>1 DEF IsClst, Clusts
<1>3. CASE c \notin Clusts(g)
  BY <1>2, <1>3 DEF get_fat, Like
<1>4. CASE c \in Clusts(g)
  <2> DEFINE w == move_window(v, v.fatbase + c \div SS)
  <2>1. get_fat(v, c) = [v |-> w, val |-> w.win[c % SS]]
    BY <1>2, <1>4 DEF get_fat
  <2>2. Body(g, K, w, B, h) /\ Like(g, v, w) /\ w.winsect = Home(g, c)
    BY <1>1, MoveWindow DEF Home
  <2> HIDE DEF w
  <2>3. Mem(g, w)[c] = w.win[c % SS]
    BY <1>4, <2>2 DEF Mem
  <2> QED BY <1>4, <2>1, <2>2, <2>3 DEF Like
<1> QED BY <1>3, <1>4

\* put_fat() changes one cell.  What must be known of the table with the new value
\* is that its links are apart, and that it frees nothing that is not counted.
LEMMA PutFat ==
  ASSUME NEW g, Shape(g), NEW K, NEW v, NEW B, NEW h, Body(g, K, v, B, h),
         NEW c \in Clusts(g), NEW val \in Nat, NEW n, n = With(Mem(g, v), c, val),
         NEW A, NEW k, Links(g, n), Hold(g, n, A, k),
         Free(g, n) \union A \subseteq Free(g, Mem(g, v)) \union B
  PROVE  /\ Body(g, K, put_fat(v, c, val), A, k)
         /\ Mem(g, put_fat(v, c, val)) = n
         /\ put_fat(v, c, val).free_clst = v.free_clst
<1> DEFINE u == move_window(v, v.fatbase + c \div SS)
           x == [u.win EXCEPT ![c % SS] = val]
           w == [u EXCEPT !.win = x, !.wflag = TRUE]
<1>1. v.n_fatent = g.n_fatent /\ v.fatbase = g.fatbase
  BY DEF Body, Same
<1>2. put_fat(v, c, val) = w
  BY <1>1 DEF put_fat, IsClst, Clusts
<1>3. Body(g, K, u, B, h) /\ Like(g, v, u) /\ u.winsect = Home(g, c)
  BY <1>1, MoveWindow DEF Home
<1> HIDE DEF u
<1>4. Home(g, c) \in FatSectors(g) /\ c % SS \in Cells
  BY HomePlace
<1>5. u.win \in [Cells -> Nat]
  BY <1>3, <1>4 DEF Body, Window
<1>6. x \in [Cells -> Nat] /\ \A i \in Cells : x[i] = IF i = c % SS THEN val ELSE u.win[i]
  BY <1>4, <1>5
<1> HIDE DEF x
<1>7. /\ w.card = u.card /\ w.log = u.log /\ w.wflag = TRUE /\ w.free_clst = u.free_clst
      /\ w.winsect = Home(g, c) /\ w.win = x
  BY <1>3
<1>8. Same(g, w)
  BY <1>3 DEF Body, Same
<1> HIDE DEF w
<1>9. Window(g, w)
  <2>1. Home(g, c) \notin DataSectors(g)
    BY <1>4, Regions
  <2> QED BY <1>4, <1>6, <1>7, <2>1 DEF Window
<1>10. Mem(g, u) = Mem(g, v) /\ u.free_clst = v.free_clst
  BY <1>3 DEF Like
<1>11. DOMAIN Mem(g, v) = Clusts(g) /\ DOMAIN Mem(g, w) = Clusts(g) /\ DOMAIN n = Clusts(g)
  BY DEF Mem, With
<1>12. ASSUME NEW d \in Clusts(g) PROVE Mem(g, w)[d] = n[d]
  <2>1. n[d] = IF d = c THEN val ELSE Mem(g, u)[d]
    BY <1>10, <1>11 DEF With
  <2>2. CASE Home(g, d) # Home(g, c)
    <3>1. d # c
      BY <2>2
    <3> QED BY <1>3, <1>7, <2>1, <2>2, <3>1 DEF Mem
  <2>3. CASE Home(g, d) = Home(g, c)
    <3>1. d % SS \in Cells /\ (d % SS = c % SS <=> d = c)
      BY <2>3, HomePlace, HomeApart
    <3>2. Mem(g, w)[d] = x[d % SS] /\ Mem(g, u)[d] = u.win[d % SS]
      BY <1>3, <1>7, <2>3 DEF Mem
    <3> QED BY <1>6, <2>1, <3>1, <3>2
  <2> QED BY <2>2, <2>3
<1>13. Mem(g, w) = n
  <2>1. Mem(g, w) = [d \in Clusts(g) |-> Mem(g, w)[d]] /\ n = [d \in Clusts(g) |-> n[d]]
    BY DEF Mem, With
  <2> QED BY <1>12, <2>1
<1>14. Layout(g, u.card) /\ Counted(g, u.card, Free(g, Mem(g, v)) \union Free(g, Tab(g, u.card)) \union B)
  BY <1>3, <1>10 DEF Body, OkCard
<1>15. Counted(g, w.card, Free(g, n) \union Free(g, Tab(g, w.card)) \union A)
  <2> DEFINE F == Free(g, n) \union Free(g, Tab(g, w.card)) \union A
             G == Free(g, Mem(g, v)) \union Free(g, Tab(g, u.card)) \union B
  <2>1. F \subseteq G /\ G \subseteq Clusts(g)
    BY <1>7 DEF Free, Body, Hold
  <2> HIDE DEF F, G
  <2>2. Counted(g, u.card, G)
    BY <1>14 DEF G
  <2>3. Counted(g, w.card, F)
    BY <1>7, <1>14, <2>1, <2>2, CountedLess
  <2> QED BY <2>3 DEF F
<1>16. Body(g, K, w, A, k)
  BY <1>3, <1>7, <1>8, <1>9, <1>13, <1>15 DEF Body
<1> QED BY <1>2, <1>7, <1>10, <1>13, <1>16

\* What is held may be let go.
LEMMA LetGo ==
  ASSUME NEW g, Shape(g), NEW K, NEW v, NEW B, NEW h, Body(g, K, v, B, h)
  PROVE  Body(g, K, v, B, 0) /\ Body(g, K, v, {}, 0)
<1>1. Hold(g, Mem(g, v), B, 0) /\ Hold(g, Mem(g, v), {}, 0)
  BY DEF Body, Hold
<1>2. Counted(g, v.card, Free(g, Mem(g, v)) \union Free(g, Tab(g, v.card)) \union {})
  <2> DEFINE F == Free(g, Mem(g, v)) \union Free(g, Tab(g, v.card)) \union {}
             G == Free(g, Mem(g, v)) \union Free(g, Tab(g, v.card)) \union B
  <2>1. F \subseteq G /\ G \subseteq Clusts(g) /\ Counted(g, v.card, G) /\ Layout(g, v.card)
    BY DEF Body, Free, Hold, OkCard
  <2> HIDE DEF F, G
  <2>2. Counted(g, v.card, F)
    BY <2>1, CountedLess
  <2> QED BY <2>2 DEF F
<1> QED BY <1>1, <1>2 DEF Body

\* sync_fs() writes the count of free clusters behind everything it counts.
LEMMA SyncFs ==
  ASSUME NEW g, Shape(g), NEW K, NEW v, NEW B, NEW h, Fine(g, K, v, B, h)
  PROVE  Fine(g, K, sync_fs(v), {}, 0)
<1> DEFINE w    == sync_window(v)
           info == [sig |-> TRUE, free |-> v.free_clst, last |-> v.last_clst]
<1>1. /\ Body(g, K, w, {}, 0) /\ Like(g, v, w) /\ w.wflag = FALSE
      /\ Tab(g, w.card) = Mem(g, v)
  BY SyncWindow, LetGo DEF Fine, Body, Window
<1> HIDE DEF w
<1>2. Enough(g, Mem(g, v), v.free_clst)
  BY DEF Fine
<1>3. Mem(g, w) = Mem(g, v) /\ w.free_clst = v.free_clst
  BY <1>1 DEF Like
<1>4. CASE v.fs_type = 32 /\ v.fsi_flag = "dirty"
  <2> DEFINE s == v.volbase + 1
             d == disk_write(w, s, info)
             u == [d EXCEPT !.winsect = s, !.win = info, !.fsi_flag = "clean"]
             D == With(w.card, s, info)
  <2>1. sync_fs(v) = u
    BY <1>4 DEF sync_fs, w
  <2>2. g.info = TRUE /\ s = g.volbase + 1
    BY <1>4 DEF Fine, Body, Same, Shape
  <2>3. info.sig = TRUE /\ info.free = v.free_clst /\ info.free \in Nat
    BY <1>2 DEF Enough
  <2> HIDE DEF info
  <2>4. d.card = D /\ d.log = Append(w.log, <<s, info>>) /\ d.wflag = w.wflag
        /\ d.free_clst = w.free_clst /\ Same(g, d)
    BY <1>1, Wrote DEF Body
  <2> HIDE DEF d
  <2>5. /\ u.card = D /\ u.log = Append(w.log, <<s, info>>) /\ u.wflag = FALSE
        /\ u.free_clst = v.free_clst /\ u.winsect = s /\ u.win = info
    BY <1>1, <1>3, <2>4
  <2>6. Same(g, u)
    BY <2>2, <2>4 DEF Same
  <2> HIDE DEF u, D, s
  <2>7. s \notin FatSectors(g) /\ s \notin DataSectors(g)
    BY <2>2, Regions
  <2>8. Layout(g, w.card)
    BY <1>1 DEF Body, OkCard
  <2>9. Layout(g, D)
    BY <2>2, <2>3, <2>7, <2>8, LayoutOn DEF D
  <2>10. s \in DOMAIN w.card
    BY <2>2, <2>8 DEF Layout, Shape
  <2>11. D[s] = info /\ \A i \in FatSectors(g) : D[i] = w.card[i]
    <3>1. FatSectors(g) \subseteq DOMAIN w.card
      BY <2>8 DEF Layout, FatSectors, Shape
    <3> QED BY <2>7, <2>10, <3>1 DEF D, With
  <2>12. Tab(g, D) = Mem(g, v)
    <3>1. Tab(g, D) = Tab(g, w.card)
      BY <2>11, HomePlace DEF Tab
    <3> QED BY <1>1, <3>1
  <2>13. Window(g, u)
    BY <2>5, <2>7 DEF Window
  <2>14. Mem(g, u) = Mem(g, v)
    <3>1. Tab(g, u.card) = Mem(g, u)
      BY <2>5, <2>13, CleanTab
    <3> QED BY <2>5, <2>12, <3>1
  <2> DEFINE F == Free(g, Mem(g, v))
  <2>15. Counted(g, D, F) /\ F \union F \union {} = F
    BY <1>2, <2>2, <2>3, <2>11 DEF Counted, Enough
  <2> HIDE DEF F
  <2>16. OkCard(g, D)
    BY <1>1, <1>3, <2>9, <2>12, <2>15 DEF OkCard, Body, F
  <2>17. Trail(g, K, u.log, D)
    BY <1>1, <2>5, <2>16, TrailOn DEF Body, D
  <2>18. Body(g, K, u, {}, 0)
    BY <1>1, <1>3, <2>5, <2>6, <2>12, <2>13, <2>14, <2>15, <2>16, <2>17 DEF Body, F
  <2> QED BY <1>2, <2>1, <2>5, <2>14, <2>18 DEF Fine
<1>5. CASE ~(v.fs_type = 32 /\ v.fsi_flag = "dirty")
  <2>1. sync_fs(v) = w
    BY <1>5 DEF sync_fs, w
  <2> QED BY <1>1, <1>2, <1>3, <2>1 DEF Fine
<1> QED BY <1>4, <1>5

-----------------------------------------------------------------------------
(* The same, for a volume whatever it holds. *)

\* What Ok tells of the fields of a volume.
LEMMA OkSame ==
  ASSUME NEW g, NEW K, NEW h, NEW v, Ok(g, K, h, v)
  PROVE  /\ Shape(g) /\ Same(g, v) /\ Ok(g, K, 0, v)
         /\ h # 0 => h \in Clusts(g)
<1>1. PICK B : Fine(g, K, v, B, h)
  BY DEF Ok
<1>2. Shape(g)
  BY DEF Ok
<1>3. Fine(g, K, v, B, 0)
  BY <1>1, <1>2, LetGo DEF Fine
<1> QED BY <1>1, <1>2, <1>3 DEF Ok, Fine, Body, Hold

\* disk_write() of a sector of the data.
LEMMA OkStore ==
  ASSUME NEW g, NEW K, NEW h, NEW v, Ok(g, K, h, v), NEW s \in DataSectors(g), NEW x, DOMAIN x = Cells
  PROVE  Ok(g, K, h, disk_write(v, s, x))
<1>1. PICK B : Fine(g, K, v, B, h)
  BY DEF Ok
<1>2. Shape(g)
  BY DEF Ok
<1>3. Fine(g, K, disk_write(v, s, x), B, h)
  BY <1>1, <1>2, StoreData DEF Fine, Like
<1> QED BY <1>2, <1>3 DEF Ok

\* sync_window().
LEMMA OkSync ==
  ASSUME NEW g, NEW K, NEW h, NEW v, Ok(g, K, h, v)
  PROVE  Ok(g, K, h, sync_window(v)) /\ sync_window(v).wflag = FALSE
<1>1. PICK B : Fine(g, K, v, B, h)
  BY DEF Ok
<1>2. Shape(g)
  BY DEF Ok
<1>3. Fine(g, K, sync_window(v), B, h)
  BY <1>1, <1>2, SyncWindow DEF Fine, Like
<1>4. sync_window(v).wflag = FALSE
  BY <1>1, <1>2, <1>3, SyncWindow DEF Fine, Body, Window
<1> QED BY <1>2, <1>3, <1>4 DEF Ok

\* move_window().
LEMMA OkMove ==
  ASSUME NEW g, NEW K, NEW h, NEW v, Ok(g, K, h, v), NEW s
  PROVE  /\ Ok(g, K, h, move_window(v, s)) /\ move_window(v, s).winsect = s
         /\ s \in DataSectors(g) => DOMAIN move_window(v, s).win = Cells
<1>1. PICK B : Fine(g, K, v, B, h)
  BY DEF Ok
<1>2. Shape(g)
  BY DEF Ok
<1>3. Fine(g, K, move_window(v, s), B, h) /\ move_window(v, s).winsect = s
  BY <1>1, <1>2, MoveWindow DEF Fine, Like
<1> QED BY <1>2, <1>3 DEF Ok, Fine, Body, Window

\* A change in the window of a sector of the data.
LEMMA OkDirty ==
  ASSUME NEW g, NEW K, NEW h, NEW v, Ok(g, K, h, v), v.winsect \in DataSectors(g),
         NEW x, DOMAIN x = Cells
  PROVE  Ok(g, K, h, [v EXCEPT !.win = x, !.wflag = TRUE])
<1>1. PICK B : Fine(g, K, v, B, h)
  BY DEF Ok
<1>2. Shape(g)
  BY DEF Ok
<1> DEFINE w == [v EXCEPT !.win = x, !.wflag = TRUE]
<1>3. Body(g, K, w, B, h) /\ Like(g, v, w)
  BY <1>1, <1>2, Dirtied DEF Fine
<1> HIDE DEF w
<1>4. Fine(g, K, w, B, h)
  BY <1>1, <1>3 DEF Fine, Like
<1>5. Ok(g, K, h, w)
  BY <1>2, <1>4 DEF Ok
<1> QED BY <1>5 DEF w

\* get_fat().
LEMMA OkGet ==
  ASSUME NEW g, NEW K, NEW h, NEW v, Ok(g, K, h, v), NEW c
  PROVE  Ok(g, K, h, get_fat(v, c).v)
<1>1. PICK B : Fine(g, K, v, B, h)
  BY DEF Ok
<1>2. Shape(g)
  BY DEF Ok
<1>3. Fine(g, K, get_fat(v, c).v, B, h)
  BY <1>1, <1>2, GetFat DEF Fine, Like
<1> QED BY <1>2, <1>3 DEF Ok

\* sync_fs().
LEMMA OkSyncFs ==
  ASSUME NEW g, NEW K, NEW h, NEW v, Ok(g, K, h, v)
  PROVE  Ok(g, K, 0, sync_fs(v))
  BY SyncFs DEF Ok

-----------------------------------------------------------------------------
(* Chains. *)

\* The rounds of the search for a free cluster.
LEMMA TryRuns ==
  ASSUME NEW v, NEW cs, Len(cs) \in Nat
  PROVE  \E f : /\ f[0] = [v |-> v, val |-> 0, on |-> TRUE] /\ f[Len(cs)] = FirstFree(v, cs)
                /\ \A i \in 1 .. Len(cs) : f[i] = Try(f[i - 1], cs[i])
<1> DEFINE s == [v |-> v, val |-> 0, on |-> TRUE]
           N == Len(cs)
           R[i \in 0 .. N] == IF i = 0 THEN s ELSE Try(R[i - 1], cs[i])
<1>1. R = [i \in 0 .. N |-> IF i = 0 THEN s ELSE Try(R[i - 1], cs[i])]
  <2> SUFFICES \E f : f = [i \in 0 .. N |-> IF i = 0 THEN s ELSE Try(f[i - 1], cs[i])]
    OBVIOUS
  <2>1. \A x, i : Step("try", cs, x, i) = Try(x, cs[i])
    BY DEF Step
  <2> HIDE DEF Step, s
  <2>2. PICK f : Runs(f, "try", cs, s, N)
    BY LoopRuns
  <2> QED BY <2>1, <2>2 DEF Runs
<1>2. FirstFree(v, cs) = R[N]
  BY DEF FirstFree
<1> HIDE DEF R, s
<1>3. R[0] = s /\ \A i \in 1 .. N : R[i] = Try(R[i - 1], cs[i])
  BY <1>1
<1> QED BY <1>2, <1>3 DEF s

\* What the search finds is free, and it changes nothing.
LEMMA SearchFree ==
  ASSUME NEW g, Shape(g), NEW K, NEW v, NEW B, NEW h, Body(g, K, v, B, h),
         NEW cs, Len(cs) \in Nat
  PROVE  LET r == FirstFree(v, cs)
         IN  /\ Body(g, K, r.v, B, h) /\ Like(g, v, r.v)
             /\ r.val \in {0, 1} \/ (r.val \in Clusts(g) /\ Mem(g, v)[r.val] = 0)
<1> DEFINE Fit(r) == /\ Body(g, K, r.v, B, h) /\ Like(g, v, r.v) /\ r.on \in BOOLEAN
                     /\ r.val \in {0, 1} \/ (r.val \in Clusts(g) /\ Mem(g, v)[r.val] = 0)
           N == Len(cs)
<1>1. PICK f : /\ f[0] = [v |-> v, val |-> 0, on |-> TRUE] /\ f[N] = FirstFree(v, cs)
               /\ \A i \in 1 .. N : f[i] = Try(f[i - 1], cs[i])
  BY TryRuns
<1>2. ASSUME NEW r, Fit(r), NEW c PROVE Fit(Try(r, c))
  <2> DEFINE t == get_fat(r.v, c)
  <2>1. /\ Body(g, K, t.v, B, h) /\ Like(g, r.v, t.v)
        /\ t.val = IF c \in Clusts(g) THEN Mem(g, r.v)[c] ELSE 1
    BY <1>2, GetFat
  <2> HIDE DEF t
  <2>2. Mem(g, r.v) = Mem(g, v) /\ Like(g, v, t.v)
    BY <1>2, <2>1 DEF Like
  <2>3. CASE r.on = FALSE
    <3>1. Try(r, c) = r
      BY <2>3 DEF Try
    <3> QED BY <1>2, <3>1
  <2>4. CASE r.on = TRUE
    <3>1. CASE t.val = 0
      <4>1. Try(r, c) = [v |-> t.v, val |-> c, on |-> FALSE]
        BY <2>4, <3>1 DEF Try, t
      <4>2. c \in Clusts(g) /\ Mem(g, v)[c] = 0
        BY <2>1, <2>2, <3>1
      <4> QED BY <2>1, <2>2, <4>1, <4>2
    <3>2. CASE t.val = 1
      <4>1. Try(r, c) = [v |-> t.v, val |-> 1, on |-> FALSE]
        BY <2>4, <3>2 DEF Try, t
      <4> QED BY <2>1, <2>2, <4>1
    <3>3. CASE t.val # 0 /\ t.val # 1
      <4>1. Try(r, c) = [v |-> t.v, val |-> 0, on |-> TRUE]
        BY <2>4, <3>3 DEF Try, t
      <4> QED BY <2>1, <2>2, <4>1
    <3> QED BY <3>1, <3>2, <3>3
  <2> QED BY <1>2, <2>3, <2>4
<1>3. Fit(f[0])
  BY <1>1 DEF Like
<1> HIDE DEF Fit
<1> DEFINE S == {i \in Nat : i <= N => Fit(f[i])}
<1>4. 0 \in S
  BY <1>3
<1>5. \A n \in Nat : n \in S => n + 1 \in S
  <2> SUFFICES ASSUME NEW n \in Nat, n \in S, n + 1 <= N PROVE Fit(f[n + 1])
    OBVIOUS
  <2>1. Fit(f[n])
    OBVIOUS
  <2>2. f[n + 1] = Try(f[n], cs[n + 1])
    BY <1>1
  <2> QED BY <1>2, <2>1, <2>2
<1> HIDE DEF S
<1>6. N \in S
  BY <1>4, <1>5, Induct
<1>7. Fit(f[N])
  BY <1>6 DEF S
<1> QED BY <1>1, <1>7 DEF Fit

\* The clusters that are tried are a sequence.
LEMMA AroundSeq ==
  ASSUME NEW v, v.n_fatent \in Nat, NEW c \in 1 .. v.n_fatent - 1, NEW d \in Nat
  PROVE  Len(Around(v, c)) \in Nat /\ Len(<<d>> \o Around(v, c)) \in Nat
<1> DEFINE a == [i \in 1 .. v.n_fatent - 1 - c |-> c + i]
           b == [i \in 1 .. c - 1 |-> i + 1]
<1>1. a \in Seq(Nat)
  <2>1. v.n_fatent - 1 - c \in Nat /\ \A i \in 1 .. v.n_fatent - 1 - c : c + i \in Nat
    OBVIOUS
  <2> QED BY <2>1
<1>2. b \in Seq(Nat)
  <2>1. c - 1 \in Nat /\ \A i \in 1 .. c - 1 : i + 1 \in Nat
    OBVIOUS
  <2> QED BY <2>1
<1> HIDE DEF a, b
<1>3. a \o b \in Seq(Nat) /\ <<d>> \in Seq(Nat)
  BY <1>1, <1>2
<1>4. <<d>> \o (a \o b) \in Seq(Nat)
  BY <1>3
<1> QED BY <1>3, <1>4 DEF Around, a, b

\* The tables on the way of a link: first the new cluster is the end of a chain,
\* then what it is linked to leads to it.
LEMMA LinkTables ==
  ASSUME NEW g, Shape(g), NEW m, DOMAIN m = Clusts(g), Links(g, m), NEW B, NEW h, Hold(g, m, B, h),
         NEW val \in Clusts(g), m[val] = 0,
         NEW clst, clst # 0 => clst \in Clusts(g) /\ m[clst] \notin Clusts(g) \union {0},
         NEW k, k = (IF clst = 0 /\ h = 0 THEN val ELSE h),
         NEW n, n = With(m, val, EOC), NEW o, o = (IF clst = 0 THEN n ELSE With(n, clst, val))
  PROVE  /\ Links(g, n) /\ Hold(g, n, B \union {val}, k)
         /\ Links(g, o) /\ Hold(g, o, B \union {val}, k)
         /\ Free(g, n) = Free(g, m) \ {val} /\ Free(g, o) = Free(g, m) \ {val}
<1> DEFINE S == Clusts(g)
<1>1. EOC \notin S /\ EOC # 0 /\ 0 \notin S
  BY Regions
<1>2. DOMAIN n = S /\ \A c \in S : n[c] = IF c = val THEN EOC ELSE m[c]
  BY DEF With
<1>3. DOMAIN o = S /\ \A c \in S : o[c] = IF c = clst THEN val ELSE n[c]
  BY <1>1, <1>2 DEF With
<1>4. \A c \in S : m[c] # val
  BY DEF Links
<1>5. clst # val
  BY <1>1
<1> HIDE DEF S
<1>6. \A c \in S : m[c] \in S => m[m[c]] # 0 /\ \A d \in S : m[d] = m[c] => d = c
  BY DEF Links, S
<1>7. \A c \in S : n[c] \in S => n[n[c]] # 0 /\ \A d \in S : n[d] = n[c] => d = c
  BY <1>1, <1>2, <1>6
<1>8. \A c \in S : n[c] # val
  BY <1>1, <1>2, <1>4 DEF S
<1>9. \A c \in S : o[c] \in S => o[o[c]] # 0 /\ \A d \in S : o[d] = o[c] => d = c
  <2>1. ASSUME NEW c \in S, o[c] \in S PROVE o[o[c]] # 0
    <3>1. val \in S /\ n[val] = EOC /\ val # 0
      BY <1>1, <1>2 DEF S
    <3> QED BY <1>1, <1>3, <1>7, <2>1, <3>1
  <2>2. ASSUME NEW c \in S, o[c] \in S, NEW d \in S, o[d] = o[c] PROVE d = c
    BY <1>3, <1>7, <1>8, <2>2
  <2> QED BY <2>1, <2>2
<1>10. Hold(g, n, B \union {val}, k)
  <2>1. \A c \in B \union {val} : n[c] \in S => n[c] \in B \union {val}
    BY <1>1, <1>2 DEF Hold, S
  <2>2. k # 0 => k \in B \union {val} /\ n[k] # 0 /\ \A c \in S : n[c] # k
    BY <1>1, <1>2, <1>8 DEF Hold, S
  <2> QED BY <2>1, <2>2 DEF Hold, S
<1>11. Hold(g, o, B \union {val}, k)
  <2>1. \A c \in B \union {val} : o[c] \in S => o[c] \in B \union {val}
    BY <1>3, <1>10 DEF Hold, S
  <2>2. k # 0 => k \in B \union {val} /\ o[k] # 0
    BY <1>1, <1>3, <1>10 DEF Hold, S
  <2>3. k # 0 => \A c \in S : o[c] # k
    BY <1>1, <1>3, <1>10 DEF Hold, S
  <2> QED BY <2>1, <2>2, <2>3, <1>10 DEF Hold, S
<1>12. Free(g, n) = Free(g, m) \ {val}
  BY <1>1, <1>2 DEF Free, S
<1>13. Free(g, o) = Free(g, m) \ {val}
  BY <1>1, <1>3, <1>12 DEF Free, S
<1> QED BY <1>7, <1>9, <1>10, <1>11, <1>12, <1>13 DEF Links, S

\* The cluster that create_chain() has found is taken, counted and linked.
LEMMA LinkedFine ==
  ASSUME NEW g, Shape(g), NEW K, NEW v, NEW B, NEW h, Fine(g, K, v, B, h), NEW clst,
         clst # 0 => clst \in Clusts(g) /\ Mem(g, v)[clst] \notin Clusts(g) \union {0},
         NEW val \in Clusts(g), Mem(g, v)[val] = 0
  PROVE  LET r == Linked([v |-> v, val |-> val], clst)
         IN  /\ r.val = val
             /\ Fine(g, K, r.v, B \union {val}, IF clst = 0 /\ h = 0 THEN val ELSE h)
<1> DEFINE m == Mem(g, v)
           A == B \union {val}
           k == IF clst = 0 /\ h = 0 THEN val ELSE h
           n == With(m, val, EOC)
           o == IF clst = 0 THEN n ELSE With(n, clst, val)
           u == put_fat(v, val, EOC)
           w == put_fat(u, clst, val)
           z == [w EXCEPT !.last_clst = val,
                          !.free_clst = IF @ <= w.n_fatent - 2 THEN @ - 1 ELSE @,
                          !.fsi_flag = TouchInfo(@)]
<1>1. Body(g, K, v, B, h) /\ Links(g, m) /\ Hold(g, m, B, h) /\ DOMAIN m = Clusts(g)
  BY DEF Fine, Body, Mem
<1>2. /\ Links(g, n) /\ Hold(g, n, A, k) /\ Links(g, o) /\ Hold(g, o, A, k)
      /\ Free(g, n) = Free(g, m) \ {val} /\ Free(g, o) = Free(g, m) \ {val}
  BY <1>1, LinkTables
<1>3. val \in Nat /\ ~(val < 2) /\ EOC \in Nat
  BY FatAssumption DEF Clusts, Shape
<1> HIDE DEF A, k, n
<1>4. Body(g, K, u, A, k) /\ Mem(g, u) = n /\ u.free_clst = v.free_clst
  <2>1. Free(g, n) \union A \subseteq Free(g, m) \union B
    BY <1>2 DEF A, Free
  <2>2. n = With(Mem(g, v), val, EOC)
    BY DEF n
  <2> QED BY <1>1, <1>2, <1>3, <2>1, <2>2, PutFat
<1> HIDE DEF m, o, u
<1>5. Body(g, K, w, A, k) /\ Mem(g, w) = o /\ w.free_clst = v.free_clst
  <2>1. CASE clst = 0
    <3>1. ~ IsClst(u, clst)
      BY <2>1 DEF IsClst
    <3>2. w = u
      BY <3>1 DEF put_fat
    <3> QED BY <1>4, <2>1, <3>2 DEF o
  <2>2. CASE clst # 0
    <3>1. o = With(Mem(g, u), clst, val) /\ clst \in Clusts(g)
      BY <1>4, <2>2 DEF o
    <3>2. Free(g, o) \union A \subseteq Free(g, Mem(g, u)) \union A
      BY <1>2, <1>4
    <3> QED BY <1>2, <1>3, <1>4, <3>1, <3>2, PutFat
  <2> QED BY <2>1, <2>2
<1> HIDE DEF w
<1>6. w.n_fatent = g.n_fatent
  BY <1>5 DEF Body, Same
<1>7. /\ z.card = w.card /\ z.log = w.log /\ z.winsect = w.winsect /\ z.win = w.win
      /\ z.wflag = w.wflag
      /\ z.free_clst = IF w.free_clst <= g.n_fatent - 2 THEN w.free_clst - 1 ELSE w.free_clst
  BY <1>6
<1>8. Same(g, z)
  <2>1. TouchInfo(w.fsi_flag) # "disabled" <=> w.fsi_flag # "disabled"
    BY DEF TouchInfo
  <2>2. z.fsi_flag = TouchInfo(w.fsi_flag)
    OBVIOUS
  <2>3. z.fsi_flag # "disabled" <=> w.fsi_flag # "disabled"
    BY <2>1, <2>2
  <2> QED BY <1>5, <2>3 DEF Body, Same
<1>9. Linked([v |-> v, val |-> val], clst) = [v |-> z, val |-> val]
  BY <1>3 DEF Linked, w, u
<1> HIDE DEF z
<1>10. Mem(g, z) = o
  BY <1>5, <1>7 DEF Mem
<1>11. Window(g, z)
  BY <1>5, <1>7 DEF Body, Window
<1>12. Body(g, K, z, A, k)
  BY <1>5, <1>7, <1>8, <1>10, <1>11 DEF Body
<1>13. Enough(g, o, z.free_clst)
  <2> DEFINE F == Free(g, m)
             G == Free(g, o)
  <2>1. val \in F /\ G = F \ {val} /\ F \subseteq Clusts(g)
    BY <1>2 DEF Free, m
  <2> HIDE DEF F, G
  <2>2. IsFiniteSet(F) /\ Cardinality(F) \in Nat /\ Cardinality(F) # 0
    BY <2>1, SubCount, FS_EmptySet
  <2>3. Cardinality(G) = Cardinality(F) - 1
    BY <2>1, <2>2, FS_RemoveElement
  <2>4. /\ v.free_clst \in Nat
        /\ v.free_clst <= g.n_fatent - 2 => Cardinality(F) <= v.free_clst
        /\ g.n_fatent \in Nat
    BY DEF Fine, Enough, F, m, Shape
  <2>5. z.free_clst \in Nat /\ (z.free_clst <= g.n_fatent - 2 => Cardinality(G) <= z.free_clst)
    <3> DEFINE a == v.free_clst
               b == z.free_clst
               x == Cardinality(F)
               y == Cardinality(G)
               top == g.n_fatent
    <3>1. b = IF a <= top - 2 THEN a - 1 ELSE a
      BY <1>4, <1>5, <1>7
    <3>2. x \in Nat /\ x # 0 /\ y = x - 1 /\ a \in Nat /\ top \in Nat /\ (a <= top - 2 => x <= a)
      BY <2>2, <2>3, <2>4
    <3> HIDE DEF a, b, x, y, top
    <3>3. b \in Nat /\ (b <= top - 2 => y <= b)
      BY <3>1, <3>2
    <3> QED BY <3>3 DEF b, top, y
  <2> QED BY <2>5 DEF Enough, G
<1> QED BY <1>9, <1>10, <1>12, <1>13 DEF Fine, A, k

\* NewCluster(): the search, and what is done with what it finds.
LEMMA OkNew ==
  ASSUME NEW g, NEW K, NEW h, NEW v, Ok(g, K, h, v), NEW clst,
         clst # 0 => clst \in Clusts(g) /\ Mem(g, v)[clst] \notin Clusts(g) \union {0}
  PROVE  LET r == NewCluster(v, clst)
         IN  /\ r.val \in {0, 1} \union Clusts(g)
             /\ Ok(g, K, h, r.v)
             /\ (clst = 0 /\ h = 0 /\ r.val \in Clusts(g)) => Ok(g, K, r.val, r.v)
<1>1. PICK B : Fine(g, K, v, B, h)
  BY DEF Ok
<1>2. Shape(g) /\ v.n_fatent = g.n_fatent
  BY <1>1 DEF Ok, Fine, Body, Same
<1>3. CASE v.free_clst = 0
  BY <1>2, <1>3, Regions DEF NewCluster
<1>4. CASE v.free_clst # 0
  <2> DEFINE new   == clst = 0
             next  == IF clst + 1 >= v.n_fatent THEN 2 ELSE clst + 1
             start == CASE v.last_clst \in (IF new THEN 1 ELSE 2) .. v.n_fatent - 1 -> v.last_clst
                        [] OTHER -> IF new THEN 1 ELSE clst
             tries == IF new THEN Around(v, start) ELSE <<next>> \o Around(v, start)
             r     == FirstFree(v, tries)
  <2>1. NewCluster(v, clst) = Linked(r, clst)
    BY <1>4 DEF NewCluster
  <2>2. Len(tries) \in Nat
    <3>1. v.n_fatent \in Nat /\ v.n_fatent >= 3
      BY <1>2 DEF Shape
    <3>2. clst \in Nat /\ clst < v.n_fatent
      BY <1>2, <3>1 DEF Clusts
    <3>3. next \in Nat
      BY <3>2
    <3>4. start \in 1 .. v.n_fatent - 1
      BY <1>2, <3>1, <3>2 DEF Clusts
    <3> HIDE DEF next, start, new
    <3> QED BY <3>1, <3>3, <3>4, AroundSeq
  <2> HIDE DEF tries
  <2>3. /\ Body(g, K, r.v, B, h) /\ Like(g, v, r.v)
        /\ r.val \in {0, 1} \/ (r.val \in Clusts(g) /\ Mem(g, v)[r.val] = 0)
    BY <1>1, <1>2, <2>2, SearchFree DEF Fine
  <2> HIDE DEF r
  <2>4. Fine(g, K, r.v, B, h) /\ Mem(g, r.v) = Mem(g, v)
    BY <1>1, <2>3 DEF Fine, Like
  <2>5. CASE r.val \in {0, 1}
    <3>1. Linked(r, clst) = r
      BY <2>5 DEF Linked
    <3> QED BY <1>2, <2>1, <2>4, <2>5, <3>1, Regions DEF Ok
  <2>6. CASE r.val \notin {0, 1}
    <3> DEFINE t == Linked([v |-> r.v, val |-> r.val], clst)
    <3>1. t.val = r.val /\ Fine(g, K, t.v, B \union {r.val}, IF clst = 0 /\ h = 0 THEN r.val ELSE h)
      BY <1>2, <2>3, <2>4, <2>6, LinkedFine
    <3>2. Linked(r, clst) = t
      <4>1. ~(r.val < 2)
        BY <1>2, <2>3, <2>6 DEF Clusts, Shape
      <4> QED BY <4>1 DEF Linked
    <3> HIDE DEF t
    <3>3. Fine(g, K, t.v, B \union {r.val}, 0)
      BY <1>2, <3>1, LetGo DEF Fine
    <3> QED BY <1>2, <2>1, <2>3, <2>6, <3>1, <3>2, <3>3 DEF Ok
  <2> QED BY <2>5, <2>6
<1> QED BY <1>3, <1>4

\* create_chain(): 0 if the volume is full, 1 on an error, or a cluster that is taken.
LEMMA OkChain ==
  ASSUME NEW g, NEW K, NEW h, NEW v, Ok(g, K, h, v), NEW clst
  PROVE  LET r == create_chain(v, clst)
         IN  /\ r.val \in {0, 1} \union Clusts(g)
             /\ Ok(g, K, h, r.v)
             /\ (clst = 0 /\ h = 0 /\ r.val \in Clusts(g)) => Ok(g, K, r.val, r.v)
<1>1. PICK B : Fine(g, K, v, B, h)
  BY DEF Ok
<1>2. Shape(g)
  BY DEF Ok
<1>3. CASE clst = 0
  BY <1>3, OkNew DEF create_chain
<1>4. CASE clst # 0
  <2> DEFINE cs == get_fat(v, clst)
  <2>1. /\ Body(g, K, cs.v, B, h) /\ Like(g, v, cs.v)
        /\ cs.val = IF clst \in Clusts(g) THEN Mem(g, v)[clst] ELSE 1
    BY <1>1, <1>2, GetFat DEF Fine
  <2>2. create_chain(v, clst) = Stretch(cs, clst)
    BY <1>4 DEF create_chain
  <2> HIDE DEF cs
  <2>3. Fine(g, K, cs.v, B, h) /\ Mem(g, cs.v) = Mem(g, v)
    BY <1>1, <2>1 DEF Fine, Like
  <2>4. Ok(g, K, h, cs.v) /\ cs.v.n_fatent = g.n_fatent
    BY <1>2, <2>3 DEF Ok, Fine, Body, Same
  <2>5. CASE cs.val < 2
    BY <2>2, <2>4, <2>5, <1>2, Regions DEF Stretch
  <2>6. CASE cs.val \in Clusts(g)
    <3>1. Stretch(cs, clst) = cs
      BY <1>2, <2>4, <2>6 DEF Stretch, Clusts, Shape
    <3> QED BY <1>4, <2>2, <2>4, <2>6, <3>1
  <2>7. CASE ~(cs.val < 2) /\ cs.val \notin Clusts(g)
    <3>1. Stretch(cs, clst) = NewCluster(cs.v, clst)
      BY <2>4, <2>7 DEF Stretch, Clusts
    <3>2. clst \in Clusts(g) /\ Mem(g, cs.v)[clst] \notin Clusts(g) \union {0}
      BY <2>1, <2>3, <2>7
    <3> QED BY <1>4, <2>2, <2>4, <3>1, <3>2, OkNew
  <2> QED BY <2>5, <2>6, <2>7
<1> QED BY <1>3, <1>4

\* The tables on the way of a chain that is given back.
LEMMA UnlinkTables ==
  ASSUME NEW g, Shape(g), NEW m, DOMAIN m = Clusts(g), Links(g, m), NEW B,
         NEW c \in Clusts(g), Hold(g, m, B, c),
         NEW k, k = (IF m[c] \in Clusts(g) THEN m[c] ELSE 0), NEW n, n = With(m, c, 0)
  PROVE  /\ Links(g, n) /\ Hold(g, n, B \ {c}, k) /\ c \in B
         /\ Free(g, n) = Free(g, m) \union {c} /\ m[c] # 0
<1> DEFINE S == Clusts(g)
<1>1. 0 \notin S /\ c # 0
  BY Regions
<1>2. DOMAIN n = S /\ \A d \in S : n[d] = IF d = c THEN 0 ELSE m[d]
  BY DEF With
<1>3. c \in B /\ m[c] # 0 /\ \A d \in S : m[d] # c
  BY <1>1 DEF Hold
<1>4. B \subseteq S /\ \A d \in B : m[d] \in S => m[d] \in B
  BY DEF Hold
<1> HIDE DEF S
<1>5. \A d \in S : m[d] \in S => m[m[d]] # 0 /\ \A e \in S : m[e] = m[d] => e = d
  BY DEF Links, S
<1>6. \A d \in S : n[d] \in S => n[n[d]] # 0 /\ \A e \in S : n[e] = n[d] => e = d
  <2> SUFFICES ASSUME NEW d \in S, n[d] \in S
               PROVE  n[n[d]] # 0 /\ \A e \in S : n[e] = n[d] => e = d
    OBVIOUS
  <2>1. d # c /\ n[d] = m[d] /\ m[d] \in S /\ m[d] # c
    BY <1>1, <1>2, <1>3
  <2>2. n[m[d]] = m[m[d]]
    BY <1>2, <2>1
  <2>3. ASSUME NEW e \in S, n[e] = n[d] PROVE e = d
    BY <1>1, <1>2, <1>5, <2>1, <2>3
  <2> QED BY <1>5, <2>1, <2>2, <2>3
<1>7. \A d \in B \ {c} : n[d] \in S => n[d] \in B \ {c}
  BY <1>2, <1>3, <1>4
<1>8. k # 0 => k \in B \ {c} /\ n[k] # 0 /\ \A d \in S : n[d] # k
  <2> SUFFICES ASSUME k # 0 PROVE k \in B \ {c} /\ n[k] # 0 /\ \A d \in S : n[d] # k
    OBVIOUS
  <2>1. k = m[c] /\ m[c] \in S
    BY DEF S
  <2>2. k \in B \ {c}
    BY <1>3, <1>4, <2>1
  <2>3. n[k] # 0
    BY <1>2, <1>3, <1>4, <1>5, <2>1, <2>2
  <2>4. ASSUME NEW d \in S PROVE n[d] # k
    BY <1>1, <1>2, <1>3, <1>4, <1>5, <2>1
  <2> QED BY <2>2, <2>3, <2>4
<1>9. Free(g, n) = Free(g, m) \union {c}
  BY <1>2, <1>3, <1>4 DEF Free, S
<1>10. Links(g, n)
  BY <1>6 DEF Links, S
<1>11. Hold(g, n, B \ {c}, k)
  BY <1>4, <1>7, <1>8 DEF Hold, S
<1> QED BY <1>3, <1>9, <1>10, <1>11

\* A round of remove_chain(): the cluster is given back, and what it led to is next.
LEMMA OkRemoved ==
  ASSUME NEW g, NEW K, NEW r, Ok(g, K, r.c, r.v)
  PROVE  Ok(g, K, Removed(r).c, Removed(r).v)
<1>0. PICK v, c : v = r.v /\ c = r.c
  OBVIOUS
<1>1. PICK B : Fine(g, K, v, B, c)
  BY <1>0 DEF Ok
<1>2. Shape(g)
  BY DEF Ok
<1> DEFINE t == get_fat(v, c)
<1>3. /\ Body(g, K, t.v, B, c) /\ Like(g, v, t.v)
      /\ t.val = IF c \in Clusts(g) THEN Mem(g, v)[c] ELSE 1
  BY <1>1, <1>2, GetFat DEF Fine
<1>4. Fine(g, K, t.v, B, c) /\ t.v.n_fatent = g.n_fatent /\ t.v.free_clst = v.free_clst
  BY <1>1, <1>3 DEF Fine, Like, Body, Same
<1>5. CASE t.val < 2
  <2>1. Removed(r) = [v |-> t.v, c |-> 0]
    BY <1>0, <1>5 DEF Removed
  <2>2. Fine(g, K, t.v, B, 0)
    BY <1>2, <1>4, LetGo DEF Fine
  <2> QED BY <1>2, <2>1, <2>2 DEF Ok
<1>6. CASE ~(t.val < 2)
  <2> DEFINE m == Mem(g, v)
             n == With(m, c, 0)
             k == IF m[c] \in Clusts(g) THEN m[c] ELSE 0
             u == put_fat(t.v, c, 0)
             f == v.free_clst
             w == [u EXCEPT
                    !.free_clst = IF @ < t.v.n_fatent - 2 THEN @ + 1 ELSE @,
                    !.fsi_flag  = IF t.v.free_clst < t.v.n_fatent - 2 THEN TouchInfo(@) ELSE @]
  <2>1. c \in Clusts(g) /\ t.val = m[c] /\ Mem(g, t.v) = m
    BY <1>3, <1>6 DEF Like
  <2>2. Links(g, m) /\ Hold(g, m, B, c) /\ DOMAIN m = Clusts(g) /\ Layout(g, v.card) /\ Window(g, v)
    BY <1>1 DEF Fine, Body, Mem, OkCard
  <2>3. /\ Links(g, n) /\ Hold(g, n, B \ {c}, k) /\ c \in B
        /\ Free(g, n) = Free(g, m) \union {c} /\ m[c] # 0
    <3>1. n = With(m, c, 0) /\ k = IF m[c] \in Clusts(g) THEN m[c] ELSE 0
      OBVIOUS
    <3> HIDE DEF m, n, k
    <3>2. Shape(g) /\ DOMAIN m = Clusts(g) /\ Links(g, m) /\ c \in Clusts(g) /\ Hold(g, m, B, c)
      BY <1>2, <2>1, <2>2
    <3> QED BY <3>1, <3>2, UnlinkTables
  <2>4. m[c] \in Nat
    BY <1>2, <2>1, <2>2, MemType
  <2>5. Removed(r) = [v |-> w, c |-> k]
    <3>1. t.val < t.v.n_fatent <=> m[c] \in Clusts(g)
      BY <1>2, <1>4, <1>6, <2>1, <2>4 DEF Clusts, Shape
    <3> QED BY <1>0, <1>6, <2>1, <3>1 DEF Removed
  <2> HIDE DEF t, n, k, m
  <2>6. Body(g, K, u, B \ {c}, k) /\ Mem(g, u) = n /\ u.free_clst = f
    <3>1. n = With(Mem(g, t.v), c, 0) /\ Links(g, n) /\ Hold(g, n, B \ {c}, k)
      BY <2>1, <2>3 DEF n
    <3>2. Free(g, n) \union (B \ {c}) \subseteq Free(g, Mem(g, t.v)) \union B
      BY <2>1, <2>3
    <3> QED BY <1>2, <1>3, <1>4, <2>1, <3>1, <3>2, PutFat
  <2> HIDE DEF u, f
  <2>7. /\ w.card = u.card /\ w.log = u.log /\ w.winsect = u.winsect /\ w.win = u.win
        /\ w.wflag = u.wflag
        /\ w.free_clst = IF f < g.n_fatent - 2 THEN f + 1 ELSE f
    BY <1>4, <2>6
  <2>8. Same(g, w)
    <3>1. TouchInfo(u.fsi_flag) # "disabled" <=> u.fsi_flag # "disabled"
      BY DEF TouchInfo
    <3>2. w.fsi_flag \in {TouchInfo(u.fsi_flag), u.fsi_flag}
      OBVIOUS
    <3>3. w.fsi_flag # "disabled" <=> u.fsi_flag # "disabled"
      BY <3>1, <3>2
    <3> QED BY <2>6, <3>3 DEF Body, Same
  <2> HIDE DEF w
  <2>9. Mem(g, w) = n
    BY <2>6, <2>7 DEF Mem
  <2>10. Window(g, w)
    BY <2>6, <2>7 DEF Body, Window
  <2>11. Body(g, K, w, B \ {c}, k)
    BY <2>6, <2>7, <2>8, <2>9, <2>10 DEF Body
  <2>12. Enough(g, n, w.free_clst)
    <3> DEFINE x   == Cardinality(Free(g, m))
               y   == Cardinality(Free(g, n))
               b   == w.free_clst
               top == g.n_fatent
    <3>1. x \in Nat /\ y \in Nat /\ y = x + 1 /\ y <= top - 2
      <4> DEFINE F == Free(g, m)
                 G == Free(g, n)
      <4>1. G = F \union {c} /\ c \notin F /\ G \subseteq Clusts(g) /\ F \subseteq G
        BY <2>3 DEF Free
      <4> HIDE DEF F, G
      <4>2. /\ IsFiniteSet(F) /\ Cardinality(F) \in Nat /\ Cardinality(G) \in Nat
            /\ Cardinality(G) <= g.n_fatent - 2
        BY <1>2, <4>1, SubCount
      <4>3. Cardinality(G) = Cardinality(F) + 1
        BY <4>1, <4>2, FS_AddElement
      <4> QED BY <4>2, <4>3 DEF F, G
    <3>2. f \in Nat /\ top \in Nat /\ (f <= top - 2 => x <= f) /\ b = IF f < top - 2 THEN f + 1 ELSE f
      BY <1>1, <1>2, <2>7 DEF Fine, Enough, Shape, f, m
    <3> HIDE DEF x, y, b, top
    <3>3. b \in Nat /\ (b <= top - 2 => y <= b)
      BY <3>1, <3>2
    <3> QED BY <3>3 DEF b, top, y, Enough
  <2> QED BY <1>2, <2>5, <2>9, <2>11, <2>12 DEF Ok, Fine
<1> QED BY <1>5, <1>6

\* remove_chain() of a chain that nothing leads to.
LEMMA OkRemove ==
  ASSUME NEW g, NEW K, NEW c, NEW v, Ok(g, K, c, v)
  PROVE  Ok(g, K, 0, remove_chain(v, c))
<1> DEFINE s == [v |-> v, c |-> c]
           N == v.n_fatent
           R[n \in 0 .. N] == IF n = 0 THEN s ELSE Removed(R[n - 1])
<1>1. N \in Nat
  BY OkSame DEF Same, Shape
<1>2. R = [n \in 0 .. N |-> IF n = 0 THEN s ELSE Removed(R[n - 1])]
  <2> SUFFICES \E f : f = [n \in 0 .. N |-> IF n = 0 THEN s ELSE Removed(f[n - 1])]
    OBVIOUS
  <2>1. \A x, i : Step("remove", 0, x, i) = Removed(x)
    BY DEF Step
  <2> HIDE DEF Step, s
  <2>2. PICK f : Runs(f, "remove", 0, s, N)
    BY <1>1, LoopRuns
  <2>3. f = [n \in 0 .. N |-> IF n = 0 THEN s ELSE Removed(f[n - 1])]
    <3>1. f = [n \in 0 .. N |-> IF n = 0 THEN s ELSE Step("remove", 0, f[n - 1], n)]
      BY <2>2 DEF Runs
    <3>2. DOMAIN f = 0 .. N /\ \A n \in 0 .. N : f[n] = IF n = 0 THEN s ELSE Removed(f[n - 1])
      BY <2>1, <3>1
    <3>3. f = [n \in 0 .. N |-> f[n]]
      BY <3>1
    <3> QED BY <3>2, <3>3
  <2> QED BY <2>3
<1>3. remove_chain(v, c) = R[N].v
  BY DEF remove_chain
<1> HIDE DEF R, N
<1>4. R[0] = s /\ \A n \in 1 .. N : R[n] = Removed(R[n - 1])
  BY <1>1, <1>2
<1> DEFINE S == {n \in Nat : n <= N => Ok(g, K, R[n].c, R[n].v)}
<1>5. 0 \in S
  BY <1>4
<1>6. \A n \in Nat : n \in S => n + 1 \in S
  <2> SUFFICES ASSUME NEW n \in Nat, n \in S, n + 1 <= N
               PROVE  Ok(g, K, R[n + 1].c, R[n + 1].v)
    OBVIOUS
  <2>1. R[n + 1] = Removed(R[n])
    BY <1>1, <1>4
  <2>2. Ok(g, K, R[n].c, R[n].v)
    BY <1>1
  <2> QED BY <2>1, <2>2, OkRemoved
<1> HIDE DEF S
<1>7. N \in S
  BY <1>1, <1>5, <1>6, Induct
<1>8. Ok(g, K, R[N].c, R[N].v)
  BY <1>1, <1>7 DEF S
<1> QED BY <1>3, <1>8, OkSame

-----------------------------------------------------------------------------
(* Directories. *)

\* A volume has the clusters of its geometry, at the same places.
LEMMA SameClusters ==
  ASSUME NEW g, NEW v, Same(g, v), NEW c
  PROVE  (IsClst(v, c) <=> c \in Clusts(g)) /\ clst2sect(v, c) = clst2sect(g, c)
BY DEF Same, IsClst, Clusts, clst2sect

\* The window of v as a sector of zeroes that is to be written to s.
Fresh(v, s) == [v EXCEPT !.winsect = s, !.win = ZeroSector]

\* A clean window may be filled with zeroes.
LEMMA OkFresh ==
  ASSUME NEW g, NEW K, NEW h, NEW v, Ok(g, K, h, v), v.wflag = FALSE, NEW s \in DataSectors(g)
  PROVE  Ok(g, K, h, Fresh(v, s)) /\ Fresh(v, s).winsect = s /\ Fresh(v, s).win = ZeroSector
<1>1. PICK B : Fine(g, K, v, B, h)
  BY DEF Ok
<1>2. Shape(g) /\ DOMAIN ZeroSector = Cells
  BY DEF Ok, ZeroSector
<1> DEFINE w == [v EXCEPT !.winsect = s, !.win = ZeroSector]
<1>3. /\ w.card = v.card /\ w.log = v.log /\ w.wflag = FALSE /\ w.free_clst = v.free_clst
      /\ w.winsect = s /\ w.win = ZeroSector
  OBVIOUS
<1>4. Same(g, w)
  BY <1>1 DEF Fine, Body, Same
<1> HIDE DEF w
<1>5. Window(g, w)
  BY <1>2, <1>3, Regions DEF Window
<1>6. Mem(g, w) = Mem(g, v)
  <2>1. Tab(g, w.card) = Mem(g, w) /\ Tab(g, v.card) = Mem(g, v)
    BY <1>1, <1>2, <1>3, <1>5, CleanTab DEF Fine, Body
  <2> QED BY <1>3, <2>1
<1>7. Fine(g, K, w, B, h)
  BY <1>1, <1>3, <1>4, <1>5, <1>6 DEF Fine, Body
<1>8. Ok(g, K, h, w)
  BY <1>2, <1>7 DEF Ok
<1> QED BY <1>3, <1>8 DEF w, Fresh

\* dir_clear() writes the sectors of a cluster only.
LEMMA OkClear ==
  ASSUME NEW g, NEW K, NEW h, NEW v, Ok(g, K, h, v), NEW c \in Clusts(g)
  PROVE  LET w == dir_clear(v, c)
         IN  Ok(g, K, h, w) /\ w.winsect \in DataSectors(g) /\ w.win = ZeroSector
<1> DEFINE a == clst2sect(v, c)
           s == [sync_window(v) EXCEPT !.winsect = a, !.win = ZeroSector]
           N == v.csize
           R[n \in 0 .. N] == IF n = 0 THEN s ELSE disk_write(R[n - 1], a + n - 1, ZeroSector)
<1>1. Shape(g) /\ Same(g, v) /\ N \in Nat /\ N = g.csize
  BY OkSame DEF Same, Shape
<1>2. a \in Nat /\ \A k \in 0 .. N - 1 : a + k \in DataSectors(g)
  <2>1. a = clst2sect(g, c)
    BY <1>1, SameClusters
  <2> HIDE DEF a
  <2>2. 0 \in 0 .. N - 1
    BY <1>1 DEF Shape
  <2> QED BY <1>1, <2>1, <2>2, ClusterPlace
<1>3. R = [n \in 0 .. N |-> IF n = 0 THEN s ELSE disk_write(R[n - 1], a + n - 1, ZeroSector)]
  <2> SUFFICES \E f : f = [n \in 0 .. N |-> IF n = 0 THEN s ELSE disk_write(f[n - 1], a + n - 1, ZeroSector)]
    OBVIOUS
  <2>1. \A x, i : Step("clear", a, x, i) = disk_write(x, a + i - 1, ZeroSector)
    BY DEF Step
  <2> HIDE DEF Step, s, a
  <2>2. PICK f : Runs(f, "clear", a, s, N)
    BY <1>1, LoopRuns
  <2>3. f = [n \in 0 .. N |-> IF n = 0 THEN s ELSE disk_write(f[n - 1], a + n - 1, ZeroSector)]
    <3>1. f = [n \in 0 .. N |-> IF n = 0 THEN s ELSE Step("clear", a, f[n - 1], n)]
      BY <2>2 DEF Runs
    <3>2. DOMAIN f = 0 .. N
          /\ \A n \in 0 .. N : f[n] = IF n = 0 THEN s ELSE disk_write(f[n - 1], a + n - 1, ZeroSector)
      BY <2>1, <3>1
    <3>3. f = [n \in 0 .. N |-> f[n]]
      BY <3>1
    <3> QED BY <3>2, <3>3
  <2> QED BY <2>3
<1>4. dir_clear(v, c) = R[N]
  BY DEF dir_clear
<1> HIDE DEF R, N
<1>5. R[0] = s /\ \A n \in 1 .. N : R[n] = disk_write(R[n - 1], a + n - 1, ZeroSector)
  BY <1>1, <1>3
<1>6. Ok(g, K, h, s) /\ s.winsect = a /\ s.win = ZeroSector
  <2>1. a \in DataSectors(g)
    <3>1. 0 \in 0 .. N - 1 /\ a + 0 = a
      BY <1>1, <1>2 DEF Shape
    <3> QED BY <1>2, <3>1
  <2>2. s = Fresh(sync_window(v), a)
    BY DEF Fresh
  <2> DEFINE u == sync_window(v)
  <2>3. Ok(g, K, h, u) /\ u.wflag = FALSE /\ s = Fresh(u, a)
    BY <2>2, OkSync
  <2> HIDE DEF a, s, u
  <2>4. Ok(g, K, h, Fresh(u, a)) /\ Fresh(u, a).winsect = a /\ Fresh(u, a).win = ZeroSector
    <3>1. a \in DataSectors(g) /\ Ok(g, K, h, u) /\ u.wflag = FALSE
      BY <2>1, <2>3
    <3>2. Ok(g, K, h, Fresh(u, a))
      BY <3>1, OkFresh
    <3>3. Fresh(u, a).winsect = a /\ Fresh(u, a).win = ZeroSector
      BY DEF Fresh
    <3> QED BY <3>2, <3>3
  <2> QED BY <2>3, <2>4
<1> HIDE DEF s, a
<1> DEFINE S == {n \in Nat : n <= N => /\ Ok(g, K, h, R[n]) /\ R[n].winsect = a
                                       /\ R[n].win = ZeroSector}
<1>7. 0 \in S
  BY <1>5, <1>6
<1>8. \A n \in Nat : n \in S => n + 1 \in S
  <2> SUFFICES ASSUME NEW n \in Nat, n \in S, n + 1 <= N
               PROVE  Ok(g, K, h, R[n + 1]) /\ R[n + 1].winsect = a /\ R[n + 1].win = ZeroSector
    OBVIOUS
  <2>1. Ok(g, K, h, R[n]) /\ R[n].winsect = a /\ R[n].win = ZeroSector
    BY <1>1
  <2>2. a + (n + 1) - 1 = a + n /\ n \in 0 .. N - 1 /\ n + 1 \in 1 .. N /\ (n + 1) - 1 = n
    BY <1>1, <1>2
  <2> DEFINE b == a + n
  <2>3. R[n + 1] = disk_write(R[n], b, ZeroSector)
    BY <1>5, <2>2
  <2>4. b \in DataSectors(g)
    BY <1>2, <2>2
  <2> HIDE DEF b
  <2>5. DOMAIN ZeroSector = Cells
    BY DEF ZeroSector
  <2> QED BY <2>1, <2>3, <2>4, <2>5, OkStore, Wrote
<1> HIDE DEF S
<1>9. N \in S
  BY <1>1, <1>7, <1>8, Induct
<1>10. a + 0 = a /\ 0 \in 0 .. N - 1
  BY <1>1, <1>2 DEF Shape
<1> QED BY <1>1, <1>2, <1>4, <1>9, <1>10 DEF S

\* The read pointer of a directory is at an entry of the volume.
Placed(g, d) ==
  /\ d.dptr \in Nat
  /\ \/ /\ d.clust = 0 /\ g.fs_type # 32 /\ d.dptr < g.n_rootdir
        /\ d.sect = g.dirbase + d.dptr \div SS
     \/ /\ d.clust \in Clusts(g)
        /\ d.sect = clst2sect(g, d.clust) + ((d.dptr \div SS) % g.csize)

\* An entry is in a sector of the data.
LEMMA EntryPlace ==
  ASSUME NEW g, Shape(g), NEW d, Placed(g, d)
  PROVE  d.sect \in DataSectors(g) /\ At(d) \in Cells
<1>1. d.dptr \in Nat /\ SS \in Nat \ {0} /\ g.csize \in Nat \ {0}
  BY FatAssumption DEF Placed, Shape
<1>2. d.dptr \div SS \in Nat /\ d.dptr % SS \in 0 .. SS - 1
  BY <1>1, DivMod
<1>3. (d.dptr \div SS) % g.csize \in 0 .. g.csize - 1
  BY <1>1, <1>2, DivMod
<1>4. d.sect \in DataSectors(g)
  BY <1>1, <1>3, RootPlace, ClusterPlace DEF Placed
<1> QED BY <1>2, <1>4 DEF At, Cells

\* dir_sdi() to the beginning of a directory.
LEMMA SdiPlaced ==
  ASSUME NEW g, Shape(g), NEW v, Same(g, v), NEW d
  PROVE  LET r == dir_sdi(v, d)
         IN  r.v = v /\ r.res \in {"FR_OK", "FR_INT_ERR"} /\ (r.res = "FR_OK" => Placed(g, r.d))
<1> DEFINE c == IF d.sclust = 0 /\ v.fs_type = 32 THEN v.dirbase ELSE d.sclust
           s == IF c = 0 THEN v.dirbase ELSE clst2sect(v, c)
           e == [d EXCEPT !.dptr = 0, !.clust = c, !.sect = s]
           r == dir_sdi(v, d)
<1>1. r = DirRet(v, e, IF s = 0 THEN "FR_INT_ERR" ELSE "FR_OK")
  BY DEF dir_sdi
<1>2. r.v = v /\ r.d = e /\ r.res = IF s = 0 THEN "FR_INT_ERR" ELSE "FR_OK"
  BY <1>1 DEF DirRet
<1> HIDE DEF r
<1>3. ASSUME r.res = "FR_OK" PROVE Placed(g, r.d)
  <2>1. s # 0
    BY <1>2, <1>3
  <2>2. 0 \div SS = 0 /\ 0 % g.csize = 0
    <3>1. SS \in Nat \ {0} /\ g.csize \in Nat \ {0} /\ 0 = SS * 0 + 0 /\ 0 = g.csize * 0 + 0
          /\ 0 \in 0 .. SS - 1 /\ 0 \in 0 .. g.csize - 1
      BY FatAssumption DEF Shape
    <3> QED BY <3>1, DivUnique
  <2>3. CASE c = 0
    <3>1. s = g.dirbase /\ g.fs_type # 32
      BY <2>1, <2>3 DEF Same
    <3>2. g.n_rootdir \in Nat /\ g.n_rootdir # 0 /\ g.dirbase \in Nat
      BY <3>1 DEF Shape
    <3>3. e.dptr = 0 /\ e.clust = 0 /\ e.sect = g.dirbase
      BY <2>3, <3>1
    <3> HIDE DEF e, s, c
    <3>4. 0 < g.n_rootdir /\ g.dirbase + 0 = g.dirbase
      BY <3>2
    <3> QED BY <1>2, <2>2, <3>1, <3>3, <3>4 DEF Placed
  <2>4. CASE c # 0
    <3>1. s = clst2sect(v, c) /\ c \in Clusts(g) /\ s = clst2sect(g, c)
      BY <2>1, <2>4, SameClusters DEF clst2sect
    <3>2. e.dptr = 0 /\ e.clust = c /\ e.sect = s
      OBVIOUS
    <3> HIDE DEF e, s, c
    <3>3. clst2sect(g, c) \in Nat
      <4>1. 0 \in 0 .. g.csize - 1
        BY DEF Shape
      <4> QED BY <3>1, <4>1, ClusterPlace
    <3> QED BY <1>2, <2>2, <3>1, <3>2, <3>3 DEF Placed
  <2> QED BY <2>3, <2>4
<1> QED BY <1>2, <1>3 DEF r

\* dir_next(): the next entry, in a new cluster if the directory has to grow.
LEMMA NextPlaced ==
  ASSUME NEW g, NEW K, NEW h, NEW v, Ok(g, K, h, v), NEW d, Placed(g, d), NEW stretch
  PROVE  LET r == dir_next(v, d, stretch)
         IN  /\ Ok(g, K, h, r.v)
             /\ r.res \in {"FR_OK", "FR_DENIED", "FR_INT_ERR", "FR_NO_FILE"}
             /\ r.res = "FR_OK" => Placed(g, r.d)
<1> DEFINE ofs == d.dptr + 1
           r   == dir_next(v, d, stretch)
           q   == d.dptr \div SS
           p   == ofs \div SS
           z   == p % g.csize
<1>1. /\ Shape(g) /\ Same(g, v) /\ d.dptr \in Nat /\ SS \in Nat \ {0} /\ g.csize \in Nat \ {0}
      /\ v.csize = g.csize /\ v.n_rootdir = g.n_rootdir
  BY OkSame, FatAssumption DEF Placed, Same, Shape
<1>2. q \in Nat /\ p \in Nat /\ z \in 0 .. g.csize - 1
  <2>1. ofs \in Nat
    BY <1>1
  <2> HIDE DEF ofs
  <2>2. q \in Nat /\ p \in Nat
    BY <1>1, <2>1, DivMod
  <2> HIDE DEF p
  <2> QED BY <1>1, <2>2, DivMod
<1>3. (ofs % SS # 0 => p = q) /\ (ofs % SS = 0 => p = q + 1)
  BY <1>1, DivNext
<1>4. ASSUME NEW w, NEW c, NEW s,
             \/ c = 0 /\ g.fs_type # 32 /\ ofs < g.n_rootdir /\ s = g.dirbase + p
             \/ c \in Clusts(g) /\ s = clst2sect(g, c) + z
      PROVE  LET t == To(w, d, c, s) IN t.v = w /\ t.res = "FR_OK" /\ Placed(g, t.d)
  <2> DEFINE e == [d EXCEPT !.dptr = @ + 1, !.clust = c, !.sect = s]
  <2>1. e.dptr = ofs /\ e.clust = c /\ e.sect = s /\ ofs \in Nat
    BY <1>1
  <2>2. To(w, d, c, s) = DirRet(w, e, "FR_OK")
    BY DEF To
  <2> HIDE DEF e
  <2>3. Placed(g, e)
    BY <1>4, <2>1 DEF Placed
  <2> QED BY <2>2, <2>3 DEF DirRet
<1>5. CASE ofs % SS # 0
  <2>1. r = To(v, d, d.clust, d.sect)
    BY <1>5 DEF dir_next
  <2>2. p = q
    BY <1>3, <1>5
  <2>3. d.clust = 0 /\ g.fs_type # 32 => ofs < g.n_rootdir
    <3> SUFFICES ASSUME d.clust = 0, g.fs_type # 32 PROVE ofs < g.n_rootdir
      OBVIOUS
    <3>1. d.dptr < g.n_rootdir /\ g.n_rootdir \in Nat /\ g.n_rootdir % SS = 0
      BY <1>1, Regions DEF Placed, Shape
    <3>2. ofs # g.n_rootdir
      BY <1>5, <3>1
    <3> QED BY <1>1, <3>1, <3>2
  <2>4. \/ d.clust = 0 /\ g.fs_type # 32 /\ d.sect = g.dirbase + q
        \/ d.clust \in Clusts(g) /\ d.sect = clst2sect(g, d.clust) + (q % g.csize)
    BY DEF Placed
  <2> HIDE DEF p, q, ofs, r
  <2>5. Placed(g, r.d) /\ r.v = v /\ r.res = "FR_OK"
    BY <1>4, <2>1, <2>2, <2>3, <2>4
  <2> QED BY <2>5 DEF r
<1>6. CASE ofs % SS = 0 /\ d.clust = 0
  <2>1. g.fs_type # 32 /\ d.sect = g.dirbase + q /\ g.dirbase \in Nat /\ g.n_rootdir \in Nat
    BY <1>1, <1>6, Regions DEF Placed, Shape
  <2>2. d.sect + 1 = g.dirbase + p
    BY <1>2, <1>3, <1>6, <2>1
  <2>3. CASE ofs >= v.n_rootdir
    <3>1. r = DirRet(v, d, "FR_NO_FILE")
      BY <1>6, <2>3 DEF dir_next
    <3> QED BY <3>1 DEF DirRet
  <2>4. CASE ~(ofs >= v.n_rootdir)
    <3>1. r = To(v, d, 0, d.sect + 1)
      BY <1>6, <2>4 DEF dir_next
    <3>2. ofs < g.n_rootdir
      BY <1>1, <2>1, <2>4
    <3> DEFINE s == d.sect + 1
    <3>3. s = g.dirbase + p
      BY <2>2
    <3> HIDE DEF p, q, ofs, r, s
    <3>4. Placed(g, r.d) /\ r.v = v /\ r.res = "FR_OK"
      BY <1>4, <2>1, <3>1, <3>2, <3>3 DEF s
    <3> QED BY <3>4 DEF r
  <2> QED BY <2>3, <2>4
<1>7. CASE ofs % SS = 0 /\ d.clust # 0 /\ z # 0
  <2>1. r = To(v, d, d.clust, d.sect + 1)
    BY <1>1, <1>7 DEF dir_next
  <2>2. d.clust \in Clusts(g) /\ d.sect = clst2sect(g, d.clust) + (q % g.csize)
    BY <1>7 DEF Placed
  <2> DEFINE y == q % g.csize
             a == clst2sect(g, d.clust)
             s == d.sect + 1
  <2>3. y \in Nat /\ a \in Nat
    <3>1. 0 \in 0 .. g.csize - 1
      BY <1>1
    <3>2. a \in Nat
      BY <1>1, <2>2, <3>1, ClusterPlace
    <3> HIDE DEF q
    <3>3. y \in 0 .. g.csize - 1
      BY <1>1, <1>2, DivMod
    <3> QED BY <1>1, <3>2, <3>3
  <2>4. z = y + 1
    <3>1. p = q + 1
      BY <1>3, <1>7
    <3> HIDE DEF p, q
    <3> QED BY <1>1, <1>2, <1>7, <3>1, DivNext
  <2>5. s = a + z
    <3>1. d.sect = a + y
      BY <2>2
    <3> HIDE DEF a, y, z
    <3> QED BY <2>3, <2>4, <3>1
  <2>6. d.clust \in Clusts(g)
    BY <2>2
  <2> HIDE DEF p, q, ofs, r, s, z
  <2>7. Placed(g, r.d) /\ r.v = v /\ r.res = "FR_OK"
    BY <1>4, <2>1, <2>5, <2>6 DEF s
  <2> QED BY <2>7 DEF r
<1>8. CASE ofs % SS = 0 /\ d.clust # 0 /\ z = 0
  <2> DEFINE n == get_fat(v, d.clust)
  <2>1. r = NextCluster(n, d, stretch)
    BY <1>1, <1>8 DEF dir_next
  <2>2. Ok(g, K, h, n.v)
    BY OkGet
  <2> HIDE DEF n, ofs, p, q, z, r
  <2>3. Same(g, n.v) /\ \A c \in Clusts(g) : clst2sect(g, c) + 0 = clst2sect(g, c)
    <3>1. 0 \in 0 .. g.csize - 1
      BY <1>1
    <3>2. \A c \in Clusts(g) : clst2sect(g, c) \in Nat
      BY <1>1, <3>1, ClusterPlace
    <3>3. Same(g, n.v)
      BY <2>2, OkSame
    <3>4. \A a \in Nat : a + 0 = a
      OBVIOUS
    <3> QED BY <3>2, <3>3, <3>4
  <2>4. CASE n.val <= 1
    <3>1. r = DirRet(n.v, d, "FR_INT_ERR")
      <4>1. ~IsClst(n.v, n.val)
        BY <1>1, <2>3, <2>4 DEF IsClst, Same, Shape
      <4> QED BY <2>1, <2>4, <4>1 DEF NextCluster
    <3> QED BY <2>2, <3>1 DEF DirRet, r
  <2>5. CASE ~(n.val <= 1) /\ IsClst(n.v, n.val)
    <3>1. r = To(n.v, d, n.val, clst2sect(n.v, n.val))
      BY <2>1, <2>5 DEF NextCluster
    <3>2. n.val \in Clusts(g) /\ clst2sect(n.v, n.val) = clst2sect(g, n.val)
      BY <2>3, <2>5, SameClusters
    <3>3. Placed(g, r.d) /\ r.v = n.v /\ r.res = "FR_OK"
      BY <1>4, <1>8, <2>3, <3>1, <3>2
    <3> QED BY <2>2, <3>3 DEF r
  <2>6. CASE ~(n.val <= 1) /\ ~IsClst(n.v, n.val) /\ ~stretch
    <3>1. r = DirRet(n.v, d, "FR_NO_FILE")
      BY <2>1, <2>6 DEF NextCluster
    <3> QED BY <2>2, <3>1 DEF DirRet, r
  <2>7. CASE ~(n.val <= 1) /\ ~IsClst(n.v, n.val) /\ stretch
    <3> DEFINE new == create_chain(n.v, d.clust)
    <3>1. r = Stretched(new, d)
      BY <2>1, <2>7 DEF NextCluster
    <3>2. new.val \in {0, 1} \union Clusts(g) /\ Ok(g, K, h, new.v)
      BY <2>2, OkChain
    <3> HIDE DEF new
    <3>3. CASE new.val = 0
      <4>1. r = DirRet(new.v, d, "FR_DENIED")
        BY <3>1, <3>3 DEF Stretched
      <4> QED BY <3>2, <4>1 DEF DirRet, r
    <3>4. CASE new.val = 1
      <4>1. r = DirRet(new.v, d, "FR_INT_ERR")
        BY <3>1, <3>4 DEF Stretched
      <4> QED BY <3>2, <4>1 DEF DirRet, r
    <3>5. CASE new.val \notin {0, 1}
      <4>1. r = To(dir_clear(new.v, new.val), d, new.val, clst2sect(new.v, new.val))
        BY <3>1, <3>5 DEF Stretched
      <4>2. new.val \in Clusts(g) /\ clst2sect(new.v, new.val) = clst2sect(g, new.val)
        BY <3>2, <3>5, OkSame, SameClusters
      <4>3. Ok(g, K, h, dir_clear(new.v, new.val))
        BY <3>2, <4>2, OkClear
      <4>4. Placed(g, r.d) /\ r.v = dir_clear(new.v, new.val) /\ r.res = "FR_OK"
        BY <1>4, <1>8, <2>3, <4>1, <4>2
      <4> QED BY <4>3, <4>4 DEF r
    <3> QED BY <3>3, <3>4, <3>5
  <2> QED BY <2>4, <2>5, <2>6, <2>7
<1> QED BY <1>5, <1>6, <1>7, <1>8

\* A search: the volume is kept, and as long as it goes on, or if it ends well, the
\* read pointer is at an entry.
Searched(g, K, h, r) == Ok(g, K, h, r.v) /\ (r.res \in {"FR_OK", "more"} => Placed(g, r.d))

\* LookAt(), a round of a search.
LEMMA LookSearched ==
  ASSUME NEW g, NEW K, NEW h, NEW r, Searched(g, K, h, r), NEW alloc
  PROVE  Searched(g, K, h, Look(r, alloc))
<1>1. CASE r.res # "more"
  BY <1>1 DEF Look
<1>2. CASE r.res = "more"
  <2> DEFINE v == move_window(r.v, r.d.sect)
             d == r.d
             l == LookAt(v, d, alloc)
  <2>1. Look(r, alloc) = l
    BY <1>2 DEF Look
  <2>2. Ok(g, K, h, v)
    BY OkMove DEF Searched
  <2>3. Placed(g, d)
    BY <1>2 DEF Searched
  <2> HIDE DEF v, d
  <2> DEFINE e   == v.win[At(d)]
             hit == IF alloc THEN e.name \in {"", "deleted"}
                    ELSE e.name = d.fn /\ e.attr # "volume"
             n   == dir_next(v, d, alloc)
  <2>4. CASE hit
    <3> DEFINE f == [d EXCEPT !.attr = e.attr]
    <3>1. l = DirRet(v, f, "FR_OK")
      BY <2>4 DEF LookAt
    <3>2. f.dptr = d.dptr /\ f.clust = d.clust /\ f.sect = d.sect
      OBVIOUS
    <3> HIDE DEF f
    <3>3. Placed(g, f)
      BY <2>3, <3>2 DEF Placed
    <3> QED BY <2>1, <2>2, <3>1, <3>3 DEF DirRet, Searched
  <2>5. CASE ~hit /\ ~alloc /\ e.name = ""
    <3>1. l = DirRet(v, d, "FR_NO_FILE")
      BY <2>5 DEF LookAt
    <3> QED BY <2>1, <2>2, <3>1 DEF DirRet, Searched
  <2>6. CASE ~hit /\ ~(~alloc /\ e.name = "")
    <3>1. l = IF n.res = "FR_OK" THEN [n EXCEPT !.res = "more"] ELSE n
      BY <2>6 DEF LookAt
    <3>2. /\ Ok(g, K, h, n.v)
          /\ n.res \in {"FR_OK", "FR_DENIED", "FR_INT_ERR", "FR_NO_FILE"}
          /\ n.res = "FR_OK" => Placed(g, n.d)
      BY <2>2, <2>3, NextPlaced
    <3> HIDE DEF n, l
    <3>3. CASE n.res = "FR_OK"
      <4>1. l.v = n.v /\ l.d = n.d
        BY <3>1, <3>3
      <4> QED BY <2>1, <3>2, <3>3, <4>1 DEF Searched
    <3>4. CASE n.res # "FR_OK"
      <4>1. l = n /\ n.res \notin {"FR_OK", "more"}
        BY <3>1, <3>2, <3>4
      <4> QED BY <2>1, <3>2, <4>1 DEF Searched
    <3> QED BY <3>3, <3>4
  <2> QED BY <2>4, <2>5, <2>6
<1> QED BY <1>1, <1>2

\* The loops of dir_find() and dir_alloc().
LEMMA SearchPlaced ==
  ASSUME NEW g, NEW K, NEW h, NEW v, Ok(g, K, h, v), NEW d, Placed(g, d), NEW alloc
  PROVE  Searched(g, K, h, Search(v, d, alloc))
<1> DEFINE s == DirRet(v, d, "more")
           N == Rounds(v) * SS + v.n_rootdir
           R[n \in 0 .. N] == IF n = 0 THEN s ELSE Look(R[n - 1], alloc)
<1>1. N \in Nat
  <2>1. v.n_fatent \in Nat /\ v.csize \in Nat /\ v.n_rootdir \in Nat /\ SS \in Nat
    BY OkSame, FatAssumption DEF Same, Shape
  <2>2. Rounds(v) \in Nat
    BY <2>1 DEF Rounds
  <2>3. Rounds(v) * SS \in Nat
    BY <2>1, <2>2
  <2> QED BY <2>1, <2>3
<1>2. R = [n \in 0 .. N |-> IF n = 0 THEN s ELSE Look(R[n - 1], alloc)]
  <2> SUFFICES \E f : f = [n \in 0 .. N |-> IF n = 0 THEN s ELSE Look(f[n - 1], alloc)]
    OBVIOUS
  <2>1. \A x, i : Step("search", alloc, x, i) = Look(x, alloc)
    BY DEF Step
  <2> HIDE DEF Step, s, N
  <2>2. PICK f : Runs(f, "search", alloc, s, N)
    BY <1>1, LoopRuns
  <2>3. f = [n \in 0 .. N |-> IF n = 0 THEN s ELSE Look(f[n - 1], alloc)]
    <3>1. f = [n \in 0 .. N |-> IF n = 0 THEN s ELSE Step("search", alloc, f[n - 1], n)]
      BY <2>2 DEF Runs
    <3>2. DOMAIN f = 0 .. N /\ \A n \in 0 .. N : f[n] = IF n = 0 THEN s ELSE Look(f[n - 1], alloc)
      BY <2>1, <3>1
    <3>3. f = [n \in 0 .. N |-> f[n]]
      BY <3>1
    <3> QED BY <3>2, <3>3
  <2> QED BY <2>3
<1>3. Search(v, d, alloc) = R[N]
  BY DEF Search
<1> HIDE DEF R, N
<1>4. R[0] = s /\ \A n \in 1 .. N : R[n] = Look(R[n - 1], alloc)
  BY <1>1, <1>2
<1> DEFINE S == {n \in Nat : n <= N => Searched(g, K, h, R[n])}
<1>5. 0 \in S
  BY <1>4 DEF Searched, DirRet
<1>6. \A n \in Nat : n \in S => n + 1 \in S
  <2> SUFFICES ASSUME NEW n \in Nat, n \in S, n + 1 <= N PROVE Searched(g, K, h, R[n + 1])
    OBVIOUS
  <2>1. R[n + 1] = Look(R[n], alloc) /\ Searched(g, K, h, R[n])
    BY <1>1, <1>4
  <2> QED BY <2>1, LookSearched
<1> HIDE DEF S
<1>7. N \in S
  BY <1>1, <1>5, <1>6, Induct
<1> QED BY <1>1, <1>3, <1>7 DEF S

\* dir_find().
LEMMA OkFind ==
  ASSUME NEW g, NEW K, NEW h, NEW v, Ok(g, K, h, v), NEW d
  PROVE  Ok(g, K, h, dir_find(v, d).v)
<1> DEFINE s == dir_sdi(v, d)
<1>1. s.v = v /\ (s.res = "FR_OK" => Placed(g, s.d))
  BY OkSame, SdiPlaced
<1>2. dir_find(v, d) = IF s.res = "FR_OK" THEN Search(v, s.d, FALSE) ELSE s
  BY DEF dir_find
<1> HIDE DEF s
<1> QED BY <1>1, <1>2, SearchPlaced DEF Searched

\* dir_register() enters a name without a cluster, in the window.
LEMMA OkRegister ==
  ASSUME NEW g, NEW K, NEW h, NEW v, Ok(g, K, h, v), NEW d
  PROVE  LET r == dir_register(v, d)
         IN  /\ Ok(g, K, h, r.v)
             /\ r.res = "FR_OK" =>
                  /\ r.v.winsect \in DataSectors(g) /\ DOMAIN r.v.win = Cells
                  /\ At(r.d) \in Cells /\ r.v.win[At(r.d)].clust = 0
<1> DEFINE s == dir_sdi(v, d)
           l == Search(s.v, s.d, TRUE)
           a == dir_alloc(v, d)
<1>1. s.v = v /\ (s.res = "FR_OK" => Placed(g, s.d)) /\ Shape(g)
  BY OkSame, SdiPlaced
<1>2. a = AllocOn(s)
  BY DEF dir_alloc
<1> HIDE DEF s, a
<1>3. Ok(g, K, h, a.v) /\ (a.res = "FR_OK" => Placed(g, a.d))
  <2>1. CASE s.res # "FR_OK"
    BY <1>1, <1>2, <2>1 DEF AllocOn
  <2>2. CASE s.res = "FR_OK"
    <3>1. Searched(g, K, h, l)
      BY <1>1, <2>2, SearchPlaced
    <3>2. a = Denied(l)
      BY <1>2, <2>2 DEF AllocOn
    <3> HIDE DEF l
    <3>3. a.v = l.v /\ a.d = l.d /\ (a.res = "FR_OK" => l.res = "FR_OK")
      <4>1. CASE l.res = "FR_NO_FILE"
        <5>1. a = [l EXCEPT !.res = "FR_DENIED"]
          BY <3>2, <4>1 DEF Denied
        <5> QED BY <4>1, <5>1
      <4>2. CASE l.res # "FR_NO_FILE"
        BY <3>2, <4>2 DEF Denied
      <4> QED BY <4>1, <4>2
    <3> QED BY <3>1, <3>3 DEF Searched
  <2> QED BY <2>1, <2>2
<1>4. dir_register(v, d) = RegisterAt(a)
  BY DEF dir_register, a
<1>5. CASE a.res # "FR_OK"
  BY <1>3, <1>4, <1>5 DEF RegisterAt
<1>6. CASE a.res = "FR_OK"
  <2> DEFINE w == move_window(a.v, a.d.sect)
             c == At(a.d)
             e == Entry(a.d.fn, "", 0, 0)
             x == [w.win EXCEPT ![c] = e]
             u == [w EXCEPT !.win = x, !.wflag = TRUE]
  <2>1. RegisterAt(a) = DirRet(u, a.d, "FR_OK")
    BY <1>6 DEF RegisterAt, Enter
  <2>2. a.d.sect \in DataSectors(g) /\ c \in Cells
    BY <1>1, <1>3, <1>6, EntryPlace
  <2>3. Ok(g, K, h, w) /\ w.winsect \in DataSectors(g) /\ DOMAIN w.win = Cells
    BY <1>3, <2>2, OkMove
  <2>0. e.clust = 0
    BY DEF Entry
  <2> HIDE DEF w, c, e
  <2>4. DOMAIN x = Cells /\ x[c] = e
    BY <2>2, <2>3
  <2>5. u.winsect = w.winsect /\ u.win = x
    OBVIOUS
  <2>6. Ok(g, K, h, u)
    BY <2>3, <2>4, OkDirty
  <2> DEFINE r == dir_register(v, d)
  <2>7. r = DirRet(u, a.d, "FR_OK")
    BY <1>4, <2>1
  <2> HIDE DEF x, u, r
  <2>8. r.v = u /\ r.d = a.d
    BY <2>7 DEF DirRet
  <2>9. r.v.win[At(r.d)].clust = 0 /\ At(r.d) \in Cells
    BY <2>0, <2>2, <2>4, <2>5, <2>8 DEF c
  <2> QED BY <2>3, <2>4, <2>5, <2>6, <2>8, <2>9 DEF r
<1> QED BY <1>5, <1>6

\* A segment of a path.
LEMMA OkEnters ==
  ASSUME NEW g, NEW K, NEW h, NEW r, Ok(g, K, h, r.v), NEW name, NEW last
  PROVE  Ok(g, K, h, Enters(r, name, last).v)
<1> DEFINE fn == create_name(name)
           d  == [r.d EXCEPT !.fn = fn]
           f  == dir_find(r.v, d)
<1>1. CASE r.res # "FR_OK"
  BY <1>1 DEF Enters
<1>2. CASE r.res = "FR_OK" /\ fn = Invalid
  <2>1. Enters(r, name, last) = [r EXCEPT !.res = "FR_INVALID_NAME"]
    BY <1>2 DEF Enters
  <2> QED BY <2>1
<1>3. CASE r.res = "FR_OK" /\ fn # Invalid
  <2>1. Enters(r, name, last) = Found(f, last)
    BY <1>3 DEF Enters
  <2>2. Ok(g, K, h, f.v)
    BY OkFind
  <2> HIDE DEF f
  <2>3. Found(f, last).v = f.v
    <3> DEFINE dot == f.d.fn \in {".", ".."}
               in  == [f.d EXCEPT !.sclust = f.v.win[At(f.d)].clust]
               z   == Found(f, last)
    <3>1. \/ z = f
          \/ z = [f EXCEPT !.res = "FR_NO_PATH"]
          \/ z = [f EXCEPT !.d = in]
          \/ z = [f EXCEPT !.res = "FR_OK", !.d.noname = TRUE]
          \/ z = [f EXCEPT !.res = "FR_OK"]
      BY DEF Found
    <3> HIDE DEF in, z
    <3>2. CASE z = [f EXCEPT !.res = "FR_OK", !.d.noname = TRUE]
      <4>1. [f EXCEPT !.res = "FR_OK", !.d.noname = TRUE].v = f.v
        OBVIOUS
      <4> QED BY <3>2, <4>1, Zenon DEF z
    <3>3. CASE z = [f EXCEPT !.res = "FR_NO_PATH"]
      <4>1. [f EXCEPT !.res = "FR_NO_PATH"].v = f.v
        OBVIOUS
      <4> QED BY <3>3, <4>1, Zenon DEF z
    <3>4. CASE z = [f EXCEPT !.d = in]
      <4>1. [f EXCEPT !.d = in].v = f.v
        OBVIOUS
      <4> QED BY <3>4, <4>1, Zenon DEF z
    <3>5. CASE z = [f EXCEPT !.res = "FR_OK"]
      <4>1. [f EXCEPT !.res = "FR_OK"].v = f.v
        OBVIOUS
      <4> QED BY <3>5, <4>1, Zenon DEF z
    <3>6. CASE z = f
      BY <3>6 DEF z
    <3> QED BY <3>1, <3>2, <3>3, <3>4, <3>5, <3>6
  <2> QED BY <2>1, <2>2, <2>3
<1> QED BY <1>1, <1>2, <1>3

\* follow_path().
LEMMA OkFollow ==
  ASSUME NEW g, NEW K, NEW h, NEW v, Ok(g, K, h, v), NEW path, Len(path.segs) \in Nat
  PROVE  Ok(g, K, h, follow_path(v, path).v)
<1> DEFINE d == DIR(IF path.abs THEN 0 ELSE v.cdir)
           segs == path.segs
           s == DirRet(v, d, "FR_OK")
           N == Len(segs)
           R[i \in 0 .. N] == IF i = 0 THEN s ELSE Enters(R[i - 1], segs[i], i = Len(segs))
<1>1. CASE segs = <<>>
  <2> DEFINE t == dir_sdi(v, d)
  <2>1. t.v = v
    BY OkSame, SdiPlaced
  <2>2. follow_path(v, path) = [t EXCEPT !.d.noname = TRUE]
    BY <1>1 DEF follow_path
  <2> HIDE DEF t
  <2>3. follow_path(v, path).v = t.v
    BY <2>2
  <2> QED BY <2>1, <2>3
<1>2. CASE segs # <<>>
  <2>1. follow_path(v, path) = Walk(v, d, segs)
    BY <1>2 DEF follow_path
  <2>2. R = [i \in 0 .. N |-> IF i = 0 THEN s ELSE Enters(R[i - 1], segs[i], i = Len(segs))]
    <3> SUFFICES \E f : f = [i \in 0 .. N |-> IF i = 0 THEN s ELSE Enters(f[i - 1], segs[i], i = Len(segs))]
      OBVIOUS
    <3>1. \A x, i : Step("walk", segs, x, i) = Enters(x, segs[i], i = Len(segs))
      BY DEF Step
    <3> HIDE DEF Step, s, N, segs
    <3>2. PICK f : Runs(f, "walk", segs, s, N)
      BY LoopRuns DEF N, segs
    <3>3. f = [i \in 0 .. N |-> IF i = 0 THEN s ELSE Enters(f[i - 1], segs[i], i = Len(segs))]
      <4>1. f = [i \in 0 .. N |-> IF i = 0 THEN s ELSE Step("walk", segs, f[i - 1], i)]
        BY <3>2 DEF Runs
      <4>2. DOMAIN f = 0 .. N
            /\ \A i \in 0 .. N : f[i] = IF i = 0 THEN s ELSE Enters(f[i - 1], segs[i], i = Len(segs))
        <5>1. DOMAIN f = 0 .. N
          BY <4>1
        <5>2. ASSUME NEW i \in 0 .. N
              PROVE  f[i] = IF i = 0 THEN s ELSE Enters(f[i - 1], segs[i], i = Len(segs))
          <6>1. f[i] = IF i = 0 THEN s ELSE Step("walk", segs, f[i - 1], i)
            BY <4>1
          <6>2. Step("walk", segs, f[i - 1], i) = Enters(f[i - 1], segs[i], i = Len(segs))
            BY <3>1
          <6> QED BY <6>1, <6>2
        <5> QED BY <5>1, <5>2
      <4>3. f = [i \in 0 .. N |-> f[i]]
        BY <4>1
      <4> QED BY <4>2, <4>3
    <3> QED BY <3>3
  <2>3. Walk(v, d, segs) = R[N]
    BY DEF Walk
  <2>4. N \in Nat
    OBVIOUS
  <2> HIDE DEF R, N, segs
  <2>5. R[0] = s /\ \A n \in 1 .. N : R[n] = Enters(R[n - 1], segs[n], n = Len(segs))
    BY <2>2, <2>4
  <2> DEFINE S == {n \in Nat : n <= N => Ok(g, K, h, R[n].v)}
  <2>6. 0 \in S
    BY <2>5 DEF DirRet
  <2>7. \A n \in Nat : n \in S => n + 1 \in S
    <3> SUFFICES ASSUME NEW n \in Nat, n \in S, n + 1 <= N PROVE Ok(g, K, h, R[n + 1].v)
      OBVIOUS
    <3>1. PICK b : b = (n + 1 = Len(segs))
      OBVIOUS
    <3>2. R[n + 1] = Enters(R[n], segs[n + 1], b) /\ Ok(g, K, h, R[n].v)
      BY <2>4, <2>5, <3>1
    <3> QED BY <3>2, OkEnters
  <2> HIDE DEF S
  <2>8. N \in S
    BY <2>4, <2>6, <2>7, Induct
  <2> QED BY <2>1, <2>3, <2>4, <2>8 DEF S
<1> QED BY <1>1, <1>2

-----------------------------------------------------------------------------
(* Mounting. *)

\* The sector that find_volume() ends with on the sectors C, and what is there.
Table(C)  == {i \in DOMAIN C[0].table : C[0].table[i] # 0}
Hits(C)   == {i \in Table(C) : Format(C[C[0].table[i]]) < 2}
Choice(C) == C[0].table[IF Hits(C) = {} THEN Max(Table(C)) ELSE Min(Hits(C))]
BootAt(C) == IF Format(C[0]) # 2 \/ Table(C) = {} \/ Choice(C) = -1 THEN 0 ELSE Choice(C)
Boot(C)   == C[BootAt(C)]

Mountable(C) == Format(Boot(C)) < 2 /\ Proper(Boot(C))

\* What looking for a volume leaves alone.
Looked(v, w) ==
  w.card = v.card /\ w.log = v.log /\ w.fs_type = v.fs_type /\ w.stat = v.stat
  /\ w.sd = v.sd /\ w.wflag = FALSE

\* The volume x is what mounting finds on the sectors C.
Loaded(C, x) ==
  LET b     == Boot(C)
      base  == BootAt(C)
      info  == FatType(b) = 32 /\ b.info
      count == C[base + 1]
  IN  /\ x.card = C /\ x.wflag = FALSE /\ x.stat # "STA_NOINIT"
      /\ x.fs_type = FatType(b) /\ x.n_fats = b.fats /\ x.csize = b.spc
      /\ x.n_rootdir = b.root /\ x.fsize = b.fsz /\ x.n_fatent = Clusters(b) + 2
      /\ x.volbase = base /\ x.fatbase = base + b.rsv /\ x.database = base + SysSectors(b)
      /\ x.dirbase = (IF FatType(b) = 32 THEN b.rootclus ELSE base + b.rsv + b.fats * b.fsz)
      /\ x.fsi_flag = (IF info THEN "clean" ELSE "disabled")
      /\ x.winsect = (IF info THEN base + 1 ELSE base)
      /\ x.free_clst = (IF info /\ count.sig THEN count.free ELSE EOC)

\* check_fs() shows a sector in the window.
LEMMA CheckFs ==
  ASSUME NEW v, NEW sect
  PROVE  LET c == check_fs(v, sect)
         IN  /\ Looked(v, c.v) /\ c.v.winsect = sect
             /\ c.fmt = Format(c.v.win)
             /\ c.v.win = IF sect = -1 THEN v.win ELSE v.card[sect]
<1> DEFINE u == [v EXCEPT !.wflag = FALSE, !.winsect = -1]
           w == move_window(u, sect)
<1>1. check_fs(v, sect) = [v |-> w, fmt |-> Format(w.win)]
  BY DEF check_fs
<1>2. Looked(v, u) /\ u.winsect = -1 /\ u.win = v.win /\ u.wflag = FALSE
  BY DEF Looked
<1> HIDE DEF u
<1>3. sync_window(u) = u
  BY <1>2 DEF sync_window
<1>4. CASE sect = -1
  <2>1. w = u
    BY <1>2, <1>4 DEF move_window
  <2> QED BY <1>1, <1>2, <1>4, <2>1
<1>5. CASE sect # -1
  <2> DEFINE x == [u EXCEPT !.winsect = sect, !.win = u.card[sect]]
  <2>1. w = x
    BY <1>2, <1>3, <1>5 DEF move_window
  <2>2. x.winsect = sect /\ x.win = u.card[sect] /\ Looked(v, x) /\ u.card = v.card
    BY <1>2 DEF Looked
  <2> HIDE DEF w, x
  <2> QED BY <1>1, <1>5, <2>1, <2>2
<1> QED BY <1>4, <1>5

\* find_volume().
LEMMA Finds ==
  ASSUME NEW v, NEW C, C = v.card
  PROVE  LET f == find_volume(v)
         IN  /\ Looked(v, f.v)
             /\ f.fmt < 2 <=> Format(Boot(C)) < 2
             /\ f.fmt < 2 => f.v.winsect = BootAt(C) /\ f.v.win = Boot(C)
<1> DEFINE c == check_fs(v, 0)
           f == find_volume(v)
<1>1. /\ Looked(v, c.v) /\ c.v.winsect = 0 /\ c.v.win = C[0] /\ c.fmt = Format(C[0])
      /\ c.v.card = C
  <2>1. /\ Looked(v, c.v) /\ c.v.winsect = 0 /\ c.fmt = Format(c.v.win)
        /\ c.v.win = IF 0 = -1 THEN v.win ELSE v.card[0]
    BY CheckFs
  <2> HIDE DEF c
  <2>2. c.v.card = v.card
    BY <2>1 DEF Looked
  <2> QED BY <2>1, <2>2
<1>2. f = IF c.fmt = 2 THEN FindPartition(c.v, c.v.win.table) ELSE c
  BY DEF find_volume
<1> HIDE DEF c, f
<1>3. \A x : Format(x) \in {0, 2, 3}
  BY DEF Format
<1>4. CASE Format(C[0]) # 2
  <2>1. BootAt(C) = 0 /\ Boot(C) = C[0]
    BY <1>4 DEF BootAt, Boot
  <2> QED BY <1>1, <1>2, <1>4, <2>1 DEF f
<1>5. CASE Format(C[0]) = 2 /\ Table(C) = {}
  <2>1. BootAt(C) = 0 /\ Boot(C) = C[0]
    BY <1>5 DEF BootAt, Boot
  <2>2. f = [v |-> c.v, fmt |-> 3]
    BY <1>1, <1>2, <1>5 DEF FindPartition, Table
  <2> QED BY <1>1, <1>5, <2>1, <2>2 DEF f
<1>6. CASE Format(C[0]) = 2 /\ Table(C) # {}
  <2> DEFINE a == Choice(C)
             d == check_fs(c.v, a)
  <2>1. f = d
    BY <1>1, <1>2, <1>6 DEF FindPartition, Table, Hits, Choice
  <2>2. /\ Looked(c.v, d.v) /\ d.v.winsect = a /\ d.fmt = Format(d.v.win)
        /\ d.v.win = IF a = -1 THEN C[0] ELSE C[a]
    BY <1>1, CheckFs
  <2>3. Looked(v, d.v)
    BY <1>1, <2>2 DEF Looked
  <2>4. CASE a = -1
    <3>1. Boot(C) = C[0]
      BY <2>4 DEF BootAt, Boot
    <3> QED BY <1>6, <2>1, <2>2, <2>3, <2>4, <3>1 DEF f
  <2>5. CASE a # -1
    <3>1. BootAt(C) = a /\ Boot(C) = C[a]
      BY <1>6, <2>5 DEF BootAt, Boot
    <3> QED BY <2>1, <2>2, <2>3, <2>5, <3>1 DEF f
  <2> QED BY <2>4, <2>5
<1> QED BY <1>4, <1>5, <1>6

\* LoadVolume() of the boot sector in the window.
LEMMA Loads ==
  ASSUME NEW v, NEW C, C = v.card, v.winsect = BootAt(C), v.win = Boot(C), v.wflag = FALSE,
         v.stat # "STA_NOINIT"
  PROVE  Loaded(C, LoadVolume(v)) /\ LoadVolume(v).log = v.log
<1> DEFINE b    == v.win
           base == v.winsect
           type == FatType(b)
           info == type = 32 /\ b.info
           u    == [v EXCEPT !.fs_type = type, !.id = @ + 1, !.n_fats = b.fats,
                        !.csize = b.spc, !.n_rootdir = b.root, !.fsize = b.fsz,
                        !.n_fatent = Clusters(b) + 2, !.volbase = base,
                        !.fatbase = base + b.rsv, !.database = base + SysSectors(b),
                        !.dirbase = IF type = 32 THEN b.rootclus
                                    ELSE base + b.rsv + b.fats * b.fsz,
                        !.last_clst = EOC, !.free_clst = EOC,
                        !.fsi_flag = "disabled", !.cdir = 0]
           w    == move_window(u, base + 1)
           x    == [w EXCEPT !.fsi_flag  = "clean",
                     !.free_clst = IF w.win.sig THEN w.win.free ELSE @,
                     !.last_clst = IF w.win.sig THEN w.win.last ELSE @]
           Alike(y) == /\ y.card = C /\ y.wflag = FALSE /\ y.stat # "STA_NOINIT"
                       /\ y.fs_type = type /\ y.n_fats = b.fats /\ y.csize = b.spc
                       /\ y.n_rootdir = b.root /\ y.fsize = b.fsz /\ y.n_fatent = Clusters(b) + 2
                       /\ y.volbase = base /\ y.fatbase = base + b.rsv
                       /\ y.database = base + SysSectors(b)
                       /\ y.dirbase = (IF type = 32 THEN b.rootclus
                                       ELSE base + b.rsv + b.fats * b.fsz)
                       /\ y.log = v.log
<1>1. LoadVolume(v) = IF info THEN x ELSE u
  BY DEF LoadVolume
<1>2. Alike(u) /\ u.winsect = base /\ u.win = C[base] /\ u.free_clst = EOC /\ u.fsi_flag = "disabled"
  BY DEF Boot
<1> HIDE DEF u
<1>3. sync_window(u) = u
  BY <1>2 DEF sync_window
<1>4. Alike(w) /\ w.winsect = base + 1 /\ w.win = C[base + 1] /\ w.free_clst = EOC
  <2>1. CASE base + 1 = base
    <3>1. w = u
      BY <1>2, <2>1 DEF move_window
    <3> QED BY <1>2, <2>1, <3>1
  <2>2. CASE base + 1 # base
    <3> DEFINE y == [u EXCEPT !.winsect = base + 1, !.win = u.card[base + 1]]
    <3>1. w = y
      BY <1>2, <1>3, <2>2 DEF move_window
    <3>2. Alike(y) /\ y.winsect = base + 1 /\ y.win = C[base + 1] /\ y.free_clst = EOC
      BY <1>2
    <3> QED BY <3>1, <3>2
  <2> QED BY <2>1, <2>2
<1> HIDE DEF w
<1>5. /\ Alike(x) /\ x.winsect = base + 1 /\ x.fsi_flag = "clean"
      /\ x.free_clst = IF C[base + 1].sig THEN C[base + 1].free ELSE EOC
  BY <1>4
<1> HIDE DEF x
<1>6. CASE info
  <2>1. LoadVolume(v) = x
    BY <1>1, <1>6
  <2> QED BY <1>5, <1>6, <2>1 DEF Loaded
<1>7. CASE ~info
  <2>1. LoadVolume(v) = u
    BY <1>1, <1>7
  <2> QED BY <1>2, <1>7, <2>1 DEF Loaded
<1> QED BY <1>6, <1>7

\* mount_volume() of a volume that is not mounted.
LEMMA Mounts ==
  ASSUME NEW v, NEW C, C = v.card, v.sd \in BOOLEAN, v.fs_type = 0
  PROVE  LET r == mount_volume(v)
         IN  /\ r.res = "FR_OK" <=> v.sd = TRUE /\ Mountable(C)
             /\ r.res = "FR_OK" => Loaded(C, r.v)
             /\ r.res # "FR_OK" => r.v.fs_type = 0 /\ r.v.sd = v.sd /\ r.v.card = C
             /\ r.v.log = v.log /\ r.res # "FR_NO_FILE"
<1> DEFINE u == [v EXCEPT !.fs_type = 0, !.stat = IF v.sd THEN "" ELSE @]
           f == find_volume(u)
           r == mount_volume(v)
<1>1. /\ u.fs_type = 0 /\ u.card = C /\ u.log = v.log /\ u.sd = v.sd
      /\ v.sd = TRUE => u.stat = ""
  <2>1. u.fs_type = 0 /\ u.card = C /\ u.log = v.log /\ u.sd = v.sd
    OBVIOUS
  <2>2. u.stat = IF v.sd THEN "" ELSE v.stat
    OBVIOUS
  <2> HIDE DEF u
  <2> QED BY <2>1, <2>2
<1>2. CASE v.sd = FALSE
  <2>1. r = Ret(u, "FR_NOT_READY")
    BY <1>2 DEF mount_volume
  <2> HIDE DEF u, r
  <2>2. r.v = u /\ r.res # "FR_OK" /\ r.res # "FR_NO_FILE" /\ v.sd # TRUE
    BY <1>2, <2>1 DEF Ret
  <2> QED BY <1>1, <2>2 DEF r
<1>3. CASE v.sd = TRUE
  <2>1. r = IF f.fmt < 2 /\ Proper(f.v.win) THEN Ret(LoadVolume(f.v), "FR_OK")
            ELSE Ret(f.v, "FR_NO_FILESYSTEM")
    BY <1>3 DEF mount_volume
  <2> HIDE DEF u, r
  <2>2. /\ Looked(u, f.v)
        /\ f.fmt < 2 <=> Format(Boot(C)) < 2
        /\ f.fmt < 2 => f.v.winsect = BootAt(C) /\ f.v.win = Boot(C)
    BY <1>1, Finds
  <2> HIDE DEF f
  <2>3. f.v.fs_type = 0 /\ f.v.card = C /\ f.v.log = v.log /\ f.v.wflag = FALSE /\ f.v.sd = v.sd
        /\ f.v.stat # "STA_NOINIT"
    BY <1>1, <1>3, <2>2 DEF Looked
  <2>4. CASE Mountable(C)
    <3>1. r = Ret(LoadVolume(f.v), "FR_OK")
      BY <2>1, <2>2, <2>4 DEF Mountable
    <3>2. Loaded(C, LoadVolume(f.v)) /\ LoadVolume(f.v).log = f.v.log
      BY <2>2, <2>3, <2>4, Loads DEF Mountable
    <3> QED BY <1>3, <2>3, <2>4, <3>1, <3>2 DEF Ret, r
  <2>5. CASE ~Mountable(C)
    <3>1. r = Ret(f.v, "FR_NO_FILESYSTEM")
      BY <2>1, <2>2, <2>5 DEF Mountable
    <3> QED BY <2>3, <2>5, <3>1 DEF Ret, r
  <2> QED BY <2>4, <2>5
<1> QED BY <1>2, <1>3

\* What the next boot finds.
LEMMA Boots ==
  ASSUME NEW C
  PROVE  /\ Mountable(C) => Loaded(C, OnCard(C)) /\ OnCard(C).fs_type # 0
         /\ ~Mountable(C) => OnCard(C).fs_type = 0
<1> DEFINE f == [FATFS(C) EXCEPT !.sd = TRUE]
           v == [f EXCEPT !.fs_type = 0]
           r == mount_volume(v)
<1>1. OnCard(C) = r.v
  BY DEF OnCard, f_mount
<1>2. v.card = C /\ v.sd = TRUE /\ v.fs_type = 0
  BY DEF FATFS
<1> HIDE DEF v
<1>3. /\ r.res = "FR_OK" <=> v.sd = TRUE /\ Mountable(C)
      /\ r.res = "FR_OK" => Loaded(C, r.v)
      /\ r.res # "FR_OK" => r.v.fs_type = 0
  BY <1>2, Mounts
<1>4. Loaded(C, r.v) => r.v.fs_type # 0
  BY DEF Loaded, FatType
<1> HIDE DEF r
<1> QED BY <1>1, <1>2, <1>3, <1>4

\* A sound card that can be mounted has a geometry, and is in order.
LEMMA SoundGeometry ==
  ASSUME NEW K, SoundCard(K), Mountable(K), NEW g, g = Geometry(OnCard(K))
  PROVE  Shape(g) /\ OkCard(g, K)
<1> DEFINE x == OnCard(K)
           b == Boot(K)
           a == BootAt(K)
           m == Clusters(b)
           r == RootSectors(b)
           t == FatType(b)
           f == b.fats * b.fsz
<1>1. Loaded(K, x) /\ x.fs_type # 0
  BY Boots
<1>2. Formatted(x) /\ LinksApart(x) /\ CountNotLow(x)
  BY <1>1 DEF SoundCard
<1> HIDE DEF x
<1>3. /\ g.fs_type = x.fs_type /\ g.n_fats = x.n_fats /\ g.csize = x.csize
      /\ g.n_rootdir = x.n_rootdir /\ g.n_fatent = x.n_fatent /\ g.fsize = x.fsize
      /\ g.volbase = x.volbase /\ g.fatbase = x.fatbase /\ g.dirbase = x.dirbase
      /\ g.database = x.database /\ (g.info <=> x.fsi_flag # "disabled")
      /\ g.front = [s \in 0 .. g.volbase |-> x.card[s]]
  BY DEF Geometry, x
<1>4. /\ x.card = K /\ x.fs_type = t /\ x.n_fats = b.fats /\ x.csize = b.spc
      /\ x.n_rootdir = b.root /\ x.fsize = b.fsz /\ x.n_fatent = m + 2
      /\ x.volbase = a /\ x.fatbase = a + b.rsv /\ x.database = a + SysSectors(b)
      /\ x.dirbase = (IF t = 32 THEN b.rootclus ELSE a + b.rsv + f)
      /\ x.fsi_flag = (IF t = 32 /\ b.info THEN "clean" ELSE "disabled")
      /\ x.free_clst = (IF t = 32 /\ b.info /\ K[a + 1].sig THEN K[a + 1].free ELSE EOC)
  BY <1>1 DEF Loaded
<1>5. x.card[x.volbase] = b
  BY <1>4 DEF Boot
<1>6. /\ a \in Nat /\ b.rsv \in Nat /\ b.root \in Nat /\ b.tot \in Nat /\ b.fsz \in Nat
      /\ m + 2 <= EOC
      /\ (0 .. g.fatbase + g.fsize - 1) \union DataSectors(x) \subseteq DOMAIN K
      /\ \A s \in g.fatbase .. g.fatbase + g.fsize - 1 : K[s] \in [Cells -> Nat]
      /\ \A s \in DataSectors(x) : DOMAIN K[s] = Cells
      /\ g.info => a + 1 < g.fatbase /\ K[a + 1].free \in Nat
  BY <1>2, <1>3, <1>4, <1>5 DEF Formatted
<1>7. /\ b.fats \in {1, 2} /\ b.spc \in {1, 2, 4, 8, 16, 32, 64, 128}
      /\ b.root % SS = 0 /\ b.rsv # 0
      /\ b.tot >= SysSectors(b) /\ m # 0
      /\ (b.root = 0) <=> (t = 32)
      /\ b.fsz * SS >= m + 2
  BY DEF Mountable, Proper
<1>8. r \in Nat
  <2> DEFINE n == b.root
  <2>1. n \in Nat /\ SS \in Nat \ {0} /\ r = n \div SS
    BY <1>6, FatAssumption DEF RootSectors
  <2> HIDE DEF n, r
  <2> QED BY <2>1, DivMod
<1>9. f \in Nat /\ f >= b.fsz /\ (b.fats = 2 => f = b.fsz + b.fsz)
  BY <1>6, <1>7
<1>10. SysSectors(b) = b.rsv + f + r
  BY DEF SysSectors
<1>11. t \in {12, 16, 32}
  BY DEF FatType
<1> HIDE DEF a, b, t, f, r
<1>12. m \in Nat
  <2> DEFINE n == b.tot - SysSectors(b)
  <2>1. n \in Nat /\ b.spc \in Nat \ {0}
    BY <1>6, <1>7, <1>8, <1>9, <1>10
  <2>2. m = n \div b.spc
    BY DEF Clusters
  <2> HIDE DEF n, m
  <2> QED BY <2>1, <2>2, DivMod
<1> HIDE DEF m
<1>13. Shape(g)
  <2>1. /\ g.volbase \in Nat /\ g.fatbase \in Nat /\ g.volbase < g.fatbase
        /\ g.fsize \in Nat /\ g.csize \in Nat \ {0} /\ g.database \in Nat
        /\ g.fatbase + g.fsize <= g.database
        /\ g.n_fats = 2 => g.fatbase + g.fsize + g.fsize <= g.database
    <3>1. /\ g.volbase = a /\ g.fatbase = a + b.rsv /\ g.fsize = b.fsz /\ g.csize = b.spc
          /\ g.database = a + (b.rsv + f + r) /\ g.n_fats = b.fats
      BY <1>3, <1>4, <1>10
    <3>2. g.csize \in Nat \ {0}
      BY <1>7, <3>1
    <3> PICK rsv, fsz, fats : rsv = b.rsv /\ fsz = b.fsz /\ fats = b.fats
      OBVIOUS
    <3>3. /\ a \in Nat /\ rsv \in Nat /\ rsv # 0 /\ fsz \in Nat /\ f \in Nat /\ r \in Nat
          /\ f >= fsz /\ (fats = 2 => f = fsz + fsz)
      BY <1>6, <1>7, <1>8, <1>9
    <3>4. /\ g.volbase = a /\ g.fatbase = a + rsv /\ g.fsize = fsz
          /\ g.database = a + (rsv + f + r) /\ g.n_fats = fats
      BY <3>1
    <3> QED BY <3>2, <3>3, <3>4
  <2>2. /\ g.n_fatent \in Nat /\ 3 <= g.n_fatent /\ g.n_fatent <= EOC
        /\ g.n_fatent <= g.fsize * SS
    BY <1>3, <1>4, <1>6, <1>7, <1>12
  <2>3. g.fs_type # 0 /\ g.n_rootdir \in Nat /\ g.n_rootdir % SS = 0
    BY <1>3, <1>4, <1>6, <1>7, <1>11
  <2>4. g.fs_type # 32 => /\ g.n_rootdir # 0
                          /\ g.dirbase \in Nat /\ g.fatbase + g.fsize <= g.dirbase
                          /\ g.dirbase + g.n_rootdir \div SS <= g.database
    <3>1. g.n_rootdir \div SS = r
      BY <1>3, <1>4 DEF r, RootSectors
    <3>2. g.fs_type # 32 => g.dirbase = a + b.rsv + f /\ g.n_rootdir # 0
      BY <1>3, <1>4, <1>7
    <3>3. /\ g.fatbase = a + b.rsv /\ g.fsize = b.fsz /\ g.database = a + (b.rsv + f + r)
      BY <1>3, <1>4, <1>10
    <3>4. /\ a \in Nat /\ b.rsv \in Nat /\ b.fsz \in Nat /\ f \in Nat /\ r \in Nat /\ f >= b.fsz
      BY <1>6, <1>8, <1>9
    <3> QED BY <3>1, <3>2, <3>3, <3>4
  <2>5. g.info => g.fs_type = 32 /\ g.volbase + 1 < g.fatbase
    BY <1>3, <1>4, <1>6
  <2> QED BY <2>1, <2>2, <2>3, <2>4, <2>5 DEF Shape
<1>14. Layout(g, K)
  <2>1. DataSectors(x) = DataSectors(g)
    BY <1>3 DEF DataSectors
  <2>2. \A s \in 0 .. g.volbase : K[s] = g.front[s]
    BY <1>3, <1>4
  <2> QED BY <1>3, <1>4, <1>6, <2>1, <2>2 DEF Layout, FatSectors
<1>15. Clusts(x) = Clusts(g) /\ \A c \in Clusts(g) : Cell(x, c) = Tab(g, K)[c]
  BY <1>3, <1>4 DEF Clusts, Cell, Tab, Home
<1>16. Links(g, Tab(g, K))
  BY <1>2, <1>15 DEF LinksApart, Links
<1>17. Counted(g, K, Free(g, Tab(g, K)))
  <2>1. FreeClusters(x) = Free(g, Tab(g, K))
    BY <1>15 DEF FreeClusters, Free
  <2> DEFINE y == Cardinality(Free(g, Tab(g, K)))
  <2>2. y \in Nat
    <3> DEFINE F == Free(g, Tab(g, K))
    <3>1. F \subseteq Clusts(g)
      BY DEF Free
    <3> HIDE DEF F
    <3>2. Cardinality(F) \in Nat
      BY <1>13, <3>1, SubCount
    <3> QED BY <3>2 DEF F
  <2>3. x.free_clst <= g.n_fatent - 2 => x.free_clst >= y
    BY <1>2, <1>3, <2>1 DEF CountNotLow
  <2> HIDE DEF y
  <2> SUFFICES ASSUME g.info, K[g.volbase + 1].sig, K[g.volbase + 1].free <= g.n_fatent - 2
               PROVE  y <= K[g.volbase + 1].free
    BY DEF Counted, y
  <2>4. x.free_clst = K[g.volbase + 1].free
    BY <1>3, <1>4
  <2>5. K[g.volbase + 1].free \in Nat
    BY <1>3, <1>4, <1>6
  <2> QED BY <2>2, <2>3, <2>4, <2>5
<1> QED BY <1>13, <1>14, <1>16, <1>17 DEF OkCard

\* A volume that has just been mounted.
LEMMA LoadedOk ==
  ASSUME NEW K, SoundCard(K), Mountable(K), NEW g, g = Geometry(OnCard(K)),
         NEW x, Loaded(K, x), x.log = <<>>
  PROVE  Ok(g, K, 0, x)
<1> DEFINE y == OnCard(K)
<1>1. Shape(g) /\ OkCard(g, K)
  BY SoundGeometry
<1>2. Loaded(K, y)
  BY Boots
<1>3. Same(g, x)
  BY <1>2 DEF Geometry, Loaded, Same
<1>4. Window(g, x) /\ ~x.wflag
  <2>1. x.winsect = g.volbase \/ (g.info /\ x.winsect = g.volbase + 1)
    BY <1>2 DEF Loaded, Geometry
  <2>2. g.volbase \in 0 .. g.volbase
    BY <1>1 DEF Shape
  <2>3. x.winsect \notin FatSectors(g) /\ x.winsect \notin DataSectors(g)
    BY <1>1, <2>1, <2>2, Regions
  <2>4. x.wflag = FALSE
    BY DEF Loaded
  <2> QED BY <2>3, <2>4 DEF Window
<1>5. x.card = K
  BY DEF Loaded
<1>6. Mem(g, x) = Tab(g, K)
  BY <1>1, <1>4, <1>5, CleanTab
<1> DEFINE m == Tab(g, K)
           F == Free(g, m)
<1>7. Links(g, m) /\ Counted(g, K, F) /\ F \union F \union {} = F /\ Layout(g, K)
  BY <1>1 DEF OkCard
<1>8. Hold(g, m, {}, 0)
  BY DEF Hold
<1>9. Trail(g, K, <<>>, K)
  <2>1. PICK S, t : S = {} /\ t = [i \in {0} |-> K]
    OBVIOUS
  <2>2. <<>> \in Seq(S) /\ t[0] = K /\ Len(<<>>) = 0 /\ 1 .. 0 = {} /\ 0 .. 0 = {0}
    BY <2>1
  <2> HIDE DEF m, F
  <2>3. /\ <<>> \in Seq(S)
        /\ t[0] = K /\ t[Len(<<>>)] = K
        /\ \A i \in 1 .. Len(<<>>) : t[i] = With(t[i - 1], <<>>[i][1], <<>>[i][2])
        /\ \A i \in 0 .. Len(<<>>) : OkCard(g, t[i])
    BY <1>1, <2>2
  <2> QED BY <2>3, Zenon DEF Trail
<1>10. Enough(g, m, x.free_clst)
  <2> DEFINE z == IF g.info /\ K[g.volbase + 1].sig THEN K[g.volbase + 1].free ELSE EOC
  <2>1. x.free_clst = z
    BY <1>2 DEF Loaded, Geometry
  <2>2. z \in Nat /\ (z <= g.n_fatent - 2 => z # EOC)
    <3>1. EOC \in Nat /\ g.n_fatent \in Nat /\ g.n_fatent <= EOC
      BY <1>1, FatAssumption DEF Shape
    <3>2. z \in Nat
      BY <1>7, <3>1 DEF Layout
    <3> HIDE DEF z
    <3> QED BY <3>1, <3>2
  <2>3. z <= g.n_fatent - 2 => Cardinality(F) <= z
    BY <1>7, <2>2 DEF Counted
  <2> HIDE DEF z
  <2> QED BY <2>1, <2>2, <2>3 DEF Enough
<1> HIDE DEF m, F
<1>11. Counted(g, x.card, Free(g, Mem(g, x)) \union Free(g, Tab(g, x.card)) \union {})
  BY <1>5, <1>6, <1>7 DEF m, F
<1>12. Fine(g, K, x, {}, 0)
  BY <1>1, <1>3, <1>4, <1>5, <1>6, <1>7, <1>8, <1>9, <1>10, <1>11 DEF Fine, Body, m
<1> QED BY <1>1, <1>12 DEF Ok

\* The partition that was chosen is still the first, whatever was written behind it.
LEMMA SameChoice ==
  ASSUME NEW K, Mountable(K), NEW C, BootAt(K) # 0, BootAt(K) \in Nat,
         \A s \in 0 .. BootAt(K) : C[s] = K[s],
         K[0].table \in Seq(Nat),
         \A i \in DOMAIN K[0].table :
           (\A j \in 1 .. i : K[0].table[j] # BootAt(K)) => K[0].table[i] < BootAt(K)
  PROVE  BootAt(C) = BootAt(K)
<1> DEFINE t == K[0].table
           a == BootAt(K)
           N == Len(t)
<1>1. /\ C[0].table = t /\ Format(C[0]) = Format(K[0]) /\ Table(C) = Table(K)
  BY DEF Table
<1>2. t \in Seq(Nat) /\ N \in Nat /\ DOMAIN t = 1 .. N
  OBVIOUS
<1>3. Format(K[0]) = 2 /\ Table(K) # {} /\ a = Choice(K) /\ a # -1
  BY DEF BootAt
<1>4. Format(K[a]) < 2
  BY DEF Mountable, Boot
<1>5. Table(K) = {i \in 1 .. N : t[i] # 0}
  BY <1>2 DEF Table
<1>17. \A i \in DOMAIN t : (\A j \in 1 .. i : t[j] # a) => t[i] < a
  OBVIOUS
<1>18. C[0].table = t /\ K[0].table = t
  BY <1>1
<1> HIDE DEF t, N
<1>6. Hits(K) # {}
  <2> SUFFICES ASSUME Hits(K) = {} PROVE FALSE
    OBVIOUS
  <2> DEFINE S == {k \in Nat : N - k \in Table(K)}
  <2>1. S # {}
    <3>1. PICK i : i \in Table(K)
      BY <1>3
    <3>2. N - i \in Nat /\ N - (N - i) = i
      BY <1>2, <1>5, <3>1
    <3>3. N - i \in S
      BY <3>1, <3>2
    <3> QED BY <3>3
  <2>2. PICK k \in S : \A n \in S : k <= n
    BY <2>1, Least
  <2>3. N - k \in Table(K) /\ \A i \in Table(K) : N - k >= i
    <3>1. ASSUME NEW i \in Table(K) PROVE N - k >= i
      <4>1. i \in 1 .. N /\ N - i \in Nat /\ N - (N - i) = i
        BY <1>2, <1>5
      <4>2. N - i \in S
        BY <4>1
      <4>3. k \in Nat
        BY <2>2
      <4> HIDE DEF S
      <4>4. k <= N - i
        BY <2>2, <4>2
      <4> QED BY <1>2, <4>1, <4>3, <4>4
    <3> QED BY <2>2, <3>1
  <2>4. Max(Table(K)) \in Table(K)
    BY <2>3 DEF Max
  <2>5. a = t[Max(Table(K))]
    BY <1>3, <1>18 DEF Choice
  <2> QED BY <1>4, <1>18, <2>4, <2>5 DEF Hits
<1>7. Hits(K) \in SUBSET Nat
  BY <1>5 DEF Hits
<1> DEFINE i0 == Min(Hits(K))
<1>8. i0 \in Hits(K) /\ \A i \in Hits(K) : i0 <= i
  BY <1>6, <1>7, Least DEF Min
<1>9. a = t[i0]
  BY <1>3, <1>6, <1>18 DEF Choice
<1>10. i0 \in 1 .. N /\ i0 \in Table(K)
  BY <1>5, <1>8 DEF Hits
<1> HIDE DEF i0
<1>11. ASSUME NEW j \in Table(K), j < i0 PROVE ~(Format(C[t[j]]) < 2)
  <2>1. j \in 1 .. N /\ j \notin Hits(K)
    BY <1>5, <1>8, <1>10, <1>11
  <2>2. ~(Format(K[t[j]]) < 2)
    BY <1>11, <1>18, <2>1 DEF Hits
  <2>3. \A k \in 1 .. j : t[k] # a
    <3> SUFFICES ASSUME NEW k \in 1 .. j, t[k] = a PROVE FALSE
      OBVIOUS
    <3>1. k \in 1 .. N /\ k < i0
      BY <1>2, <1>10, <1>11, <2>1
    <3>2. k \in Table(K)
      BY <1>5, <3>1
    <3>3. k \in Hits(K)
      BY <1>4, <1>18, <3>2 DEF Hits
    <3> QED BY <1>8, <1>10, <3>1, <3>3
  <2>4. t[j] < a /\ t[j] \in Nat /\ a \in Nat
    <3>1. t[j] < a
      BY <1>2, <1>17, <2>1, <2>3
    <3>2. t[j] \in Nat
      BY <1>2, <2>1
    <3> QED BY <3>1, <3>2
  <2>5. t[j] \in 0 .. a
    BY <2>4
  <2> QED BY <2>2, <2>5
<1>12. Format(C[t[i0]]) < 2
  BY <1>4, <1>9
<1>13. i0 \in Hits(C)
  BY <1>1, <1>10, <1>12, <1>18 DEF Hits
<1>14. \A i \in Hits(C) : i0 <= i
  <2> SUFFICES ASSUME NEW i \in Hits(C), i < i0 PROVE FALSE
    <3>1. Hits(C) \subseteq Nat /\ i0 \in Nat
      BY <1>1, <1>2, <1>5, <1>10 DEF Hits
    <3> QED BY <3>1
  <2>1. i \in Table(K) /\ Format(C[t[i]]) < 2
    BY <1>1, <1>18 DEF Hits
  <2> QED BY <1>11, <2>1
<1>15. Min(Hits(C)) = i0
  <2>1. Min(Hits(C)) \in Hits(C) /\ \A i \in Hits(C) : Min(Hits(C)) <= i
    BY <1>13, <1>14 DEF Min
  <2>2. Hits(C) \subseteq Nat
    BY <1>1, <1>5 DEF Hits
  <2> QED BY <1>13, <1>14, <2>1, <2>2
<1>16. Choice(C) = a
  BY <1>1, <1>9, <1>13, <1>15, <1>18 DEF Choice
<1> QED BY <1>1, <1>3, <1>16 DEF BootAt

\* A card written by the file system is sound again at the next boot.
LEMMA Remount ==
  ASSUME NEW K, SoundCard(K), Mountable(K), NEW g, g = Geometry(OnCard(K)), NEW C, OkCard(g, C)
  PROVE  Mountable(C) /\ Geometry(OnCard(C)) = g /\ SoundCard(C)
<1> DEFINE x == OnCard(K)
           y == OnCard(C)
           a == BootAt(K)
<1>1. Shape(g) /\ OkCard(g, K) /\ Layout(g, C) /\ Layout(g, K)
  BY SoundGeometry DEF OkCard
<1>2. Loaded(K, x) /\ x.fs_type # 0
  BY Boots
<1>3. Formatted(x)
  BY <1>2 DEF SoundCard
<1>4. g.volbase = a /\ a \in Nat
  BY <1>1, <1>2 DEF Geometry, Loaded, Shape
<1>5. \A s \in 0 .. a : C[s] = K[s]
  BY <1>1, <1>4 DEF Layout
<1>6. 0 \in 0 .. a /\ a \in 0 .. a
  BY <1>4
<1>7. BootAt(C) = a
  <2>1. CASE a = 0
    <3>1. Format(K[0]) # 2
      BY <2>1 DEF Mountable, Boot, Format
    <3>2. C[0] = K[0]
      BY <1>5, <1>6
    <3> QED BY <2>1, <3>1, <3>2 DEF BootAt
  <2>2. CASE a # 0
    <3>1. x.volbase = a /\ x.card = K
      BY <1>2 DEF Loaded
    <3>2. /\ K[0].table \in Seq(Nat)
          /\ \A i \in DOMAIN K[0].table :
               (\A j \in 1 .. i : K[0].table[j] # a) => K[0].table[i] < a
      BY <1>3, <2>2, <3>1 DEF Formatted
    <3> QED BY <1>4, <1>5, <2>2, <3>2, SameChoice
  <2> QED BY <2>1, <2>2
<1>8. Boot(C) = Boot(K)
  BY <1>5, <1>6, <1>7 DEF Boot
<1>9. Mountable(C)
  BY <1>8 DEF Mountable
<1>10. Loaded(C, y) /\ y.fs_type # 0
  BY <1>9, Boots
<1> HIDE DEF x, y
<1>11. /\ y.n_fats = x.n_fats /\ y.csize = x.csize /\ y.n_rootdir = x.n_rootdir
       /\ y.fsize = x.fsize /\ y.n_fatent = x.n_fatent /\ y.volbase = x.volbase
       /\ y.fatbase = x.fatbase /\ y.database = x.database /\ y.dirbase = x.dirbase
       /\ y.fs_type = x.fs_type /\ y.fsi_flag = x.fsi_flag
       /\ y.card = C /\ x.card = K /\ x.volbase = a
  BY <1>2, <1>7, <1>8, <1>10 DEF Loaded
<1>12. /\ g.volbase = a /\ g.fatbase = x.fatbase /\ g.fsize = x.fsize /\ g.n_fatent = x.n_fatent
       /\ g.database = x.database /\ g.csize = x.csize
       /\ g.info <=> x.fsi_flag # "disabled"
  BY <1>4 DEF Geometry, x
<1>13. Geometry(y) = g
  <2>1. [s \in 0 .. a |-> C[s]] = [s \in 0 .. a |-> K[s]]
    BY <1>5
  <2>2. Geometry(y) = Geometry(x)
    BY <1>11, <2>1 DEF Geometry
  <2> QED BY <2>2 DEF x
<1>14. /\ 0 .. g.fatbase + g.fsize - 1 \subseteq DOMAIN C
       /\ DataSectors(g) \subseteq DOMAIN C
       /\ \A s \in FatSectors(g) : C[s] \in [Cells -> Nat]
       /\ \A s \in DataSectors(g) : DOMAIN C[s] = Cells
       /\ g.info => C[a + 1].free \in Nat
  BY <1>1, <1>4 DEF Layout
<1>15. DataSectors(y) = DataSectors(g)
  BY <1>11, <1>12 DEF DataSectors
<1>16. Formatted(y)
  <2>1. K[a] = C[a] /\ K[0] = C[0]
    BY <1>5, <1>6
  <2>2. {y.volbase, C[a].rsv, C[a].root, C[a].tot, C[a].fsz} \subseteq Nat /\ y.n_fatent <= EOC
    BY <1>3, <1>11, <2>1 DEF Formatted
  <2>3. /\ (0 .. y.fatbase + y.fsize - 1) \union DataSectors(y) \subseteq DOMAIN y.card
        /\ \A s \in y.fatbase .. y.fatbase + y.fsize - 1 : y.card[s] \in [Cells -> Nat]
        /\ \A s \in DataSectors(y) : DOMAIN y.card[s] = Cells
    BY <1>11, <1>12, <1>14, <1>15 DEF FatSectors
  <2>4. y.fsi_flag # "disabled" => y.volbase + 1 < y.fatbase /\ y.card[y.volbase + 1].free \in Nat
    BY <1>3, <1>11, <1>12, <1>14 DEF Formatted
  <2>5. y.volbase # 0 =>
           /\ C[0].table \in Seq(Nat)
           /\ \A i \in DOMAIN C[0].table :
                (\A j \in 1 .. i : C[0].table[j] # y.volbase) => C[0].table[i] < y.volbase
    BY <1>3, <1>11, <2>1 DEF Formatted
  <2>6. y.card[y.volbase] = C[a] /\ y.card[0] = C[0]
    BY <1>11
  <2> QED BY <1>11, <2>2, <2>3, <2>4, <2>5, <2>6 DEF Formatted
<1>17. Clusts(y) = Clusts(g) /\ \A c \in Clusts(g) : Cell(y, c) = Tab(g, C)[c]
  BY <1>11, <1>12 DEF Clusts, Cell, Tab, Home
<1>18. LinksApart(y)
  BY <1>17 DEF LinksApart, Links, OkCard
<1>19. CountNotLow(y)
  <2>1. FreeClusters(y) = Free(g, Tab(g, C))
    BY <1>17 DEF FreeClusters, Free
  <2>2. y.n_fatent = g.n_fatent
    BY <1>11, <1>12
  <2> DEFINE F == Free(g, Tab(g, C))
  <2>3. Cardinality(F) \in Nat
    <3>1. F \subseteq Clusts(g)
      BY DEF Free
    <3> HIDE DEF F
    <3> QED BY <1>1, <3>1, SubCount
  <2>4. Counted(g, C, F)
    BY DEF OkCard
  <2> DEFINE z == IF g.info /\ C[a + 1].sig THEN C[a + 1].free ELSE EOC
  <2>5. y.free_clst = z
    <3>1. y.free_clst = IF FatType(Boot(C)) = 32 /\ Boot(C).info /\ C[a + 1].sig THEN C[a + 1].free ELSE EOC
      BY <1>7, <1>10 DEF Loaded
    <3>2. g.info <=> FatType(Boot(C)) = 32 /\ Boot(C).info
      BY <1>10, <1>11, <1>12 DEF Loaded
    <3> QED BY <3>1, <3>2
  <2> HIDE DEF F
  <2>6. z <= g.n_fatent - 2 => z >= Cardinality(F)
    <3>1. EOC \in Nat /\ g.n_fatent \in Nat /\ g.n_fatent <= EOC
      BY <1>1, FatAssumption DEF Shape
    <3>2. CASE g.info /\ C[a + 1].sig
      <4>1. z = C[a + 1].free /\ z \in Nat
        BY <1>14, <3>2
      <4> HIDE DEF z
      <4>2. z <= g.n_fatent - 2 => Cardinality(F) <= z
        BY <1>4, <2>4, <3>2, <4>1 DEF Counted
      <4> QED BY <2>3, <4>1, <4>2
    <3>3. CASE ~(g.info /\ C[a + 1].sig)
      <4>1. z = EOC
        BY <3>3
      <4> HIDE DEF z
      <4> QED BY <3>1, <4>1
    <3> QED BY <3>2, <3>3
  <2> HIDE DEF z
  <2> QED BY <2>1, <2>2, <2>5, <2>6 DEF CountNotLow, F
<1>20. SoundCard(C)
  BY <1>16, <1>18, <1>19 DEF SoundCard, y
<1> QED BY <1>9, <1>13, <1>20 DEF y

-----------------------------------------------------------------------------
(* Files: what each function of the file system leaves behind. *)

\* v and w differ at most in what the FAT and its window have nothing to do with.
Agree(v, w) ==
  /\ w.fs_type = v.fs_type /\ w.n_fats = v.n_fats /\ w.csize = v.csize
  /\ w.n_rootdir = v.n_rootdir /\ w.n_fatent = v.n_fatent /\ w.fsize = v.fsize
  /\ w.volbase = v.volbase /\ w.fatbase = v.fatbase /\ w.dirbase = v.dirbase
  /\ w.database = v.database /\ w.fsi_flag = v.fsi_flag /\ w.stat = v.stat
  /\ w.winsect = v.winsect /\ w.win = v.win /\ w.wflag = v.wflag
  /\ w.card = v.card /\ w.log = v.log /\ w.free_clst = v.free_clst

\* Such a difference does not matter.
LEMMA OkAgree ==
  ASSUME NEW g, NEW K, NEW h, NEW v, Ok(g, K, h, v), NEW w, Agree(v, w)
  PROVE  Ok(g, K, h, w)
<1>1. PICK B : Fine(g, K, v, B, h)
  BY DEF Ok
<1>2. Same(g, w)
  BY <1>1 DEF Agree, Fine, Body, Same
<1>3. w.winsect = v.winsect /\ w.win = v.win /\ w.wflag = v.wflag
      /\ w.card = v.card /\ w.log = v.log /\ w.free_clst = v.free_clst
  BY DEF Agree
<1>4. Mem(g, w) = Mem(g, v)
  BY <1>3 DEF Mem
<1>5. Window(g, w)
  BY <1>1, <1>3 DEF Fine, Body, Window
<1>6. Fine(g, K, w, B, h)
  BY <1>1, <1>2, <1>3, <1>4, <1>5 DEF Fine, Body
<1> QED BY <1>6 DEF Ok

\* A mounted volume.
LEMMA UpHeld ==
  ASSUME NEW K, NEW v, Up(K, v)
  PROVE  Held(K, v) /\ v.fs_type # 0 /\ v.stat # "STA_NOINIT" /\ Mountable(K)
<1> DEFINE g == Geometry(OnCard(K))
<1>1. Shape(g) /\ Same(g, v)
  BY OkSame DEF Up
<1>2. g.fs_type # 0 /\ g.fs_type = OnCard(K).fs_type
  BY <1>1 DEF Shape, Geometry
<1>3. Mountable(K)
  BY <1>2, Boots
<1> HIDE DEF g
<1> QED BY <1>1, <1>2, <1>3 DEF Same, Held

\* mount_volume(), called by every function that is given a path.
LEMMA HeldMount ==
  ASSUME NEW K, SoundCard(K), NEW v, Held(K, v)
  PROVE  LET r == mount_volume(v)
         IN  /\ Held(K, r.v) /\ r.res # "FR_NO_FILE"
             /\ (r.res = "FR_OK" \/ Up(K, v)) => r.res = "FR_OK" /\ Up(K, r.v)
<1> DEFINE r == mount_volume(v)
<1>1. CASE v.fs_type = 0
  <2>1. v.card = K /\ v.log = <<>> /\ v.sd \in BOOLEAN
    BY <1>1 DEF Held
  <2>2. /\ r.res = "FR_OK" <=> v.sd = TRUE /\ Mountable(K)
        /\ r.res = "FR_OK" => Loaded(K, r.v)
        /\ r.res # "FR_OK" => r.v.fs_type = 0 /\ r.v.sd = v.sd /\ r.v.card = K
        /\ r.v.log = <<>> /\ r.res # "FR_NO_FILE"
    BY <1>1, <2>1, Mounts
  <2> HIDE DEF r
  <2>3. ~Up(K, v)
    BY <1>1, UpHeld
  <2>4. CASE r.res = "FR_OK"
    <3>1. Up(K, r.v)
      BY <2>2, <2>4, LoadedOk DEF Up
    <3> QED BY <2>2, <2>4, <3>1, UpHeld DEF r
  <2>5. CASE r.res # "FR_OK"
    <3>1. Held(K, r.v)
      BY <2>1, <2>2, <2>5 DEF Held
    <3> QED BY <2>2, <2>3, <2>5, <3>1 DEF r
  <2> QED BY <2>4, <2>5
<1>2. CASE v.fs_type # 0
  <2>1. Up(K, v)
    BY <1>2 DEF Held
  <2>2. v.stat # "STA_NOINIT"
    BY <2>1, UpHeld
  <2>3. r = Ret(v, "FR_OK")
    BY <1>2, <2>2 DEF mount_volume
  <2> QED BY <2>1, <2>3 DEF Ret, Held
<1> QED BY <1>1, <1>2

\* Where a path leads.
LEMMA HeldReached ==
  ASSUME NEW K, SoundCard(K), NEW v, Held(K, v), NEW path, Len(path.segs) \in Nat
  PROVE  LET at == Reached(mount_volume(v), path)
         IN  /\ Held(K, at.v)
             /\ (at.res = "FR_OK" \/ at.res = "FR_NO_FILE" \/ Up(K, v)) => Up(K, at.v)
<1> DEFINE m == mount_volume(v)
           at == Reached(m, path)
<1>1. /\ Held(K, m.v) /\ m.res # "FR_NO_FILE"
      /\ (m.res = "FR_OK" \/ Up(K, v)) => m.res = "FR_OK" /\ Up(K, m.v)
  BY HeldMount
<1> HIDE DEF m
<1>2. CASE m.res = "FR_OK"
  <2>1. at = follow_path(m.v, path)
    BY <1>2 DEF Reached
  <2>2. Up(K, at.v)
    BY <1>1, <1>2, <2>1, OkFollow DEF Up
  <2> HIDE DEF at
  <2>3. Held(K, at.v)
    BY <2>2, UpHeld
  <2> QED BY <2>2, <2>3 DEF at, m
<1>3. CASE m.res # "FR_OK"
  <2>1. at = DirRet(m.v, DIR(0), m.res)
    BY <1>3 DEF Reached
  <2>2. at.v = m.v /\ at.res = m.res
    BY <2>1 DEF DirRet
  <2> HIDE DEF at
  <2> QED BY <1>1, <1>3, <2>2 DEF at, m
<1> QED BY <1>2, <1>3

\* f_chdir().
LEMMA HeldChdir ==
  ASSUME NEW K, SoundCard(K), NEW v, Held(K, v), NEW path, Len(path.segs) \in Nat
  PROVE  LET r == f_chdir(v, path)
         IN  Held(K, r.v) /\ (r.res = "FR_OK" => Up(K, r.v))
<1> DEFINE at == Reached(mount_volume(v), path)
           to == IF at.d.noname THEN at.d.sclust ELSE at.v.win[At(at.d)].clust
           w  == [at.v EXCEPT !.cdir = to]
           r  == f_chdir(v, path)
<1>1. /\ Held(K, at.v)
      /\ (at.res = "FR_OK" \/ at.res = "FR_NO_FILE" \/ Up(K, v)) => Up(K, at.v)
  BY HeldReached
<1>2. r = ChangeTo(at)
  BY DEF f_chdir
<1> HIDE DEF at, r
<1>3. CASE at.res = "FR_OK" /\ (at.d.noname \/ at.d.attr = "dir")
  <2>1. r = Ret(w, "FR_OK")
    BY <1>2, <1>3 DEF ChangeTo
  <2>2. Agree(at.v, w)
    BY DEF Agree
  <2> HIDE DEF w
  <2>3. Up(K, w)
    BY <1>1, <1>3, <2>2, OkAgree DEF Up
  <2>4. Held(K, w)
    BY <2>3, UpHeld
  <2> QED BY <2>1, <2>3, <2>4 DEF Ret, r
<1>4. CASE at.res = "FR_OK" /\ ~(at.d.noname \/ at.d.attr = "dir")
  <2>1. r = Ret(at.v, "FR_NO_PATH")
    BY <1>2, <1>4 DEF ChangeTo
  <2> QED BY <1>1, <2>1 DEF Ret, r
<1>5. CASE at.res # "FR_OK"
  <2>1. r = Ret(at.v, IF at.res = "FR_NO_FILE" THEN "FR_NO_PATH" ELSE at.res)
    BY <1>2, <1>5 DEF ChangeTo
  <2>2. r.v = at.v /\ r.res # "FR_OK"
    BY <1>5, <2>1 DEF Ret
  <2> QED BY <1>1, <2>2 DEF r
<1> QED BY <1>3, <1>4, <1>5

\* f_stat() of a mounted volume.
LEMMA UpStat ==
  ASSUME NEW K, SoundCard(K), NEW v, Up(K, v), NEW path, Len(path.segs) \in Nat
  PROVE  Up(K, f_stat(v, path).v)
<1> DEFINE at == Reached(mount_volume(v), path)
<1>1. Up(K, at.v)
  BY UpHeld, HeldReached
<1>2. f_stat(v, path) = InfoAt(at)
  BY DEF f_stat
<1> HIDE DEF at
<1>3. InfoAt(at).v = at.v
  BY DEF InfoAt, Info
<1> QED BY <1>1, <1>2, <1>3

\* A round of f_read().
LEMMA OkReadOn ==
  ASSUME NEW g, NEW K, NEW r, Ok(g, K, 0, r.v)
  PROVE  Ok(g, K, 0, ReadOn(r).v) /\ ReadOn(r).fp.modified = r.fp.modified
<1> DEFINE v     == r.v
           fp    == r.fp
           csect == (fp.fptr \div SS) % v.csize
           chain == CASE csect # 0                 -> [v |-> v, val |-> fp.clust]
                      [] csect = 0 /\ fp.fptr = 0 -> [v |-> v, val |-> fp.sclust]
                      [] OTHER                     -> get_fat(v, fp.clust)
           first == clst2sect(chain.v, chain.val)
           sect  == first + csect
           got   == [i \in 1 .. (IF r.n < SS THEN r.n ELSE SS) |-> v.card[sect][i - 1].name]
           next  == [fp EXCEPT !.fptr = @ + Len(got), !.clust = chain.val,
                               !.sect = IF r.n < SS THEN sect ELSE @,
                               !.buf  = IF r.n < SS THEN v.card[sect] ELSE @]
           bad   == [r EXCEPT !.v = chain.v, !.fp.err = "FR_INT_ERR", !.res = "FR_INT_ERR"]
           good  == [r EXCEPT !.v = chain.v, !.fp = next, !.n = @ - Len(got), !.data = @ \o got]
<1>1. ReadOn(r) = IF r.n = 0 \/ r.res # "FR_OK" THEN r
                  ELSE IF chain.val < 2 \/ first = 0 THEN bad ELSE good
  BY DEF ReadOn
<1>2. Ok(g, K, 0, chain.v)
  <2>1. CASE csect # 0
    <3>1. chain = [v |-> v, val |-> fp.clust]
      BY <2>1
    <3> QED BY <3>1
  <2>2. CASE csect = 0 /\ fp.fptr = 0
    <3>1. chain = [v |-> v, val |-> fp.sclust]
      BY <2>2
    <3> QED BY <3>1
  <2>3. CASE csect = 0 /\ fp.fptr # 0
    <3>1. chain = get_fat(v, fp.clust)
      BY <2>3
    <3> HIDE DEF chain
    <3> QED BY <3>1, OkGet
  <2> QED BY <2>1, <2>2, <2>3
<1> HIDE DEF csect, chain
<1>3. next.modified = fp.modified
  OBVIOUS
<1> HIDE DEF first, sect, got, next
<1>4. good.v = chain.v /\ good.fp = next
  OBVIOUS
<1>5. bad.v = chain.v /\ bad.fp = [fp EXCEPT !.err = "FR_INT_ERR"]
  OBVIOUS
<1>6. [fp EXCEPT !.err = "FR_INT_ERR"].modified = fp.modified
  OBVIOUS
<1> HIDE DEF good, bad
<1>7. ReadOn(r) = r \/ ReadOn(r) = bad \/ ReadOn(r) = good
  BY <1>1
<1> QED BY <1>2, <1>3, <1>4, <1>5, <1>6, <1>7

\* f_read() writes nothing to the card, but may move the window.
LEMMA OkRead ==
  ASSUME NEW g, NEW K, NEW v, Ok(g, K, 0, v), NEW fp, NEW btr
  PROVE  Ok(g, K, 0, f_read(v, fp, btr).v) /\ f_read(v, fp, btr).fp.modified = fp.modified
<1> DEFINE remain == fp.objsize - fp.fptr
           n0 == IF btr > remain THEN remain ELSE btr
           s == [v |-> v, fp |-> fp, res |-> "FR_OK", data |-> <<>>, n |-> n0]
           N == Rounds(v)
           R[n \in 0 .. N] == IF n = 0 THEN s ELSE ReadOn(R[n - 1])
<1>1. N \in Nat
  <2>1. v.n_fatent \in Nat /\ v.csize \in Nat
    BY OkSame DEF Same, Shape
  <2> QED BY <2>1 DEF Rounds
<1>2. R = [n \in 0 .. N |-> IF n = 0 THEN s ELSE ReadOn(R[n - 1])]
  <2> SUFFICES \E f : f = [n \in 0 .. N |-> IF n = 0 THEN s ELSE ReadOn(f[n - 1])]
    OBVIOUS
  <2>1. \A x, i : Step("read", 0, x, i) = ReadOn(x)
    BY DEF Step
  <2> HIDE DEF Step, s, N
  <2>2. PICK f : Runs(f, "read", 0, s, N)
    BY <1>1, LoopRuns
  <2>3. f = [n \in 0 .. N |-> IF n = 0 THEN s ELSE ReadOn(f[n - 1])]
    <3>1. f = [n \in 0 .. N |-> IF n = 0 THEN s ELSE Step("read", 0, f[n - 1], n)]
      BY <2>2 DEF Runs
    <3>2. DOMAIN f = 0 .. N /\ \A n \in 0 .. N : f[n] = IF n = 0 THEN s ELSE ReadOn(f[n - 1])
      BY <2>1, <3>1
    <3>3. f = [n \in 0 .. N |-> f[n]]
      BY <3>1
    <3> QED BY <3>2, <3>3
  <2> QED BY <2>3
<1>3. ReadFrom(v, fp, n0) = R[N]
  BY DEF ReadFrom
<1> HIDE DEF R, N, n0
<1>4. R[0] = s /\ \A n \in 1 .. N : R[n] = ReadOn(R[n - 1])
  BY <1>1, <1>2
<1> DEFINE S == {n \in Nat : n <= N => Ok(g, K, 0, R[n].v) /\ R[n].fp.modified = fp.modified}
<1>5. 0 \in S
  BY <1>4
<1>6. \A n \in Nat : n \in S => n + 1 \in S
  <2> SUFFICES ASSUME NEW n \in Nat, n \in S, n + 1 <= N
               PROVE  Ok(g, K, 0, R[n + 1].v) /\ R[n + 1].fp.modified = fp.modified
    OBVIOUS
  <2>1. R[n + 1] = ReadOn(R[n])
    BY <1>1, <1>4
  <2>2. Ok(g, K, 0, R[n].v) /\ R[n].fp.modified = fp.modified
    BY <1>1
  <2> QED BY <2>1, <2>2, OkReadOn
<1> HIDE DEF S
<1>7. N \in S
  BY <1>1, <1>5, <1>6, Induct
<1>8. Ok(g, K, 0, R[N].v) /\ R[N].fp.modified = fp.modified
  BY <1>1, <1>7 DEF S
<1>9. \/ f_read(v, fp, btr) = [v |-> v, fp |-> fp, res |-> "FR_INVALID_OBJECT", data |-> <<>>]
      \/ f_read(v, fp, btr) = R[N]
  BY <1>3 DEF f_read, n0
<1> QED BY <1>8, <1>9

\* A file that is being written: the cluster and the sectors it points at are
\* those of clusters and of directories, never of the FAT or of FSInfo.
Writing(g, fp) ==
  /\ fp.fptr \in Nat
  /\ fp.fptr = 0 => fp.sclust = 0
  /\ fp.fptr # 0 => fp.clust \in Clusts(g)
  /\ fp.dirty \in BOOLEAN
  /\ fp.dirty = TRUE => fp.sect \in DataSectors(g) /\ DOMAIN fp.buf = Cells
  /\ fp.dir_sect \in DataSectors(g) /\ fp.dir_ptr \in Cells

\* The cluster that f_write() goes on in.
LEMMA OkClusterFor ==
  ASSUME NEW g, NEW K, NEW v, Ok(g, K, 0, v), NEW fp, Writing(g, fp)
  PROVE  LET c == ClusterFor(v, fp)
         IN  Ok(g, K, 0, c.v) /\ c.val \in {0, 1} \union Clusts(g)
<1> DEFINE csect == (fp.fptr \div SS) % v.csize
           c == ClusterFor(v, fp)
<1>1. c = CASE csect # 0                     -> [v |-> v, val |-> fp.clust]
            [] fp.fptr = 0 /\ fp.sclust # 0 -> [v |-> v, val |-> fp.sclust]
            [] OTHER -> create_chain(v, IF fp.fptr = 0 THEN 0 ELSE fp.clust)
  BY DEF ClusterFor
<1>2. ~(fp.fptr = 0 /\ fp.sclust # 0)
  BY DEF Writing
<1>3. csect # 0 => fp.fptr # 0
  <2>1. v.csize \in Nat \ {0} /\ SS \in Nat \ {0}
    BY OkSame, FatAssumption DEF Same, Shape
  <2>2. 0 \div SS = 0 /\ 0 % v.csize = 0
    BY <2>1
  <2> QED BY <2>2
<1> HIDE DEF csect, c
<1>4. CASE csect # 0
  <2>1. c = [v |-> v, val |-> fp.clust]
    BY <1>1, <1>2, <1>4
  <2>2. fp.clust \in Clusts(g)
    BY <1>3, <1>4 DEF Writing
  <2> QED BY <2>1, <2>2 DEF c
<1>5. CASE csect = 0
  <2> DEFINE k == IF fp.fptr = 0 THEN 0 ELSE fp.clust
  <2>1. c = create_chain(v, k)
    BY <1>1, <1>2, <1>5
  <2> HIDE DEF k
  <2> QED BY <2>1, OkChain DEF c
<1> QED BY <1>4, <1>5

\* A round of f_write() in that cluster.
LEMMA OkWriteTo ==
  ASSUME NEW g, NEW K, NEW chain, Ok(g, K, 0, chain.v), chain.val \in {0, 1} \union Clusts(g),
         NEW r, Writing(g, r.fp), Len(r.data) \in Nat \ {0}
  PROVE  Ok(g, K, 0, WriteTo(chain, r).v) /\ Writing(g, WriteTo(chain, r).fp)
<1> DEFINE fp    == r.fp
           data  == r.data
           v     == IF fp.dirty THEN disk_write(chain.v, fp.sect, fp.buf) ELSE chain.v
           csect == (fp.fptr \div SS) % chain.v.csize
           sect  == clst2sect(chain.v, chain.val) + csect
           whole == Len(data) >= SS
           wcnt  == IF whole THEN SS ELSE Len(data)
           bytes == [i \in Cells |-> IF i < wcnt THEN Byte(data[i + 1]) ELSE fp.buf[i]]
           size  == IF fp.objsize < fp.fptr + wcnt THEN fp.fptr + wcnt ELSE fp.objsize
           next  == [fp EXCEPT !.fptr = @ + wcnt, !.objsize = IF @ < fp.fptr + wcnt THEN fp.fptr + wcnt ELSE @,
                               !.clust = chain.val, !.sclust = IF @ = 0 THEN chain.val ELSE @,
                               !.dirty = ~whole, !.sect = IF whole THEN @ ELSE sect,
                               !.buf = IF whole THEN @ ELSE bytes]
           last  == IF whole THEN disk_write(v, sect, bytes) ELSE v
           rest  == SubSeq(data, wcnt + 1, Len(data))
           w     == WriteTo(chain, r)
<1>1. w = CASE chain.val = 0 -> [r EXCEPT !.v = chain.v, !.data = <<>>]
            [] chain.val = 1 -> [r EXCEPT !.v = chain.v, !.fp.err = "FR_INT_ERR", !.res = "FR_INT_ERR"]
            [] OTHER -> [r EXCEPT !.v = last, !.fp = next, !.data = rest]
  BY DEF WriteTo
<1>2. Shape(g) /\ Same(g, chain.v) /\ SS \in Nat \ {0}
  BY OkSame, FatAssumption
<1>3. fp.fptr \in Nat /\ fp.dirty \in BOOLEAN /\ fp.dir_sect \in DataSectors(g) /\ fp.dir_ptr \in Cells
  BY DEF Writing
<1>4. wcnt \in Nat \ {0}
  BY <1>2
<1>5. Ok(g, K, 0, v)
  <2>1. CASE fp.dirty
    <3>1. v = disk_write(chain.v, fp.sect, fp.buf)
      BY <2>1
    <3>2. fp.sect \in DataSectors(g) /\ DOMAIN fp.buf = Cells
      BY <2>1 DEF Writing
    <3> HIDE DEF v
    <3> QED BY <3>1, <3>2, OkStore
  <2>2. CASE ~fp.dirty
    BY <2>2
  <2> QED BY <2>1, <2>2
<1>6. DOMAIN bytes = Cells
  OBVIOUS
<1>7. CASE chain.val = 0
  <2>1. w = [r EXCEPT !.v = chain.v, !.data = <<>>]
    BY <1>1, <1>7
  <2> HIDE DEF w
  <2>2. w.v = chain.v /\ w.fp = r.fp
    BY <2>1
  <2> QED BY <2>2 DEF w
<1>8. CASE chain.val = 1
  <2>1. w = [r EXCEPT !.v = chain.v, !.fp.err = "FR_INT_ERR", !.res = "FR_INT_ERR"]
    BY <1>1, <1>8
  <2> HIDE DEF w
  <2> DEFINE u == [fp EXCEPT !.err = "FR_INT_ERR"]
  <2>2. w.v = chain.v /\ w.fp = u
    BY <2>1
  <2>3. Writing(g, u)
    BY DEF Writing
  <2> QED BY <2>2, <2>3 DEF w
<1>9. CASE chain.val \in Clusts(g)
  <2>1. chain.val # 0 /\ chain.val # 1
    <3> HIDE DEF fp, data, v, sect, wcnt, bytes, next, last, rest, w
    <3>1. g.n_fatent \in Nat
      BY <1>2 DEF Shape
    <3> QED BY <1>9, <3>1 DEF Clusts
  <2>2. w = [r EXCEPT !.v = last, !.fp = next, !.data = rest]
    BY <1>1, <2>1
  <2>3. sect \in DataSectors(g)
    <3>1. g.csize \in Nat \ {0} /\ chain.v.csize = g.csize
      BY <1>2 DEF Shape, Same
    <3>2. csect \in 0 .. g.csize - 1
      <4>1. fp.fptr \div SS \in Nat
        BY <1>2, <1>3, DivMod
      <4> QED BY <3>1, <4>1, DivMod
    <3>3. clst2sect(chain.v, chain.val) = clst2sect(g, chain.val)
      BY <1>2, SameClusters
    <3> HIDE DEF csect
    <3> QED BY <1>2, <1>9, <3>2, <3>3, ClusterPlace
  <2> HIDE DEF v, sect, bytes, wcnt, rest, w
  <2>4. Ok(g, K, 0, last)
    <3>1. CASE whole
      <4>1. last = disk_write(v, sect, bytes)
        BY <3>1
      <4> HIDE DEF last
      <4> QED BY <1>5, <1>6, <2>3, <4>1, OkStore
    <3>2. CASE ~whole
      BY <1>5, <3>2
    <3> QED BY <3>1, <3>2
  <2>5. Writing(g, next)
    <3> HIDE DEF fp
    <3> DEFINE b == ~whole
    <3>1. /\ next.fptr = fp.fptr + wcnt /\ next.clust = chain.val /\ next.dirty = b
          /\ next.dir_sect = fp.dir_sect /\ next.dir_ptr = fp.dir_ptr
      OBVIOUS
    <3>2. b = TRUE => next.sect = sect /\ next.buf = bytes
      OBVIOUS
    <3>3. next.fptr \in Nat \ {0}
      BY <1>3, <1>4, <3>1
    <3>4. b \in BOOLEAN
      OBVIOUS
    <3> HIDE DEF next, b
    <3>5. next.dirty \in BOOLEAN /\ (next.dirty = TRUE => next.sect \in DataSectors(g) /\ DOMAIN next.buf = Cells)
      BY <1>6, <2>3, <3>1, <3>2, <3>4
    <3> QED BY <1>3, <1>9, <3>1, <3>3, <3>5 DEF Writing
  <2> HIDE DEF last, next
  <2>6. w.v = last /\ w.fp = next
    BY <2>2
  <2> QED BY <2>4, <2>5, <2>6 DEF w
<1> QED BY <1>7, <1>8, <1>9

\* What is still to be written stays a sequence.
LEMMA WriteToData ==
  ASSUME NEW T, NEW chain, NEW r, r.data \in Seq(T)
  PROVE  WriteTo(chain, r).data \in Seq(T)
<1> DEFINE fp    == r.fp
           data  == r.data
           v     == IF fp.dirty THEN disk_write(chain.v, fp.sect, fp.buf) ELSE chain.v
           csect == (fp.fptr \div SS) % chain.v.csize
           sect  == clst2sect(chain.v, chain.val) + csect
           whole == Len(data) >= SS
           wcnt  == IF whole THEN SS ELSE Len(data)
           bytes == [i \in Cells |-> IF i < wcnt THEN Byte(data[i + 1]) ELSE fp.buf[i]]
           next  == [fp EXCEPT !.fptr = @ + wcnt, !.objsize = IF @ < fp.fptr + wcnt THEN fp.fptr + wcnt ELSE @,
                               !.clust = chain.val, !.sclust = IF @ = 0 THEN chain.val ELSE @,
                               !.dirty = ~whole, !.sect = IF whole THEN @ ELSE sect,
                               !.buf = IF whole THEN @ ELSE bytes]
           last  == IF whole THEN disk_write(v, sect, bytes) ELSE v
           rest  == SubSeq(data, wcnt + 1, Len(data))
           w     == WriteTo(chain, r)
<1>1. w = CASE chain.val = 0 -> [r EXCEPT !.v = chain.v, !.data = <<>>]
            [] chain.val = 1 -> [r EXCEPT !.v = chain.v, !.fp.err = "FR_INT_ERR", !.res = "FR_INT_ERR"]
            [] OTHER -> [r EXCEPT !.v = last, !.fp = next, !.data = rest]
  BY DEF WriteTo
<1>2. rest \in Seq(T)
  <2>1. Len(data) \in Nat /\ wcnt \in Nat
    BY FatAssumption
  <2> DEFINE a == wcnt + 1
             b == Len(data)
  <2>2. a \in Nat /\ a >= 1 /\ b \in Nat
    BY <2>1
  <2>3. \A i \in a .. b : data[i] \in T
    <3> SUFFICES ASSUME NEW i \in a .. b PROVE data[i] \in T
      OBVIOUS
    <3>1. i \in 1 .. Len(data)
      BY <2>2
    <3> QED BY <3>1
  <2> HIDE DEF a, b, data
  <2>4. SubSeq(data, a, b) \in Seq(T)
    BY <2>2, <2>3, SubSeqProperties DEF data
  <2> QED BY <2>4 DEF a, b
<1> HIDE DEF last, next, rest, w
<1>3. CASE chain.val = 0
  <2>1. w = [r EXCEPT !.v = chain.v, !.data = <<>>]
    BY <1>1, <1>3
  <2>2. w.data = <<>>
    BY <2>1
  <2> QED BY <2>2 DEF w
<1>4. CASE chain.val = 1
  <2>1. w = [r EXCEPT !.v = chain.v, !.fp.err = "FR_INT_ERR", !.res = "FR_INT_ERR"]
    BY <1>1, <1>4
  <2>2. w.data = data
    BY <2>1
  <2> QED BY <2>2 DEF w
<1>5. CASE chain.val # 0 /\ chain.val # 1
  <2>1. w = [r EXCEPT !.v = last, !.fp = next, !.data = rest]
    BY <1>1, <1>5
  <2>2. w.data = rest
    BY <2>1
  <2> QED BY <1>2, <2>2 DEF w
<1> QED BY <1>3, <1>4, <1>5

\* A round of f_write().
LEMMA OkWriteOn ==
  ASSUME NEW g, NEW K, NEW r, Ok(g, K, 0, r.v), Writing(g, r.fp), NEW T, r.data \in Seq(T)
  PROVE  /\ Ok(g, K, 0, WriteOn(r).v) /\ Writing(g, WriteOn(r).fp)
         /\ WriteOn(r).data \in Seq(T)
<1> DEFINE c == ClusterFor(r.v, r.fp)
<1>1. WriteOn(r) = IF r.data = <<>> \/ r.res # "FR_OK" THEN r ELSE WriteTo(c, r)
  BY DEF WriteOn
<1>2. Ok(g, K, 0, c.v) /\ c.val \in {0, 1} \union Clusts(g)
  BY OkClusterFor
<1> HIDE DEF c
<1>3. CASE r.data = <<>> \/ r.res # "FR_OK"
  BY <1>1, <1>3
<1>4. CASE ~(r.data = <<>> \/ r.res # "FR_OK")
  <2>1. WriteOn(r) = WriteTo(c, r)
    BY <1>1, <1>4
  <2>2. Len(r.data) \in Nat \ {0}
    BY <1>4
  <2>3. Ok(g, K, 0, WriteTo(c, r).v) /\ Writing(g, WriteTo(c, r).fp)
    BY <1>2, <2>2, OkWriteTo
  <2> QED BY <2>1, <2>3, WriteToData
<1> QED BY <1>3, <1>4

\* f_write().
LEMMA OkWrite ==
  ASSUME NEW g, NEW K, NEW v, Ok(g, K, 0, v), NEW fp, Writing(g, fp), NEW T, NEW data \in Seq(T)
  PROVE  Ok(g, K, 0, f_write(v, fp, data).v) /\ Writing(g, f_write(v, fp, data).fp)
<1> DEFINE s == [v |-> v, fp |-> fp, res |-> "FR_OK", data |-> data]
           N == Rounds(v)
           R[n \in 0 .. N] == IF n = 0 THEN s ELSE WriteOn(R[n - 1])
<1>1. N \in Nat
  <2>1. v.n_fatent \in Nat /\ v.csize \in Nat
    BY OkSame DEF Same, Shape
  <2> QED BY <2>1 DEF Rounds
<1>2. R = [n \in 0 .. N |-> IF n = 0 THEN s ELSE WriteOn(R[n - 1])]
  <2> SUFFICES \E f : f = [n \in 0 .. N |-> IF n = 0 THEN s ELSE WriteOn(f[n - 1])]
    OBVIOUS
  <2>1. \A x, i : Step("write", 0, x, i) = WriteOn(x)
    BY DEF Step
  <2> HIDE DEF Step, s, N
  <2>2. PICK f : Runs(f, "write", 0, s, N)
    BY <1>1, LoopRuns
  <2>3. f = [n \in 0 .. N |-> IF n = 0 THEN s ELSE WriteOn(f[n - 1])]
    <3>1. f = [n \in 0 .. N |-> IF n = 0 THEN s ELSE Step("write", 0, f[n - 1], n)]
      BY <2>2 DEF Runs
    <3>2. DOMAIN f = 0 .. N /\ \A n \in 0 .. N : f[n] = IF n = 0 THEN s ELSE WriteOn(f[n - 1])
      BY <2>1, <3>1
    <3>3. f = [n \in 0 .. N |-> f[n]]
      BY <3>1
    <3> QED BY <3>2, <3>3
  <2> QED BY <2>3
<1> DEFINE w == WriteFrom(v, fp, data)
<1>3. w = R[N]
  BY DEF WriteFrom
<1> HIDE DEF R, N, w
<1>4. R[0] = s /\ \A n \in 1 .. N : R[n] = WriteOn(R[n - 1])
  BY <1>1, <1>2
<1> DEFINE I(r) == Ok(g, K, 0, r.v) /\ Writing(g, r.fp) /\ r.data \in Seq(T)
<1> DEFINE S == {n \in Nat : n <= N => I(R[n])}
<1>5. 0 \in S
  BY <1>4
<1>6. \A n \in Nat : n \in S => n + 1 \in S
  <2> SUFFICES ASSUME NEW n \in Nat, n \in S, n + 1 <= N PROVE I(R[n + 1])
    OBVIOUS
  <2>1. R[n + 1] = WriteOn(R[n])
    BY <1>1, <1>4
  <2>2. I(R[n])
    BY <1>1
  <2> QED BY <2>1, <2>2, OkWriteOn
<1> HIDE DEF S
<1>7. N \in S
  BY <1>1, <1>5, <1>6, Induct
<1>8. Ok(g, K, 0, w.v) /\ Writing(g, w.fp)
  BY <1>1, <1>3, <1>7 DEF S
<1> DEFINE f == [w.fp EXCEPT !.modified = IF w.res = "FR_OK" THEN TRUE ELSE @]
<1>9. \/ f_write(v, fp, data) = FileRet(v, fp, "FR_INVALID_OBJECT")
      \/ f_write(v, fp, data) = FileRet(w.v, f, w.res)
  BY DEF f_write, w
<1>10. Writing(g, f)
  BY <1>8 DEF Writing
<1> HIDE DEF f
<1> QED BY <1>8, <1>9, <1>10 DEF FileRet

\* f_close() without f_write() before it: f_sync() has nothing to do.
LEMMA CloseUnmodified ==
  ASSUME NEW v, NEW fp, fp.modified = FALSE
  PROVE  f_close(v, fp).v = v
<1> DEFINE s == f_sync(v, fp)
<1>1. s.v = v
  BY DEF f_sync, FileRet
<1>2. f_close(v, fp) = IF s.res = "FR_OK" /\ validate(s.v, s.fp) THEN [s EXCEPT !.fp.fs = FALSE] ELSE s
  BY DEF f_close
<1> HIDE DEF s
<1>3. [s EXCEPT !.fp.fs = FALSE].v = s.v
  OBVIOUS
<1> QED BY <1>1, <1>2, <1>3

\* f_close() of a file that was written: its last sector, then its entry.
LEMMA OkClose ==
  ASSUME NEW g, NEW K, NEW v, Ok(g, K, 0, v), NEW fp, Writing(g, fp)
  PROVE  Ok(g, K, 0, f_close(v, fp).v)
<1> DEFINE s == f_sync(v, fp)
           b == IF fp.dirty THEN disk_write(v, fp.sect, fp.buf) ELSE v
           w == move_window(b, fp.dir_sect)
           x == [w.win EXCEPT ![fp.dir_ptr].clust = fp.sclust, ![fp.dir_ptr].size = fp.objsize]
           u == [w EXCEPT !.win = x, !.wflag = TRUE]
           e == [w EXCEPT !.win[fp.dir_ptr].clust = fp.sclust,
                          !.win[fp.dir_ptr].size = fp.objsize, !.wflag = TRUE]
<1>1. Ok(g, K, 0, b)
  <2>1. CASE fp.dirty
    <3>1. b = disk_write(v, fp.sect, fp.buf)
      BY <2>1
    <3>2. fp.sect \in DataSectors(g) /\ DOMAIN fp.buf = Cells
      BY <2>1 DEF Writing
    <3> HIDE DEF b
    <3> QED BY <3>1, <3>2, OkStore
  <2>2. CASE ~fp.dirty
    BY <2>2
  <2> QED BY <2>1, <2>2
<1> HIDE DEF b
<1>2. Ok(g, K, 0, w) /\ w.winsect \in DataSectors(g) /\ DOMAIN w.win = Cells
  <2>1. fp.dir_sect \in DataSectors(g)
    BY DEF Writing
  <2> QED BY <1>1, <2>1, OkMove
<1> HIDE DEF w
<1>3. DOMAIN x = Cells
  BY <1>2
<1>4. e = u
  OBVIOUS
<1> HIDE DEF x
<1>5. Ok(g, K, 0, u)
  BY <1>2, <1>3, OkDirty
<1> HIDE DEF u
<1>6. Ok(g, K, 0, sync_fs(u))
  BY <1>5, OkSyncFs
<1>7. s.v = v \/ s.v = sync_fs(u)
  BY <1>4 DEF f_sync, FileRet, w, b
<1>8. f_close(v, fp) = IF s.res = "FR_OK" /\ validate(s.v, s.fp) THEN [s EXCEPT !.fp.fs = FALSE] ELSE s
  BY DEF f_close
<1> HIDE DEF s
<1>9. [s EXCEPT !.fp.fs = FALSE].v = s.v
  OBVIOUS
<1>10. f_close(v, fp).v = s.v
  BY <1>8, <1>9
<1> QED BY <1>6, <1>7, <1>10

\* A file that f_open() makes: an entry without a cluster, in the window.
LEMMA OkCreated ==
  ASSUME NEW g, NEW K, NEW v, Ok(g, K, 0, v), NEW d
  PROVE  LET r == Created(dir_register(v, d))
         IN  Ok(g, K, 0, r.v) /\ (r.res = "FR_OK" => Writing(g, r.fp))
<1> DEFINE new == dir_register(v, d)
           c == At(new.d)
           x == [new.v.win EXCEPT ![c].attr = "file"]
           u == [new.v EXCEPT !.win = x, !.wflag = TRUE]
           n == [new EXCEPT !.v.win[At(new.d)].attr = "file", !.v.wflag = TRUE]
           r == Created(new)
           fp == [FIL EXCEPT !.fs = TRUE, !.id = n.v.id, !.mode = "create",
                             !.modified = "create" = "create", !.dir_sect = n.v.winsect,
                             !.dir_ptr = At(n.d), !.sclust = n.v.win[At(n.d)].clust,
                             !.objsize = n.v.win[At(n.d)].size]
<1>1. /\ Ok(g, K, 0, new.v)
      /\ new.res = "FR_OK" =>
           /\ new.v.winsect \in DataSectors(g) /\ DOMAIN new.v.win = Cells
           /\ c \in Cells /\ new.v.win[c].clust = 0
  BY OkRegister
<1> HIDE DEF new
<1>2. CASE new.res # "FR_OK"
  <2>1. r = FileRet(new.v, FIL, new.res)
    BY <1>2 DEF Created
  <2>2. r.v = new.v /\ r.res # "FR_OK"
    BY <1>2, <2>1 DEF FileRet
  <2> HIDE DEF r
  <2> QED BY <1>1, <2>2 DEF r, new
<1>3. CASE new.res = "FR_OK"
  <2>1. r = Opened(n, "create")
    BY <1>3 DEF Created
  <2>2. Opened(n, "create") = FileRet(n.v, fp, "FR_OK")
    BY DEF Opened
  <2>3. n.v = u /\ n.d = new.d
    OBVIOUS
  <2> HIDE DEF n, c
  <2>4. DOMAIN x = Cells /\ x[c].clust = 0
    <3>1. new.v.win[c].clust = 0
      BY <1>1, <1>3
    <3>2. c \in DOMAIN new.v.win /\ DOMAIN new.v.win = Cells
      BY <1>1, <1>3
    <3>3. DOMAIN x = Cells
      BY <3>2
    <3>4. x[c] = [new.v.win[c] EXCEPT !.attr = "file"]
      BY <3>2
    <3> DEFINE e == new.v.win[c]
    <3>5. [e EXCEPT !.attr = "file"].clust = e.clust
      OBVIOUS
    <3> QED BY <3>1, <3>3, <3>4, <3>5
  <2> HIDE DEF x
  <2>5. u.winsect = new.v.winsect /\ u.win = x
    OBVIOUS
  <2>6. Ok(g, K, 0, u)
    BY <1>1, <1>3, <2>4, OkDirty
  <2> HIDE DEF u
  <2>7. /\ fp.fptr = 0 /\ fp.dirty = FALSE /\ fp.dir_sect = n.v.winsect
        /\ fp.dir_ptr = At(n.d) /\ fp.sclust = n.v.win[At(n.d)].clust
    BY DEF FIL
  <2>8. fp.dir_sect \in DataSectors(g) /\ fp.dir_ptr \in Cells /\ fp.sclust = 0
    BY <1>1, <1>3, <2>3, <2>4, <2>5, <2>7 DEF c
  <2> HIDE DEF fp
  <2>9. Writing(g, fp)
    <3>1. fp.fptr = 0 /\ fp.dirty = FALSE
      BY <2>7
    <3>2. fp.fptr \in Nat /\ fp.fptr = 0
      BY <3>1
    <3>3. fp.dirty \in BOOLEAN /\ fp.dirty # TRUE
      BY <3>1
    <3> QED BY <2>8, <3>2, <3>3 DEF Writing
  <2>10. r = FileRet(u, fp, "FR_OK")
    BY <2>1, <2>2, <2>3
  <2> HIDE DEF r
  <2> QED BY <2>6, <2>9, <2>10 DEF r, new, FileRet
<1> QED BY <1>2, <1>3

\* f_open(), to read a file that is there or to create one that is not.
LEMMA HeldOpen ==
  ASSUME NEW K, SoundCard(K), NEW v, Held(K, v), NEW path, Len(path.segs) \in Nat,
         NEW mode \in {"read", "create"}
  PROVE  LET r == f_open(v, path, mode)
         IN  /\ Held(K, r.v)
             /\ r.res = "FR_OK" =>
                  /\ Up(K, r.v)
                  /\ mode = "read" => r.fp.modified = FALSE
                  /\ mode = "create" => Writing(Geometry(OnCard(K)), r.fp)
<1> DEFINE at == Reached(mount_volume(v), path)
           g  == Geometry(OnCard(K))
           new == Created(dir_register(at.v, at.d))
           r == f_open(v, path, mode)
<1>1. /\ Held(K, at.v)
      /\ (at.res = "FR_OK" \/ at.res = "FR_NO_FILE" \/ Up(K, v)) => Up(K, at.v)
  BY HeldReached
<1>2. r = OpenAt(at, mode)
  BY DEF f_open
<1> HIDE DEF at, r
<1> DEFINE created == mode = "create" /\ at.res = "FR_NO_FILE"
           opened  == mode = "read" /\ at.res = "FR_OK" /\ ~at.d.noname /\ at.d.attr # "dir"
<1>3. CASE created
  <2>1. r = new
    BY <1>2, <1>3 DEF OpenAt
  <2>2. Ok(g, K, 0, at.v)
    BY <1>1, <1>3 DEF Up
  <2> HIDE DEF g
  <2>3. Ok(g, K, 0, new.v) /\ (new.res = "FR_OK" => Writing(g, new.fp))
    BY <2>2, OkCreated
  <2> HIDE DEF new
  <2>4. Up(K, new.v)
    BY <2>3 DEF Up, g
  <2>5. Held(K, new.v)
    BY <2>4, UpHeld
  <2> QED BY <1>3, <2>1, <2>3, <2>4, <2>5 DEF r, g
<1>4. CASE opened
  <2>1. r = Opened(at, "read")
    BY <1>2, <1>4 DEF OpenAt
  <2>2. r.v = at.v
    BY <2>1 DEF Opened, FileRet
  <2>3. r.fp.modified = ("read" = "create")
    BY <2>1 DEF Opened, FileRet, FIL
  <2>4. r.fp.modified = FALSE
    BY <2>3
  <2> QED BY <1>1, <1>4, <2>2, <2>4 DEF r
<1>5. CASE ~created /\ ~opened
  <2>1. \E res \in {"FR_INVALID_NAME", "FR_DENIED", "FR_EXIST", "FR_NO_FILE", at.res} :
          r = FileRet(at.v, FIL, res) /\ res # "FR_OK"
    BY <1>2, <1>5 DEF OpenAt
  <2>2. r.v = at.v /\ r.res # "FR_OK"
    BY <2>1 DEF FileRet
  <2> QED BY <1>1, <2>2 DEF r
<1> QED BY <1>3, <1>4, <1>5

\* The entry of a directory that f_mkdir() makes, or its cluster given back.
LEMMA OkRegistered ==
  ASSUME NEW g, NEW K, NEW dcl, NEW v, Ok(g, K, dcl, v), NEW d
  PROVE  Ok(g, K, 0, Registered(dir_register(v, d), dcl).v)
<1> DEFINE reg == dir_register(v, d)
           e == Entry(reg.d.fn, "dir", dcl, 0)
           x == [reg.v.win EXCEPT ![At(reg.d)] = e]
           u == [reg.v EXCEPT !.win = x, !.wflag = TRUE]
           r == Registered(reg, dcl)
<1>1. /\ Ok(g, K, dcl, reg.v)
      /\ reg.res = "FR_OK" => reg.v.winsect \in DataSectors(g) /\ DOMAIN reg.v.win = Cells
  BY OkRegister
<1> HIDE DEF reg
<1>2. CASE reg.res # "FR_OK"
  <2>1. r = Ret(remove_chain(reg.v, dcl), reg.res)
    BY <1>2 DEF Registered
  <2>2. Ok(g, K, 0, remove_chain(reg.v, dcl))
    BY <1>1, OkRemove
  <2> QED BY <2>1, <2>2 DEF Ret, reg
<1>3. CASE reg.res = "FR_OK"
  <2>1. r = Ret(sync_fs(u), "FR_OK")
    BY <1>3 DEF Registered
  <2>2. DOMAIN x = Cells
    BY <1>1, <1>3
  <2> HIDE DEF x
  <2>3. Ok(g, K, dcl, u)
    BY <1>1, <1>3, <2>2, OkDirty
  <2> HIDE DEF u
  <2>4. Ok(g, K, 0, sync_fs(u))
    BY <2>3, OkSyncFs
  <2> QED BY <2>1, <2>4 DEF Ret, reg
<1> QED BY <1>2, <1>3

\* f_mkdir() in the cluster it was given.
LEMMA OkMadeIn ==
  ASSUME NEW g, NEW K, NEW dcl, dcl.val \in {0, 1} \union Clusts(g), Ok(g, K, 0, dcl.v),
         dcl.val \in Clusts(g) => Ok(g, K, dcl.val, dcl.v), NEW d
  PROVE  Ok(g, K, 0, MadeIn(dcl, d).v)
<1> DEFINE w == dir_clear(dcl.v, dcl.val)
           x == [w.win EXCEPT ![0] = Entry(".", "dir", dcl.val, 0),
                              ![1] = Entry("..", "dir", d.sclust, 0)]
           u == [w EXCEPT !.win = x, !.wflag = TRUE]
           dots == [w EXCEPT !.win[0] = Entry(".", "dir", dcl.val, 0),
                             !.win[1] = Entry("..", "dir", d.sclust, 0), !.wflag = TRUE]
           r == MadeIn(dcl, d)
<1>1. r = CASE dcl.val = 0 -> Ret(dcl.v, "FR_DENIED")
            [] dcl.val = 1 -> Ret(dcl.v, "FR_INT_ERR")
            [] OTHER       -> Registered(dir_register(dots, d), dcl.val)
  BY DEF MadeIn
<1>2. dots = u
  OBVIOUS
<1> HIDE DEF dots, r, u
<1>3. CASE dcl.val = 0
  <2>1. r = Ret(dcl.v, "FR_DENIED")
    BY <1>1, <1>3
  <2> QED BY <2>1 DEF Ret, r
<1>4. CASE dcl.val = 1
  <2>1. r = Ret(dcl.v, "FR_INT_ERR")
    BY <1>1, <1>4
  <2> QED BY <2>1 DEF Ret, r
<1>5. CASE dcl.val \in Clusts(g)
  <2>1. dcl.val # 0 /\ dcl.val # 1
    <3>1. g.n_fatent \in Nat
      BY OkSame DEF Shape
    <3> QED BY <1>5, <3>1 DEF Clusts
  <2>2. r = Registered(dir_register(u, d), dcl.val)
    BY <1>1, <1>2, <2>1
  <2>3. Ok(g, K, dcl.val, w) /\ w.winsect \in DataSectors(g) /\ w.win = ZeroSector
    BY <1>5, OkClear
  <2> HIDE DEF w
  <2>4. DOMAIN x = Cells
    <3>1. DOMAIN w.win = Cells
      BY <2>3 DEF ZeroSector
    <3> QED BY <3>1
  <2> HIDE DEF x
  <2>5. Ok(g, K, dcl.val, u)
    BY <2>3, <2>4, OkDirty DEF u
  <2> QED BY <2>2, <2>5, OkRegistered DEF r
<1> QED BY <1>3, <1>4, <1>5

\* f_mkdir().
LEMMA UpMkdir ==
  ASSUME NEW K, SoundCard(K), NEW v, Up(K, v), NEW path, Len(path.segs) \in Nat
  PROVE  Up(K, f_mkdir(v, path).v)
<1> DEFINE at  == Reached(mount_volume(v), path)
           g   == Geometry(OnCard(K))
           dcl == create_chain(at.v, 0)
           r   == f_mkdir(v, path)
<1>1. Up(K, at.v)
  BY UpHeld, HeldReached
<1>2. r = MakeAt(at)
  BY DEF f_mkdir
<1> HIDE DEF at, r
<1>3. CASE at.res = "FR_NO_FILE"
  <2>1. r = MadeIn(dcl, at.d)
    BY <1>2, <1>3 DEF MakeAt
  <2>2. Ok(g, K, 0, at.v)
    BY <1>1 DEF Up
  <2> HIDE DEF g
  <2>3. /\ dcl.val \in {0, 1} \union Clusts(g) /\ Ok(g, K, 0, dcl.v)
        /\ dcl.val \in Clusts(g) => Ok(g, K, dcl.val, dcl.v)
    BY <2>2, OkChain
  <2> HIDE DEF dcl
  <2>4. Ok(g, K, 0, MadeIn(dcl, at.d).v)
    BY <2>3, OkMadeIn
  <2> QED BY <2>1, <2>4 DEF Up, g, r
<1>4. CASE at.res # "FR_NO_FILE"
  <2>1. r.v = at.v
    BY <1>2, <1>4 DEF MakeAt, Ret
  <2> QED BY <1>1, <2>1 DEF r
<1> QED BY <1>3, <1>4

-----------------------------------------------------------------------------
(* The enclave. *)

\* The first write of a trail leads to a sound card, and the rest leads on.
LEMMA TrailNext ==
  ASSUME NEW g, NEW K, NEW log, NEW C, Trail(g, K, log, C), log # <<>>,
         NEW D, D = With(K, Head(log)[1], Head(log)[2])
  PROVE  OkCard(g, D) /\ Trail(g, D, Tail(log), C)
<1>1. PICK S, t :
        /\ log \in Seq(S)
        /\ t[0] = K /\ t[Len(log)] = C
        /\ \A i \in 1 .. Len(log) : t[i] = With(t[i - 1], log[i][1], log[i][2])
        /\ \A i \in 0 .. Len(log) : OkCard(g, t[i])
  BY DEF Trail
<1> DEFINE n == Len(log)
           m == Len(Tail(log))
           u == [i \in 0 .. m |-> t[i + 1]]
<1>2. n \in Nat \ {0} /\ log[1] = Head(log) /\ Tail(log) \in Seq(S) /\ m = n - 1
      /\ \A i \in 1 .. m : Tail(log)[i] = log[i + 1]
  BY <1>1
<1>3. t[1] = D /\ OkCard(g, D)
  <2>1. 1 \in 1 .. n /\ 1 \in 0 .. n /\ 1 - 1 = 0
    BY <1>2
  <2>2. t[1] = With(t[1 - 1], log[1][1], log[1][2]) /\ OkCard(g, t[1])
    BY <1>1, <2>1
  <2> QED BY <1>1, <1>2, <2>1, <2>2
<1>4. u[0] = D /\ u[m] = C
  <2>1. 0 \in 0 .. m /\ m \in 0 .. m /\ 0 + 1 = 1 /\ m + 1 = n
    BY <1>2
  <2> QED BY <1>1, <1>3, <2>1
<1>5. ASSUME NEW i \in 1 .. m
      PROVE  u[i] = With(u[i - 1], Tail(log)[i][1], Tail(log)[i][2])
  <2>1. i \in 0 .. m /\ i - 1 \in 0 .. m /\ (i - 1) + 1 = i /\ i + 1 \in 1 .. n /\ (i + 1) - 1 = i
    BY <1>2
  <2>2. u[i] = t[i + 1] /\ u[i - 1] = t[i]
    BY <2>1
  <2>3. t[i + 1] = With(t[i], log[i + 1][1], log[i + 1][2])
    BY <1>1, <2>1
  <2> QED BY <1>2, <2>2, <2>3
<1>6. ASSUME NEW i \in 0 .. m PROVE OkCard(g, u[i])
  <2>1. i + 1 \in 0 .. n
    BY <1>2
  <2> QED BY <1>1, <2>1
<1> HIDE DEF u
<1> QED BY <1>2, <1>3, <1>4, <1>5, <1>6 DEF Trail

\* The running handler's next sector reaches the card.
LEMMA UpNext ==
  ASSUME NEW K, SoundCard(K), NEW v, Up(K, v), v.log # <<>>,
         NEW D, D = [K EXCEPT ![Head(v.log)[1]] = Head(v.log)[2]],
         NEW w, w = [v EXCEPT !.log = Tail(v.log)]
  PROVE  SoundCard(D) /\ Up(D, w) /\ Geometry(OnCard(D)) = Geometry(OnCard(K))
<1> DEFINE g == Geometry(OnCard(K))
<1>1. Mountable(K) /\ Ok(g, K, 0, v)
  BY UpHeld DEF Up
<1>2. PICK B : Fine(g, K, v, B, 0)
  BY <1>1 DEF Ok
<1>3. Trail(g, K, v.log, v.card)
  BY <1>2 DEF Fine, Body
<1>4. D = With(K, Head(v.log)[1], Head(v.log)[2])
  BY DEF With
<1> HIDE DEF g
<1>5. OkCard(g, D) /\ Trail(g, D, Tail(v.log), v.card)
  BY <1>3, <1>4, TrailNext
<1>6. Geometry(OnCard(D)) = g /\ SoundCard(D)
  BY <1>1, <1>5, Remount DEF g
<1>7. /\ w.fs_type = v.fs_type /\ w.n_fats = v.n_fats /\ w.csize = v.csize
      /\ w.n_rootdir = v.n_rootdir /\ w.n_fatent = v.n_fatent /\ w.fsize = v.fsize
      /\ w.volbase = v.volbase /\ w.fatbase = v.fatbase /\ w.dirbase = v.dirbase
      /\ w.database = v.database /\ w.fsi_flag = v.fsi_flag /\ w.stat = v.stat
      /\ w.winsect = v.winsect /\ w.win = v.win /\ w.wflag = v.wflag
      /\ w.card = v.card /\ w.log = Tail(v.log) /\ w.free_clst = v.free_clst
  OBVIOUS
<1>8. Same(g, w)
  BY <1>2, <1>7 DEF Fine, Body, Same
<1>9. Mem(g, w) = Mem(g, v)
  BY <1>7 DEF Mem
<1>10. Window(g, w)
  BY <1>2, <1>7 DEF Fine, Body, Window
<1>11. Fine(g, D, w, B, 0)
  BY <1>2, <1>5, <1>7, <1>8, <1>9, <1>10 DEF Fine, Body
<1>12. Ok(g, D, 0, w)
  BY <1>1, <1>11 DEF Ok
<1> QED BY <1>6, <1>12 DEF Up, g

\* Between two handlers the volume in memory is the one on the card.
LEMMA IdleHeld ==
  ASSUME EInv, Idle, NEW ok \in Outcomes
  PROVE  SoundCard(card) /\ Held(card, Volume(ok))
<1> DEFINE v == Volume(ok)
<1>1. ok \in BOOLEAN
  BY DEF Outcomes
<1>2. SoundCard(card) /\ fs.log = <<>> /\ queue = <<>>
  BY DEF EInv, Idle
<1>3. v.fs_type = fs.fs_type /\ v.card = card /\ v.log = fs.log /\ v.sd = ok
  BY DEF Volume
<1>4. CASE fs.fs_type = 0
  <2> HIDE DEF v
  <2>1. Held(card, v)
    BY <1>1, <1>2, <1>3, <1>4 DEF Held
  <2> QED BY <1>2, <2>1 DEF v
<1>5. CASE fs.fs_type # 0
  <2>1. PICK D : Up(card, [fs EXCEPT !.card = D, !.log = queue])
    BY <1>5 DEF EInv
  <2> DEFINE u == [fs EXCEPT !.card = D, !.log = queue]
             g == Geometry(OnCard(card))
  <2>2. u.card = D /\ u.log = queue
    OBVIOUS
  <2>3. D = card
    <3> HIDE DEF u
    <3>1. PICK B : Fine(g, card, u, B, 0)
      BY <2>1 DEF u, Up, Ok
    <3>2. Trail(g, card, <<>>, D)
      BY <1>2, <2>2, <3>1 DEF Fine, Body
    <3>3. PICK S, t : t[0] = card /\ t[Len(<<>>)] = D
      BY <3>2 DEF Trail
    <3> QED BY <3>3
  <2>4. Agree(u, v)
    BY <1>2, <2>3 DEF Agree, Volume
  <2> HIDE DEF u, v
  <2>5. Up(card, v)
    BY <2>1, <2>4, OkAgree DEF Up, u
  <2>6. Held(card, v)
    BY <2>5, UpHeld
  <2> QED BY <1>2, <2>6 DEF v
<1> QED BY <1>4, <1>5

\* What a handler leaves behind.
LEMMA LeavesInv ==
  ASSUME SoundCard(card), NEW v, Held(card, v), Leaves(v)
  PROVE  EInv'
<1>1. queue' = v.log /\ fs' = [v EXCEPT !.card = <<>>, !.log = <<>>, !.sd = FALSE] /\ card' = card
  BY DEF Leaves
<1>2. fs'.fs_type = v.fs_type /\ fs'.log = <<>>
  BY <1>1
<1>3. SoundCard(card')
  BY <1>1
<1>4. CASE v.fs_type = 0
  <2>1. queue' = <<>>
    BY <1>1, <1>4 DEF Held
  <2> QED BY <1>2, <1>3, <1>4, <2>1 DEF EInv
<1>5. CASE v.fs_type # 0
  <2>1. Up(card', v)
    BY <1>1, <1>5 DEF Held
  <2> DEFINE w == [fs' EXCEPT !.card = v.card, !.log = queue']
  <2>2. Agree(v, w)
    BY <1>1 DEF Agree
  <2>3. Up(card', w)
    <3> HIDE DEF w
    <3> QED BY <2>1, <2>2, OkAgree DEF Up
  <2>4. \E D : Up(card', [fs' EXCEPT !.card = D, !.log = queue'])
    BY <2>3
  <2> QED BY <1>2, <1>3, <1>5, <2>4 DEF EInv
<1> QED BY <1>4, <1>5

\* The inductive invariant holds when the machine is started.
LEMMA EInit ==
  ASSUME Init
  PROVE  EInv
<1>1. card \in Cards /\ queue = <<>> /\ fs = FATFS(<<>>)
  BY DEF Init
<1>2. SoundCard(card)
  BY <1>1, CardsAssumption
<1>3. fs.fs_type = 0 /\ fs.log = <<>>
  BY <1>1 DEF FATFS
<1> QED BY <1>1, <1>2, <1>3 DEF EInv

\* fs_init() keeps it.
LEMMA EPowerOn ==
  ASSUME EInv, PowerOn
  PROVE  EInv'
<1>1. PICK ok \in BOOLEAN : Leaves(f_mount([FATFS(card) EXCEPT !.sd = ok]).v)
  BY DEF PowerOn
<1> DEFINE u == [[FATFS(card) EXCEPT !.sd = ok] EXCEPT !.fs_type = 0]
           r == mount_volume(u)
<1>2. Leaves(r.v)
  BY <1>1 DEF f_mount
<1>3. u.card = card /\ u.log = <<>> /\ u.sd = ok /\ u.fs_type = 0
  BY DEF FATFS
<1>4. SoundCard(card)
  BY DEF EInv
<1> HIDE DEF u
<1>5. Held(card, u)
  BY <1>3 DEF Held
<1>6. Held(card, r.v)
  BY <1>4, <1>5, HeldMount
<1> HIDE DEF r
<1> QED BY <1>2, <1>4, <1>6, LeavesInv

\* vm_init() keeps it.
LEMMA EVmInit ==
  ASSUME EInv, vm_init
  PROVE  EInv'
<1> DEFINE path == Path(TRUE, Image)
           O(ok) == f_open(Volume(ok), path, "read")
           T(ok) == f_stat(O(ok).v, path)
           R(ok) == f_read(T(ok).v, O(ok).fp, T(ok).fsize)
<1>1. PICK ok \in Outcomes :
        \/ O(ok).res # "FR_OK" /\ Leaves(O(ok).v)
        \/ O(ok).res = "FR_OK" /\ Leaves(f_close(R(ok).v, R(ok).fp).v)
  BY DEF vm_init
<1> DEFINE o == O(ok)
           st == T(ok)
           r == R(ok)
           g == Geometry(OnCard(card))
<1>2. SoundCard(card) /\ Held(card, Volume(ok))
  BY IdleHeld DEF vm_init
<1>3. Len(path.segs) \in Nat
  BY EnclaveAssumption DEF Path
<1> HIDE DEF path
<1>4. /\ Held(card, o.v)
      /\ o.res = "FR_OK" => Up(card, o.v) /\ o.fp.modified = FALSE
  BY <1>2, <1>3, HeldOpen
<1>5. CASE o.res # "FR_OK"
  <2>1. Leaves(o.v)
    BY <1>1, <1>5
  <2> HIDE DEF o
  <2> QED BY <1>2, <1>4, <2>1, LeavesInv
<1>6. CASE o.res = "FR_OK"
  <2>1. Leaves(f_close(r.v, r.fp).v)
    BY <1>1, <1>6
  <2>2. st = f_stat(o.v, path) /\ r = f_read(st.v, o.fp, st.fsize)
    OBVIOUS
  <2> HIDE DEF o, st, r
  <2>3. Up(card, st.v)
    BY <1>2, <1>3, <1>4, <1>6, <2>2, UpStat
  <2>4. Ok(g, card, 0, st.v)
    BY <2>3 DEF Up
  <2> HIDE DEF g
  <2>5. Ok(g, card, 0, r.v) /\ r.fp.modified = o.fp.modified
    BY <2>2, <2>4, OkRead
  <2>6. f_close(r.v, r.fp).v = r.v
    BY <1>4, <1>6, <2>5, CloseUnmodified
  <2>7. Held(card, r.v)
    BY <2>5, UpHeld DEF Up, g
  <2> QED BY <1>2, <2>1, <2>6, <2>7, LeavesInv
<1> QED BY <1>5, <1>6

\* sse_sandbox_init() keeps it.
LEMMA ESandbox ==
  ASSUME EInv, sse_sandbox_init
  PROVE  EInv'
<1> DEFINE C(ok) == f_chdir(Volume(ok), Path(TRUE, <<>>))
           path == Path(FALSE, <<DirName[pc.i]>>)
<1>1. PICK ok \in Outcomes :
        \/ C(ok).res # "FR_OK" /\ Leaves(C(ok).v)
        \/ C(ok).res = "FR_OK" /\ Leaves(f_mkdir(C(ok).v, path).v)
  BY DEF sse_sandbox_init
<1> DEFINE r == C(ok)
           m == f_mkdir(r.v, path)
<1>2. SoundCard(card) /\ Held(card, Volume(ok))
  BY IdleHeld DEF sse_sandbox_init
<1>3. Len(Path(TRUE, <<>>).segs) \in Nat /\ Len(path.segs) \in Nat
  BY DEF Path
<1>4. Held(card, r.v) /\ (r.res = "FR_OK" => Up(card, r.v))
  BY <1>2, <1>3, HeldChdir
<1>5. CASE r.res # "FR_OK"
  <2>1. Leaves(r.v)
    BY <1>1, <1>5
  <2> HIDE DEF r
  <2> QED BY <1>2, <1>4, <2>1, LeavesInv
<1>6. CASE r.res = "FR_OK"
  <2>1. Leaves(m.v)
    BY <1>1, <1>6
  <2> HIDE DEF r, path
  <2>2. Up(card, m.v)
    BY <1>2, <1>3, <1>4, <1>6, UpMkdir
  <2>3. Held(card, m.v)
    BY <2>2, UpHeld
  <2> HIDE DEF m
  <2> QED BY <1>2, <2>1, <2>3, LeavesInv
<1> QED BY <1>5, <1>6

\* The path of a VM's file is a sequence.
LEMMA FilePathLen ==
  ASSUME NEW vm, NEW name \in Names
  PROVE  Len(FilePath(vm, name).segs) \in Nat
<1> DEFINE first == DirName[vm] \o Head(name)
           S == ToSet(name) \cup {first}
<1>1. name # <<>> /\ name \in Seq(ToSet(name))
  BY EnclaveAssumption
<1>2. Tail(name) \in Seq(S)
  <2> DEFINE N == ToSet(name)
  <2>1. name \in Seq(N) /\ name # <<>>
    BY <1>1
  <2>2. N \subseteq S
    OBVIOUS
  <2> HIDE DEF N, S
  <2>3. name \in Seq(S)
    BY <2>1, <2>2
  <2> QED BY <2>1, <2>3
<1>3. <<first>> \in Seq(S)
  <2> HIDE DEF first
  <2> QED OBVIOUS
<1> HIDE DEF first, S
<1>4. <<first>> \o Tail(name) \in Seq(S)
  BY <1>2, <1>3, ConcatProperties
<1>5. FilePath(vm, name).segs = <<first>> \o Tail(name)
  BY DEF FilePath, Path, first
<1> QED BY <1>4, <1>5

\* sse_hvc_fwrite_handler() keeps it.
LEMMA EFwrite ==
  ASSUME EInv, NEW vm, NEW name \in Names, NEW data \in Contents, sse_hvc_fwrite_handler(vm, name, data)
  PROVE  EInv'
<1> DEFINE to == FilePath(vm, name)
           C(ok) == f_chdir(Volume(ok), DirPath(vm))
           O(ok) == f_open(C(ok).v, to, "create")
           W(ok) == f_write(O(ok).v, O(ok).fp, data)
<1>1. PICK ok \in Outcomes :
        \/ C(ok).res # "FR_OK" /\ Leaves(C(ok).v)
        \/ /\ C(ok).res = "FR_OK"
           /\ \/ O(ok).res # "FR_OK" /\ Leaves(O(ok).v)
              \/ /\ O(ok).res = "FR_OK"
                 /\ \/ Leaves(W(ok).v)
                    \/ Leaves(f_close(W(ok).v, W(ok).fp).v)
  BY DEF sse_hvc_fwrite_handler
<1> DEFINE sw == C(ok)
           o  == O(ok)
           w  == W(ok)
           g  == Geometry(OnCard(card))
<1>2. SoundCard(card) /\ Held(card, Volume(ok))
  BY IdleHeld DEF sse_hvc_fwrite_handler
<1>3. Len(DirPath(vm).segs) \in Nat /\ Len(to.segs) \in Nat
  BY FilePathLen DEF DirPath, Path
<1>4. Held(card, sw.v) /\ (sw.res = "FR_OK" => Up(card, sw.v))
  BY <1>2, <1>3, HeldChdir
<1>5. CASE sw.res # "FR_OK"
  <2>1. Leaves(sw.v)
    BY <1>1, <1>5
  <2> HIDE DEF sw
  <2> QED BY <1>2, <1>4, <2>1, LeavesInv
<1>6. CASE sw.res = "FR_OK"
  <2>1. \/ o.res # "FR_OK" /\ Leaves(o.v)
        \/ o.res = "FR_OK" /\ (Leaves(w.v) \/ Leaves(f_close(w.v, w.fp).v))
    BY <1>1, <1>6
  <2>2. o = f_open(sw.v, to, "create") /\ w = f_write(o.v, o.fp, data)
    OBVIOUS
  <2> HIDE DEF sw, o, w, to
  <2>3. Held(card, o.v) /\ (o.res = "FR_OK" => Up(card, o.v) /\ Writing(g, o.fp))
    <3>1. "create" \in {"read", "create"}
      OBVIOUS
    <3> QED BY <1>2, <1>3, <1>4, <2>2, <3>1, HeldOpen
  <2>4. CASE o.res # "FR_OK"
    BY <1>2, <2>1, <2>3, <2>4, LeavesInv
  <2>5. CASE o.res = "FR_OK"
    <3>1. Ok(g, card, 0, o.v) /\ Writing(g, o.fp)
      BY <2>3, <2>5 DEF Up
    <3>2. data \in Seq(ToSet(data))
      BY EnclaveAssumption
    <3> HIDE DEF g
    <3>3. Ok(g, card, 0, w.v) /\ Writing(g, w.fp)
      BY <2>2, <3>1, <3>2, OkWrite
    <3>4. Ok(g, card, 0, f_close(w.v, w.fp).v)
      BY <3>3, OkClose
    <3>5. Held(card, w.v) /\ Held(card, f_close(w.v, w.fp).v)
      BY <3>3, <3>4, UpHeld DEF Up, g
    <3> QED BY <1>2, <2>1, <2>5, <3>5, LeavesInv
  <2> QED BY <2>4, <2>5
<1> QED BY <1>5, <1>6

\* sse_hvc_fread_handler() keeps it.
LEMMA EFread ==
  ASSUME EInv, NEW vm, NEW name \in Names, NEW size, sse_hvc_fread_handler(vm, name, size)
  PROVE  EInv'
<1> DEFINE to == FilePath(vm, name)
           C(ok) == f_chdir(Volume(ok), DirPath(vm))
           O(ok) == f_open(C(ok).v, to, "read")
           R(ok) == f_read(O(ok).v, O(ok).fp, size)
<1>1. PICK ok \in Outcomes :
        \/ O(ok).res # "FR_OK" /\ Leaves(O(ok).v)
        \/ /\ O(ok).res = "FR_OK"
           /\ \/ Leaves(R(ok).v)
              \/ Leaves(f_close(R(ok).v, R(ok).fp).v)
  BY DEF sse_hvc_fread_handler
<1> DEFINE sw == C(ok)
           o  == O(ok)
           r  == R(ok)
           g  == Geometry(OnCard(card))
<1>2. SoundCard(card) /\ Held(card, Volume(ok))
  BY IdleHeld DEF sse_hvc_fread_handler
<1>3. Len(DirPath(vm).segs) \in Nat /\ Len(to.segs) \in Nat
  BY FilePathLen DEF DirPath, Path
<1>4. Held(card, sw.v)
  BY <1>2, <1>3, HeldChdir
<1>5. \/ o.res # "FR_OK" /\ Leaves(o.v)
      \/ o.res = "FR_OK" /\ (Leaves(r.v) \/ Leaves(f_close(r.v, r.fp).v))
  BY <1>1
<1>6. o = f_open(sw.v, to, "read") /\ r = f_read(o.v, o.fp, size)
  OBVIOUS
<1> HIDE DEF sw, o, r, to
<1>7. Held(card, o.v) /\ (o.res = "FR_OK" => Up(card, o.v) /\ o.fp.modified = FALSE)
  <2>1. "read" \in {"read", "create"}
    OBVIOUS
  <2> QED BY <1>2, <1>3, <1>4, <1>6, <2>1, HeldOpen
<1>8. CASE o.res # "FR_OK"
  BY <1>2, <1>5, <1>7, <1>8, LeavesInv
<1>9. CASE o.res = "FR_OK"
  <2>1. Ok(g, card, 0, o.v)
    BY <1>7, <1>9 DEF Up
  <2> HIDE DEF g
  <2>2. Ok(g, card, 0, r.v) /\ r.fp.modified = o.fp.modified
    BY <1>6, <2>1, OkRead
  <2>3. f_close(r.v, r.fp).v = r.v
    BY <1>7, <1>9, <2>2, CloseUnmodified
  <2>4. Held(card, r.v)
    BY <2>2, UpHeld DEF Up, g
  <2> QED BY <1>2, <1>5, <1>9, <2>3, <2>4, LeavesInv
<1> QED BY <1>8, <1>9

\* So does each sector that reaches the card, which remains the same volume.
LEMMA EDiskStep ==
  ASSUME EInv, DiskStep
  PROVE  EInv' /\ Geometry(OnCard(card')) = Geometry(OnCard(card))
<1>1. /\ queue # <<>> /\ queue' = Tail(queue) /\ fs' = fs
      /\ card' = [card EXCEPT ![Head(queue)[1]] = Head(queue)[2]]
  BY DEF DiskStep
<1>2. fs.fs_type # 0 /\ fs.log = <<>> /\ SoundCard(card)
  BY <1>1 DEF EInv
<1>3. PICK D : Up(card, [fs EXCEPT !.card = D, !.log = queue])
  BY <1>2 DEF EInv
<1> DEFINE v == [fs EXCEPT !.card = D, !.log = queue]
           w == [v EXCEPT !.log = Tail(v.log)]
           u == [fs' EXCEPT !.card = D, !.log = queue']
<1>4. Up(card, v) /\ v.log = queue
  BY <1>3
<1>5. u = w
  BY <1>1
<1> HIDE DEF v, w, u
<1>6. SoundCard(card') /\ Up(card', w) /\ Geometry(OnCard(card')) = Geometry(OnCard(card))
  BY <1>1, <1>2, <1>4, UpNext DEF w
<1>7. \E E : Up(card', [fs' EXCEPT !.card = E, !.log = queue'])
  BY <1>5, <1>6 DEF u
<1> QED BY <1>1, <1>2, <1>6, <1>7 DEF EInv

\* Every step keeps the inductive invariant, and the volume that the card holds.
LEMMA ENext ==
  ASSUME EInv, [Next]_vars
  PROVE  EInv' /\ Geometry(OnCard(card')) = Geometry(OnCard(card))
<1>1. CASE PowerOn
  <2>1. card' = card
    BY <1>1 DEF PowerOn, Leaves
  <2> QED BY <1>1, <2>1, EPowerOn
<1>2. CASE vm_init
  <2>1. card' = card
    BY <1>2 DEF vm_init, Leaves
  <2> QED BY <1>2, <2>1, EVmInit
<1>3. CASE sse_sandbox_init
  <2>1. card' = card
    BY <1>3 DEF sse_sandbox_init, Leaves
  <2> QED BY <1>3, <2>1, ESandbox
<1>4. CASE NextStage
  BY <1>4 DEF NextStage, EInv
<1>5. CASE Calls
  <2>1. PICK vm \in 1 .. total_vms - 1, name \in Names :
          \/ \E data \in Contents : sse_hvc_fwrite_handler(vm, name, data)
          \/ \E size \in Sizes : sse_hvc_fread_handler(vm, name, size)
    BY <1>5 DEF Calls
  <2>2. CASE \E data \in Contents : sse_hvc_fwrite_handler(vm, name, data)
    <3>1. PICK data \in Contents : sse_hvc_fwrite_handler(vm, name, data)
      BY <2>2
    <3>2. card' = card
      BY <3>1 DEF sse_hvc_fwrite_handler, Leaves
    <3> QED BY <3>1, <3>2, EFwrite
  <2>3. CASE \E size \in Sizes : sse_hvc_fread_handler(vm, name, size)
    <3>1. PICK size \in Sizes : sse_hvc_fread_handler(vm, name, size)
      BY <2>3
    <3>2. card' = card
      BY <3>1 DEF sse_hvc_fread_handler, Leaves
    <3> QED BY <3>1, <3>2, EFread
  <2> QED BY <2>1, <2>2, <2>3
<1>6. CASE Return
  BY <1>6 DEF Return, EInv
<1>7. CASE DiskStep
  BY <1>7, EDiskStep
<1>8. CASE PowerLoss
  <2>1. queue' = <<>> /\ fs' = FATFS(<<>>) /\ card' = card
    BY <1>8 DEF PowerLoss
  <2>2. fs'.fs_type = 0 /\ fs'.log = <<>>
    BY <2>1 DEF FATFS
  <2> QED BY <2>1, <2>2 DEF EInv
<1>9. CASE UNCHANGED vars
  BY <1>9 DEF vars, EInv
<1> QED BY <1>1, <1>2, <1>3, <1>4, <1>5, <1>6, <1>7, <1>8, <1>9 DEF Next

\* At every moment, power losses included, the card is sound, and the writes that the
\* running handler has still to make lead past sound cards to the one it works on.
THEOREM EnclaveInv == Spec => []EInv
<1>1. Init => EInv
  BY EInit
<1>2. EInv /\ [Next]_vars => EInv'
  BY ENext
<1> QED BY <1>1, <1>2, PTL DEF Spec

\* The links of the FAT on the card are apart at every moment: create_chain() never
\* takes a cluster that something leads to, whenever the power failed before.
THEOREM EnclaveLinks == Spec => []LinksSound
<1>1. EInv => LinksSound
  BY DEF EInv, SoundCard, LinksSound
<1> QED BY <1>1, EnclaveInv, PTL

\* The count in the FSInfo sector on the card is never below the number of free
\* clusters: no call is refused for want of a cluster while there is one.
THEOREM EnclaveCount == Spec => []FreeCountNotLow
<1>1. EInv => FreeCountNotLow
  BY DEF EInv, SoundCard, FreeCountNotLow
<1> QED BY <1>1, EnclaveInv, PTL

\* No call of a VM and no step of the boot writes to the sectors up to the boot sector
\* of the volume, so that every later boot finds the same volume, where it was.
THEOREM EnclaveVolume == Spec => [][Geometry(OnCard(card')) = Geometry(OnCard(card))]_vars
<1>1. EInv /\ [Next]_vars => [Geometry(OnCard(card')) = Geometry(OnCard(card))]_vars
  BY ENext
<1> QED BY <1>1, EnclaveInv, PTL DEF Spec

-----------------------------------------------------------------------------
(* Chains, as a reader of the card follows them. *)

\* The clusters at which a chain begins: taken, and nothing leads to them.
Heads(v) == {c \in Clusts(v) : Cell(v, c) # 0 /\ \A d \in Clusts(v) : Cell(v, d) # c}

\* s follows the links from c and comes to no cluster twice.
PathFrom(v, c, s) ==
  /\ s \in Seq(Clusts(v)) /\ Len(s) # 0
  /\ s[1] = c
  /\ \A i \in 1 .. Len(s) : Cell(v, s[i]) # 0
  /\ \A i \in 2 .. Len(s) : Cell(v, s[i - 1]) = s[i]
  /\ \A i, j \in 1 .. Len(s) : s[i] = s[j] => i = j

\* Every chain of the card that has a beginning ends, in a cluster that is taken and leads to no
\* other, and two of them share no cluster, whichever directory entries there are.
ChainsEnd ==
  \A v \in {OnCard(card)} : v.fs_type # 0 =>
    /\ \A c \in Heads(v) : /\ PathFrom(v, c, Chain(v, c))
                           /\ Cell(v, Last(Chain(v, c))) \notin Clusts(v) \union {0}
    /\ \A c, d \in Heads(v) : c # d => ToSet(Chain(v, c)) \cap ToSet(Chain(v, d)) = {}

\* A path from a head goes on to a cluster it has not been to.
LEMMA PathGrows ==
  ASSUME NEW v, LinksApart(v), NEW c \in Heads(v), NEW s, PathFrom(v, c, s)
  PROVE  /\ PathFrom(v, c, Grow(v, s))
         /\ Cell(v, Last(s)) \notin Clusts(v) => Grow(v, s) = s
         /\ Cell(v, Last(s)) \in Clusts(v) => Len(Grow(v, s)) = Len(s) + 1
<1> DEFINE n == Len(s)
           x == Cell(v, Last(s))
           r == Append(s, x)
<1>1. /\ s \in Seq(Clusts(v)) /\ n \in Nat \ {0} /\ s[1] = c
      /\ \A i \in 1 .. n : Cell(v, s[i]) # 0 /\ s[i] \in Clusts(v)
      /\ \A i \in 2 .. n : Cell(v, s[i - 1]) = s[i]
      /\ \A i, j \in 1 .. n : s[i] = s[j] => i = j
  BY DEF PathFrom
<1>2. Last(s) = s[n] /\ n \in 1 .. n /\ s # <<>>
  BY <1>1 DEF Last
<1>3. CASE x \notin Clusts(v)
  <2>1. ~IsClst(v, x)
    BY <1>3 DEF IsClst, Clusts
  <2>2. Grow(v, s) = s
    BY <2>1 DEF Grow
  <2> QED BY <1>3, <2>2
<1>4. CASE x \in Clusts(v)
  <2>1. x = Cell(v, s[n]) /\ s[n] \in Clusts(v)
    BY <1>1, <1>2
  <2>2. Cell(v, x) # 0 /\ \A d \in Clusts(v) : Cell(v, d) = x => d = s[n]
    BY <1>4, <2>1 DEF LinksApart
  <2>3. IsClst(v, x)
    BY <1>4 DEF IsClst, Clusts
  <2> HIDE DEF x
  <2>4. ASSUME NEW j \in 1 .. n, x = s[j] PROVE FALSE
    <3>1. CASE j = 1
      BY <1>1, <2>1, <2>4, <3>1 DEF Heads
    <3>2. CASE j # 1
      <4>1. j \in 2 .. n /\ j - 1 \in 1 .. n
        BY <1>1, <3>2
      <4>2. Cell(v, s[j - 1]) = x /\ s[j - 1] \in Clusts(v)
        BY <1>1, <2>4, <4>1
      <4>3. s[j - 1] = s[n]
        BY <2>2, <4>2
      <4>4. j - 1 = n
        BY <1>1, <1>2, <4>1, <4>3
      <4> QED BY <1>1, <4>4
    <3> QED BY <3>1, <3>2
  <2>5. x \notin ToSet(s)
    <3>1. DOMAIN s = 1 .. n
      BY <1>1
    <3> QED BY <2>4, <3>1 DEF ToSet
  <2>6. Grow(v, s) = r
    BY <1>2, <2>3, <2>5 DEF Grow, x
  <2> HIDE DEF n
  <2>7. /\ r \in Seq(Clusts(v)) /\ Len(r) = n + 1 /\ r[n + 1] = x
        /\ \A i \in 1 .. n : r[i] = s[i]
    BY <1>1, <1>4 DEF n
  <2> HIDE DEF r
  <2>8. \A i \in 1 .. n + 1 : i \in 1 .. n \/ i = n + 1
    BY <1>1
  <2>9. PathFrom(v, c, r)
    <3>1. r[1] = c /\ Len(r) # 0
      BY <1>1, <2>7
    <3>2. \A i \in 1 .. Len(r) : Cell(v, r[i]) # 0
      BY <1>1, <2>2, <2>7, <2>8
    <3>3. ASSUME NEW i \in 2 .. Len(r) PROVE Cell(v, r[i - 1]) = r[i]
      <4>1. i - 1 \in 1 .. n /\ (i \in 2 .. n \/ i = n + 1)
        BY <1>1, <2>7
      <4>2. CASE i = n + 1
        <5>1. i - 1 = n
          BY <1>1, <4>2
        <5> QED BY <1>2, <2>1, <2>7, <4>2, <5>1
      <4>3. CASE i \in 2 .. n
        <5>1. i \in 1 .. n
          BY <1>1, <4>3
        <5> QED BY <1>1, <2>7, <4>1, <4>3, <5>1
      <4> QED BY <4>1, <4>2, <4>3
    <3>4. ASSUME NEW i \in 1 .. Len(r), NEW j \in 1 .. Len(r), r[i] = r[j] PROVE i = j
      BY <1>1, <2>4, <2>7, <2>8, <3>4
    <3> QED BY <2>7, <3>1, <3>2, <3>3, <3>4 DEF PathFrom
  <2> QED BY <1>4, <2>6, <2>7, <2>9 DEF n, x
<1> QED BY <1>3, <1>4

\* A chain from a head comes to an end within n_fatent clusters.
LEMMA ChainEnds ==
  ASSUME NEW v, v.n_fatent \in Nat, LinksApart(v), NEW c \in Heads(v)
  PROVE  /\ PathFrom(v, c, Chain(v, c))
         /\ Cell(v, Last(Chain(v, c))) \notin Clusts(v) \union {0}
<1> DEFINE a == IF IsClst(v, c) THEN <<c>> ELSE <<>>
           N == v.n_fatent
           R[n \in 0 .. N] == IF n = 0 THEN a ELSE Grow(v, R[n - 1])
<1>1. R = [n \in 0 .. N |-> IF n = 0 THEN a ELSE Grow(v, R[n - 1])]
  <2> SUFFICES \E f : f = [n \in 0 .. N |-> IF n = 0 THEN a ELSE Grow(v, f[n - 1])]
    OBVIOUS
  <2>1. \A x, i : Step("grow", v, x, i) = Grow(v, x)
    BY DEF Step
  <2> HIDE DEF Step, a
  <2>2. PICK f : Runs(f, "grow", v, a, N)
    BY LoopRuns
  <2>3. f = [n \in 0 .. N |-> IF n = 0 THEN a ELSE Grow(v, f[n - 1])]
    <3>1. f = [n \in 0 .. N |-> IF n = 0 THEN a ELSE Step("grow", v, f[n - 1], n)]
      BY <2>2 DEF Runs
    <3>2. DOMAIN f = 0 .. N /\ \A n \in 0 .. N : f[n] = IF n = 0 THEN a ELSE Grow(v, f[n - 1])
      BY <2>1, <3>1
    <3>3. f = [n \in 0 .. N |-> f[n]]
      BY <3>1
    <3> QED BY <3>2, <3>3
  <2> QED BY <2>3
<1>2. Chain(v, c) = R[N]
  BY DEF Chain, Grow
<1>3. N \in Nat
  OBVIOUS
<1> HIDE DEF R, N
<1>4. R[0] = a /\ \A n \in 1 .. N : R[n] = Grow(v, R[n - 1])
  <2>1. 0 \in 0 .. N /\ \A n \in 1 .. N : n \in 0 .. N /\ n # 0
    BY <1>3
  <2>2. \A n \in 0 .. N : R[n] = IF n = 0 THEN a ELSE Grow(v, R[n - 1])
    BY <1>1, Zenon
  <2> HIDE DEF a
  <2> QED BY <2>1, <2>2
<1>5. a = <<c>> /\ c \in Clusts(v) /\ Cell(v, c) # 0
  BY DEF Heads, IsClst, Clusts
<1> HIDE DEF a
<1>6. PathFrom(v, c, a) /\ Len(a) = 1
  BY <1>5 DEF PathFrom
<1> DEFINE I(n, s) == PathFrom(v, c, s) /\ (Cell(v, Last(s)) \in Clusts(v) => Len(s) = n + 1)
           S == {n \in Nat : n <= N => I(n, R[n])}
<1>7. 0 \in S
  BY <1>4, <1>6
<1>8. \A n \in Nat : n \in S => n + 1 \in S
  <2> SUFFICES ASSUME NEW n \in Nat, n \in S, n + 1 <= N PROVE I(n + 1, R[n + 1])
    OBVIOUS
  <2>1. R[n + 1] = Grow(v, R[n]) /\ I(n, R[n])
    BY <1>3, <1>4
  <2> DEFINE s == R[n]
             r == R[n + 1]
  <2> HIDE DEF s, r
  <2>2. /\ PathFrom(v, c, r)
        /\ Cell(v, Last(s)) \notin Clusts(v) => r = s
        /\ Cell(v, Last(s)) \in Clusts(v) => Len(r) = Len(s) + 1
    BY <2>1, PathGrows DEF s, r
  <2>3. Cell(v, Last(s)) \in Clusts(v) => Len(r) = (n + 1) + 1
    BY <2>1, <2>2 DEF s
  <2>4. Cell(v, Last(r)) \in Clusts(v) => Len(r) = (n + 1) + 1
    BY <2>2, <2>3
  <2> QED BY <2>2, <2>4 DEF r
<1> HIDE DEF S
<1>9. N \in S
  BY <1>3, <1>7, <1>8, Induct
<1> DEFINE s == R[N]
<1>10. I(N, s)
  BY <1>3, <1>9 DEF S
<1> HIDE DEF s
<1>11. s \in Seq(Clusts(v)) /\ Len(s) \in Nat \ {0} /\ \A i \in 1 .. Len(s) : Cell(v, s[i]) # 0
  BY <1>10 DEF PathFrom
<1>12. Cell(v, Last(s)) \notin Clusts(v)
  <2> SUFFICES ASSUME Len(s) = N + 1 PROVE FALSE
    BY <1>10
  <2>1. IsFiniteSet(Clusts(v)) /\ Cardinality(Clusts(v)) <= N
    <3>1. v.n_fatent - 1 \in Int /\ 2 \in Int
      BY <1>3 DEF N
    <3>2. IsFiniteSet(2 .. v.n_fatent - 1)
          /\ Cardinality(2 .. v.n_fatent - 1) = IF 2 > v.n_fatent - 1 THEN 0 ELSE (v.n_fatent - 1) - 2 + 1
      BY <3>1, FS_Interval
    <3> QED BY <1>3, <3>2 DEF Clusts, N
  <2>2. s \in Injection(1 .. N + 1, Clusts(v))
    <3>1. s \in [1 .. N + 1 -> Clusts(v)]
      BY <1>11
    <3>2. \A i, j \in 1 .. N + 1 : s[i] = s[j] => i = j
      BY <1>10 DEF PathFrom
    <3> QED BY <3>1, <3>2 DEF Injection, IsInjective
  <2>3. Cardinality(1 .. N + 1) <= Cardinality(Clusts(v))
    BY <2>1, <2>2, FS_Injection
  <2>4. Cardinality(1 .. N + 1) = N + 1
    BY <1>3, FS_Interval
  <2>5. Cardinality(Clusts(v)) \in Nat
    BY <2>1, FS_CardinalityType
  <2> QED BY <1>3, <2>1, <2>3, <2>4, <2>5
<1>13. Cell(v, Last(s)) # 0
  BY <1>11 DEF Last
<1> QED BY <1>2, <1>10, <1>12, <1>13 DEF s

\* Two paths that meet have the same beginning.
LEMMA PathsApart ==
  ASSUME NEW v, LinksApart(v), NEW c \in Heads(v), NEW d \in Heads(v), c # d,
         NEW s, PathFrom(v, c, s), NEW t, PathFrom(v, d, t)
  PROVE  ToSet(s) \cap ToSet(t) = {}
<1>1. /\ s \in Seq(Clusts(v)) /\ Len(s) \in Nat /\ s[1] = c
      /\ \A i \in 1 .. Len(s) : s[i] \in Clusts(v)
      /\ \A i \in 2 .. Len(s) : Cell(v, s[i - 1]) = s[i]
  BY DEF PathFrom
<1>2. /\ t \in Seq(Clusts(v)) /\ Len(t) \in Nat /\ t[1] = d
      /\ \A i \in 1 .. Len(t) : t[i] \in Clusts(v)
      /\ \A i \in 2 .. Len(t) : Cell(v, t[i - 1]) = t[i]
  BY DEF PathFrom
<1> DEFINE M == {i \in 1 .. Len(s) : \E j \in 1 .. Len(t) : s[i] = t[j]}
<1>3. M = {}
  <2> SUFFICES ASSUME M # {} PROVE FALSE
    OBVIOUS
  <2>1. M \in SUBSET Nat
    BY <1>1
  <2>2. PICK i \in M : \A k \in M : i <= k
    <3> HIDE DEF M
    <3> QED BY <2>1, Least
  <2>3. PICK j \in 1 .. Len(t) : s[i] = t[j]
    OBVIOUS
  <2>4. i \in 1 .. Len(s)
    OBVIOUS
  <2>5. CASE i = 1 /\ j = 1
    BY <1>1, <1>2, <2>3, <2>5
  <2>6. CASE i = 1 /\ j # 1
    <3>1. j \in 2 .. Len(t) /\ j - 1 \in 1 .. Len(t)
      BY <1>2, <2>6
    <3>2. Cell(v, t[j - 1]) = c /\ t[j - 1] \in Clusts(v)
      BY <1>1, <1>2, <2>3, <2>6, <3>1
    <3> QED BY <3>2 DEF Heads
  <2>7. CASE i # 1 /\ j = 1
    <3>1. i \in 2 .. Len(s) /\ i - 1 \in 1 .. Len(s)
      BY <1>1, <2>4, <2>7
    <3>2. Cell(v, s[i - 1]) = d /\ s[i - 1] \in Clusts(v)
      BY <1>1, <1>2, <2>3, <2>7, <3>1
    <3> QED BY <3>2 DEF Heads
  <2>8. CASE i # 1 /\ j # 1
    <3>1. i \in 2 .. Len(s) /\ i - 1 \in 1 .. Len(s) /\ j \in 2 .. Len(t) /\ j - 1 \in 1 .. Len(t)
      BY <1>1, <1>2, <2>4, <2>8
    <3> DEFINE x == s[i - 1]
               y == t[j - 1]
               z == s[i]
    <3>2. x \in Clusts(v) /\ y \in Clusts(v) /\ Cell(v, x) = z /\ Cell(v, y) = z /\ z \in Clusts(v)
      BY <1>1, <1>2, <2>3, <2>4, <3>1
    <3> HIDE DEF x, y, z
    <3>3. x = y
      BY <3>2 DEF LinksApart
    <3>4. i - 1 \in M
      BY <3>1, <3>3 DEF x, y
    <3> QED BY <2>2, <2>4, <3>4
  <2> QED BY <2>5, <2>6, <2>7, <2>8
<1>4. DOMAIN s = 1 .. Len(s) /\ DOMAIN t = 1 .. Len(t)
  BY <1>1, <1>2
<1> QED BY <1>3, <1>4 DEF ToSet

\* What of ChainsSound concerns the FAT holds for any number of losses of power: no chain runs in a circle
\* or into a free cluster, and no two chains share a cluster, at every moment.
THEOREM EnclaveChains == Spec => []ChainsEnd
<1>1. EInv => ChainsEnd
  <2> SUFFICES ASSUME EInv, NEW v, v = OnCard(card), v.fs_type # 0
               PROVE  /\ \A c \in Heads(v) : /\ PathFrom(v, c, Chain(v, c))
                                             /\ Cell(v, Last(Chain(v, c))) \notin Clusts(v) \union {0}
                      /\ \A c, d \in Heads(v) : c # d => ToSet(Chain(v, c)) \cap ToSet(Chain(v, d)) = {}
    BY DEF ChainsEnd
  <2>1. SoundCard(card)
    BY DEF EInv
  <2>2. LinksApart(v)
    BY <2>1 DEF SoundCard
  <2>3. v.n_fatent \in Nat
    <3> DEFINE g == Geometry(v)
    <3>1. Mountable(card)
      BY Boots
    <3>2. Shape(g)
      BY <2>1, <3>1, SoundGeometry
    <3>3. g.n_fatent = v.n_fatent
      BY DEF Geometry
    <3> HIDE DEF g
    <3> QED BY <3>2, <3>3 DEF Shape
  <2>4. \A c \in Heads(v) : /\ PathFrom(v, c, Chain(v, c))
                            /\ Cell(v, Last(Chain(v, c))) \notin Clusts(v) \union {0}
    BY <2>2, <2>3, ChainEnds
  <2>5. \A c, d \in Heads(v) : c # d => ToSet(Chain(v, c)) \cap ToSet(Chain(v, d)) = {}
    BY <2>2, <2>4, PathsApart
  <2> QED BY <2>4, <2>5
<1> QED BY <1>1, EnclaveInv, PTL
=============================================================================
