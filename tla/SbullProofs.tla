----------------------------- MODULE SbullProofs -----------------------------
(***************************************************************************)
(* Theorems about module Sbull: both RAM disks, any submitters and bios,   *)
(* any interleaving of bios, set-up and removal.                           *)
(***************************************************************************)
EXTENDS Sbull, TLAPS, WellFoundedInduction

(***************************************************************************)
(* Induction over data, first-order: a set of naturals has a least member. *)
(***************************************************************************)
LEMMA LeastOf == ASSUME NEW T \in SUBSET Nat, T # {} PROVE \E x \in T : \A y \in T : x <= y
  <1> DEFINE R == OpToRel(<, Nat)
  <1>1. IsWellFoundedOn(R, Nat)
    BY NatLessThanWellFounded
  <1>2. \A x, y \in Nat : x < y => <<x, y>> \in R
    BY DEF OpToRel
  <1> HIDE DEF R
  <1>3. PICK x \in T : \A y \in T : ~(<<y, x>> \in R)
    BY <1>1, WFMin
  <1>4. ASSUME NEW y \in T PROVE x <= y
    <2>1. x \in Nat /\ y \in Nat /\ ~(y < x)
      BY <1>2, <1>3
    <2> QED
      BY <2>1
  <1> QED
    BY <1>4

LEMMA FromTheEnd ==
  ASSUME NEW N \in Nat, NEW S,
         \A n \in 1 .. N : (\A m \in 1 .. N : m > n => m \in S) => n \in S
  PROVE  1 .. N \subseteq S
  <1> SUFFICES ASSUME NEW x \in 1 .. N, x \notin S PROVE FALSE
    OBVIOUS
  <1> DEFINE T == {j \in 0 .. N : N - j \in (1 .. N) \ S}
  <1>1. T \in SUBSET Nat /\ N - x \in T
    OBVIOUS
  <1>2. PICK j \in T : \A i \in T : j <= i
    BY <1>1, LeastOf
  <1>3. ASSUME NEW m \in 1 .. N, m > N - j PROVE m \in S
    <2>1. N - m \in 0 .. N /\ N - (N - m) = m /\ ~(j <= N - m)
      BY <1>1, <1>2, <1>3
    <2> QED
      BY <1>2, <2>1
  <1> QED
    BY <1>2, <1>3

-----------------------------------------------------------------------------
IsWalk(f, nx) == f = [n \in DOMAIN nx |-> IF n = 0 THEN << >> ELSE <<n>> \o f[nx[n]]]

Forward(nx, N) ==
  /\ nx \in [0 .. N -> 0 .. N]
  /\ \A n \in 1 .. N : nx[n] = 0 \/ nx[n] > n

LEMMA WalkValues ==
  ASSUME NEW d, NEW nx, NEW f,
         f = [n \in d |-> IF n = 0 THEN << >> ELSE <<n>> \o f[nx[n]]]
  PROVE  \A n \in d : f[n] = IF n = 0 THEN << >> ELSE <<n>> \o f[nx[n]]
  <1> DEFINE h(n) == IF n = 0 THEN << >> ELSE <<n>> \o f[nx[n]]
  <1>1. f = [n \in d |-> h(n)]
    OBVIOUS
  <1>2. \A n \in d : f[n] = h(n)
    <2> HIDE DEF h
    <2> QED
      BY <1>1
  <1> QED
    BY <1>2

LEMMA WalkExists ==
  ASSUME NEW N \in Nat, NEW nx, Forward(nx, N)
  PROVE  \E f : IsWalk(f, nx)
  <1> DEFINE D(n) == {0} \cup n .. N
             Fits(f, d) == f = [i \in d |-> IF i = 0 THEN << >> ELSE <<i>> \o f[nx[i]]]
             S == {n \in 1 .. N : \E f : Fits(f, D(n))}
  <1>1. ASSUME NEW n \in 1 .. N, \A m \in 1 .. N : m > n => m \in S PROVE n \in S
    <2>1. PICK g : Fits(g, D(n + 1))
      <3>1. CASE n = N
        <4> DEFINE f == [i \in {0} |-> << >>]
        <4>1. D(n + 1) = {0}
          BY <3>1
        <4>2. Fits(f, {0})
          OBVIOUS
        <4> QED
          BY <4>1, <4>2
      <3>2. CASE n # N
        <4>1. n + 1 \in 1 .. N /\ n + 1 > n
          BY <3>2
        <4> QED
          BY <1>1, <4>1
      <3> QED
        BY <3>1, <3>2
    <2> DEFINE f == [i \in D(n) |-> IF i = 0 THEN << >> ELSE <<i>> \o g[nx[i]]]
    <2>2. \A i \in D(n) : i # 0 => nx[i] \in D(n + 1)
      BY DEF Forward
    <2>3. \A i \in D(n + 1) : i \in D(n) /\ f[i] = g[i]
      <3>1. \A i \in D(n + 1) : i \in D(n)
        OBVIOUS
      <3>2. \A i \in D(n + 1) : g[i] = IF i = 0 THEN << >> ELSE <<i>> \o g[nx[i]]
        <4> HIDE DEF D
        <4> QED
          BY <2>1, WalkValues
      <3> QED
        BY <3>1, <3>2
    <2>4. Fits(f, D(n))
      <3> HIDE DEF f
      <3>1. \A i \in D(n) : i # 0 => f[nx[i]] = g[nx[i]]
        BY <2>2, <2>3
      <3>2. f = [i \in D(n) |-> IF i = 0 THEN << >> ELSE <<i>> \o g[nx[i]]]
        BY DEF f
      <3> QED
        BY <3>1, <3>2
    <2> QED
      BY <2>4
  <1>2. 1 .. N \subseteq S
    <2> HIDE DEF S
    <2> QED
      BY <1>1, FromTheEnd
  <1>3. CASE N = 0
    <2> DEFINE f == [i \in {0} |-> << >>]
    <2>1. DOMAIN nx = {0}
      BY <1>3 DEF Forward
    <2>2. IsWalk(f, nx)
      BY <2>1 DEF IsWalk
    <2> QED
      BY <2>2
  <1>4. CASE N # 0
    <2>0. 1 \in S
      <3> HIDE DEF S
      <3> QED
        BY <1>2, <1>4
    <2>1. PICK f : Fits(f, D(1))
      BY <2>0
    <2>2. D(1) = DOMAIN nx
      BY <1>4 DEF Forward
    <2>3. IsWalk(f, nx)
      BY <2>1, <2>2 DEF IsWalk
    <2> QED
      BY <2>3
  <1> QED
    BY <1>3, <1>4

WalkOf(nx) == CHOOSE f : IsWalk(f, nx)

LEMMA WalkStep ==
  ASSUME NEW N \in Nat, NEW nx, Forward(nx, N)
  PROVE  /\ WalkOf(nx)[0] = << >>
         /\ \A n \in 1 .. N : WalkOf(nx)[n] = <<n>> \o WalkOf(nx)[nx[n]]
  <1>1. IsWalk(WalkOf(nx), nx)
    BY WalkExists DEF WalkOf
  <1>2. DOMAIN nx = 0 .. N
    BY DEF Forward
  <1> HIDE DEF WalkOf
  <1> DEFINE w == WalkOf(nx)
  <1>3. w = [n \in 0 .. N |-> IF n = 0 THEN << >> ELSE <<n>> \o w[nx[n]]]
    BY <1>1, <1>2 DEF IsWalk
  <1> HIDE DEF w
  <1>4. \A n \in 0 .. N : w[n] = IF n = 0 THEN << >> ELSE <<n>> \o w[nx[n]]
    BY <1>3, WalkValues
  <1>5. /\ w[0] = << >>
        /\ \A n \in 1 .. N : w[n] = <<n>> \o w[nx[n]]
    <2>1. 0 \in 0 .. N /\ \A n \in 1 .. N : n \in 0 .. N /\ n # 0
      OBVIOUS
    <2> QED
      BY <1>4, <2>1, Zenon
  <1> QED
    BY <1>5 DEF w

Listed(s) == {s[i] : i \in 1 .. Len(s)}

LEMMA Prepended ==
  ASSUME NEW S, NEW e \in S, NEW s \in Seq(S), NEW c, c = <<e>> \o s
  PROVE  /\ c \in Seq(S) /\ Len(c) = Len(s) + 1 /\ Len(s) \in Nat
         /\ c[1] = e /\ \A i \in 1 .. Len(s) : c[i + 1] = s[i]
         /\ \A i \in 2 .. Len(c) : c[i] = s[i - 1]
  <1>1. /\ c \in Seq(S) /\ Len(c) = Len(s) + 1 /\ Len(s) \in Nat
        /\ c[1] = e /\ \A i \in 1 .. Len(s) : c[i + 1] = s[i]
    OBVIOUS
  <1>2. \A i \in 2 .. Len(c) : c[i] = s[i - 1]
    BY <1>1
  <1> QED
    BY <1>1, <1>2

LEMMA PrependedEnd ==
  ASSUME NEW S, NEW e \in S, NEW s \in Seq(S), NEW c, c = <<e>> \o s
  PROVE  /\ c # << >>
         /\ s = << >> => c[Len(c)] = e
         /\ s # << >> => c[Len(c)] = s[Len(s)]
  <1>1. /\ Len(c) = Len(s) + 1 /\ Len(s) \in Nat /\ c[1] = e
        /\ \A i \in 2 .. Len(c) : c[i] = s[i - 1]
    BY Prepended
  <1>2. s = << >> <=> Len(s) = 0
    OBVIOUS
  <1>3. CASE Len(s) = 0
    BY <1>1, <1>2, <1>3
  <1>4. CASE Len(s) # 0
    BY <1>1, <1>2, <1>4
  <1> QED
    BY <1>3, <1>4

LEMMA PrependedSet ==
  ASSUME NEW S, NEW e \in S, NEW s \in Seq(S), NEW c, c = <<e>> \o s
  PROVE  \A x : x \in Listed(c) <=> x = e \/ x \in Listed(s)
  <1>1. /\ Len(c) = Len(s) + 1 /\ Len(s) \in Nat /\ c[1] = e
        /\ \A i \in 1 .. Len(s) : c[i + 1] = s[i]
        /\ \A i \in 2 .. Len(c) : c[i] = s[i - 1]
    BY Prepended
  <1>2. ASSUME NEW x \in Listed(c) PROVE x = e \/ x \in Listed(s)
    <2>1. PICK i \in 1 .. Len(c) : x = c[i]
      BY DEF Listed
    <2>2. CASE i = 1
      BY <1>1, <2>1, <2>2
    <2>3. CASE i # 1
      <3>1. i \in 2 .. Len(c) /\ i - 1 \in 1 .. Len(s)
        BY <1>1, <2>3
      <3>2. x = s[i - 1]
        BY <1>1, <2>1, <3>1
      <3> QED
        BY <3>1, <3>2 DEF Listed
    <2> QED
      BY <2>2, <2>3
  <1>3. e \in Listed(c)
    <2>1. 1 \in 1 .. Len(c)
      BY <1>1
    <2> QED
      BY <1>1, <2>1 DEF Listed
  <1>4. ASSUME NEW x \in Listed(s) PROVE x \in Listed(c)
    <2>1. PICK i \in 1 .. Len(s) : x = s[i]
      BY DEF Listed
    <2>2. i + 1 \in 1 .. Len(c) /\ c[i + 1] = x
      BY <1>1, <2>1
    <2> QED
      BY <2>2 DEF Listed
  <1> QED
    BY <1>2, <1>3, <1>4

LEMMA WalkTypes ==
  ASSUME NEW N \in Nat, NEW nx, Forward(nx, N)
  PROVE  \A n \in 0 .. N : WalkOf(nx)[n] \in Seq(1 .. N)
  <1> DEFINE w == WalkOf(nx)
             S == {n \in 1 .. N : w[n] \in Seq(1 .. N)}
  <1>0. /\ w[0] = << >>
        /\ \A n \in 1 .. N : w[n] = <<n>> \o w[nx[n]]
    BY WalkStep
  <1> HIDE DEF w
  <1>1. ASSUME NEW n \in 1 .. N, \A m \in 1 .. N : m > n => m \in S PROVE n \in S
    <2>1. nx[n] = 0 \/ (nx[n] \in 1 .. N /\ nx[n] > n)
      BY DEF Forward
    <2>2. w[nx[n]] \in Seq(1 .. N)
      <3>1. w[0] \in Seq(1 .. N)
        BY <1>0
      <3>2. nx[n] # 0 => nx[n] \in S
        BY <1>1, <2>1
      <3> QED
        BY <2>1, <3>1, <3>2
    <2>3. <<n>> \o w[nx[n]] \in Seq(1 .. N)
      BY <2>2, Prepended
    <2> QED
      BY <1>0, <2>3
  <1>2. 1 .. N \subseteq S
    <2> HIDE DEF S
    <2> QED
      BY <1>1, FromTheEnd
  <1>3. \A n \in 0 .. N : w[n] \in Seq(1 .. N)
    <2> SUFFICES ASSUME NEW n \in 0 .. N PROVE w[n] \in Seq(1 .. N)
      OBVIOUS
    <2>1. n = 0 \/ n \in 1 .. N
      OBVIOUS
    <2>2. w[0] \in Seq(1 .. N)
      BY <1>0
    <2>3. n \in 1 .. N => n \in S
      BY <1>2
    <2> QED
      BY <2>1, <2>2, <2>3
  <1> QED
    BY <1>3 DEF w

Ascending(nx, L) ==
  \A n \in {0} \cup L :
    /\ nx[n] \in {0} \cup L
    /\ nx[n] = 0 \/ nx[n] > n
    /\ \A m \in L : m > n => nx[n] # 0 /\ nx[n] <= m

Topmost(L, e) == e \in {0} \cup L /\ \A m \in L : m <= e

LEMMA WalkCovers ==
  ASSUME NEW N \in Nat, NEW nx, Forward(nx, N), NEW L \in SUBSET (1 .. N), Ascending(nx, L),
         NEW w, w = WalkOf(nx), NEW c, c = w[nx[0]]
  PROVE  Listed(c) = L /\ (c = << >> <=> L = {}) /\ (c # << >> => Topmost(L, c[Len(c)]))
  <1> DEFINE Above(n) == {m \in L : m >= n}
             S == {n \in 1 .. N : n \in L => /\ Listed(w[n]) = Above(n) /\ w[n] # << >>
                                              /\ w[n][Len(w[n])] \in L
                                              /\ \A m \in L : m <= w[n][Len(w[n])]}
  <1>0. /\ w[0] = << >>
        /\ \A n \in 1 .. N : w[n] = <<n>> \o w[nx[n]]
        /\ \A n \in 0 .. N : w[n] \in Seq(1 .. N)
    BY WalkStep, WalkTypes, Zenon
  <1>L. \A m \in L : m \in Int
    OBVIOUS
  <1>a. Listed(w[0]) = {}
    BY <1>0 DEF Listed
  <1>1. ASSUME NEW n \in 1 .. N, \A m \in 1 .. N : m > n => m \in S PROVE n \in S
    <2> SUFFICES ASSUME n \in L
                 PROVE  /\ Listed(w[n]) = Above(n) /\ w[n] # << >>
                        /\ w[n][Len(w[n])] \in L
                        /\ \A m \in L : m <= w[n][Len(w[n])]
      OBVIOUS
    <2>1. /\ nx[n] = 0 \/ (nx[n] \in L /\ nx[n] > n)
          /\ \A m \in L : m > n => nx[n] # 0 /\ nx[n] <= m
      <3> HIDE DEF Above, S
      <3> QED
        BY DEF Ascending
    <2>2. w[nx[n]] \in Seq(1 .. N)
      <3> HIDE DEF Above, S
      <3>1. nx[n] \in 0 .. N
        BY DEF Forward
      <3> QED
        BY <1>0, <3>1
    <2>3. /\ Listed(w[n]) = {n} \cup Listed(w[nx[n]])
          /\ w[n] # << >>
          /\ w[nx[n]] = << >> => w[n][Len(w[n])] = n
          /\ w[nx[n]] # << >> => w[n][Len(w[n])] = w[nx[n]][Len(w[nx[n]])]
      <3> HIDE DEF Above, S
      <3>1. w[n] = <<n>> \o w[nx[n]]
        BY <1>0
      <3>2. PICK d, s : d = w[n] /\ s = w[nx[n]]
        OBVIOUS
      <3>3. s \in Seq(1 .. N) /\ d = <<n>> \o s
        BY <2>2, <3>1, <3>2
      <3>4. /\ d # << >>
            /\ s = << >> => d[Len(d)] = n
            /\ s # << >> => d[Len(d)] = s[Len(s)]
        BY <3>3, PrependedEnd
      <3>5. \A x : x \in Listed(d) <=> x = n \/ x \in Listed(s)
        BY <3>3, PrependedSet
      <3> QED
        BY <3>2, <3>4, <3>5
    <2>4. CASE nx[n] = 0
      <3>1. \A m \in L : m <= n
        BY <2>1, <2>4
      <3>2. Above(n) = {n}
        <4>1. \A m \in L : m >= n <=> m = n
          BY <3>1, <1>L
        <4> QED
          BY <4>1
      <3> QED
        BY <1>0, <1>a, <2>3, <2>4, <3>1, <3>2
    <2>5. CASE nx[n] # 0
      <3>1. nx[n] \in S /\ nx[n] \in L /\ nx[n] > n
        BY <1>1, <2>1, <2>5
      <3>2. Above(n) = {n} \cup Above(nx[n])
        <4>1. \A m \in L : m >= n <=> m = n \/ m >= nx[n]
          BY <2>1, <3>1, <1>L
        <4> QED
          BY <4>1
      <3> QED
        BY <2>3, <3>1, <3>2
    <2> QED
      BY <2>4, <2>5
  <1>2. 1 .. N \subseteq S
    <2> HIDE DEF S
    <2> QED
      BY <1>1, FromTheEnd
  <1>3. /\ nx[0] \in {0} \cup L
        /\ \A m \in L : nx[0] # 0 /\ nx[0] <= m
    BY DEF Ascending
  <1>4. CASE nx[0] = 0
    <2>1. L = {}
      BY <1>3, <1>4
    <2> QED
      BY <1>0, <1>a, <1>4, <2>1 
  <1>5. CASE nx[0] # 0
    <2>1. nx[0] \in L /\ nx[0] \in S /\ Above(nx[0]) = L
      BY <1>2, <1>3, <1>5
    <2> QED
      BY <2>1 DEF Topmost
  <1> QED
    BY <1>4, <1>5
-----------------------------------------------------------------------------
(* sbull_find_list in terms of the pointers it follows.                    *)
FirstOf(c, b, s) ==
  LET hits == {i \in 1 .. Len(c) : b[c[i]].idx = s}
  IN IF hits = {} THEN 0 ELSE c[CHOOSE i \in hits : \A j \in hits : i <= j]

FindIn(nx, b, s) == FirstOf(WalkOf(nx)[nx[0]], b, s)

LEMMA LookupIs ==
  ASSUME NEW s
  PROVE  /\ sbull_find_list(s) = FindIn(next, blocks, s)
         /\ sbull_find_list(s)' = FindIn(next', blocks', s)
         /\ Chain = WalkOf(next)[next[0]] /\ Chain' = WalkOf(next')[next'[0]]
  BY DEF sbull_find_list, FindIn, FirstOf, Chain, ListFrom, WalkOf, IsWalk

LEMMA FirstHit ==
  ASSUME NEW N \in Nat, NEW c \in Seq(1 .. N), NEW b, NEW s, NEW f, f = FirstOf(c, b, s)
  PROVE  /\ f = 0 \/ (f \in 1 .. N /\ f \in Listed(c) /\ b[f].idx = s)
         /\ f = 0 => \A n \in Listed(c) : b[n].idx # s
  <1> DEFINE hits == {i \in 1 .. Len(c) : b[c[i]].idx = s}
  <1>0. f = IF hits = {} THEN 0 ELSE c[CHOOSE i \in hits : \A j \in hits : i <= j]
    BY DEF FirstOf
  <1>1. CASE hits = {}
    <2>1. \A n \in Listed(c) : b[n].idx # s
      BY <1>1 DEF Listed
    <2> QED
      BY <1>0, <1>1, <2>1
  <1>2. CASE hits # {}
    <2>1. hits \in SUBSET Nat
      OBVIOUS
    <2>2. PICK i \in hits : \A j \in hits : i <= j
      BY <1>2, <2>1, LeastOf
    <2>3. PICK e : e = CHOOSE h \in hits : \A j \in hits : h <= j
      OBVIOUS
    <2>4. e \in hits
      BY <2>2, <2>3
    <2>5. f = c[e]
      BY <1>0, <1>2, <2>3
    <2>6. e \in 1 .. Len(c) /\ b[c[e]].idx = s
      BY <2>4
    <2>7. c[e] \in 1 .. N /\ c[e] \in Listed(c)
      BY <2>6 DEF Listed
    <2>8. f \in 1 .. N /\ f \in Listed(c)
      BY <2>5, <2>7
    <2>9. b[f].idx = s
      BY <2>5, <2>6
    <2> QED
      BY <2>8, <2>9
  <1> QED
    BY <1>1, <1>2

LEMMA Lookup ==
  ASSUME NEW N \in Nat, NEW nx, Forward(nx, N), NEW b, NEW s, NEW f, f = FindIn(nx, b, s)
  PROVE  f = 0 \/ (f \in 1 .. N /\ b[f].idx = s)
  <1>1. PICK c : c = WalkOf(nx)[nx[0]]
    OBVIOUS
  <1>2. c \in Seq(1 .. N)
    <2>1. nx[0] \in 0 .. N
      BY DEF Forward
    <2> QED
      BY <1>1, <2>1, WalkTypes
  <1>4. f = FirstOf(c, b, s)
    BY <1>1 DEF FindIn
  <1> QED
    BY <1>2, <1>4, FirstHit

Ordered(nx, N, L) == N \in Nat /\ L \in SUBSET (1 .. N) /\ Forward(nx, N) /\ Ascending(nx, L)

LEMMA LookupInOrder ==
  ASSUME NEW N, NEW nx, NEW L, Ordered(nx, N, L), NEW b, NEW s
  PROVE  /\ FindIn(nx, b, s) = 0 \/ (FindIn(nx, b, s) \in L /\ b[FindIn(nx, b, s)].idx = s)
         /\ FindIn(nx, b, s) = 0 => \A n \in L : b[n].idx # s
  <1>0. /\ N \in Nat /\ L \in SUBSET (1 .. N) /\ Forward(nx, N) /\ Ascending(nx, L)
    BY DEF Ordered
  <1>f. PICK f : f = FindIn(nx, b, s)
    OBVIOUS
  <1>1. PICK c, w : w = WalkOf(nx) /\ c = w[nx[0]]
    OBVIOUS
  <1>2. c \in Seq(1 .. N)
    <2>1. nx[0] \in 0 .. N
      BY <1>0 DEF Forward
    <2> QED
      BY <1>0, <1>1, <2>1, WalkTypes
  <1>4. f = FirstOf(c, b, s)
    BY <1>1, <1>f DEF FindIn
  <1>5. Listed(c) = L
    BY <1>0, <1>1, WalkCovers
  <1>6. /\ f = 0 \/ (f \in 1 .. N /\ f \in Listed(c) /\ b[f].idx = s)
        /\ f = 0 => \A n \in Listed(c) : b[n].idx # s
    BY <1>0, <1>2, <1>4, FirstHit
  <1> QED
    BY <1>f, <1>5, <1>6
-----------------------------------------------------------------------------
(***************************************************************************)
(* The inductive invariant.                                                *)
(***************************************************************************)
Mods == {"absent", "vmalloc", "alloc_disk", "add_disk", "live",
         "free_list", "del_gendisk", "drain", "vfree", "gone"}
Removing == {"free_list", "del_gendisk", "drain", "vfree", "gone"}
Stages == {"idle", "seg", "find", "add", "link", "publish", "copy", "end"}
Inside == {"find", "add", "link", "publish", "copy"}
Owning == {"link", "publish"}
Nodes == 1 .. Len(blocks)
Values == {Unset, Foreign} \cup ((1 .. MaxBios) \X Sectors)
Blocks == [idx : Sectors, buf : [0 .. PAGE - 1 -> Values]]

ModTypes ==
  /\ driver \in Drivers /\ mod \in Mods
  /\ array \in {"none", "allocated", "freed"} /\ gendisk \in {"none", "allocated", "added"}
  /\ users \in {0, 1} /\ count \in 0 .. MaxBios

ListTypes ==
  /\ blocks \in Seq(Blocks)
  /\ next \in [0 .. Len(blocks) -> 0 .. Len(blocks)]
  /\ back \in [0 .. Len(blocks) -> 0 .. Len(blocks)]
  /\ freed \in SUBSET Nodes
  /\ walk \in (0 .. Len(blocks)) \X (0 .. Len(blocks))
  /\ node \in [Submitters -> 0 .. Len(blocks)]
  /\ prev \in [Submitters -> 0 .. Len(blocks)]

BioTypes ==
  /\ stage \in [Submitters -> Stages]
  /\ k \in [Submitters -> Nat] /\ id \in [Submitters -> 0 .. MaxBios]
  /\ bio = [t \in Submitters |-> bio[t]]

DataTypes ==
  /\ disk \in [Sectors -> Values] /\ last \in [Sectors -> Values]
  /\ got \in [Submitters -> [Sectors -> Values]]

SbullTypeOK == ModTypes /\ ListTypes /\ BioTypes /\ DataTypes

(* What a submission under way has made sure of.                           *)
UnderWay(t) ==
  /\ bio[t] \in Bios /\ id[t] \in 1 .. MaxBios /\ users = 1
  /\ k[t] \in 1 .. Len(bio[t].segs) + 1
  /\ stage[t] = "end" <=> k[t] = Len(bio[t].segs) + 1

HasBlock(t) == stage[t] \in Owning \/ (stage[t] = "copy" /\ driver = "sbull2")

BioOK(t) ==
  /\ Busy(t) => UnderWay(t)
  /\ ~Busy(t) => k[t] = 1
  /\ driver = "sbull" => stage[t] \in {"idle", "seg", "copy", "end"}
  /\ stage[t] \in Inside => Sector(t) + CurSectors(t) <= nsectors
  /\ HasBlock(t) => node[t] \in Nodes /\ blocks[node[t]].idx = Sector(t)

BiosOK == \A t \in Submitters : BioOK(t)

AllRegular == ~irregular => \A t \in Submitters : Busy(t) => Regular(bio[t])

(* What set-up and removal have reached, and who may be where then.        *)
Lifecycle ==
  /\ users = 1 => gendisk = "added" /\ mod \in {"live"} \cup Removing
  /\ mod \in Removing /\ ~torn => users = 0
  /\ torn => mod \in Removing
  /\ mod \in {"vfree", "gone"} => \A t \in Submitters : ~Busy(t)
  /\ mod \in {"live"} \cup Removing /\ ~botched => gendisk = "added"
  /\ gendisk = "added" => mod \in {"live"} \cup Removing
  /\ array = "freed" => mod \in {"live"} \cup Removing
  /\ array = "freed" /\ mod # "gone" => botched /\ gendisk # "added"
  /\ driver = "sbull2" => array = "none" /\ mod # "vmalloc"
  /\ freed # {} => driver = "sbull2" /\ mod \in Removing
  /\ driver = "sbull" => mod # "free_list"
  /\ mod = "gone" => array # "allocated"
  /\ oops => botched \/ torn

(* The pointers of the list, whether or not blocks have been lost.         *)
PointersMatch ==
  /\ \A n \in Nodes : (next[n] = 0 \/ next[n] > n) /\ back[n] < n
  /\ \A n \in (0 .. Len(blocks)) \ freed :
       next[n] # 0 => next[n] \notin freed /\ back[next[n]] = n

FreshBlock(t) ==
  stage[t] \in Owning =>
    /\ node[t] \in Nodes \ freed /\ prev[t] < node[t]
    /\ \A n \in 0 .. Len(blocks) : next[n] # node[t]
    /\ \A u \in Submitters : stage[u] \in Owning /\ node[u] = node[t] => u = t
    /\ stage[t] = "publish" => back[node[t]] = prev[t]

WalkOK ==
  mod = "free_list" =>
    /\ walk[1] # 0 =>
         /\ walk[1] \notin freed
         /\ walk[2] = 0 \/ (walk[2] > walk[1] /\ walk[2] \notin freed)
         /\ \A t \in Submitters : stage[t] \in Owning => node[t] # walk[1] /\ node[t] # walk[2]
    /\ ~torn => walk[1] = next[0] /\ (walk[1] # 0 => walk[2] = next[walk[1]])

Shape == PointersMatch /\ (\A t \in Submitters : FreshBlock(t)) /\ WalkOK

Basics == SbullTypeOK /\ BiosOK /\ Lifecycle /\ Shape

-----------------------------------------------------------------------------
(* Facts about bios.                                                       *)
LEMMA BioShape ==
  ASSUME NEW b \in Bios
  PROVE  /\ Len(b.segs) \in Nat \ {0}
         /\ \A i \in 1 .. Len(b.segs) :
              /\ b.segs[i].at \in Nat /\ b.segs[i].len \in 1 .. PAGE
              /\ b.segs[i].at + b.segs[i].len <= nsectors
              /\ i > 1 => b.segs[i].at = b.segs[i - 1].at + b.segs[i - 1].len
         /\ nsectors \in Nat /\ PAGE \in Nat \ {0}
  <1>1. /\ b.segs \in Seq([at : Nat, len : 1 .. PAGE]) /\ b.segs # << >>
        /\ nsectors \in Nat /\ PAGE \in Nat \ {0}
    BY SbullAssumption
  <1>2. Len(b.segs) \in Nat /\ Len(b.segs) # 0
    BY <1>1
  <1>3. ASSUME NEW i \in 1 .. Len(b.segs)
        PROVE  b.segs[i].at \in Nat /\ b.segs[i].len \in 1 .. PAGE
    <2>1. PICK R, q : R = [at : Nat, len : 1 .. PAGE] /\ q = b.segs
      OBVIOUS
    <2>2. q \in Seq(R) /\ i \in 1 .. Len(q)
      BY <1>1, <2>1
    <2>3. q[i] \in R
      BY <2>2
    <2>4. b.segs[i] \in [at : Nat, len : 1 .. PAGE]
      BY <2>1, <2>3
    <2> QED
      BY <2>4
  <1>4. \A i \in 1 .. Len(b.segs) :
          /\ b.segs[i].at + b.segs[i].len <= nsectors
          /\ i > 1 => b.segs[i].at = b.segs[i - 1].at + b.segs[i - 1].len
    BY SbullAssumption
  <1> QED
    BY <1>1, <1>2, <1>3, <1>4

LEMMA SectorFacts ==
  ASSUME NEW t \in Submitters, bio[t] \in Bios, k[t] \in Nat \ {0}
  PROVE  Sector(t) \in Nat /\ CurSectors(t) \in 1 .. PAGE /\ PAGE \in Nat /\ nsectors \in Nat
  <1>1. /\ bio[t].segs[1].at \in Nat /\ bio[t].segs[1].len \in 1 .. PAGE
        /\ nsectors \in Nat /\ PAGE \in Nat \ {0}
    BY BioShape
  <1>2. \A x, y \in Nat : x * y \in Nat
    OBVIOUS
  <1>3. (k[t] - 1) * bio[t].segs[1].len \in Nat
    <2>1. k[t] - 1 \in Nat /\ bio[t].segs[1].len \in Nat
      BY <1>1
    <2> QED
      BY <1>2, <2>1
  <1> QED
    BY <1>1, <1>3 DEF Sector, CurSectors

-----------------------------------------------------------------------------
ModuleStep ==
  sbull_init \/ setup_device \/ sbull_open \/ sbull_release \/ Removal

BioStep(t) == Submit(t) \/ Submission(t)

LEMMA NextIs == Next <=> ~oops /\ (ModuleStep \/ \E t \in Submitters : BioStep(t))
  BY DEF Next, ModuleStep, BioStep

(* Set-up and removal leave the bios alone, and all but FreeList the list. *)
LEMMA ModuleKeeps ==
  ASSUME ModuleStep
  PROVE  /\ UNCHANGED <<driver, disk, blocks, bio, id, k, stage, node, prev, got, count, last>>
         /\ UNCHANGED <<irregular, overlapped, raced, starved>>
         /\ (mod = "free_list" /\ FreeList) \/ UNCHANGED <<next, back, freed>>
  BY DEF ModuleStep, sbull_init, setup_device, Vmalloc, OutVfree, BlkAllocDisk, AddDisk, sbull_open,
         sbull_release, Removal, sbull_exit, FreeList, DelGendisk, Drained, Vfree,
         unloaded, store, bioVars, hist

LEMMA FreeListKeeps ==
  ASSUME FreeList
  PROVE  /\ UNCHANGED <<disk, blocks, bio, id, k, stage, node, prev, got, count, last>>
         /\ UNCHANGED <<driver, array, gendisk, users, botched, torn>>
         /\ UNCHANGED <<irregular, overlapped, raced, starved>>
  BY DEF FreeList, bioVars, hist

(* A step of one bio leaves the others, and the module, alone.             *)
LEMMA BioKeeps ==
  ASSUME BioTypes, ListTypes, DataTypes, NEW t \in Submitters, BioStep(t)
  PROVE  /\ \A u \in Submitters \ {t} :
              /\ bio'[u] = bio[u] /\ id'[u] = id[u] /\ k'[u] = k[u] /\ stage'[u] = stage[u]
              /\ node'[u] = node[u] /\ prev'[u] = prev[u] /\ got'[u] = got[u]
         /\ UNCHANGED <<driver, mod, array, gendisk, users, freed, walk, botched, torn>>
  <1> USE DEF device, store, hist, bioVars, BioTypes, ListTypes, DataTypes
  <1>1. CASE Submit(t)
    BY <1>1 DEF Submit
  <1>2. CASE Transfer(t)
    BY <1>2 DEF Transfer, NextSeg
  <1>3. CASE Find(t)
    BY <1>3 DEF Find, NextSeg
  <1>4. CASE Allocate(t)
    BY <1>4 DEF Allocate
  <1>5. CASE Link(t)
    BY <1>5 DEF Link
  <1>6. CASE Publish(t)
    BY <1>6 DEF Publish
  <1>7. CASE Copy(t)
    BY <1>7 DEF Copy, NextSeg, Read
  <1>8. CASE UseAfterFree(t)
    BY <1>8 DEF UseAfterFree
  <1>9. CASE EndIo(t)
    BY <1>9 DEF EndIo, NoLocals
  <1> QED
    BY <1>1, <1>2, <1>3, <1>4, <1>5, <1>6, <1>7, <1>8, <1>9 DEF BioStep, Submission

LEMMA InitBasics == ASSUME Init PROVE Basics
  <1> USE DEF Init
  <1>0. nsectors \in Nat /\ PAGE \in Nat \ {0} /\ MaxBios \in Nat
    BY SbullAssumption
  <1>1. Len(blocks) = 0 /\ Nodes = {}
    BY DEF Nodes
  <1>2. ModTypes
    BY <1>0 DEF ModTypes, Mods
  <1>3. ListTypes
    <2>1. blocks \in Seq(Blocks)
      OBVIOUS
    <2> QED
      BY <1>1, <2>1 DEF ListTypes
  <1>4. BioTypes
    BY <1>0 DEF BioTypes, Stages
  <1>5. DataTypes
    BY DEF DataTypes, Values
  <1>6. \A t \in Submitters : stage[t] = "idle" /\ k[t] = 1
    OBVIOUS
  <1>7. BiosOK
    BY <1>6 DEF BiosOK, BioOK, Busy, Inside, HasBlock, Owning
  <1>8. Lifecycle
    BY DEF Lifecycle, Removing
  <1>9. PointersMatch
    BY <1>1 DEF PointersMatch
  <1>10. (\A t \in Submitters : FreshBlock(t)) /\ WalkOK
    BY <1>6 DEF FreshBlock, WalkOK, Owning
  <1> QED
    BY <1>2, <1>3, <1>4, <1>5, <1>7, <1>8, <1>9, <1>10 DEF Basics, SbullTypeOK, Shape

-----------------------------------------------------------------------------
(* Set-up and removal.                                                     *)
(* As long as no bio is inside, the list stays in one piece.               *)
LEMMA FreeListOops ==
  ASSUME Basics, FreeList, ~oops, ~torn
  PROVE  ~oops'
  <1>1. /\ mod = "free_list" /\ walk[1] = next[0]
        /\ walk[1] # 0 => walk[1] \notin freed
    BY DEF FreeList, Basics, Shape, WalkOK
  <1>2. SUFFICES ASSUME walk[1] # 0 PROVE {back[walk[1]], next[walk[1]]} \cap freed = {}
    BY DEF FreeList
  <1>3. /\ next \in [0 .. Len(blocks) -> 0 .. Len(blocks)] /\ freed \in SUBSET Nodes
        /\ Len(blocks) \in Nat
    BY DEF Basics, SbullTypeOK, ListTypes
  <1>4. walk[1] \in 0 .. Len(blocks) /\ 0 \notin freed
    BY <1>1, <1>3 DEF Nodes
  <1>5. back[walk[1]] = 0
    BY <1>1, <1>2, <1>3, <1>4 DEF Basics, Shape, PointersMatch
  <1>6. next[walk[1]] = 0 \/ next[walk[1]] \notin freed
    BY <1>1, <1>2, <1>3, <1>4 DEF Basics, Shape, PointersMatch
  <1> QED
    BY <1>4, <1>5, <1>6

LEMMA ModuleLifecycle ==
  ASSUME Basics, ModuleStep
  PROVE  ModTypes' /\ Lifecycle'
  <1> USE DEF Basics, SbullTypeOK, ModTypes, Mods, Drivers, Lifecycle, Removing
  <1>0. UNCHANGED <<stage, freed, count>> \/ FreeList
    BY ModuleKeeps
  <1>1. CASE sbull_init
    BY <1>1 DEF sbull_init, unloaded, bioVars, Busy
  <1>2. CASE Vmalloc
    <2>0. \/ array' = "allocated" /\ mod' = "alloc_disk" /\ UNCHANGED botched
          \/ array' = "none" /\ mod' = "live" /\ botched' = TRUE
      BY <1>2 DEF Vmalloc
    <2>1. mod = "vmalloc" /\ UNCHANGED <<driver, gendisk, users, freed, oops, torn, stage, count>>
      BY <1>2 DEF Vmalloc, unloaded, bioVars
    <2>3. CASE mod' = "live"
      <3>1. botched'
        BY <2>0, <2>3, Zenon
      <3> QED
        BY <2>0, <2>1, <2>3, <3>1
    <2>4. CASE array' = "allocated" /\ mod' = "alloc_disk" /\ UNCHANGED botched
      BY <2>1, <2>4
    <2> QED
      BY <2>0, <2>3, <2>4
  <1>3. CASE BlkAllocDisk
    BY <1>3 DEF BlkAllocDisk, OutVfree, unloaded, bioVars, Busy
  <1>4. CASE AddDisk
    <2>0. \/ gendisk' = "added" /\ mod' = "live" /\ UNCHANGED <<array, botched>>
          \/ /\ UNCHANGED gendisk /\ mod' = "live" /\ botched' = TRUE
             /\ array' = IF array = "allocated" THEN "freed" ELSE array
      BY <1>4 DEF AddDisk, OutVfree
    <2>1. mod = "add_disk" /\ UNCHANGED <<driver, users, freed, oops, torn, stage, count>>
      BY <1>4 DEF AddDisk, unloaded, bioVars
    <2>2. CASE gendisk' = "added" /\ mod' = "live" /\ UNCHANGED <<array, botched>>
      BY <2>1, <2>2
    <2>3. CASE gendisk' # "added"
      <3>1. botched'
        BY <2>0, <2>3, Zenon
      <3> QED
        BY <2>0, <2>1, <2>3, <3>1
    <2> QED
      BY <2>0, <2>1, <2>2, <2>3
  <1>5. CASE sbull_open
    BY <1>5 DEF sbull_open, unloaded, bioVars, Busy
  <1>6. CASE sbull_release
    BY <1>6 DEF sbull_release, unloaded, bioVars, Busy
  <1>7. CASE sbull_exit
    <2>1. /\ mod = "live" /\ mod' = IF driver = "sbull" THEN "del_gendisk" ELSE "free_list"
          /\ torn' = (users > 0)
          /\ UNCHANGED <<driver, array, gendisk, users, freed, oops, botched, stage, count>>
      BY <1>7 DEF sbull_exit, unloaded, bioVars
    <2>2. CASE users = 0
      <3>1. users' = 0 /\ ~(users > 0)
        BY <2>1, <2>2
      <3>2. ~torn'
        BY <2>1, <3>1, Zenon
      <3> QED
        BY <2>1, <2>2, <3>2
    <2>3. CASE users = 1
      <3>1. users' = 1 /\ users > 0
        BY <2>1, <2>3
      <3>2. torn'
        BY <2>1, <3>1, Zenon
      <3> QED
        BY <2>1, <2>3, <3>2
    <2> QED
      BY <2>2, <2>3
  <1>8. CASE FreeList
    <2>1. /\ mod = "free_list" /\ mod' \in {"free_list", "del_gendisk"}
          /\ UNCHANGED <<driver, array, gendisk, users, botched, torn, stage, count>>
      BY <1>8 DEF FreeList, bioVars
    <2>2. ASSUME oops' PROVE oops \/ torn
      BY <1>8, <2>2, FreeListOops
    <2> QED
      BY <2>1, <2>2 DEF Busy
  <1>9. CASE DelGendisk
    BY <1>9 DEF DelGendisk, unloaded, bioVars, Busy
  <1>10. CASE Drained
    BY <1>10 DEF Drained, unloaded, bioVars, Busy
  <1>11. CASE Vfree
    BY <1>11 DEF Vfree, unloaded, bioVars, Busy
  <1> QED
    BY <1>1, <1>2, <1>3, <1>4, <1>5, <1>6, <1>7, <1>8, <1>9, <1>10, <1>11
    DEF ModuleStep, setup_device, Removal

LEMMA ModuleBios ==
  ASSUME Basics, ModuleStep
  PROVE  BiosOK' /\ BioTypes' /\ DataTypes'
  <1>1. /\ UNCHANGED <<driver, disk, blocks, bio, id, k, stage, node, got, count, last>>
    BY ModuleKeeps
  <1>2. BioTypes' /\ DataTypes'
    BY <1>1 DEF Basics, SbullTypeOK, BioTypes, DataTypes
  <1>3. ASSUME NEW t \in Submitters PROVE BioOK(t)'
    <2>1. BioOK(t)
      BY DEF Basics, BiosOK
    <2>2. Busy(t) => users' = users
      BY DEF ModuleStep, sbull_init, setup_device, Vmalloc, BlkAllocDisk, AddDisk, sbull_open,
             sbull_release, Removal, sbull_exit, FreeList, DelGendisk, Drained, Vfree,
             Basics, BiosOK, BioOK, UnderWay
    <2>3. Sector(t)' = Sector(t) /\ CurSectors(t)' = CurSectors(t) /\ (Busy(t)' <=> Busy(t))
      BY <1>1 DEF Sector, CurSectors, Busy
    <2>4. Busy(t)' => UnderWay(t)'
      BY <1>1, <2>1, <2>2, <2>3 DEF BioOK, UnderWay
    <2>5. (HasBlock(t)' <=> HasBlock(t)) /\ Nodes' = Nodes
      BY <1>1 DEF HasBlock, Nodes
    <2> QED
      BY <1>1, <2>1, <2>3, <2>4, <2>5 DEF BioOK
  <1> QED
    BY <1>2, <1>3 DEF BiosOK

LEMMA Pointers ==
  ASSUME ListTypes
  PROVE  /\ Len(blocks) \in Nat /\ 0 \in 0 .. Len(blocks) /\ 0 \notin Nodes
         /\ \A m \in Nodes : m \in 0 .. Len(blocks) /\ m \in Nat /\ m > 0
         /\ \A m \in 0 .. Len(blocks) : m \in Nat /\ (m = 0 \/ m \in Nodes)
         /\ \A m \in 0 .. Len(blocks) : next[m] \in 0 .. Len(blocks) /\ back[m] \in 0 .. Len(blocks)
  <1>1. PICK N : N = Len(blocks)
    OBVIOUS
  <1>2. N \in Nat /\ next \in [0 .. N -> 0 .. N] /\ back \in [0 .. N -> 0 .. N] /\ Nodes = 1 .. N
    BY <1>1 DEF ListTypes, Nodes
  <1>3. \A m \in 0 .. N : next[m] \in 0 .. N /\ back[m] \in 0 .. N
    BY <1>2
  <1>4. /\ 0 \in 0 .. N /\ 0 \notin 1 .. N
        /\ \A m \in 1 .. N : m \in 0 .. N /\ m \in Nat /\ m > 0
        /\ \A m \in 0 .. N : m \in Nat /\ (m = 0 \/ m \in 1 .. N)
    <2>1. N \in Nat
      BY <1>2
    <2> QED
      BY <2>1
  <1> QED
    BY <1>1, <1>2, <1>3, <1>4

(* What list_del does to the pointers.                                     *)
LEMMA DeleteSteps ==
  ASSUME ListTypes, NEW n \in Nodes, Delete(n)
  PROVE  /\ next' \in [0 .. Len(blocks) -> 0 .. Len(blocks)]
         /\ back' \in [0 .. Len(blocks) -> 0 .. Len(blocks)]
         /\ next[n] \in 0 .. Len(blocks) /\ back[n] \in 0 .. Len(blocks)
         /\ \A m \in 0 .. Len(blocks) : next'[m] = IF m = back[n] THEN next[n] ELSE next[m]
         /\ \A m \in 0 .. Len(blocks) : back'[m] = IF m = next[n] THEN back[n] ELSE back[m]
  <1>1. PICK P : P = 0 .. Len(blocks)
    OBVIOUS
  <1>2. /\ n \in P /\ next[n] \in P /\ back[n] \in P
        /\ next \in [P -> P] /\ back \in [P -> P]
    BY <1>1, Pointers DEF ListTypes
  <1>3. /\ next' \in [P -> P] /\ back' \in [P -> P]
        /\ \A m \in P : next'[m] = IF m = back[n] THEN next[n] ELSE next[m]
        /\ \A m \in P : back'[m] = IF m = next[n] THEN back[n] ELSE back[m]
    BY <1>2 DEF Delete
  <1> QED
    BY <1>1, <1>2, <1>3

LEMMA FreeListSteps ==
  ASSUME Basics, FreeList
  PROVE  \/ UNCHANGED <<freed, walk, next, back>>
         \/ /\ walk[1] \in Nodes \ freed /\ back[walk[1]] \notin freed /\ next[walk[1]] \notin freed
            /\ Delete(walk[1]) /\ freed' = freed \cup {walk[1]}
            /\ walk' = <<walk[2], next[walk[2]]>> /\ mod' = mod
  <1>1. walk[1] \in 0 .. Len(blocks)
    BY DEF Basics, SbullTypeOK, ListTypes
  <1>2. mod = "free_list" /\ (walk[1] # 0 => walk[1] \notin freed)
    BY DEF FreeList, Basics, Shape, WalkOK
  <1>3. walk[1] # 0 => walk[1] \in Nodes \ freed
    BY <1>1, <1>2 DEF Nodes
  <1> QED
    BY <1>3 DEF FreeList

LEMMA ModuleList ==
  ASSUME Basics, ModuleStep
  PROVE  ListTypes'
  <1> USE DEF ListTypes, Nodes
  <1>0. ListTypes /\ UNCHANGED <<blocks, node, prev>>
    BY ModuleKeeps DEF Basics, SbullTypeOK
  <1>1. CASE UNCHANGED <<next, back, freed, walk>>
    BY <1>0, <1>1
  <1>2. CASE sbull_exit
    <2>1. UNCHANGED <<next, back, freed>> /\ walk' = <<next[0], next[next[0]]>>
      BY <1>2 DEF sbull_exit, unloaded, store
    <2>3. next[0] \in 0 .. Len(blocks) /\ next[next[0]] \in 0 .. Len(blocks)
      BY <1>0, Pointers
    <2> QED
      BY <1>0, <2>1, <2>3
  <1>3. CASE FreeList /\ ~UNCHANGED <<next, back, freed, walk>>
    <2>1. /\ walk[1] \in Nodes /\ Delete(walk[1]) /\ freed' = freed \cup {walk[1]}
          /\ walk' = <<walk[2], next[walk[2]]>>
      BY <1>3, FreeListSteps
    <2>2. /\ next' \in [0 .. Len(blocks) -> 0 .. Len(blocks)]
          /\ back' \in [0 .. Len(blocks) -> 0 .. Len(blocks)]
      BY <1>0, <2>1, DeleteSteps
    <2>3. walk[2] \in 0 .. Len(blocks) /\ next[walk[2]] \in 0 .. Len(blocks)
      BY <1>0
    <2>4. freed' \in SUBSET Nodes
      BY <1>0, <2>1
    <2>5. walk' \in (0 .. Len(blocks)) \X (0 .. Len(blocks))
      BY <2>1, <2>3
    <2> QED
      BY <1>0, <2>2, <2>4, <2>5
  <1> QED
    BY <1>1, <1>2, <1>3 DEF ModuleStep, sbull_init, setup_device, Vmalloc, BlkAllocDisk, AddDisk,
       sbull_open, sbull_release, Removal, DelGendisk, Drained, Vfree, unloaded, store

LEMMA FreeListShape ==
  ASSUME Basics, FreeList, ~UNCHANGED <<next, back, freed, walk>>
  PROVE  Shape'
  <1>0. ListTypes /\ Len(blocks) \in Nat
    BY DEF Basics, SbullTypeOK, ListTypes
  <1>1. UNCHANGED <<blocks, node, prev, stage, torn>>
    BY FreeListKeeps
  <1>2. PICK n : n = walk[1]
    OBVIOUS
  <1>3. /\ n \in Nodes \ freed /\ back[n] \notin freed /\ next[n] \notin freed
        /\ Delete(n) /\ freed' = freed \cup {n}
        /\ walk' = <<walk[2], next[walk[2]]>> /\ mod' = mod /\ mod = "free_list"
    BY <1>2, FreeListSteps DEF FreeList
  <1>4. /\ next[n] \in 0 .. Len(blocks) /\ back[n] \in 0 .. Len(blocks)
        /\ \A m \in 0 .. Len(blocks) : next'[m] = IF m = back[n] THEN next[n] ELSE next[m]
        /\ \A m \in 0 .. Len(blocks) : back'[m] = IF m = next[n] THEN back[n] ELSE back[m]
    BY <1>0, <1>3, DeleteSteps
  <1>5. n \in 1 .. Len(blocks) /\ Nodes = 1 .. Len(blocks) /\ Nodes' = Nodes /\ Len(blocks)' = Len(blocks)
    BY <1>1, <1>3 DEF Nodes
  <1>6. /\ \A m \in Nodes : next[m] \in 0 .. Len(blocks) /\ back[m] \in 0 .. Len(blocks)
        /\ next[0] \in 0 .. Len(blocks)
    BY <1>0, Pointers
  <1>7. /\ \A m \in Nodes : (next[m] = 0 \/ next[m] > m) /\ back[m] < m
        /\ \A m \in (0 .. Len(blocks)) \ freed :
             next[m] # 0 => next[m] \notin freed /\ back[next[m]] = m
    BY DEF Basics, Shape, PointersMatch
  <1>8. \A m \in Nodes : (next'[m] = 0 \/ next'[m] > m) /\ back'[m] < m
    <2> TAKE m \in Nodes
    <2>1. (next[m] = 0 \/ next[m] > m) /\ back[m] < m /\ (next[n] = 0 \/ next[n] > n) /\ back[n] < n
      BY <1>3, <1>7
    <2>2. m \in 0 .. Len(blocks) /\ m \in Int /\ n \in Int
      BY <1>5
    <2>3. next'[m] = 0 \/ next'[m] > m
      <3>1. CASE m = back[n]
        <4>1. next'[m] = next[n]
          BY <1>4, <2>2, <3>1
        <4>2. back[n] < n /\ (next[n] = 0 \/ (next[n] > n /\ next[n] \in Int))
          BY <1>4, <2>1
        <4> QED
          BY <2>2, <3>1, <4>1, <4>2
      <3>2. CASE m # back[n]
        BY <1>4, <2>1, <2>2, <3>2
      <3> QED
        BY <3>1, <3>2
    <2>4. back'[m] < m
      <3>1. CASE m = next[n]
        <4>1. back'[m] = back[n]
          BY <1>4, <2>2, <3>1
        <4>2. back[n] < n /\ back[n] \in Int /\ m # 0 /\ m > n
          BY <1>4, <1>5, <2>1, <3>1
        <4> QED
          BY <2>2, <4>1, <4>2
      <3>2. CASE m # next[n]
        BY <1>4, <2>1, <2>2, <3>2
      <3> QED
        BY <3>1, <3>2
    <2> QED
      BY <2>3, <2>4
  <1>9. \A m \in (0 .. Len(blocks)) \ freed' :
          next'[m] # 0 => next'[m] \notin freed' /\ back'[next'[m]] = m
    <2> SUFFICES ASSUME NEW m \in (0 .. Len(blocks)) \ freed, m # n, next'[m] # 0
                 PROVE  next'[m] \notin freed /\ next'[m] # n /\ back'[next'[m]] = m
      BY <1>3
    <2>1. CASE m = back[n]
      <3>1. next'[m] = next[n] /\ next[n] # 0
        BY <1>4, <2>1
      <3>2. next[n] # n
        BY <1>3, <1>5, <1>7, <3>1
      <3>3. back'[next[n]] = back[n]
        BY <1>4
      <3> QED
        BY <1>3, <2>1, <3>1, <3>2, <3>3
    <2>2. CASE m # back[n]
      <3>1. next'[m] = next[m] /\ next[m] # 0
        BY <1>4, <2>2
      <3>2. next[m] \notin freed /\ back[next[m]] = m
        BY <1>7, <3>1
      <3>3. next[m] # n
        BY <2>2, <3>2
      <3>4. next[m] # next[n]
        <4>1. next[n] # 0 => back[next[n]] = n
          BY <1>3, <1>5, <1>7
        <4> QED
          BY <3>1, <3>2, <4>1
      <3>5. next[m] \in 0 .. Len(blocks)
        BY <1>0 DEF ListTypes
      <3>6. back'[next[m]] = back[next[m]]
        BY <1>4, <3>4, <3>5
      <3> QED
        BY <3>1, <3>2, <3>3, <3>6
    <2> QED
      BY <2>1, <2>2
  <1>10. PointersMatch'
    BY <1>5, <1>8, <1>9 DEF PointersMatch
  <1>11. walk[2] = 0 \/ (walk[2] > n /\ walk[2] \notin freed)
    BY <1>2, <1>3, <1>5 DEF Basics, Shape, WalkOK
  <1>12. \A t \in Submitters : stage[t] \in Owning => node[t] # n /\ node[t] # walk[2]
    BY <1>2, <1>3, <1>5 DEF Basics, Shape, WalkOK
  <1>13. ASSUME NEW t \in Submitters PROVE FreshBlock(t)'
    <2>1. SUFFICES ASSUME stage[t] \in Owning
                   PROVE  /\ node[t] \in Nodes \ freed' /\ prev[t] < node[t]
                          /\ \A m \in 0 .. Len(blocks) : next'[m] # node[t]
                          /\ \A u \in Submitters : stage[u] \in Owning /\ node[u] = node[t] => u = t
                          /\ stage[t] = "publish" => back'[node[t]] = prev[t]
      BY <1>1, <1>5 DEF FreshBlock
    <2>2. /\ node[t] \in Nodes \ freed /\ prev[t] < node[t]
          /\ \A m \in 0 .. Len(blocks) : next[m] # node[t]
          /\ \A u \in Submitters : stage[u] \in Owning /\ node[u] = node[t] => u = t
          /\ stage[t] = "publish" => back[node[t]] = prev[t]
      BY <2>1 DEF Basics, Shape, FreshBlock
    <2>3. node[t] # n
      BY <1>12, <2>1
    <2>4. \A m \in 0 .. Len(blocks) : next'[m] # node[t]
      BY <1>4, <1>5, <2>2
    <2>5. node[t] \in 0 .. Len(blocks) /\ n \in 0 .. Len(blocks)
      BY <1>5, <2>2
    <2>7. stage[t] = "publish" => back'[node[t]] = prev[t]
      BY <1>4, <2>2, <2>5
    <2> QED
      BY <1>3, <2>2, <2>3, <2>4, <2>7
  <1>14. WalkOK'
    <2>1. next[walk[2]] = 0 \/ (next[walk[2]] > walk[2] /\ next[walk[2]] \notin freed)
      <3>1. walk[2] \in 0 .. Len(blocks)
        BY <1>0 DEF ListTypes
      <3>2. CASE walk[2] = 0
        <4>1. next[0] = 0 \/ (next[0] > 0 /\ next[0] \notin freed)
          BY <1>0, <1>6, <1>7 DEF ListTypes, Nodes
        <4> QED
          BY <3>2, <4>1
      <3>3. CASE walk[2] # 0
        <4>1. walk[2] \in Nodes
          BY <1>5, <3>1, <3>3
        <4> QED
          BY <1>5, <1>7, <1>11, <3>3, <4>1
      <3> QED
        BY <3>2, <3>3
    <2>2. \A t \in Submitters : stage[t] \in Owning => node[t] # next[walk[2]]
      BY <1>0 DEF Basics, Shape, FreshBlock, ListTypes
    <2>3. ~torn => n = next[0] /\ walk[2] = next[n]
      BY <1>2, <1>3, <1>5 DEF Basics, Shape, WalkOK
    <2>4. walk'[1] = walk[2] /\ walk'[2] = next[walk[2]]
      BY <1>3
    <2>5. walk[2] # 0 => walk[2] \notin freed' /\ (next[walk[2]] = 0 \/ next[walk[2]] \notin freed')
      <3>1. walk[2] # 0 => walk[2] > n /\ walk[2] \notin freed /\ walk[2] \in Int /\ n \in Int
        BY <1>0, <1>5, <1>11 DEF ListTypes
      <3>2. walk[2] # 0 /\ next[walk[2]] # 0 => next[walk[2]] # n
        BY <1>0, <2>1, <3>1 DEF ListTypes
      <3> QED
        BY <1>3, <2>1, <3>1, <3>2
    <2>6. ~torn => walk[2] = next'[0] /\ (walk[2] # 0 => next[walk[2]] = next'[walk[2]])
      <3> SUFFICES ASSUME ~torn
                   PROVE  walk[2] = next'[0] /\ (walk[2] # 0 => next[walk[2]] = next'[walk[2]])
        OBVIOUS
      <3>1. n = next[0] /\ walk[2] = next[n] /\ 0 \notin freed /\ n # 0 /\ 0 \in 0 .. Len(blocks)
        BY <1>0, <1>5, <2>3 DEF ListTypes
      <3>2. back[n] = 0
        BY <1>7, <3>1
      <3>3. next'[0] = walk[2]
        BY <1>4, <3>1, <3>2
      <3>4. walk[2] # 0 => next'[walk[2]] = next[walk[2]]
        BY <1>0, <1>4, <3>1, <3>2
      <3> QED
        BY <3>3, <3>4
    <2>7. \A t \in Submitters : stage[t] \in Owning => node[t] # walk[2]
      BY <1>12
    <2> HIDE DEF Owning
    <2> QED
      BY <1>1, <2>1, <2>2, <2>4, <2>5, <2>6, <2>7 DEF WalkOK
  <1> QED
    BY <1>10, <1>13, <1>14 DEF Shape

LEMMA ModuleShape ==
  ASSUME Basics, ModuleStep
  PROVE  Shape'
  <1> USE DEF Shape
  <1>0. UNCHANGED <<blocks, node, prev, stage>> /\ Shape
    BY ModuleKeeps DEF Basics
  <1>1. CASE ~UNCHANGED <<next, back, freed>>
    BY <1>1, ModuleKeeps, FreeListShape
  <1>2. CASE UNCHANGED <<next, back, freed>>
    <2>1. PointersMatch'
      BY <1>0, <1>2 DEF PointersMatch, Nodes
    <2>2. \A t \in Submitters : FreshBlock(t)'
      BY <1>0, <1>2 DEF FreshBlock, Nodes
    <2>3. CASE UNCHANGED <<walk, mod, torn>>
      <3>1. WalkOK'
        BY <1>0, <1>2, <2>3 DEF WalkOK
      <3> QED
        BY <2>1, <2>2, <3>1
    <2>4. CASE mod' # "free_list"
      BY <2>1, <2>2, <2>4 DEF WalkOK
    <2>5. CASE sbull_exit
      <3>0. ListTypes /\ Len(blocks) \in Nat
        BY DEF Basics, SbullTypeOK, ListTypes
      <3>1. mod # "free_list" /\ walk' = <<next[0], next[next[0]]>> /\ freed = {}
        BY <2>5 DEF sbull_exit, Basics, Lifecycle, Removing
      <3>2. next[0] = 0 \/ (next[next[0]] = 0 \/ next[next[0]] > next[0])
        BY <1>0, <3>0, Pointers DEF PointersMatch
      <3>3. \A t \in Submitters : stage[t] \in Owning => node[t] # next[0] /\ node[t] # next[next[0]]
        BY <1>0, <3>0, Pointers DEF FreshBlock
      <3>4. walk'[1] = next[0] /\ walk'[2] = next[next[0]]
        BY <3>1
      <3>5. WalkOK'
        BY <1>0, <1>2, <3>1, <3>2, <3>3, <3>4 DEF WalkOK
      <3> QED
        BY <2>1, <2>2, <3>5
    <2>6. CASE FreeList
      <3>1. UNCHANGED <<walk, torn>>
        BY <1>2, <2>6, FreeListSteps, FreeListKeeps
      <3> QED
        BY <2>3, <2>4, <2>6, <3>1 DEF FreeList
    <2> QED
      BY <2>3, <2>4, <2>5, <2>6 DEF ModuleStep, sbull_init, setup_device, Vmalloc, BlkAllocDisk,
         AddDisk, OutVfree, sbull_open, sbull_release, Removal, DelGendisk, Drained, Vfree
  <1> QED
    BY <1>1, <1>2

LEMMA ModuleBasics == ASSUME Basics, ModuleStep PROVE Basics'
  BY ModuleLifecycle, ModuleBios, ModuleList, ModuleShape DEF Basics, SbullTypeOK

-----------------------------------------------------------------------------
(* The steps of a bio.                                                     *)
LEMMA SectorKept ==
  ASSUME NEW t \in Submitters, bio'[t] = bio[t], k'[t] = k[t]
  PROVE  Sector(t)' = Sector(t) /\ CurSectors(t)' = CurSectors(t)
  BY DEF Sector, CurSectors

(* The loop goes on, or comes to its end.                                  *)
LEMMA NextSegOK ==
  ASSUME BioTypes, NEW t \in Submitters, UnderWay(t), stage[t] # "end", NextSeg(t),
         bio'[t] = bio[t], id'[t] = id[t], users' = users
  PROVE  /\ stage' \in [Submitters -> Stages] /\ k' \in [Submitters -> Nat]
         /\ UnderWay(t)' /\ stage'[t] \in {"seg", "end"}
         /\ k[t] \in 1 .. Len(bio[t].segs) /\ k'[t] = k[t] + 1
  <1>1. PICK n : n = Len(bio[t].segs)
    OBVIOUS
  <1>2. n \in Nat \ {0} /\ k[t] \in 1 .. n
    <2>1. bio[t] \in Bios
      BY DEF UnderWay
    <2>2. n \in Nat \ {0}
      BY <1>1, <2>1, BioShape
    <2>3. k[t] \in 1 .. n + 1 /\ k[t] # n + 1
      BY <1>1 DEF UnderWay
    <2> QED
      BY <2>2, <2>3
  <1>3. /\ stage' \in [Submitters -> Stages] /\ k' \in [Submitters -> Nat]
        /\ stage'[t] = IF k[t] = n THEN "end" ELSE "seg"
        /\ k'[t] = k[t] + 1
    BY <1>1, <1>2 DEF BioTypes, NextSeg, Stages
  <1>4. k'[t] \in 1 .. n + 1 /\ (stage'[t] = "end" <=> k'[t] = n + 1)
    BY <1>2, <1>3
  <1>5. UnderWay(t)'
    BY <1>1, <1>4 DEF UnderWay
  <1> QED
    BY <1>1, <1>2, <1>3, <1>5

(* Blocks are added and filled; no step moves one to another sector.       *)
LEMMA BlocksGrow ==
  ASSUME ListTypes, NEW t \in Submitters, BioStep(t)
  PROVE  \A n \in Nodes : n \in Nodes' /\ blocks'[n].idx = blocks[n].idx
  <1>1. CASE UNCHANGED blocks
    BY <1>1 DEF Nodes
  <1>2. CASE Allocate(t)
    <2>1. PICK b : blocks' = Append(blocks, b)
      BY <1>2 DEF Allocate
    <2>2. /\ Len(blocks') = Len(blocks) + 1 /\ Len(blocks) \in Nat
          /\ \A n \in 1 .. Len(blocks) : blocks'[n] = blocks[n]
      BY <2>1 DEF ListTypes
    <2> QED
      BY <2>2 DEF Nodes
  <1>3. CASE WriteBlock(t)
    <2>1. PICK x : blocks' = [blocks EXCEPT ![node[t]].buf = x]
      BY <1>3 DEF WriteBlock
    <2>2. blocks' = [blocks EXCEPT ![node[t]] = [blocks[node[t]] EXCEPT !.buf = x]]
      BY <2>1
    <2> QED
      BY <2>2 DEF Nodes, ListTypes
  <1>4. UNCHANGED blocks \/ Allocate(t) \/ WriteBlock(t)
    BY DEF BioStep, Submission, Submit, Transfer, Find, Link, Publish, Copy, UseAfterFree, EndIo, store
  <1> QED
    BY <1>1, <1>2, <1>3, <1>4

LEMMA OthersOK ==
  ASSUME Basics, NEW t \in Submitters, BioStep(t), NEW u \in Submitters, u # t
  PROVE  BioOK(u)'
  <1>1. /\ bio'[u] = bio[u] /\ id'[u] = id[u] /\ k'[u] = k[u] /\ stage'[u] = stage[u]
        /\ node'[u] = node[u] /\ users' = users /\ driver' = driver
    BY BioKeeps DEF Basics, SbullTypeOK
  <1>2. \A n \in Nodes : n \in Nodes' /\ blocks'[n].idx = blocks[n].idx
    BY BlocksGrow DEF Basics, SbullTypeOK
  <1>3. Sector(u)' = Sector(u) /\ CurSectors(u)' = CurSectors(u)
    BY <1>1, SectorKept
  <1>4. BioOK(u)
    BY DEF Basics, BiosOK
  <1>5. (Busy(u)' <=> Busy(u)) /\ (HasBlock(u)' <=> HasBlock(u))
    BY <1>1 DEF Busy, HasBlock
  <1>6. UnderWay(u) => UnderWay(u)'
    BY <1>1 DEF UnderWay
  <1> QED
    BY <1>1, <1>2, <1>3, <1>4, <1>5, <1>6 DEF BioOK

LEMMA FindIsForward == ASSUME Basics PROVE Forward(next, Len(blocks)) /\ Len(blocks) \in Nat
  <1>1. Len(blocks) \in Nat
    BY Pointers DEF Basics, SbullTypeOK
  <1>2. \A n \in 1 .. Len(blocks) : next[n] = 0 \/ next[n] > n
    BY DEF Basics, Shape, PointersMatch, Nodes
  <1> QED
    BY <1>1, <1>2 DEF Forward, Basics, SbullTypeOK, ListTypes

LEMMA Found ==
  ASSUME Basics, NEW s, NEW f, f = sbull_find_list(s)
  PROVE  f \in 0 .. Len(blocks) /\ (f # 0 => f \in Nodes /\ blocks[f].idx = s)
  <1>1. f = FindIn(next, blocks, s)
    BY LookupIs
  <1>2. Forward(next, Len(blocks)) /\ Len(blocks) \in Nat
    BY FindIsForward
  <1>3. f = 0 \/ (f \in 1 .. Len(blocks) /\ blocks[f].idx = s)
    BY <1>1, <1>2, Lookup
  <1> QED
    BY <1>2, <1>3 DEF Nodes

LEMMA BioStepOK ==
  ASSUME Basics, NEW t \in Submitters, BioStep(t)
  PROVE  BioOK(t)'
  <1>0. /\ BioOK(t) /\ BioTypes /\ ModTypes /\ ListTypes
        /\ UNCHANGED <<driver, users>>
    BY BioKeeps DEF Basics, SbullTypeOK, BiosOK
  <1>1. CASE Submit(t)
    <2>1. PICK b \in Bios : bio' = [bio EXCEPT ![t] = b]
      BY <1>1 DEF Submit
    <2>2. bio'[t] = b
      BY <1>0, <2>1 DEF BioTypes
    <2>3. /\ stage'[t] = "seg" /\ id'[t] = count + 1 /\ k'[t] = 1
      BY <1>0, <1>1 DEF Submit, BioTypes, BioOK, Busy
    <2>4. count + 1 \in 1 .. MaxBios /\ users = 1
      <3>1. users > 0 /\ count < IF mod = "live" THEN MaxBios ELSE RemovalBios
        BY <1>1 DEF Submit, Accepting
      <3>2. count \in 0 .. MaxBios /\ MaxBios \in Nat /\ RemovalBios \in 0 .. MaxBios /\ users \in {0, 1}
        BY <1>0, SbullAssumption DEF ModTypes
      <3> QED
        BY <3>1, <3>2
    <2>5. Len(b.segs) \in Nat \ {0}
      BY BioShape
    <2>6. UnderWay(t)'
      BY <1>0, <2>2, <2>3, <2>4, <2>5 DEF UnderWay
    <2> QED
      BY <2>3, <2>6 DEF BioOK, Busy, Inside, HasBlock, Owning
  <1>2. CASE Transfer(t)
    <2>1. stage[t] = "seg" /\ UnderWay(t) /\ UNCHANGED <<bio, id, node, blocks>>
      BY <1>0, <1>2 DEF Transfer, store, BioOK, Busy
    <2>2. CASE NextSeg(t)
      <3>1. UnderWay(t)' /\ stage'[t] \in {"seg", "end"}
        BY <1>0, <2>1, <2>2, NextSegOK
      <3> QED
        BY <3>1 DEF BioOK, Busy, Inside, HasBlock, Owning
    <2>3. CASE ~(Sector(t) + CurSectors(t) > nsectors)
      <3>1. stage'[t] = (IF driver = "sbull" THEN "copy" ELSE "find") /\ k' = k
        BY <1>0, <1>2, <2>3 DEF Transfer, BioTypes
      <3>2. Sector(t)' = Sector(t) /\ CurSectors(t)' = CurSectors(t)
        BY <2>1, <3>1, SectorKept
      <3>3. Sector(t) \in Nat /\ CurSectors(t) \in 1 .. PAGE /\ PAGE \in Nat /\ nsectors \in Nat
        <4>1. bio[t] \in Bios /\ k[t] \in Nat \ {0}
          BY <1>0, <2>1 DEF UnderWay, BioTypes
        <4> QED
          BY <4>1, SectorFacts
      <3>4. Sector(t) + CurSectors(t) <= nsectors
        BY <2>3, <3>3
      <3>5. UnderWay(t)'
        BY <1>0, <2>1, <3>1 DEF UnderWay
      <3> QED
        BY <1>0, <3>1, <3>2, <3>4, <3>5 DEF BioOK, Busy, HasBlock, Owning
    <2> QED
      BY <1>2, <2>2, <2>3 DEF Transfer
  <1>3. CASE Find(t)
    <2>0. PICK f : f = sbull_find_list(Sector(t))
      OBVIOUS
    <2>1. stage[t] = "find" /\ UnderWay(t) /\ UNCHANGED <<bio, id, blocks>> /\ node'[t] = f
      BY <1>0, <1>3, <2>0 DEF Find, store, BioOK, Busy, ListTypes
    <2>2. CASE NextSeg(t)
      <3>1. UnderWay(t)' /\ stage'[t] \in {"seg", "end"}
        BY <1>0, <2>1, <2>2, NextSegOK
      <3> QED
        BY <3>1 DEF BioOK, Busy, Inside, HasBlock, Owning
    <2>3. CASE ~NextSeg(t)
      <3>1. stage'[t] = (IF f # 0 THEN "copy" ELSE "add") /\ k' = k
        BY <1>0, <1>3, <2>0, <2>3 DEF Find, BioTypes
      <3>2. Sector(t)' = Sector(t) /\ CurSectors(t)' = CurSectors(t)
        BY <2>1, <3>1, SectorKept
      <3>3. Sector(t) + CurSectors(t) <= nsectors /\ driver # "sbull"
        BY <1>0, <2>1 DEF BioOK, Inside
      <3>4. f # 0 => f \in Nodes /\ blocks[f].idx = Sector(t)
        BY <2>0, Found
      <3>5. UnderWay(t)'
        BY <1>0, <2>1, <3>1 DEF UnderWay
      <3>6. HasBlock(t)' => node'[t] \in Nodes' /\ blocks'[node'[t]].idx = Sector(t)'
        BY <2>1, <3>1, <3>2, <3>4 DEF HasBlock, Owning, Nodes
      <3> QED
        BY <1>0, <3>1, <3>2, <3>3, <3>5, <3>6 DEF BioOK, Busy
    <2> QED
      BY <2>2, <2>3
  <1>4. CASE Allocate(t)
    <2>1. stage[t] = "add" /\ UnderWay(t) /\ UNCHANGED <<bio, id, k>> /\ stage'[t] = "link"
      BY <1>0, <1>4 DEF Allocate, BioOK, Busy, BioTypes
    <2>2. PICK b : blocks' = Append(blocks, b) /\ b.idx = Sector(t)
      BY <1>4 DEF Allocate
    <2>3. node'[t] = Len(blocks) + 1
      BY <1>0, <1>4 DEF Allocate, ListTypes
    <2>4. blocks'[Len(blocks) + 1] = b /\ Len(blocks') = Len(blocks) + 1 /\ Len(blocks) \in Nat
      BY <1>0, <2>2 DEF ListTypes
    <2>5. Sector(t)' = Sector(t) /\ CurSectors(t)' = CurSectors(t)
      BY <2>1, SectorKept
    <2>6. node'[t] \in Nodes' /\ blocks'[node'[t]].idx = Sector(t)'
      BY <2>2, <2>3, <2>4, <2>5 DEF Nodes
    <2>7. Sector(t) + CurSectors(t) <= nsectors /\ driver # "sbull"
      BY <1>0, <2>1 DEF BioOK, Inside
    <2>8. UnderWay(t)'
      BY <1>0, <2>1 DEF UnderWay
    <2> QED
      BY <1>0, <2>1, <2>5, <2>6, <2>7, <2>8 DEF BioOK, Busy
  <1>5. CASE Link(t) \/ Publish(t)
    <2>1. /\ stage[t] \in Owning /\ UnderWay(t) /\ UNCHANGED <<bio, id, k, node, blocks>>
          /\ stage'[t] \in {"publish", "copy"}
      BY <1>0, <1>5 DEF Link, Publish, Owning, BioOK, Busy, BioTypes
    <2>2. Sector(t)' = Sector(t) /\ CurSectors(t)' = CurSectors(t)
      BY <2>1, SectorKept
    <2>3. /\ Sector(t) + CurSectors(t) <= nsectors /\ driver # "sbull"
          /\ node[t] \in Nodes /\ blocks[node[t]].idx = Sector(t)
      BY <1>0, <2>1 DEF BioOK, Inside, HasBlock, Owning
    <2>4. UnderWay(t)'
      BY <1>0, <2>1 DEF UnderWay, Owning
    <2>5. node'[t] \in Nodes' /\ blocks'[node'[t]].idx = Sector(t)'
      BY <2>1, <2>2, <2>3 DEF Nodes
    <2> QED
      BY <1>0, <2>1, <2>2, <2>3, <2>4, <2>5 DEF BioOK, Busy
  <1>6. CASE Copy(t)
    <2>1. stage[t] = "copy" /\ UnderWay(t) /\ UNCHANGED <<bio, id>> /\ NextSeg(t)
      BY <1>0, <1>6 DEF Copy, BioOK, Busy
    <2>2. UnderWay(t)' /\ stage'[t] \in {"seg", "end"}
      BY <1>0, <2>1, NextSegOK
    <2> QED
      BY <2>2 DEF BioOK, Busy, Inside, HasBlock, Owning
  <1>7. CASE UseAfterFree(t)
    <2>1. UNCHANGED <<bio, id, k, stage, node, blocks>>
      BY <1>7 DEF UseAfterFree, store, bioVars
    <2> QED
      BY <1>0, <2>1 DEF BioOK, Busy, UnderWay, Sector, CurSectors, HasBlock, Nodes
  <1>8. CASE EndIo(t)
    <2>1. stage'[t] = "idle" /\ k'[t] = 1
      BY <1>0, <1>8 DEF EndIo, NoLocals, BioTypes
    <2> QED
      BY <2>1 DEF BioOK, Busy, Inside, HasBlock, Owning
  <1> QED
    BY <1>1, <1>2, <1>3, <1>4, <1>5, <1>6, <1>7, <1>8 DEF BioStep, Submission
(* Members of sequences, for sets the provers would rather not look into.  *)
LEMMA ElementOf == ASSUME NEW R, NEW q \in Seq(R), NEW i \in 1 .. Len(q) PROVE q[i] \in R
  OBVIOUS

LEMMA Updated ==
  ASSUME NEW R, NEW q \in Seq(R), NEW i \in 1 .. Len(q), NEW r \in R
  PROVE  [q EXCEPT ![i] = r] \in Seq(R) /\ Len([q EXCEPT ![i] = r]) = Len(q)
  OBVIOUS

LEMMA MemoryIs ==
  ASSUME Basics, NEW t \in Submitters, stage[t] = "copy", NEW o \in Nat
  PROVE  Memory(t, o) \in Values
  <1>1. UnderWay(t) /\ stage[t] # "end"
    BY DEF Basics, BiosOK, BioOK, Busy
  <1>2. PICK seg : seg = bio[t].segs[k[t]]
    OBVIOUS
  <1>3. k[t] \in 1 .. Len(bio[t].segs) /\ id[t] \in 1 .. MaxBios
    <2>1. Len(bio[t].segs) \in Nat
      BY <1>1, BioShape DEF UnderWay
    <2> QED
      BY <1>1, <2>1 DEF UnderWay
  <1>4. seg.at \in Nat /\ seg.len \in 1 .. PAGE /\ seg.at + seg.len <= nsectors /\ nsectors \in Nat
        /\ PAGE \in Nat
    BY <1>1, <1>2, <1>3, BioShape DEF UnderWay
  <1>5. o < seg.len => seg.at + o \in Sectors
    BY <1>4 DEF Sectors
  <1>6. Memory(t, o) = IF o < seg.len THEN <<id[t], seg.at + o>> ELSE Foreign
    BY <1>2 DEF Memory
  <1> QED
    BY <1>3, <1>5, <1>6 DEF Values

LEMMA Grown ==
  ASSUME NEW N \in Nat, NEW f \in [0 .. N -> 0 .. N], NEW g,
         g = [n \in 0 .. N + 1 |-> IF n <= N THEN f[n] ELSE 0]
  PROVE  g \in [0 .. N + 1 -> 0 .. N + 1]
  <1>1. \A n \in 0 .. N + 1 : (IF n <= N THEN f[n] ELSE 0) \in 0 .. N + 1
    <2> TAKE n \in 0 .. N + 1
    <2>1. CASE n <= N
      <3>1. n \in 0 .. N
        BY <2>1
      <3>2. f[n] \in 0 .. N
        BY <3>1
      <3> QED
        BY <2>1, <3>2
    <2>2. CASE ~(n <= N)
      BY <2>2
    <2> QED
      BY <2>1, <2>2
  <1> QED
    BY <1>1

LEMMA BioStepTypes ==
  ASSUME Basics, NEW t \in Submitters, BioStep(t)
  PROVE  ListTypes' /\ BioTypes'
  <1>0. /\ BioOK(t) /\ BioTypes /\ ListTypes /\ ModTypes
        /\ Len(blocks) \in Nat /\ (Busy(t) => UnderWay(t))
    BY Pointers DEF Basics, SbullTypeOK, BiosOK, BioOK
  <1>1. CASE Submit(t)
    <2>1. /\ UNCHANGED <<blocks, next, back, freed, walk, node, prev, k>>
          /\ stage' = [stage EXCEPT ![t] = "seg"]
          /\ id' = [id EXCEPT ![t] = count + 1]
      BY <1>1 DEF Submit, device, store
    <2>2. PICK b \in Bios : bio' = [bio EXCEPT ![t] = b]
      BY <1>1 DEF Submit
    <2>3. count + 1 \in 0 .. MaxBios
      <3>1. count < IF mod = "live" THEN MaxBios ELSE RemovalBios
        BY <1>1 DEF Submit, Accepting
      <3> QED
        BY <1>0, <3>1, SbullAssumption DEF ModTypes
    <2>4. BioTypes'
      BY <1>0, <2>1, <2>2, <2>3 DEF BioTypes, Stages
    <2> QED
      BY <1>0, <2>1, <2>4 DEF ListTypes, Nodes
  <1>2. CASE Transfer(t)
    <2>1. UNCHANGED <<blocks, next, back, freed, walk, node, prev, bio, id, users>> /\ stage[t] = "seg"
      BY <1>2 DEF Transfer, device, store
    <2>2. ListTypes'
      BY <1>0, <2>1 DEF ListTypes, Nodes
    <2>3. CASE NextSeg(t)
      <3>1. stage' \in [Submitters -> Stages] /\ k' \in [Submitters -> Nat]
        BY <1>0, <2>1, <2>3, NextSegOK DEF Busy
      <3> QED
        BY <1>0, <2>1, <2>2, <3>1 DEF BioTypes
    <2>4. CASE ~NextSeg(t)
      <3>1. k' = k /\ stage' = [stage EXCEPT ![t] = IF driver = "sbull" THEN "copy" ELSE "find"]
        BY <1>2, <2>4 DEF Transfer
      <3> QED
        BY <1>0, <2>1, <2>2, <3>1 DEF BioTypes, Stages
    <2> QED
      BY <2>3, <2>4
  <1>3. CASE Find(t)
    <2>1. UNCHANGED <<blocks, next, back, freed, walk, prev, bio, id, users>> /\ stage[t] = "find"
      BY <1>3 DEF Find, device, store
    <2>2. PICK f : f = sbull_find_list(Sector(t))
      OBVIOUS
    <2>3. f \in 0 .. Len(blocks) /\ node' = [node EXCEPT ![t] = f]
      BY <1>3, <2>2, Found DEF Find
    <2>4. ListTypes'
      BY <1>0, <2>1, <2>3 DEF ListTypes, Nodes
    <2>5. CASE NextSeg(t)
      <3>1. stage' \in [Submitters -> Stages] /\ k' \in [Submitters -> Nat]
        BY <1>0, <2>1, <2>5, NextSegOK DEF Busy
      <3> QED
        BY <1>0, <2>1, <2>4, <3>1 DEF BioTypes
    <2>6. CASE ~NextSeg(t)
      <3>1. k' = k /\ stage' = [stage EXCEPT ![t] = IF f # 0 THEN "copy" ELSE "add"]
        BY <1>3, <2>2, <2>6 DEF Find
      <3> QED
        BY <1>0, <2>1, <2>4, <3>1 DEF BioTypes, Stages
    <2> QED
      BY <2>5, <2>6
  <1>4. CASE Allocate(t)
    <2>1. /\ UNCHANGED <<freed, walk, bio, id, k>> /\ stage[t] = "add"
          /\ stage' = [stage EXCEPT ![t] = "link"]
          /\ node' = [node EXCEPT ![t] = Len(blocks) + 1]
          /\ prev' = [prev EXCEPT ![t] = back[0]]
          /\ next' = Extended(next) /\ back' = Extended(back)
      BY <1>4 DEF Allocate, device
    <2>2. BioTypes'
      BY <1>0, <2>1 DEF BioTypes, Stages
    <2>3. PICK b : /\ b = [idx |-> Sector(t), buf |-> [o \in 0 .. PAGE - 1 |-> Unset]]
                   /\ blocks' = Append(blocks, b)
      BY <1>4 DEF Allocate
    <2>4. Sector(t) \in Sectors
      <3>1. bio[t] \in Bios /\ k[t] \in Nat \ {0} /\ Sector(t) + CurSectors(t) <= nsectors
        BY <1>0, <2>1 DEF UnderWay, BioTypes, Busy, BioOK, Inside
      <3>2. Sector(t) \in Nat /\ CurSectors(t) \in 1 .. PAGE /\ PAGE \in Nat /\ nsectors \in Nat
        BY <3>1, SectorFacts
      <3> QED
        BY <3>1, <3>2 DEF Sectors
    <2>5. b \in Blocks
      BY <2>3, <2>4 DEF Blocks, Values
    <2>6. blocks' \in Seq(Blocks) /\ Len(blocks') = Len(blocks) + 1
      <3> HIDE DEF Blocks
      <3> QED
        BY <1>0, <2>3, <2>5 DEF ListTypes
    <2>7. PICK N : N = Len(blocks)
      OBVIOUS
    <2>8. N \in Nat /\ Len(blocks') = N + 1
      BY <1>0, <2>6, <2>7
    <2>9. /\ next \in [0 .. N -> 0 .. N] /\ back \in [0 .. N -> 0 .. N] /\ back[0] \in 0 .. N
          /\ freed \in SUBSET (1 .. N) /\ walk \in (0 .. N) \X (0 .. N)
          /\ node \in [Submitters -> 0 .. N] /\ prev \in [Submitters -> 0 .. N]
      BY <1>0, <2>7, Pointers DEF ListTypes, Nodes
    <2>10. /\ next' = [n \in 0 .. N + 1 |-> IF n <= N THEN next[n] ELSE 0]
           /\ back' = [n \in 0 .. N + 1 |-> IF n <= N THEN back[n] ELSE 0]
      BY <2>1, <2>7 DEF Extended
    <2>11. /\ next' \in [0 .. N + 1 -> 0 .. N + 1] /\ back' \in [0 .. N + 1 -> 0 .. N + 1]
      <3>1. PICK f, g : f = next' /\ g = back'
        OBVIOUS
      <3>2. f \in [0 .. N + 1 -> 0 .. N + 1]
        BY <2>8, <2>9, <2>10, <3>1, Grown
      <3>3. g \in [0 .. N + 1 -> 0 .. N + 1]
        BY <2>8, <2>9, <2>10, <3>1, Grown
      <3> QED
        BY <3>1, <3>2, <3>3
    <2>12. freed' \in SUBSET (1 .. N + 1) /\ walk' \in (0 .. N + 1) \X (0 .. N + 1)
      <3>1. /\ \A x \in 0 .. N : x \in 0 .. N + 1
            /\ \A x \in 1 .. N : x \in 1 .. N + 1
        BY <2>8
      <3>2. freed' \in SUBSET (1 .. N + 1)
        BY <2>1, <2>9, <3>1
      <3>3. walk' = walk
        BY <2>1
      <3>4. walk \in (0 .. N + 1) \X (0 .. N + 1)
        BY <2>9, <3>1
      <3> QED
        BY <3>2, <3>3, <3>4
    <2>13. node' \in [Submitters -> 0 .. N + 1] /\ prev' \in [Submitters -> 0 .. N + 1]
      <3>1. \A x \in 0 .. N : x \in 0 .. N + 1
        BY <2>8
      <3>2. N + 1 \in 0 .. N + 1
        BY <2>8
      <3> QED
        BY <2>1, <2>7, <2>9, <3>1, <3>2
    <2>14. ListTypes'
      BY <2>6, <2>8, <2>11, <2>12, <2>13 DEF ListTypes, Nodes
    <2> QED
      BY <2>2, <2>14
  <1>5. CASE Link(t) \/ Publish(t)
    <2>1. UNCHANGED <<blocks, freed, walk, bio, id, k, node, prev>> /\ stage[t] \in Owning
      BY <1>5 DEF Link, Publish, device, Owning
    <2>2. BioTypes'
      BY <1>0, <1>5, <2>1 DEF BioTypes, Stages, Link, Publish
    <2>3. PICK P : P = 0 .. Len(blocks)
      OBVIOUS
    <2>4. /\ node[t] \in P /\ prev[t] \in P /\ 0 \in P /\ next \in [P -> P] /\ back \in [P -> P]
      BY <1>0, <2>3, Pointers DEF ListTypes
    <2>5. next' \in [P -> P] /\ back' \in [P -> P]
      <3>1. CASE Link(t)
        BY <2>4, <3>1 DEF Link
      <3>2. CASE Publish(t)
        BY <2>4, <3>2 DEF Publish
      <3> QED
        BY <1>5, <3>1, <3>2
    <2> QED
      BY <1>0, <2>1, <2>2, <2>3, <2>5 DEF ListTypes, Nodes
  <1>6. CASE Copy(t)
    <2>1. /\ UNCHANGED <<next, back, freed, walk, prev, node, bio, id, users>> /\ stage[t] = "copy"
          /\ NextSeg(t)
      BY <1>6 DEF Copy, device
    <2>2. BioTypes'
      <3>1. stage' \in [Submitters -> Stages] /\ k' \in [Submitters -> Nat]
        BY <1>0, <2>1, NextSegOK DEF Busy
      <3> QED
        BY <1>0, <2>1, <3>1 DEF BioTypes
    <2>3. CASE UNCHANGED blocks
      BY <1>0, <2>1, <2>2, <2>3 DEF ListTypes, Nodes
    <2>4. CASE WriteBlock(t) /\ driver = "sbull2"
      <3>1. node[t] \in 1 .. Len(blocks) /\ CurSectors(t) \in 1 .. PAGE /\ PAGE \in Nat
        <4>1. bio[t] \in Bios /\ k[t] \in Nat \ {0}
          BY <1>0, <2>1 DEF UnderWay, BioTypes, Busy
        <4> QED
          BY <1>0, <2>1, <2>4, <4>1, SectorFacts DEF BioOK, HasBlock, Nodes
      <3>2. PICK n : n = node[t]
        OBVIOUS
      <3>3. blocks[n] \in Blocks
        BY <1>0, <3>1, <3>2, ElementOf DEF ListTypes
      <3>4. PICK x : /\ x = [o \in 0 .. PAGE - 1 |-> IF o \in Moved(t) THEN Memory(t, o) ELSE blocks[n].buf[o]]
                     /\ blocks' = [blocks EXCEPT ![n].buf = x]
        BY <2>4, <3>2 DEF WriteBlock
      <3>5. x \in [0 .. PAGE - 1 -> Values]
        <4>1. \A o \in 0 .. PAGE - 1 : Memory(t, o) \in Values /\ blocks[n].buf[o] \in Values
          BY <2>1, <3>1, <3>3, MemoryIs DEF Blocks
        <4> QED
          BY <3>4, <4>1
      <3>6. blocks' = [blocks EXCEPT ![n] = [blocks[n] EXCEPT !.buf = x]]
        BY <3>4
      <3>7. [blocks[n] EXCEPT !.buf = x] \in Blocks
        BY <3>3, <3>5 DEF Blocks
      <3>8. blocks' \in Seq(Blocks) /\ Len(blocks') = Len(blocks)
        <4>1. PICK r : r = [blocks[n] EXCEPT !.buf = x]
          OBVIOUS
        <4> QED
          BY <1>0, <3>1, <3>2, <3>6, <3>7, <4>1, Updated DEF ListTypes
      <3> QED
        BY <1>0, <2>1, <2>2, <3>8 DEF ListTypes, Nodes
    <2> QED
      BY <1>6, <2>3, <2>4 DEF Copy
  <1>7. CASE UseAfterFree(t)
    BY <1>0, <1>7 DEF UseAfterFree, store, bioVars, ListTypes, BioTypes, Nodes
  <1>8. CASE EndIo(t)
    <2>1. /\ UNCHANGED <<blocks, next, back, freed, walk>>
          /\ stage' = [stage EXCEPT ![t] = "idle"]
      BY <1>8 DEF EndIo, device, store
    <2>2. /\ id' = [id EXCEPT ![t] = 0] /\ k' = [k EXCEPT ![t] = 1]
          /\ node' = [node EXCEPT ![t] = 0] /\ prev' = [prev EXCEPT ![t] = 0]
          /\ bio' = [bio EXCEPT ![t] = CHOOSE b \in Bios : TRUE]
      BY <1>8 DEF EndIo, NoLocals
    <2>3. 0 \in 0 .. MaxBios
      BY SbullAssumption
    <2>4. BioTypes'
      <3>1. PICK b : bio' = [bio EXCEPT ![t] = b]
        BY <2>2
      <3>2. bio' = [u \in Submitters |-> bio'[u]]
        BY <1>0, <3>1 DEF BioTypes
      <3> QED
        BY <1>0, <2>1, <2>2, <2>3, <3>2 DEF BioTypes, Stages
    <2>5. 0 \in 0 .. Len(blocks)
      BY <1>0
    <2> QED
      BY <1>0, <2>1, <2>2, <2>4, <2>5 DEF ListTypes, Nodes
  <1> QED
    BY <1>1, <1>2, <1>3, <1>4, <1>5, <1>6, <1>7, <1>8 DEF BioStep, Submission

LEMMA BioStepData ==
  ASSUME Basics, NEW t \in Submitters, BioStep(t)
  PROVE  DataTypes'
  <1>0. DataTypes /\ BioOK(t) /\ BioTypes /\ ListTypes /\ (Busy(t) => UnderWay(t))
    BY DEF Basics, SbullTypeOK, BiosOK, BioOK
  <1>1. CASE UNCHANGED <<disk, last, got>>
    BY <1>0, <1>1 DEF DataTypes
  <1>2. CASE EndIo(t)
    <2>1. UNCHANGED disk /\ got' = [got EXCEPT ![t] = [s \in Sectors |-> Unset]]
      BY <1>2 DEF EndIo, NoLocals, store
    <2>2. got' \in [Submitters -> [Sectors -> Values]]
      BY <1>0, <2>1 DEF DataTypes, Values
    <2>3. \A s \in Sectors : <<id[t], s>> \in Values
      BY <1>0, <1>2 DEF EndIo, Busy, UnderWay, Values
    <2>4. last' \in [Sectors -> Values]
      BY <1>0, <1>2, <2>3 DEF EndIo, DataTypes
    <2> QED
      BY <1>0, <2>1, <2>2, <2>4 DEF DataTypes
  <1>3. CASE Copy(t)
    <2>0. stage[t] = "copy" /\ UNCHANGED last
      BY <1>3 DEF Copy
    <2>1. Sector(t) \in Nat /\ CurSectors(t) \in 1 .. PAGE /\ PAGE \in Nat /\ nsectors \in Nat
          /\ Sector(t) + CurSectors(t) <= nsectors
      <3>1. bio[t] \in Bios /\ k[t] \in Nat \ {0}
        BY <1>0, <2>0 DEF UnderWay, BioTypes, Busy
      <3> QED
        BY <1>0, <2>0, <3>1, SectorFacts DEF BioOK, Inside
    <2>2. CASE WriteDisk(t) /\ UNCHANGED got
      <3>1. \A s \in Sectors : s - Sector(t) \in Moved(t) => Memory(t, s - Sector(t)) \in Values
        <4>1. \A s \in Sectors : s - Sector(t) \in Moved(t) => s - Sector(t) \in Nat
          BY <2>1 DEF Moved, Sectors
        <4> QED
          BY <2>0, <4>1, MemoryIs
      <3>2. disk' \in [Sectors -> Values]
        BY <1>0, <2>2, <3>1 DEF WriteDisk, DataTypes
      <3> QED
        BY <1>0, <2>0, <2>2, <3>2 DEF DataTypes
    <2>3. CASE Read(t) /\ UNCHANGED disk
      <3>1. PICK seg, from : /\ seg = bio[t].segs[k[t]]
                             /\ from = [o \in Moved(t) |-> IF driver = "sbull" THEN disk[Sector(t) + o]
                                                           ELSE blocks[node[t]].buf[o]]
        OBVIOUS
      <3>2. \A o \in Moved(t) : from[o] \in Values
        <4> TAKE o \in Moved(t)
        <4>1. o \in 0 .. PAGE - 1 /\ Sector(t) + o \in Sectors
          BY <2>1 DEF Moved, Sectors
        <4>2. disk[Sector(t) + o] \in Values
          BY <1>0, <4>1 DEF DataTypes
        <4>3. driver # "sbull" => blocks[node[t]].buf[o] \in Values
          <5> SUFFICES ASSUME driver # "sbull" PROVE blocks[node[t]].buf[o] \in Values
            OBVIOUS
          <5>1. node[t] \in 1 .. Len(blocks)
            BY <1>0, <2>0 DEF BioOK, HasBlock, Nodes, Basics, SbullTypeOK, ModTypes, Drivers
          <5>2. blocks[node[t]] \in Blocks
            BY <1>0, <5>1, ElementOf DEF ListTypes
          <5> QED
            BY <4>1, <5>2 DEF Blocks
        <4> QED
          BY <3>1, <4>2, <4>3
      <3>3. got' = [got EXCEPT ![t] = [s \in Sectors |->
                      IF s - seg.at \in Moved(t) /\ s - seg.at < seg.len THEN from[s - seg.at]
                      ELSE got[t][s]]]
        BY <2>3, <3>1 DEF Read
      <3>4. got' \in [Submitters -> [Sectors -> Values]]
        BY <1>0, <3>2, <3>3 DEF DataTypes
      <3> QED
        BY <1>0, <2>0, <2>3, <3>4 DEF DataTypes
    <2> QED
      BY <1>1, <1>3, <2>0, <2>2, <2>3 DEF Copy
  <1> QED
    BY <1>1, <1>2, <1>3 DEF BioStep, Submission, Submit, Transfer, Find, Allocate, Link, Publish,
       UseAfterFree, store, bioVars

(* A bio meets freed memory only if the device was open at rmmod.          *)
LEMMA FreedUnder ==
  ASSUME Basics, NEW t \in Submitters, Busy(t), array = "freed" \/ freed # {}
  PROVE  torn /\ driver = "sbull2"
  <1>1. users = 1 /\ gendisk = "added" /\ mod \notin {"vfree", "gone"}
    BY DEF Basics, BiosOK, BioOK, UnderWay, Lifecycle
  <1>2. array # "freed"
    BY <1>1 DEF Basics, Lifecycle
  <1>3. freed # {} /\ driver = "sbull2" /\ mod \in Removing
    BY <1>2 DEF Basics, Lifecycle
  <1>4. ~torn => users = 0
    BY <1>3 DEF Basics, Lifecycle
  <1> QED
    BY <1>1, <1>3, <1>4

LEMMA BioStepLifecycle ==
  ASSUME Basics, NEW t \in Submitters, BioStep(t)
  PROVE  ModTypes' /\ Lifecycle'
  <1>0. /\ UNCHANGED <<driver, mod, array, gendisk, users, freed, walk, botched, torn>>
        /\ \A u \in Submitters \ {t} : stage'[u] = stage[u]
        /\ ModTypes /\ Lifecycle
    BY BioKeeps DEF Basics, SbullTypeOK
  <1>1. count' \in 0 .. MaxBios
    <2>1. CASE Submit(t)
      <3>1. count < IF mod = "live" THEN MaxBios ELSE RemovalBios
        BY <2>1 DEF Submit, Accepting
      <3> QED
        BY <1>0, <2>1, <3>1, SbullAssumption DEF ModTypes, Submit
    <2>2. CASE UNCHANGED count
      BY <1>0, <2>2 DEF ModTypes
    <2> QED
      BY <2>1, <2>2 DEF BioStep, Submission, Transfer, Find, Allocate, Link, Publish, Copy,
         UseAfterFree, EndIo, store, bioVars
  <1>2. ModTypes'
    BY <1>0, <1>1 DEF ModTypes
  <1>3. mod \notin {"vfree", "gone"}
    <2>1. CASE Submit(t)
      BY <2>1 DEF Submit, Accepting
    <2>2. CASE Submission(t)
      <3>1. Busy(t)
        BY <2>2 DEF Submission, Transfer, Find, Allocate, Link, Publish, Copy, UseAfterFree, EndIo, Busy
      <3> QED
        BY <1>0, <3>1 DEF Lifecycle
    <2> QED
      BY <2>1, <2>2 DEF BioStep
  <1>4. ASSUME oops' PROVE botched \/ torn
    <2>1. CASE UseAfterFree(t)
      <3>1. Busy(t) /\ (array = "freed" \/ freed # {})
        BY <2>1 DEF UseAfterFree, Freed, Busy
      <3> QED
        BY <3>1, FreedUnder
    <2>2. CASE UNCHANGED oops
      BY <1>0, <1>4, <2>2 DEF Lifecycle
    <2> QED
      BY <2>1, <2>2 DEF BioStep, Submission, Submit, Transfer, Find, Allocate, Link, Publish, Copy,
         EndIo, device
  <1> QED
    BY <1>0, <1>2, <1>3, <1>4 DEF Lifecycle

(* A step that links nothing keeps the shape of the list.                  *)
LEMMA ShapeKept ==
  ASSUME Basics, NEW t \in Submitters, BioStep(t), UNCHANGED <<next, back>>,
         Len(blocks') = Len(blocks), stage[t] \notin Owning, stage'[t] \notin Owning
  PROVE  Shape'
  <1>1. /\ \A u \in Submitters \ {t} :
             stage'[u] = stage[u] /\ node'[u] = node[u] /\ prev'[u] = prev[u]
        /\ UNCHANGED <<mod, freed, walk, torn>> /\ Shape
    BY BioKeeps DEF Basics, SbullTypeOK
  <1>2. Nodes' = Nodes /\ Len(blocks)' = Len(blocks)
    BY DEF Nodes
  <1>3. PointersMatch'
    BY <1>1, <1>2 DEF Shape, PointersMatch
  <1>4. \A u \in Submitters : FreshBlock(u)'
    <2> TAKE u \in Submitters
    <2>1. CASE u = t
      BY <2>1 DEF FreshBlock
    <2>2. CASE u # t
      <3>1. FreshBlock(u)
        BY <1>1 DEF Shape
      <3>2. \A v \in Submitters : stage'[v] \in Owning => stage[v] \in Owning /\ node'[v] = node[v]
        BY <1>1
      <3> HIDE DEF Owning
      <3> QED
        BY <1>1, <1>2, <2>2, <3>1, <3>2 DEF FreshBlock
    <2> QED
      BY <2>1, <2>2
  <1>5. WalkOK'
    <2>1. \A v \in Submitters : stage'[v] \in Owning => stage[v] \in Owning /\ node'[v] = node[v]
      BY <1>1
    <2> HIDE DEF Owning
    <2> QED
      BY <1>1, <2>1 DEF Shape, WalkOK
  <1> QED
    BY <1>3, <1>4, <1>5 DEF Shape

LEMMA AllocateShape ==
  ASSUME Basics, NEW t \in Submitters, Allocate(t)
  PROVE  Shape'
  <1>0. /\ \A u \in Submitters \ {t} :
             stage'[u] = stage[u] /\ node'[u] = node[u] /\ prev'[u] = prev[u]
        /\ UNCHANGED <<mod, freed, walk, torn>> /\ Shape /\ ListTypes /\ ListTypes' /\ BioTypes
    BY BioKeeps, BioStepTypes DEF Basics, SbullTypeOK, BioStep, Submission
  <1>1. PICK N : N = Len(blocks)
    OBVIOUS
  <1>2. /\ N \in Nat /\ Nodes = 1 .. N /\ freed \in SUBSET (1 .. N)
        /\ \A m \in 0 .. N : next[m] \in 0 .. N /\ back[m] \in 0 .. N
        /\ \A u \in Submitters : node[u] \in 0 .. N
    BY <1>0, <1>1, Pointers DEF Nodes, ListTypes
  <1>3. Len(blocks') = N + 1 /\ Nodes' = 1 .. N + 1
    <2>1. PICK b : blocks' = Append(blocks, b)
      BY DEF Allocate
    <2> QED
      BY <1>0, <1>1, <2>1 DEF ListTypes, Nodes
  <1>4. /\ \A m \in 0 .. N : next'[m] = next[m] /\ back'[m] = back[m]
        /\ next'[N + 1] = 0 /\ back'[N + 1] = 0
    <2>1. /\ next' = [n \in 0 .. N + 1 |-> IF n <= N THEN next[n] ELSE 0]
          /\ back' = [n \in 0 .. N + 1 |-> IF n <= N THEN back[n] ELSE 0]
      BY <1>1 DEF Allocate, Extended
    <2> QED
      BY <1>2, <2>1
  <1>5. stage'[t] = "link" /\ node'[t] = N + 1 /\ prev'[t] = back[0] /\ stage[t] = "add"
    BY <1>0, <1>1 DEF Allocate, BioTypes, ListTypes
  <1>6. \A m \in 0 .. N + 1 : m \in 0 .. N \/ m = N + 1
    BY <1>2
  <1>7. /\ \A m \in 1 .. N : (next[m] = 0 \/ next[m] > m) /\ back[m] < m
        /\ \A m \in (0 .. N) \ freed : next[m] # 0 => next[m] \notin freed /\ back[next[m]] = m
    BY <1>0, <1>1, <1>2 DEF Shape, PointersMatch
  <1>8. PointersMatch'
    <2>1. \A m \in 1 .. N + 1 : (next'[m] = 0 \/ next'[m] > m) /\ back'[m] < m
      <3> TAKE m \in 1 .. N + 1
      <3>1. CASE m = N + 1
        BY <1>2, <1>4, <3>1
      <3>2. CASE m # N + 1
        <4>1. m \in 1 .. N /\ m \in 0 .. N
          BY <1>2, <3>2
        <4> QED
          BY <1>4, <1>7, <4>1
      <3> QED
        BY <3>1, <3>2
    <2>2. \A m \in (0 .. N + 1) \ freed : next'[m] # 0 => next'[m] \notin freed /\ back'[next'[m]] = m
      BY <1>2, <1>4, <1>6, <1>7
    <2> QED
      BY <1>0, <1>3, <2>1, <2>2 DEF PointersMatch
  <1>9. \A u \in Submitters : FreshBlock(u)'
    <2> TAKE u \in Submitters
    <2> SUFFICES ASSUME stage'[u] \in Owning
                 PROVE  /\ node'[u] \in (1 .. N + 1) \ freed /\ prev'[u] < node'[u]
                        /\ \A m \in 0 .. N + 1 : next'[m] # node'[u]
                        /\ \A v \in Submitters : stage'[v] \in Owning /\ node'[v] = node'[u] => v = u
                        /\ stage'[u] = "publish" => back'[node'[u]] = prev'[u]
      BY <1>0, <1>3 DEF FreshBlock
    <2>1. CASE u = t
      <3>1. back[0] \in 0 .. N /\ N + 1 \notin 0 .. N /\ N + 1 \in 1 .. N + 1 /\ 0 \in 0 .. N
        BY <1>2
      <3>2. back[0] < N + 1
        BY <1>2, <3>1
      <3>3. \A m \in 0 .. N + 1 : next'[m] # N + 1
        BY <1>2, <1>4, <1>6, <3>1
      <3>4. \A v \in Submitters : node'[v] = N + 1 => v = t
        BY <1>0, <1>2, <3>1
      <3> QED
        BY <1>2, <1>5, <2>1, <3>1, <3>2, <3>3, <3>4
    <2>2. CASE u # t
      <3>1. /\ node[u] \in (1 .. N) \ freed /\ prev[u] < node[u]
            /\ \A m \in 0 .. N : next[m] # node[u]
            /\ \A v \in Submitters : stage[v] \in Owning /\ node[v] = node[u] => v = u
            /\ stage[u] = "publish" => back[node[u]] = prev[u]
            /\ stage'[u] = stage[u] /\ node'[u] = node[u] /\ prev'[u] = prev[u]
        <4>1. FreshBlock(u) /\ stage'[u] = stage[u] /\ node'[u] = node[u] /\ prev'[u] = prev[u]
          BY <1>0, <2>2 DEF Shape
        <4> HIDE DEF Owning
        <4> QED
          BY <1>1, <1>2, <4>1 DEF FreshBlock
      <3>2. node[u] \in 0 .. N /\ node[u] # N + 1 /\ node[u] # 0 /\ node[u] \in 1 .. N + 1
        BY <1>2, <3>1
      <3>3. \A m \in 0 .. N + 1 : next'[m] # node[u]
        BY <1>4, <1>6, <3>1, <3>2
      <3>4. \A v \in Submitters : stage'[v] \in Owning /\ node'[v] = node[u] => v = u
        BY <1>0, <1>5, <3>1, <3>2
      <3> QED
        BY <1>4, <3>1, <3>2, <3>3, <3>4
    <2> QED
      BY <2>1, <2>2
  <1>10. WalkOK'
    <2>1. walk[1] \in 0 .. N /\ walk[2] \in 0 .. N /\ 0 \in 0 .. N /\ N + 1 \notin 0 .. N
      BY <1>0, <1>1, <1>2 DEF ListTypes
    <2>2. \A u \in Submitters : stage'[u] \in Owning =>
            u = t \/ (stage[u] \in Owning /\ node'[u] = node[u])
      BY <1>0
    <2>3. next'[0] = next[0] /\ next'[walk[1]] = next[walk[1]]
      BY <1>4, <2>1
    <2>4. node'[t] # walk[1] /\ node'[t] # walk[2]
      BY <1>5, <2>1
    <2> HIDE DEF Owning
    <2> QED
      BY <1>0, <2>2, <2>3, <2>4 DEF Shape, WalkOK
  <1> QED
    BY <1>8, <1>9, <1>10 DEF Shape

LEMMA LinkShape ==
  ASSUME Basics, NEW t \in Submitters, Link(t)
  PROVE  Shape'
  <1>0. /\ \A u \in Submitters \ {t} : stage'[u] = stage[u]
        /\ UNCHANGED <<mod, freed, walk, torn, node, prev, blocks>> /\ Shape /\ ListTypes /\ BioTypes
    BY BioKeeps DEF Basics, SbullTypeOK, BioStep, Submission, Link
  <1>1. /\ node[t] \in Nodes \ freed /\ prev[t] < node[t]
        /\ \A m \in 0 .. Len(blocks) : next[m] # node[t]
        /\ \A u \in Submitters : stage[u] \in Owning /\ node[u] = node[t] => u = t
    BY <1>0 DEF Link, Owning, Shape, FreshBlock
  <1>2. /\ \A m \in 0 .. Len(blocks) : next'[m] = IF m = node[t] THEN 0 ELSE next[m]
        /\ \A m \in 0 .. Len(blocks) : back'[m] = IF m = node[t] THEN prev[t]
                                                  ELSE IF m = 0 THEN node[t] ELSE back[m]
    <2>1. PICK P : P = 0 .. Len(blocks)
      OBVIOUS
    <2>2. next \in [P -> P] /\ back \in [P -> P]
      BY <1>0, <2>1 DEF ListTypes
    <2>3. /\ next' = [next EXCEPT ![node[t]] = 0]
          /\ back' = [back EXCEPT ![0] = node[t], ![node[t]] = prev[t]]
      BY DEF Link
    <2> QED
      BY <2>1, <2>2, <2>3
  <1>3. Nodes' = Nodes /\ Len(blocks)' = Len(blocks)
    BY <1>0 DEF Nodes
  <1>4. /\ 0 \notin Nodes /\ 0 \in 0 .. Len(blocks) /\ \A m \in Nodes : m \in 0 .. Len(blocks) /\ m > 0
        /\ \A m \in 0 .. Len(blocks) : next[m] \in 0 .. Len(blocks)
    BY <1>0, Pointers
  <1>5. stage[t] = "link" /\ stage'[t] = "publish"
    BY <1>0 DEF Link, BioTypes
  <1>6. PointersMatch'
    <2>1. PointersMatch
      BY <1>0 DEF Shape
    <2>2. \A m \in Nodes : (next'[m] = 0 \/ next'[m] > m) /\ back'[m] < m
      BY <1>1, <1>2, <1>4, <2>1 DEF PointersMatch
    <2>3. \A m \in (0 .. Len(blocks)) \ freed :
            next'[m] # 0 => next'[m] \notin freed /\ back'[next'[m]] = m
      BY <1>1, <1>2, <1>4, <2>1 DEF PointersMatch
    <2> QED
      BY <1>0, <1>3, <2>2, <2>3 DEF PointersMatch
  <1>7. \A u \in Submitters : FreshBlock(u)'
    <2> TAKE u \in Submitters
    <2> SUFFICES ASSUME stage'[u] \in Owning
                 PROVE  /\ node[u] \in Nodes \ freed /\ prev[u] < node[u]
                        /\ \A m \in 0 .. Len(blocks) : next'[m] # node[u]
                        /\ \A v \in Submitters : stage'[v] \in Owning /\ node[v] = node[u] => v = u
                        /\ stage'[u] = "publish" => back'[node[u]] = prev[u]
      BY <1>0, <1>3 DEF FreshBlock
    <2>1. \A v \in Submitters : stage'[v] \in Owning => stage[v] \in Owning
      BY <1>0, <1>5 DEF Owning
    <2>2. /\ node[u] \in Nodes \ freed /\ prev[u] < node[u]
          /\ \A m \in 0 .. Len(blocks) : next[m] # node[u]
          /\ \A v \in Submitters : stage[v] \in Owning /\ node[v] = node[u] => v = u
          /\ stage[u] = "publish" => back[node[u]] = prev[u]
      <3>1. FreshBlock(u) /\ stage[u] \in Owning
        BY <1>0, <2>1 DEF Shape
      <3> HIDE DEF Owning
      <3> QED
        BY <3>1 DEF FreshBlock
    <2>3. \A m \in 0 .. Len(blocks) : next'[m] # node[u]
      BY <1>2, <1>4, <2>2
    <2>4. stage'[u] = "publish" => back'[node[u]] = prev[u]
      <3>1. CASE u = t
        BY <1>1, <1>2, <1>4, <3>1
      <3>2. CASE u # t
        <4>1. node[u] # node[t] /\ node[u] # 0 /\ node[u] \in 0 .. Len(blocks) /\ stage'[u] = stage[u]
          BY <1>0, <1>4, <1>5, <2>2, <3>2 DEF Owning
        <4> QED
          BY <1>2, <2>2, <4>1
      <3> QED
        BY <3>1, <3>2
    <2> QED
      BY <2>1, <2>2, <2>3, <2>4
  <1>8. WalkOK'
    <2>1. \A u \in Submitters : stage'[u] \in Owning => stage[u] \in Owning
      BY <1>0, <1>5 DEF Owning
    <2>2. mod = "free_list" => torn
      <3>1. Busy(t)
        BY <1>5 DEF Busy
      <3> QED
        BY <3>1 DEF Basics, BiosOK, BioOK, UnderWay, Lifecycle, Removing
    <2>3. WalkOK
      BY <1>0 DEF Shape
    <2> HIDE DEF Owning
    <2> QED
      BY <1>0, <2>1, <2>2, <2>3 DEF WalkOK
  <1> QED
    BY <1>6, <1>7, <1>8 DEF Shape

LEMMA PublishShape ==
  ASSUME Basics, NEW t \in Submitters, Publish(t)
  PROVE  Shape'
  <1>0. /\ \A u \in Submitters \ {t} : stage'[u] = stage[u]
        /\ UNCHANGED <<mod, freed, walk, torn, node, prev, blocks, back>>
        /\ Shape /\ ListTypes /\ BioTypes
    BY BioKeeps DEF Basics, SbullTypeOK, BioStep, Submission, Publish
  <1>1. /\ node[t] \in Nodes \ freed /\ prev[t] < node[t] /\ back[node[t]] = prev[t]
        /\ \A u \in Submitters : stage[u] \in Owning /\ node[u] = node[t] => u = t
        /\ prev[t] \notin freed
    BY <1>0 DEF Publish, Owning, Shape, FreshBlock
  <1>2. /\ \A m \in 0 .. Len(blocks) : next'[m] = IF m = prev[t] THEN node[t] ELSE next[m]
    <2>1. PICK P : P = 0 .. Len(blocks)
      OBVIOUS
    <2>2. next \in [P -> P]
      BY <1>0, <2>1 DEF ListTypes
    <2>3. next' = [next EXCEPT ![prev[t]] = node[t]]
      BY DEF Publish
    <2> QED
      BY <2>1, <2>2, <2>3
  <1>3. Nodes' = Nodes /\ Len(blocks)' = Len(blocks)
    BY <1>0 DEF Nodes
  <1>4. /\ 0 \notin Nodes /\ 0 \in 0 .. Len(blocks) /\ \A m \in Nodes : m \in 0 .. Len(blocks) /\ m > 0
        /\ \A m \in 0 .. Len(blocks) : next[m] \in 0 .. Len(blocks)
    BY <1>0, Pointers
  <1>5. stage[t] = "publish" /\ stage'[t] = "copy"
    BY <1>0 DEF Publish, BioTypes
  <1>6. PointersMatch'
    <2>1. PointersMatch
      BY <1>0 DEF Shape
    <2>2. \A m \in Nodes : (next'[m] = 0 \/ next'[m] > m) /\ back'[m] < m
      BY <1>0, <1>1, <1>2, <1>4, <2>1 DEF PointersMatch
    <2>3. \A m \in (0 .. Len(blocks)) \ freed :
            next'[m] # 0 => next'[m] \notin freed /\ back[next'[m]] = m
      BY <1>1, <1>2, <1>4, <2>1 DEF PointersMatch
    <2> QED
      BY <1>0, <1>3, <2>2, <2>3 DEF PointersMatch
  <1>7. \A u \in Submitters : FreshBlock(u)'
    <2> TAKE u \in Submitters
    <2> SUFFICES ASSUME stage'[u] \in Owning
                 PROVE  /\ node[u] \in Nodes \ freed /\ prev[u] < node[u]
                        /\ \A m \in 0 .. Len(blocks) : next'[m] # node[u]
                        /\ \A v \in Submitters : stage'[v] \in Owning /\ node[v] = node[u] => v = u
                        /\ stage'[u] = "publish" => back[node[u]] = prev[u]
      BY <1>0, <1>3 DEF FreshBlock
    <2>1. \A v \in Submitters : stage'[v] \in Owning => v # t /\ stage[v] \in Owning
      BY <1>0, <1>5 DEF Owning
    <2>2. /\ node[u] \in Nodes \ freed /\ prev[u] < node[u]
          /\ \A m \in 0 .. Len(blocks) : next[m] # node[u]
          /\ \A v \in Submitters : stage[v] \in Owning /\ node[v] = node[u] => v = u
          /\ stage[u] = "publish" => back[node[u]] = prev[u]
      <3>1. FreshBlock(u) /\ stage[u] \in Owning
        BY <1>0, <2>1 DEF Shape
      <3> HIDE DEF Owning
      <3> QED
        BY <3>1 DEF FreshBlock
    <2>3. \A m \in 0 .. Len(blocks) : next'[m] # node[u]
      BY <1>1, <1>2, <2>1, <2>2
    <2> QED
      BY <1>0, <2>1, <2>2, <2>3
  <1>8. WalkOK'
    <2>1. \A u \in Submitters : stage'[u] \in Owning => stage[u] \in Owning
      BY <1>0, <1>5 DEF Owning
    <2>2. mod = "free_list" => torn
      <3>1. Busy(t)
        BY <1>5 DEF Busy
      <3> QED
        BY <3>1 DEF Basics, BiosOK, BioOK, UnderWay, Lifecycle, Removing
    <2>3. WalkOK
      BY <1>0 DEF Shape
    <2> HIDE DEF Owning
    <2> QED
      BY <1>0, <2>1, <2>2, <2>3 DEF WalkOK
  <1> QED
    BY <1>6, <1>7, <1>8 DEF Shape

LEMMA BioStepShape ==
  ASSUME Basics, NEW t \in Submitters, BioStep(t)
  PROVE  Shape'
  <1>0. BioTypes /\ ListTypes
    BY DEF Basics, SbullTypeOK
  <1>1. CASE Submit(t)
    <2>1. /\ UNCHANGED <<next, back, blocks>> /\ stage[t] = "idle" /\ stage'[t] = "seg"
      BY <1>0, <1>1 DEF Submit, store, BioTypes
    <2> QED
      BY <2>1, ShapeKept DEF Owning
  <1>2. CASE Transfer(t)
    <2>1. /\ UNCHANGED <<next, back, blocks>> /\ stage[t] = "seg"
          /\ stage'[t] \in {"seg", "end", "copy", "find"}
      BY <1>0, <1>2 DEF Transfer, NextSeg, store, BioTypes
    <2> QED
      BY <2>1, ShapeKept DEF Owning
  <1>3. CASE Find(t)
    <2>1. /\ UNCHANGED <<next, back, blocks>> /\ stage[t] = "find"
          /\ stage'[t] \in {"seg", "end", "copy", "add"}
      BY <1>0, <1>3 DEF Find, NextSeg, store, BioTypes
    <2> QED
      BY <2>1, ShapeKept DEF Owning
  <1>4. CASE Copy(t)
    <2>1. /\ UNCHANGED <<next, back>> /\ stage[t] = "copy" /\ stage'[t] \in {"seg", "end"}
      BY <1>0, <1>4 DEF Copy, NextSeg, BioTypes
    <2>2. Len(blocks') = Len(blocks)
      <3>1. CASE UNCHANGED blocks
        BY <3>1
      <3>2. CASE WriteBlock(t)
        <4>1. PICK x : blocks' = [blocks EXCEPT ![node[t]].buf = x]
          BY <3>2 DEF WriteBlock
        <4> QED
          BY <1>0, <4>1 DEF ListTypes
      <3> QED
        BY <1>4, <3>1, <3>2 DEF Copy
    <2> QED
      BY <2>1, <2>2, ShapeKept DEF Owning
  <1>5. CASE UseAfterFree(t)
    BY <1>0, <1>5, BioKeeps DEF UseAfterFree, store, bioVars, Shape, PointersMatch, FreshBlock, WalkOK,
       Nodes, Basics
  <1>6. CASE EndIo(t)
    <2>1. /\ UNCHANGED <<next, back, blocks>> /\ stage[t] = "end" /\ stage'[t] = "idle"
      BY <1>0, <1>6 DEF EndIo, store, BioTypes
    <2> QED
      BY <2>1, ShapeKept DEF Owning
  <1> QED
    BY <1>1, <1>2, <1>3, <1>4, <1>5, <1>6, AllocateShape, LinkShape, PublishShape DEF BioStep, Submission

LEMMA BioBasics == ASSUME Basics, NEW t \in Submitters, BioStep(t) PROVE Basics'
  <1>1. BiosOK'
    BY OthersOK, BioStepOK DEF BiosOK
  <1> QED
    BY <1>1, BioStepTypes, BioStepData, BioStepLifecycle, BioStepShape DEF Basics, SbullTypeOK

LEMMA StepBasics == ASSUME Basics, [Next]_vars PROVE Basics'
  <1>1. CASE Next
    BY <1>1, NextIs, ModuleBasics, BioBasics
  <1>2. CASE UNCHANGED vars
    BY <1>2 DEF vars, device, store, hist, Basics, SbullTypeOK, ModTypes, ListTypes, BioTypes, DataTypes,
       BiosOK, BioOK, UnderWay, HasBlock, Busy, Sector, CurSectors, Lifecycle, Shape, PointersMatch,
       FreshBlock, WalkOK, Nodes
  <1> QED
    BY <1>1, <1>2

-----------------------------------------------------------------------------
(* Every reachable state is well-typed, every bio under way has made sure  *)
(* of what it relies on, and the pointers of the list match.               *)
THEOREM SbullBasics == Spec => []Basics
  <1>1. Init => Basics
    BY InitBasics
  <1>2. Basics /\ [Next]_vars => Basics'
    BY StepBasics
  <1> QED
    BY <1>1, <1>2, PTL DEF Spec

(* No variable ever leaves its type: neither the array nor a block nor a   *)
(* buffer is touched beyond its end.                                       *)
THEOREM SbullTypeCorrect == Spec => []SbullTypeOK
  <1>1. Basics => SbullTypeOK
    BY DEF Basics
  <1> QED
    BY <1>1, SbullBasics, PTL

(* The memory a bio copies to or from is not freed under it, with any      *)
(* number of submitters, unless it is sbull2 and the device was open when  *)
(* rmmod was called.                                                       *)
THEOREM MemoryLasts == Spec => []MemoryOutlivesBios
  <1>1. ASSUME Basics PROVE MemoryOutlivesBios
    <2> SUFFICES ASSUME NEW t \in Submitters, stage[t] = "copy", Freed(t)
                 PROVE  driver = "sbull2" /\ torn
      BY DEF MemoryOutlivesBios
    <2>1. Busy(t) /\ (array = "freed" \/ freed # {})
      BY DEF Busy, Freed
    <2> QED
      BY <1>1, <2>1, FreedUnder
  <1> QED
    BY <1>1, SbullBasics, PTL

-----------------------------------------------------------------------------
(* Regular bios put everything in its place.                               *)
LEMMA OneMore == ASSUME NEW x \in Int, NEW y \in Int PROVE (x - 1) * y = (x - 2) * y + y
  OBVIOUS

LEMMA EvenlySpaced ==
  ASSUME NEW N \in Nat, NEW at, NEW y \in Nat, at[1] \in Nat,
         \A i \in 1 .. N : at[i] \in Nat /\ (i > 1 => at[i] = at[i - 1] + y)
  PROVE  \A i \in 1 .. N : at[i] = at[1] + (i - 1) * y
  <1> DEFINE T == {i \in 1 .. N : at[i] # at[1] + (i - 1) * y}
  <1> SUFFICES ASSUME T # {} PROVE FALSE
    OBVIOUS
  <1>1. PICK i \in T : \A j \in T : i <= j
    <2>1. T \in SUBSET Nat
      OBVIOUS
    <2> QED
      BY <2>1, LeastOf
  <1>2. CASE i = 1
    <2>1. (1 - 1) * y = 0
      OBVIOUS
    <2> QED
      BY <1>2, <2>1
  <1>3. CASE i # 1
    <2>1. i - 1 \in 1 .. N /\ i > 1 /\ i \in Int /\ ~(i <= i - 1)
      BY <1>3
    <2>2. at[i - 1] = at[1] + (i - 2) * y
      <3>1. i - 1 \notin T
        BY <1>1, <2>1
      <3>2. (i - 1) - 1 = i - 2
        BY <2>1
      <3> QED
        BY <2>1, <3>1, <3>2
    <2>3. (i - 1) * y = (i - 2) * y + y
      BY <2>1, OneMore
    <2>4. at[i] = at[1] + (i - 2) * y + y
      BY <2>1, <2>2
    <2>5. (i - 2) * y \in Int
      BY <2>1
    <2>6. at[i] = at[1] + (i - 1) * y
      BY <2>3, <2>4, <2>5
    <2> QED
      BY <2>6
  <1> QED
    BY <1>2, <1>3

LEMMA RegularSector ==
  ASSUME Basics, NEW t \in Submitters, Busy(t), stage[t] # "end", Regular(bio[t])
  PROVE  /\ bio[t].segs[k[t]].at = Sector(t) /\ bio[t].segs[k[t]].len = CurSectors(t)
         /\ driver = "sbull2" => CurSectors(t) = PAGE /\ Sector(t) % PAGE = 0
  <1>1. PICK b, n : b = bio[t] /\ n = Len(b.segs)
    OBVIOUS
  <1>2. b \in Bios /\ k[t] \in 1 .. n /\ n \in Nat \ {0}
    <2>1. UnderWay(t)
      BY DEF Basics, BiosOK, BioOK
    <2>2. b \in Bios /\ n \in Nat \ {0}
      BY <1>1, <2>1, BioShape DEF UnderWay
    <2>3. k[t] \in 1 .. n + 1 /\ k[t] # n + 1
      BY <1>1, <2>1 DEF UnderWay
    <2> QED
      BY <2>2, <2>3
  <1>3. /\ \A i \in 1 .. n : b.segs[i].at \in Nat /\ b.segs[i].len \in 1 .. PAGE
        /\ \A i \in 1 .. n : i > 1 => b.segs[i].at = b.segs[i - 1].at + b.segs[i - 1].len
        /\ PAGE \in Nat
    BY <1>1, <1>2, BioShape
  <1>4. \A i \in 1 .. n : b.segs[i].len = b.segs[1].len
    <2>1. \A i \in 1 .. n : IF driver = "sbull" THEN b.segs[i].len = b.segs[1].len
                            ELSE b.segs[i].len = PAGE /\ b.segs[i].at % PAGE = 0
      BY <1>1 DEF Regular, Segs
    <2>2. 1 \in 1 .. n
      BY <1>2
    <2> QED
      BY <2>1, <2>2
  <1>5. PICK at, y : at = [i \in 1 .. n |-> b.segs[i].at] /\ y = b.segs[1].len
    OBVIOUS
  <1>6. 1 \in 1 .. n /\ y \in Nat /\ at[1] = b.segs[1].at /\ at[1] \in Nat
    BY <1>2, <1>3, <1>5
  <1>7. \A i \in 1 .. n : at[i] \in Nat /\ (i > 1 => at[i] = at[i - 1] + y)
    <2> TAKE i \in 1 .. n
    <2>1. at[i] \in Nat
      BY <1>3, <1>5
    <2>2. ASSUME i > 1 PROVE at[i] = at[i - 1] + y
      <3>1. i - 1 \in 1 .. n
        BY <1>2, <2>2
      <3> QED
        BY <1>3, <1>4, <1>5, <2>2, <3>1
    <2> QED
      BY <2>1, <2>2
  <1>8. at[k[t]] = at[1] + (k[t] - 1) * y
    <2>1. n \in Nat
      BY <1>2
    <2>2. \A i \in 1 .. n : at[i] = at[1] + (i - 1) * y
      BY <1>6, <1>7, <2>1, EvenlySpaced
    <2> QED
      BY <1>2, <2>2
  <1>9. b.segs[k[t]].at = Sector(t) /\ b.segs[k[t]].len = CurSectors(t)
    BY <1>1, <1>2, <1>4, <1>5, <1>6, <1>8 DEF Sector, CurSectors
  <1>10. driver = "sbull2" => b.segs[k[t]].len = PAGE /\ b.segs[k[t]].at % PAGE = 0
    BY <1>1, <1>2 DEF Regular, Segs
  <1> QED
    BY <1>1, <1>9, <1>10

(* What a regular write copies names the sector it is put into.            *)
LEMMA RegularMemory ==
  ASSUME Basics, AllRegular, ~irregular, NEW t \in Submitters, stage[t] = "copy", NEW o \in Moved(t)
  PROVE  Memory(t, o) = <<id[t], Sector(t) + o>> /\ id[t] \in 1 .. MaxBios
  <1>1. Busy(t) /\ Regular(bio[t]) /\ UnderWay(t) /\ stage[t] # "end"
    BY DEF Busy, AllRegular, Basics, BiosOK, BioOK
  <1>2. bio[t].segs[k[t]].at = Sector(t) /\ bio[t].segs[k[t]].len = CurSectors(t)
    BY <1>1, RegularSector
  <1>3. CurSectors(t) \in Nat
    <2>1. bio[t] \in Bios /\ k[t] \in Nat \ {0}
      BY <1>1 DEF UnderWay, Basics, SbullTypeOK, BioTypes
    <2>2. CurSectors(t) \in 1 .. PAGE /\ PAGE \in Nat
      BY <2>1, SectorFacts
    <2> QED
      BY <2>2
  <1>4. o < CurSectors(t)
    BY <1>3 DEF Moved
  <1> QED
    BY <1>1, <1>2, <1>4 DEF Memory, UnderWay

Written(v, s) == v = Unset \/ v \in (1 .. MaxBios) \X {s}

Placed ==
  ~irregular =>
    /\ \A s \in Sectors : Written(disk[s], s)
    /\ \A n \in Nodes : \A o \in 0 .. PAGE - 1 : Written(blocks[n].buf[o], blocks[n].idx + o)

LEMMA InitPlaced == ASSUME Init PROVE AllRegular /\ Placed
  <1>1. Len(blocks) = 0
    BY DEF Init
  <1> QED
    BY <1>1 DEF Init, AllRegular, Placed, Busy, Written, Nodes

LEMMA StepRegular == ASSUME Basics, AllRegular, [Next]_vars PROVE AllRegular'
  <1>1. ASSUME NEW b PROVE UNCHANGED driver => (Regular(b)' <=> Regular(b))
    BY DEF Regular, Segs
  <1>2. CASE UNCHANGED <<driver, irregular, bio, stage>>
    BY <1>1, <1>2 DEF AllRegular, Busy
  <1>3. CASE ModuleStep
    BY <1>2, <1>3, ModuleKeeps
  <1>4. ASSUME NEW t \in Submitters, BioStep(t) PROVE AllRegular'
    <2>0. UNCHANGED driver /\ \A u \in Submitters \ {t} : bio'[u] = bio[u] /\ stage'[u] = stage[u]
      BY <1>4, BioKeeps DEF Basics, SbullTypeOK
    <2>1. CASE Submit(t)
      <3>1. PICK b : bio' = [bio EXCEPT ![t] = b] /\ irregular' = (irregular \/ ~Regular(b))
        BY <2>1 DEF Submit
      <3>2. bio'[t] = b
        BY <3>1 DEF Basics, SbullTypeOK, BioTypes
      <3>3. ~irregular' => ~irregular /\ Regular(b)
        BY <3>1, Zenon
      <3> QED
        BY <1>1, <2>0, <3>2, <3>3 DEF AllRegular, Busy
    <2>2. CASE Submission(t)
      <3>1. irregular' = irregular
        BY <2>2 DEF Submission, Transfer, Find, Allocate, Link, Publish, Copy, UseAfterFree, EndIo, hist
      <3>2. Busy(t) /\ (Busy(t)' => bio'[t] = bio[t])
        BY <2>2 DEF Submission, Transfer, Find, Allocate, Link, Publish, Copy, UseAfterFree, EndIo, Busy,
           bioVars, Basics, SbullTypeOK, BioTypes
      <3> QED
        BY <1>1, <2>0, <3>1, <3>2 DEF AllRegular, Busy
    <2> QED
      BY <1>4, <2>1, <2>2 DEF BioStep
  <1> QED
    BY <1>2, <1>3, <1>4, NextIs DEF vars, device, hist

LEMMA StepPlaced == ASSUME Basics, AllRegular, Placed, [Next]_vars PROVE Placed'
  <1> SUFFICES ASSUME ~irregular'
               PROVE  /\ \A s \in Sectors : Written(disk'[s], s)
                      /\ \A n \in Nodes' : \A o \in 0 .. PAGE - 1 :
                           Written(blocks'[n].buf[o], blocks'[n].idx + o)
    BY DEF Placed, Written
  <1>1. CASE UNCHANGED <<irregular, disk, blocks>>
    BY <1>1 DEF Placed, Nodes
  <1>2. CASE ModuleStep
    BY <1>1, <1>2, ModuleKeeps
  <1>3. ASSUME NEW t \in Submitters, BioStep(t)
        PROVE  /\ \A s \in Sectors : Written(disk'[s], s)
               /\ \A n \in Nodes' : \A o \in 0 .. PAGE - 1 :
                    Written(blocks'[n].buf[o], blocks'[n].idx + o)
    <2>0. ~irregular /\ ListTypes /\ BioOK(t) /\ BioTypes
      <3>1. irregular' = irregular \/ \E b : irregular' = (irregular \/ ~Regular(b))
        BY <1>3 DEF BioStep, Submission, Submit, Transfer, Find, Allocate, Link, Publish, Copy,
           UseAfterFree, EndIo, hist
      <3>2. ~irregular
        BY <3>1, Zenon
      <3> QED
        BY <3>2 DEF Basics, SbullTypeOK, BiosOK
    <2>1. /\ \A s \in Sectors : Written(disk[s], s)
          /\ \A n \in Nodes : \A o \in 0 .. PAGE - 1 : Written(blocks[n].buf[o], blocks[n].idx + o)
      BY <2>0 DEF Placed
    <2>2. CASE UNCHANGED <<disk, blocks>>
      BY <2>1, <2>2 DEF Nodes
    <2>3. CASE Allocate(t)
      <3>0. PICK b : /\ b = [idx |-> Sector(t), buf |-> [o \in 0 .. PAGE - 1 |-> Unset]]
                     /\ blocks' = Append(blocks, b)
        BY <2>3 DEF Allocate
      <3>1. blocks' = Append(blocks, b) /\ \A o \in 0 .. PAGE - 1 : b.buf[o] = Unset
        BY <3>0
      <3>2. \A n \in Nodes' : (n \in Nodes /\ blocks'[n] = blocks[n]) \/ blocks'[n] = b
        <4>1. /\ Len(blocks') = Len(blocks) + 1 /\ Len(blocks) \in Nat
              /\ blocks'[Len(blocks) + 1] = b /\ \A n \in 1 .. Len(blocks) : blocks'[n] = blocks[n]
          BY <2>0, <3>1 DEF ListTypes
        <4> QED
          BY <4>1 DEF Nodes
      <3>3. UNCHANGED disk
        BY <2>3 DEF Allocate
      <3> QED
        BY <2>1, <3>1, <3>2, <3>3 DEF Written
    <2>4. CASE Copy(t) /\ WriteDisk(t) /\ UNCHANGED blocks
      <3>1. stage[t] = "copy"
        BY <2>4 DEF Copy
      <3>2. Sector(t) \in Nat /\ CurSectors(t) \in 1 .. PAGE /\ PAGE \in Nat /\ nsectors \in Nat
        <4>1. bio[t] \in Bios /\ k[t] \in Nat \ {0}
          BY <2>0, <3>1 DEF UnderWay, BioTypes, Busy, BioOK
        <4> QED
          BY <4>1, SectorFacts
      <3>3. ASSUME NEW s \in Sectors, s - Sector(t) \in Moved(t)
            PROVE  Written(Memory(t, s - Sector(t)), s)
        <4>1. PICK o : o = s - Sector(t)
          OBVIOUS
        <4>2. Memory(t, o) = <<id[t], Sector(t) + o>> /\ id[t] \in 1 .. MaxBios
          BY <2>0, <3>1, <3>3, <4>1, RegularMemory
        <4>3. Sector(t) + o = s
          BY <3>2, <4>1 DEF Sectors
        <4> QED
          BY <4>1, <4>2, <4>3 DEF Written
      <3>4. \A s \in Sectors : Written(disk'[s], s)
        BY <2>1, <2>4, <3>3 DEF WriteDisk
      <3> QED
        BY <2>1, <2>4, <3>4 DEF Nodes
    <2>5. CASE Copy(t) /\ WriteBlock(t) /\ UNCHANGED disk /\ driver = "sbull2"
      <3>1. stage[t] = "copy" /\ node[t] \in Nodes /\ blocks[node[t]].idx = Sector(t)
        BY <2>0, <2>5 DEF Copy, BioOK, HasBlock
      <3>2. PICK m : m = node[t]
        OBVIOUS
      <3>3. PICK x : /\ x = [o \in 0 .. PAGE - 1 |-> IF o \in Moved(t) THEN Memory(t, o) ELSE blocks[m].buf[o]]
                     /\ blocks' = [blocks EXCEPT ![m].buf = x]
        BY <2>5, <3>2 DEF WriteBlock
      <3>4. blocks[m] \in Blocks /\ m \in 1 .. Len(blocks)
        BY <2>0, <3>1, <3>2, ElementOf DEF ListTypes, Nodes
      <3>5. /\ Nodes' = Nodes /\ blocks'[m].buf = x /\ blocks'[m].idx = blocks[m].idx
            /\ \A n \in Nodes \ {m} : blocks'[n] = blocks[n]
        <4>1. blocks' = [blocks EXCEPT ![m] = [blocks[m] EXCEPT !.buf = x]]
          BY <3>3
        <4> QED
          BY <2>0, <3>4, <4>1 DEF ListTypes, Nodes, Blocks
      <3>6. \A o \in 0 .. PAGE - 1 : Written(x[o], blocks[m].idx + o)
        <4> TAKE o \in 0 .. PAGE - 1
        <4>1. CASE o \in Moved(t)
          <5>1. Memory(t, o) = <<id[t], Sector(t) + o>> /\ id[t] \in 1 .. MaxBios
            BY <2>0, <3>1, <4>1, RegularMemory
          <5> QED
            BY <3>1, <3>2, <3>3, <4>1, <5>1 DEF Written
        <4>2. CASE o \notin Moved(t)
          BY <2>1, <3>1, <3>2, <3>3, <4>2
        <4> QED
          BY <4>1, <4>2
      <3> QED
        BY <2>1, <2>5, <3>5, <3>6
    <2> QED
      BY <1>3, <2>2, <2>3, <2>4, <2>5 DEF BioStep, Submission, Submit, Transfer, Find, Link, Publish,
         Copy, UseAfterFree, EndIo, store
  <1> QED
    BY <1>1, <1>2, <1>3, NextIs DEF vars, hist, store

(* No bio, however irregular, copies beyond the end of the device, and     *)
(* regular bios never put data in the wrong place, nor memory that is not  *)
(* theirs, however they overlap, race or are starved.                      *)
THEOREM DataInPlace == Spec => []NothingMisplaced
  <1>1. Init => AllRegular /\ Placed
    BY InitPlaced
  <1>2. Basics /\ AllRegular /\ Placed /\ [Next]_vars => AllRegular' /\ Placed'
    BY StepRegular, StepPlaced
  <1>3. Basics /\ Placed => NothingMisplaced
    BY DEF Basics, BiosOK, BioOK, Inside, Placed, Written, Nodes, NothingMisplaced
  <1> QED
    BY <1>1, <1>2, <1>3, SbullBasics, PTL DEF Spec

-----------------------------------------------------------------------------
(* The list as long as no two bios add a block at the same time.           *)
Linked == Nodes \ (Unpublished \cup freed)

OneAdder == \A t, u \in Submitters : stage[t] \in Adding /\ stage[u] \in Adding => t = u

NewSectors ==
  /\ \A m, n \in Nodes \ freed : blocks[m].idx = blocks[n].idx => m = n
  /\ \A t \in Submitters : stage[t] = "add" => \A n \in Nodes \ freed : blocks[n].idx # Sector(t)

(* Where the block that is being added will go.                            *)
AtTheEnd(t) ==
  stage[t] \in Owning =>
    /\ prev[t] \in {0} \cup Linked \cup freed /\ next[node[t]] = 0
    /\ \A m \in Linked : m <= prev[t] /\ m < node[t]
    /\ stage[t] = "publish" /\ prev[t] \notin freed => back[0] = node[t]

WalkAhead == mod = "free_list" /\ walk[1] # 0 => walk[1] = next[0] /\ walk[2] \in {0, next[walk[1]]}

AllFreed == driver = "sbull2" /\ mod \in Removing \ {"free_list"} /\ ~torn => Linked = {}

InOrder ==
  ~raced =>
    /\ Ascending(next, Linked) /\ OneAdder /\ NewSectors
    /\ \A t \in Submitters : AtTheEnd(t)
    /\ Unpublished = {} => Topmost(Linked, back[0])
    /\ WalkAhead /\ AllFreed

LEMMA LinkedFacts ==
  ASSUME Basics
  PROVE  /\ Linked \in SUBSET Nodes /\ Linked \cap freed = {} /\ 0 \notin Linked
         /\ \A m \in Linked : m \in Nat /\ m > 0 /\ m \in 0 .. Len(blocks)
         /\ \A t \in Submitters : stage[t] \in Owning => node[t] \in Unpublished
         /\ \A m \in Unpublished : \E t \in Submitters : stage[t] \in Owning /\ m = node[t]
         /\ (\A t \in Submitters : stage[t] \notin Owning) => Unpublished = {} /\ Linked = Nodes \ freed
  <1>1. ListTypes
    BY DEF Basics, SbullTypeOK
  <1>2. Linked \in SUBSET Nodes /\ Linked \cap freed = {}
    BY DEF Linked
  <1>3. /\ \A t \in Submitters : stage[t] \in Owning => node[t] \in Unpublished
        /\ \A m \in Unpublished : \E t \in Submitters : stage[t] \in Owning /\ m = node[t]
    BY DEF Unpublished, Owning
  <1>4. (\A t \in Submitters : stage[t] \notin Owning) => Unpublished = {}
    BY <1>3
  <1>5. Unpublished = {} => Linked = Nodes \ freed
    BY DEF Linked
  <1> QED
    BY <1>1, <1>2, <1>3, <1>4, <1>5, Pointers

LEMMA InitInOrder == ASSUME Init PROVE InOrder
  <1>1. Nodes = {} /\ Linked = {} /\ \A t \in Submitters : stage[t] = "idle"
    BY DEF Init, Nodes, Linked
  <1>2. next[0] = 0 /\ back[0] = 0 /\ mod = "absent"
    BY DEF Init
  <1>3. Ascending(next, Linked) /\ Topmost(Linked, back[0])
    BY <1>1, <1>2 DEF Ascending, Topmost
  <1> QED
    BY <1>1, <1>2, <1>3 DEF InOrder, OneAdder, NewSectors, AtTheEnd, WalkAhead, AllFreed, Adding, Owning,
       Removing

(* Steps that leave the list and those who add to it alone.                *)
LEMMA OrderKept ==
  ASSUME Basics, InOrder, UNCHANGED <<driver, next, back, freed, raced>>,
         Len(blocks') = Len(blocks), \A n \in Nodes : blocks'[n].idx = blocks[n].idx,
         \A u \in Submitters :
           \/ /\ stage'[u] = stage[u] /\ node'[u] = node[u] /\ prev'[u] = prev[u]
              /\ bio'[u] = bio[u] /\ k'[u] = k[u]
           \/ stage[u] \notin Adding /\ stage'[u] \notin Adding,
         ~raced => WalkAhead' /\ AllFreed'
  PROVE  InOrder'
  <1> SUFFICES ASSUME ~raced
               PROVE  /\ Ascending(next, Linked)' /\ OneAdder' /\ NewSectors'
                      /\ \A t \in Submitters : AtTheEnd(t)'
                      /\ Unpublished' = {} => Topmost(Linked, back[0])'
                      /\ WalkAhead' /\ AllFreed'
    BY DEF InOrder
  <1>1. /\ Ascending(next, Linked) /\ OneAdder /\ NewSectors /\ \A t \in Submitters : AtTheEnd(t)
        /\ Unpublished = {} => Topmost(Linked, back[0])
    BY DEF InOrder
  <1>2. Nodes' = Nodes
    BY DEF Nodes
  <1>3. \A u \in Submitters : stage[u] \in Adding \/ stage'[u] \in Adding =>
          /\ stage'[u] = stage[u] /\ node'[u] = node[u] /\ prev'[u] = prev[u]
          /\ bio'[u] = bio[u] /\ k'[u] = k[u]
    OBVIOUS
  <1>4. \A u \in Submitters : stage[u] \in Owning \/ stage'[u] \in Owning =>
          stage'[u] = stage[u] /\ node'[u] = node[u] /\ prev'[u] = prev[u]
    BY <1>3 DEF Adding, Owning
  <1>5. Unpublished' = Unpublished
    BY <1>4 DEF Unpublished, Owning
  <1>6. Linked' = Linked
    BY <1>2, <1>5 DEF Linked
  <1>7. Ascending(next, Linked)' /\ (Unpublished' = {} => Topmost(Linked, back[0])')
    BY <1>1, <1>5, <1>6
  <1>8. OneAdder'
    BY <1>1, <1>3 DEF OneAdder
  <1>9. NewSectors'
    <2>1. ASSUME NEW t \in Submitters, stage'[t] = "add"
          PROVE  \A n \in Nodes \ freed : blocks'[n].idx # Sector(t)'
      <3>1. stage[t] = "add" /\ Sector(t)' = Sector(t)
        BY <1>3, <2>1, SectorKept DEF Adding
      <3> QED
        BY <1>1, <3>1 DEF NewSectors
    <2>2. \A m, n \in Nodes \ freed : blocks'[m].idx = blocks'[n].idx => m = n
      BY <1>1 DEF NewSectors
    <2> QED
      BY <1>2, <2>1, <2>2 DEF NewSectors
  <1>10. \A t \in Submitters : AtTheEnd(t)'
    <2> HIDE DEF Owning
    <2> QED
      BY <1>1, <1>4, <1>6 DEF AtTheEnd
  <1> QED
    BY <1>7, <1>8, <1>9, <1>10

LEMMA ModuleInOrder ==
  ASSUME Basics, InOrder, ModuleStep, UNCHANGED <<next, back, freed>>
  PROVE  InOrder'
  <1>1. UNCHANGED <<driver, blocks, bio, k, stage, node, prev, raced>>
    BY ModuleKeeps
  <1>2. Linked' = Linked
    BY <1>1 DEF Linked, Nodes, Unpublished
  <1>3. ASSUME ~raced PROVE WalkAhead' /\ AllFreed'
    <2>0. WalkAhead /\ AllFreed /\ Ascending(next, Linked)
      BY <1>3 DEF InOrder
    <2>1. CASE sbull_exit
      <3>1. walk' = <<next[0], next[next[0]]>> /\ mod' = IF driver = "sbull" THEN "del_gendisk" ELSE "free_list"
        BY <2>1 DEF sbull_exit
      <3>2. walk'[1] = next[0] /\ walk'[2] = next[next[0]]
        BY <3>1
      <3> QED
        BY <1>1, <3>1, <3>2 DEF WalkAhead, AllFreed
    <2>2. CASE FreeList
      <3>1. UNCHANGED <<walk, torn>> /\ mod = "free_list"
        BY <2>2, FreeListSteps, FreeListKeeps DEF FreeList
      <3>2. ASSUME mod' # "free_list", ~torn PROVE Linked = {}
        <4>1. walk[1] = 0
          BY <2>2, <3>2, <3>1 DEF FreeList
        <4>2. next[0] = 0
          BY <3>1, <3>2, <4>1 DEF Basics, Shape, WalkOK
        <4> QED
          BY <2>0, <4>2, LinkedFacts DEF Ascending
      <3> QED
        BY <1>1, <1>2, <2>0, <3>1, <3>2 DEF WalkAhead, AllFreed
    <2>3. CASE ~sbull_exit /\ ~FreeList
      <3>1. /\ UNCHANGED <<walk, torn>>
            /\ \/ mod' = mod
               \/ mod' # "free_list" /\ (mod' \in Removing => mod \in Removing \ {"free_list"})
        BY <2>3 DEF ModuleStep, sbull_init, setup_device, Vmalloc, OutVfree, BlkAllocDisk, AddDisk,
           sbull_open, sbull_release, Removal, DelGendisk, Drained, Vfree, Removing
      <3> QED
        BY <1>1, <1>2, <2>0, <3>1 DEF WalkAhead, AllFreed
    <2> QED
      BY <2>1, <2>2, <2>3
  <1> QED
    BY <1>1, <1>3, OrderKept

LEMMA FreeListInOrder ==
  ASSUME Basics, InOrder, FreeList, ~UNCHANGED <<next, back, freed, walk>>
  PROVE  InOrder'
  <1>1. /\ UNCHANGED <<driver, blocks, bio, k, stage, node, prev, raced, torn>>
    BY FreeListKeeps
  <1> SUFFICES ASSUME ~raced
               PROVE  /\ Ascending(next, Linked)' /\ OneAdder' /\ NewSectors'
                      /\ \A t \in Submitters : AtTheEnd(t)'
                      /\ Unpublished' = {} => Topmost(Linked, back[0])'
                      /\ WalkAhead' /\ AllFreed'
    BY <1>1 DEF InOrder
  <1>2. /\ Ascending(next, Linked) /\ OneAdder /\ NewSectors /\ \A t \in Submitters : AtTheEnd(t)
        /\ Unpublished = {} => Topmost(Linked, back[0])
        /\ WalkAhead
    BY DEF InOrder
  <1>3. PICK n, N : n = walk[1] /\ N = Len(blocks)
    OBVIOUS
  <1>4. /\ n \in Nodes \ freed /\ Delete(n) /\ freed' = freed \cup {n}
        /\ walk' = <<walk[2], next[walk[2]]>> /\ mod' = "free_list" /\ mod = "free_list"
    BY <1>3, FreeListSteps DEF FreeList
  <1>5. ListTypes
    BY DEF Basics, SbullTypeOK
  <1>6. /\ N \in Nat /\ 0 \in 0 .. N /\ n \in 0 .. N /\ n # 0 /\ n \in Nat
        /\ \A m \in 0 .. N : next[m] \in 0 .. N /\ back[m] \in 0 .. N /\ m \in Nat
    BY <1>3, <1>4, <1>5, Pointers
  <1>7. n = next[0] /\ walk[2] \in {0, next[n]}
    BY <1>2, <1>3, <1>4, <1>6 DEF WalkAhead
  <1>8. back[n] = 0 /\ 0 \notin freed
    <2>1. 0 \notin freed
      BY <1>5, Pointers DEF ListTypes
    <2> QED
      BY <1>3, <1>6, <1>7, <2>1 DEF Basics, Shape, PointersMatch
  <1>9. /\ \A m \in 0 .. N : next'[m] = IF m = 0 THEN next[n] ELSE next[m]
        /\ \A m \in 0 .. N : back'[m] = IF m = next[n] THEN 0 ELSE back[m]
    BY <1>3, <1>4, <1>5, <1>8, DeleteSteps
  <1>10. Unpublished' = Unpublished /\ Linked' = Linked \ {n} /\ Nodes' = Nodes
    BY <1>1, <1>4 DEF Unpublished, Linked, Nodes
  <1>11. /\ \A m \in Linked : m \in Nat /\ m > 0 /\ m \in 0 .. N
         /\ \A t \in Submitters : stage[t] \in Owning => node[t] \in Nodes
    <2>1. \A t \in Submitters : FreshBlock(t)
      BY DEF Basics, Shape
    <2> HIDE DEF Owning
    <2> QED
      BY <1>3, <2>1, LinkedFacts DEF FreshBlock
  <1>12. /\ n \in Linked /\ \A m \in Linked : n <= m
         /\ \A m \in Linked : next[m] = 0 \/ (next[m] \in Linked /\ next[m] > m)
         /\ \A m \in Linked : m # n => next[n] # 0 /\ next[n] <= m
    <2>1. next[0] \in {0} \cup Linked /\ \A m \in Linked : next[0] <= m
      BY <1>2, <1>11 DEF Ascending
    <2>2. n \in Linked /\ \A m \in Linked : n <= m
      BY <1>6, <1>7, <2>1
    <2>3. \A m \in Linked : m # n => m > n
      BY <1>6, <1>11, <2>2
    <2> QED
      BY <1>2, <2>2, <2>3 DEF Ascending
  <1>13. Ascending(next', Linked \ {n})
    <2> SUFFICES ASSUME NEW p \in {0} \cup (Linked \ {n})
                 PROVE  /\ next'[p] \in {0} \cup (Linked \ {n})
                        /\ next'[p] = 0 \/ next'[p] > p
                        /\ \A m \in Linked \ {n} : m > p => next'[p] # 0 /\ next'[p] <= m
      BY DEF Ascending
    <2>1. CASE p = 0
      <3>1. next'[p] = next[n]
        BY <1>6, <1>9, <2>1
      <3>2. next[n] = 0 \/ (next[n] \in Linked /\ next[n] > n)
        BY <1>12
      <3>3. next[n] = 0 \/ (next[n] # n /\ next[n] > 0)
        BY <1>6, <1>11, <3>2
      <3> QED
        BY <1>12, <2>1, <3>1, <3>2, <3>3
    <2>2. CASE p # 0
      <3>1. p \in Linked /\ p # n /\ next'[p] = next[p]
        BY <1>9, <1>11, <2>2
      <3>2. next[p] = 0 \/ (next[p] \in Linked /\ next[p] > p)
        BY <1>12, <3>1
      <3>3. next[p] # n
        BY <1>6, <1>11, <1>12, <3>1, <3>2
      <3>4. \A m \in Linked : m > p => next[p] # 0 /\ next[p] <= m
        BY <1>2, <3>1 DEF Ascending
      <3> QED
        BY <3>1, <3>2, <3>3, <3>4
    <2> QED
      BY <2>1, <2>2
  <1>14. OneAdder' /\ NewSectors'
    <2>1. \A t \in Submitters : Sector(t)' = Sector(t)
      BY <1>1, SectorKept
    <2> QED
      BY <1>1, <1>2, <1>4, <1>10, <2>1 DEF OneAdder, NewSectors
  <1>15. ASSUME NEW t \in Submitters PROVE AtTheEnd(t)'
    <2> SUFFICES ASSUME stage[t] \in Owning
                 PROVE  /\ prev[t] \in {0} \cup (Linked \ {n}) \cup freed' /\ next'[node[t]] = 0
                        /\ \A m \in Linked \ {n} : m <= prev[t] /\ m < node[t]
                        /\ stage[t] = "publish" /\ prev[t] \notin freed' => back'[0] = node[t]
      BY <1>1, <1>10 DEF AtTheEnd
    <2>1. /\ prev[t] \in {0} \cup Linked \cup freed /\ next[node[t]] = 0
          /\ \A m \in Linked : m <= prev[t] /\ m < node[t]
          /\ stage[t] = "publish" /\ prev[t] \notin freed => back[0] = node[t]
      BY <1>2 DEF AtTheEnd
    <2>2. next'[node[t]] = 0
      <3>1. node[t] \in 0 .. N /\ node[t] # 0
        BY <1>3, <1>5, <1>11, Pointers
      <3> QED
        BY <1>9, <2>1, <3>1
    <2>3. ASSUME stage[t] = "publish", prev[t] \notin freed' PROVE back'[0] = node[t]
      <3>1. prev[t] \notin freed /\ prev[t] # n /\ n <= prev[t]
        BY <1>4, <1>12, <2>1, <2>3
      <3>2. prev[t] \in Linked
        BY <1>6, <2>1, <3>1
      <3>3. next[n] # 0
        BY <1>12, <3>1, <3>2
      <3> QED
        BY <1>6, <1>9, <2>1, <2>3, <3>1, <3>3
    <2> QED
      BY <1>4, <2>1, <2>2, <2>3
  <1>16. ASSUME Unpublished = {} PROVE Topmost(Linked \ {n}, back'[0])
    <2>1. back[0] \in {0} \cup Linked /\ \A m \in Linked : m <= back[0]
      BY <1>2, <1>16 DEF Topmost
    <2>2. CASE next[n] = 0
      <3>1. Linked \ {n} = {} /\ back'[0] = 0
        BY <1>6, <1>9, <1>12, <2>2
      <3> QED
        BY <3>1 DEF Topmost
    <2>3. CASE next[n] # 0
      <3>1. back'[0] = back[0]
        BY <1>6, <1>9, <2>3
      <3>2. next[n] \in Linked /\ next[n] > n /\ next[n] <= back[0]
        BY <1>12, <2>1, <2>3
      <3>3. back[0] # n
        BY <1>6, <1>11, <3>2
      <3> QED
        BY <2>1, <3>1, <3>3 DEF Topmost
    <2> QED
      BY <2>2, <2>3
  <1>17. WalkAhead'
    <2>1. walk'[1] = walk[2] /\ walk'[2] = next[walk[2]]
      BY <1>4
    <2>2. ASSUME walk[2] # 0 PROVE walk[2] = next'[0] /\ next[walk[2]] = next'[walk[2]]
      BY <1>6, <1>7, <1>9, <2>2
    <2> QED
      BY <2>1, <2>2 DEF WalkAhead
  <1>18. AllFreed'
    BY <1>4 DEF AllFreed
  <1> QED
    BY <1>10, <1>13, <1>14, <1>15, <1>16, <1>17, <1>18

LEMMA KeptInOrder ==
  ASSUME Basics, InOrder, NEW t \in Submitters, BioStep(t),
         UNCHANGED <<next, back, raced>>, Len(blocks') = Len(blocks),
         stage[t] \notin Adding, stage'[t] \notin Adding
  PROVE  InOrder'
  <1>1. /\ \A u \in Submitters \ {t} :
             /\ stage'[u] = stage[u] /\ node'[u] = node[u] /\ prev'[u] = prev[u]
             /\ bio'[u] = bio[u] /\ k'[u] = k[u]
        /\ UNCHANGED <<driver, mod, freed, walk, torn>>
    BY BioKeeps DEF Basics, SbullTypeOK
  <1>2. \A n \in Nodes : blocks'[n].idx = blocks[n].idx
    BY BlocksGrow DEF Basics, SbullTypeOK
  <1>3. Linked' = Linked
    <2>1. Nodes' = Nodes
      BY DEF Nodes
    <2>2. Unpublished' = Unpublished
      <3>1. \A u \in Submitters : stage[u] \in Owning \/ stage'[u] \in Owning =>
              stage'[u] = stage[u] /\ node'[u] = node[u]
        BY <1>1 DEF Adding, Owning
      <3> QED
        BY <3>1 DEF Unpublished, Owning
    <2> QED
      BY <1>1, <2>1, <2>2 DEF Linked
  <1>4. ~raced => WalkAhead' /\ AllFreed'
    BY <1>1, <1>3 DEF InOrder, WalkAhead, AllFreed
  <1>5. \A u \in Submitters :
           \/ /\ stage'[u] = stage[u] /\ node'[u] = node[u] /\ prev'[u] = prev[u]
              /\ bio'[u] = bio[u] /\ k'[u] = k[u]
           \/ stage[u] \notin Adding /\ stage'[u] \notin Adding
    BY <1>1
  <1> QED
    BY <1>1, <1>2, <1>4, <1>5, OrderKept

(* A bio inside means the device was open at rmmod, if it has begun.       *)
LEMMA BusyTorn ==
  ASSUME Basics, NEW t \in Submitters, Busy(t), mod \in Removing
  PROVE  torn
  BY DEF Basics, BiosOK, BioOK, UnderWay, Lifecycle

LEMMA FindInOrder ==
  ASSUME Basics, InOrder, NEW t \in Submitters, Find(t), stage'[t] = "add"
  PROVE  InOrder'
  <1>0. /\ \A u \in Submitters \ {t} :
             /\ stage'[u] = stage[u] /\ node'[u] = node[u] /\ bio'[u] = bio[u] /\ k'[u] = k[u]
        /\ UNCHANGED <<driver, mod, freed, walk, torn, next, back, blocks, bio, prev>>
        /\ ListTypes /\ BioTypes /\ stage[t] = "find"
    BY BioKeeps DEF Basics, SbullTypeOK, BioStep, Submission, Find, store
  <1>1. /\ sbull_find_list(Sector(t)) = 0 /\ k' = k
        /\ raced' = (raced \/ \E u \in Submitters : stage[u] \in Adding)
    <2>1. stage' = [stage EXCEPT ![t] = "add"]
      BY <1>0 DEF Find, NextSeg, BioTypes
    <2>2. ~NextSeg(t) /\ stage' # [stage EXCEPT ![t] = "copy"]
      BY <1>0, <2>1 DEF NextSeg, BioTypes
    <2> QED
      BY <2>2 DEF Find
  <1> SUFFICES ASSUME ~raced'
               PROVE  /\ Ascending(next, Linked)' /\ OneAdder' /\ NewSectors'
                      /\ \A u \in Submitters : AtTheEnd(u)'
                      /\ Unpublished' = {} => Topmost(Linked, back[0])'
                      /\ WalkAhead' /\ AllFreed'
    BY DEF InOrder
  <1>2. ~raced /\ \A u \in Submitters : stage[u] \notin Adding
    BY <1>1, Zenon
  <1>3. /\ Ascending(next, Linked) /\ NewSectors /\ (Unpublished = {} => Topmost(Linked, back[0]))
        /\ WalkAhead /\ AllFreed
    BY <1>2 DEF InOrder
  <1>4. /\ \A u \in Submitters : stage[u] \notin Owning
        /\ \A u \in Submitters : stage'[u] \notin Owning
    BY <1>0, <1>2 DEF Adding, Owning
  <1>5. Unpublished' = {} /\ Unpublished = {} /\ Linked = Nodes \ freed /\ Linked' = Linked
    <2>1. Unpublished' = {}
      BY <1>4 DEF Unpublished, Owning
    <2>2. Unpublished = {}
      BY <1>4 DEF Unpublished, Owning
    <2> QED
      BY <1>0, <2>1, <2>2 DEF Linked, Nodes
  <1>6. \A n \in Linked : blocks[n].idx # Sector(t)
    <2>1. PICK N, f, s : N = Len(blocks) /\ s = Sector(t) /\ f = sbull_find_list(s)
      OBVIOUS
    <2>2. N \in Nat /\ Forward(next, N)
      BY <2>1, FindIsForward
    <2>3. f = FindIn(next, blocks, s) /\ f = 0
      BY <1>1, <2>1, LookupIs
    <2>4. Ordered(next, N, Linked)
      BY <1>3, <2>1, <2>2 DEF Ordered, Linked, Nodes
    <2>7. FindIn(next, blocks, s) = 0 => \A n \in Linked : blocks[n].idx # s
      BY <2>4, LookupInOrder
    <2> QED
      BY <2>1, <2>3, <2>4, <2>7
  <1>7. NewSectors'
    <2>1. \A u \in Submitters : stage'[u] = "add" => u = t
      BY <1>0, <1>2 DEF Adding
    <2>2. Sector(t)' = Sector(t)
      BY <1>0, <1>1, SectorKept
    <2>3. Nodes' = Nodes
      BY <1>0 DEF Nodes
    <2> QED
      BY <1>0, <1>3, <1>5, <1>6, <2>1, <2>2, <2>3 DEF NewSectors
  <1>8. OneAdder'
    BY <1>0, <1>2 DEF OneAdder
  <1>9. \A u \in Submitters : AtTheEnd(u)'
    BY <1>4 DEF AtTheEnd
  <1>10. WalkAhead' /\ AllFreed'
    BY <1>0, <1>3, <1>5 DEF WalkAhead, AllFreed
  <1> QED
    BY <1>0, <1>3, <1>5, <1>7, <1>8, <1>9, <1>10

LEMMA AllocateInOrder ==
  ASSUME Basics, InOrder, NEW t \in Submitters, Allocate(t)
  PROVE  InOrder'
  <1>0. /\ \A u \in Submitters \ {t} :
             stage'[u] = stage[u] /\ node'[u] = node[u] /\ prev'[u] = prev[u]
        /\ UNCHANGED <<driver, mod, freed, walk, torn, bio, k, raced>>
        /\ ListTypes /\ BioTypes
    BY BioKeeps DEF Basics, SbullTypeOK, BioStep, Submission, Allocate, hist
  <1> SUFFICES ASSUME ~raced
               PROVE  /\ Ascending(next, Linked)' /\ OneAdder' /\ NewSectors'
                      /\ \A u \in Submitters : AtTheEnd(u)'
                      /\ Unpublished' = {} => Topmost(Linked, back[0])'
                      /\ WalkAhead' /\ AllFreed'
    BY <1>0 DEF InOrder
  <1>1. PICK N : N = Len(blocks)
    OBVIOUS
  <1>2. /\ N \in Nat /\ Nodes = 1 .. N /\ freed \in SUBSET (1 .. N)
        /\ \A m \in 0 .. N : next[m] \in 0 .. N /\ back[m] \in 0 .. N
        /\ walk[1] \in 0 .. N
    BY <1>0, <1>1, Pointers DEF Nodes, ListTypes
  <1>3. PICK b : blocks' = Append(blocks, b) /\ b.idx = Sector(t)
    BY DEF Allocate
  <1>4. /\ Len(blocks') = N + 1 /\ Nodes' = 1 .. N + 1 /\ blocks'[N + 1] = b
        /\ \A m \in 1 .. N : blocks'[m] = blocks[m]
    BY <1>0, <1>1, <1>3 DEF ListTypes, Nodes
  <1>5. /\ \A m \in 0 .. N : next'[m] = next[m]
        /\ next'[N + 1] = 0
    <2>1. next' = [n \in 0 .. N + 1 |-> IF n <= N THEN next[n] ELSE 0]
      BY <1>1 DEF Allocate, Extended
    <2> QED
      BY <1>2, <2>1
  <1>6. stage'[t] = "link" /\ node'[t] = N + 1 /\ prev'[t] = back[0] /\ stage[t] = "add"
    BY <1>0, <1>1 DEF Allocate, BioTypes, ListTypes
  <1>7. /\ Ascending(next, Linked) /\ OneAdder /\ NewSectors
        /\ Unpublished = {} => Topmost(Linked, back[0])
        /\ WalkAhead
    BY DEF InOrder
  <1>8. \A u \in Submitters \ {t} : stage[u] \notin Adding /\ stage'[u] \notin Adding
    BY <1>0, <1>6, <1>7 DEF OneAdder, Adding
  <1>9. /\ \A u \in Submitters : stage[u] \notin Owning
        /\ \A u \in Submitters : stage'[u] \in Owning <=> u = t
    BY <1>6, <1>8 DEF Adding, Owning
  <1>10. /\ Unpublished = {} /\ Linked = Nodes \ freed
         /\ Unpublished' = {N + 1} /\ Linked' = Linked
    <2>1. Unpublished = {} /\ Linked = Nodes \ freed
      BY <1>9, LinkedFacts
    <2>2. Unpublished' = {N + 1}
      BY <1>6, <1>9 DEF Unpublished, Owning
    <2>3. N + 1 \notin 1 .. N /\ \A m : m \in 1 .. N + 1 <=> m \in 1 .. N \/ m = N + 1
      BY <1>2
    <2>4. Linked' = (1 .. N + 1) \ ({N + 1} \cup freed)
      BY <1>0, <1>4, <2>2 DEF Linked
    <2> QED
      BY <1>2, <2>1, <2>2, <2>3, <2>4
  <1>11. \A m \in Linked : m \in 0 .. N /\ m < N + 1 /\ m \in 1 .. N
    BY <1>2, <1>10
  <1>12. Ascending(next', Linked)
    <2>1. \A m \in {0} \cup Linked : next'[m] = next[m]
      BY <1>2, <1>5, <1>11
    <2> QED
      BY <1>7, <2>1 DEF Ascending
  <1>13. OneAdder'
    BY <1>8 DEF OneAdder
  <1>14. NewSectors'
    <2>1. \A m \in 1 .. N + 1 : m \in 1 .. N \/ m = N + 1
      BY <1>2
    <2>2. \A m \in (1 .. N) \ freed : blocks'[m].idx = blocks[m].idx /\ blocks[m].idx # Sector(t)
      BY <1>2, <1>4, <1>6, <1>7 DEF NewSectors
    <2>3. \A m, n \in (1 .. N) \ freed : blocks[m].idx = blocks[n].idx => m = n
      BY <1>2, <1>7 DEF NewSectors
    <2>4. \A m, n \in (1 .. N + 1) \ freed : blocks'[m].idx = blocks'[n].idx => m = n
      BY <1>3, <1>4, <2>1, <2>2, <2>3
    <2>5. \A u \in Submitters : stage'[u] # "add"
      BY <1>6, <1>8 DEF Adding
    <2> QED
      BY <1>0, <1>4, <2>4, <2>5 DEF NewSectors
  <1>15. ASSUME NEW u \in Submitters PROVE AtTheEnd(u)'
    <2>1. CASE u = t
      <3>1. back[0] \in {0} \cup Linked /\ \A m \in Linked : m <= back[0]
        BY <1>7, <1>10 DEF Topmost
      <3> QED
        BY <1>5, <1>6, <1>10, <1>11, <2>1, <3>1 DEF AtTheEnd
    <2>2. CASE u # t
      BY <1>9, <2>2 DEF AtTheEnd
    <2> QED
      BY <2>1, <2>2
  <1>16. WalkAhead'
    <2>1. next'[0] = next[0] /\ next'[walk[1]] = next[walk[1]]
      BY <1>2, <1>5
    <2> QED
      BY <1>0, <1>7, <2>1 DEF WalkAhead
  <1>17. AllFreed'
    <2>1. Busy(t)
      BY <1>6 DEF Busy
    <2> QED
      BY <1>0, <2>1, BusyTorn DEF AllFreed
  <1> QED
    BY <1>10, <1>12, <1>13, <1>14, <1>15, <1>16, <1>17

LEMMA LinkInOrder ==
  ASSUME Basics, InOrder, NEW t \in Submitters, Link(t)
  PROVE  InOrder'
  <1>0. /\ \A u \in Submitters \ {t} : stage'[u] = stage[u]
        /\ UNCHANGED <<driver, mod, freed, walk, torn, bio, k, raced, blocks, node, prev>>
        /\ ListTypes /\ BioTypes /\ stage[t] = "link" /\ stage'[t] = "publish"
    BY BioKeeps DEF Basics, SbullTypeOK, BioStep, Submission, Link, hist, BioTypes
  <1> SUFFICES ASSUME ~raced
               PROVE  /\ Ascending(next, Linked)' /\ OneAdder' /\ NewSectors'
                      /\ \A u \in Submitters : AtTheEnd(u)'
                      /\ Unpublished' = {} => Topmost(Linked, back[0])'
                      /\ WalkAhead' /\ AllFreed'
    BY <1>0 DEF InOrder
  <1>1. /\ Ascending(next, Linked) /\ OneAdder /\ NewSectors /\ AtTheEnd(t) /\ WalkAhead
    BY DEF InOrder
  <1>2. node[t] \in Nodes /\ 0 \in 0 .. Len(blocks) /\ node[t] # 0 /\ node[t] \in 0 .. Len(blocks)
        /\ walk[1] \in 0 .. Len(blocks)
    BY <1>0, Pointers DEF Basics, Shape, FreshBlock, Owning, ListTypes
  <1>3. /\ \A m \in 0 .. Len(blocks) : next'[m] = IF m = node[t] THEN 0 ELSE next[m]
        /\ back'[0] = node[t]
    <2>1. PICK P : P = 0 .. Len(blocks)
      OBVIOUS
    <2>2. next \in [P -> P] /\ back \in [P -> P] /\ 0 \in P /\ node[t] # 0
      BY <1>0, <1>2, <2>1 DEF ListTypes
    <2>3. /\ next' = [next EXCEPT ![node[t]] = 0]
          /\ back' = [back EXCEPT ![0] = node[t], ![node[t]] = prev[t]]
      BY DEF Link
    <2> QED
      BY <2>1, <2>2, <2>3
  <1>4. \A u \in Submitters : (stage'[u] \in Adding <=> stage[u] \in Adding)
                              /\ (stage'[u] \in Owning <=> stage[u] \in Owning)
    BY <1>0 DEF Adding, Owning
  <1>5. Unpublished' = Unpublished /\ node[t] \in Unpublished /\ Linked' = Linked /\ Nodes' = Nodes
    <2>1. Unpublished' = Unpublished
      BY <1>0, <1>4 DEF Unpublished, Owning
    <2>2. node[t] \in Unpublished
      BY <1>0 DEF Unpublished
    <2> QED
      BY <1>0, <2>1, <2>2 DEF Linked, Nodes
  <1>6. \A m \in {0} \cup Linked : m \in 0 .. Len(blocks) /\ m # node[t]
    BY <1>2, <1>5, LinkedFacts DEF Linked
  <1>7. Ascending(next', Linked)
    <2>1. \A m \in {0} \cup Linked : next'[m] = next[m]
      BY <1>3, <1>6
    <2> QED
      BY <1>1, <2>1 DEF Ascending
  <1>8. OneAdder'
    BY <1>1, <1>4 DEF OneAdder
  <1>9. NewSectors'
    <2>1. \A u \in Submitters : stage'[u] # "add"
      BY <1>0, <1>1 DEF OneAdder, Adding
    <2> QED
      BY <1>0, <1>1, <1>5, <2>1 DEF NewSectors
  <1>10. ASSUME NEW u \in Submitters PROVE AtTheEnd(u)'
    <2>1. CASE u = t
      BY <1>0, <1>1, <1>2, <1>3, <1>5, <2>1 DEF AtTheEnd, Owning
    <2>2. CASE u # t
      <3>1. stage'[u] \notin Owning
        BY <1>0, <1>1, <2>2 DEF OneAdder, Adding, Owning
      <3> QED
        BY <3>1 DEF AtTheEnd
    <2> QED
      BY <2>1, <2>2
  <1>11. WalkAhead'
    <2>1. ASSUME mod = "free_list", walk[1] # 0 PROVE walk[1] # node[t]
      BY <1>0, <2>1 DEF Basics, Shape, WalkOK, Owning
    <2>2. next'[0] = next[0] /\ (walk[1] # node[t] => next'[walk[1]] = next[walk[1]])
      BY <1>2, <1>3
    <2> QED
      BY <1>0, <1>1, <2>1, <2>2 DEF WalkAhead
  <1>12. AllFreed'
    <2>1. Busy(t)
      BY <1>0 DEF Busy
    <2> QED
      BY <1>0, <2>1, BusyTorn DEF AllFreed
  <1> QED
    BY <1>5, <1>7, <1>8, <1>9, <1>10, <1>11, <1>12

LEMMA PublishInOrder ==
  ASSUME Basics, InOrder, NEW t \in Submitters, Publish(t)
  PROVE  InOrder'
  <1>0. /\ \A u \in Submitters \ {t} : stage'[u] = stage[u]
        /\ UNCHANGED <<driver, mod, freed, walk, torn, bio, k, raced, blocks, node, prev, back>>
        /\ ListTypes /\ BioTypes /\ stage[t] = "publish" /\ stage'[t] = "copy" /\ prev[t] \notin freed
    BY BioKeeps DEF Basics, SbullTypeOK, BioStep, Submission, Publish, hist, BioTypes
  <1> SUFFICES ASSUME ~raced
               PROVE  /\ Ascending(next, Linked)' /\ OneAdder' /\ NewSectors'
                      /\ \A u \in Submitters : AtTheEnd(u)'
                      /\ Unpublished' = {} => Topmost(Linked, back[0])'
                      /\ WalkAhead' /\ AllFreed'
    BY <1>0 DEF InOrder
  <1>1. /\ Ascending(next, Linked) /\ OneAdder /\ NewSectors /\ AtTheEnd(t) /\ WalkAhead
    BY DEF InOrder
  <1>2. PICK n, p, N : n = node[t] /\ p = prev[t] /\ N = Len(blocks)
    OBVIOUS
  <1>3. /\ n \in Nodes \ freed /\ 0 \in 0 .. N /\ n # 0 /\ n \in 0 .. N /\ n \in Nat /\ p < n
        /\ walk[1] \in 0 .. N
    BY <1>0, <1>2, Pointers DEF Basics, Shape, FreshBlock, Owning, ListTypes
  <1>4. /\ p \in {0} \cup Linked /\ next[n] = 0
        /\ \A m \in Linked : m <= p /\ m < n
        /\ back[0] = n
    BY <1>0, <1>1, <1>2 DEF AtTheEnd, Owning
  <1>5. \A m \in 0 .. N : next'[m] = IF m = p THEN n ELSE next[m]
    <2>1. PICK P : P = 0 .. N
      OBVIOUS
    <2>2. next \in [P -> P]
      BY <1>0, <1>2, <2>1 DEF ListTypes
    <2>3. next' = [next EXCEPT ![p] = n]
      BY <1>2 DEF Publish
    <2> QED
      BY <2>1, <2>2, <2>3
  <1>6. \A u \in Submitters : /\ stage'[u] \notin Adding /\ stage'[u] \notin Owning
                              /\ stage[u] \in Owning <=> u = t
    BY <1>0, <1>1 DEF OneAdder, Adding, Owning
  <1>7. Unpublished' = {} /\ Unpublished = {n} /\ Linked' = Linked \cup {n} /\ n \notin Linked
    <2>1. Unpublished' = {}
      BY <1>6 DEF Unpublished, Owning
    <2>2. Unpublished = {n}
      BY <1>2, <1>6 DEF Unpublished, Owning
    <2> QED
      BY <1>0, <1>3, <2>1, <2>2 DEF Linked, Nodes
  <1>8. \A m \in {0} \cup Linked : m \in 0 .. N /\ m \in Nat /\ m # n
    BY <1>2, <1>3, <1>7, LinkedFacts
  <1>8b. /\ p \in Nat /\ p \in 0 .. N /\ p # n /\ n \in Nat /\ p <= n
         /\ \A m \in Linked : m \in Nat /\ m \in 0 .. N /\ m # n /\ m <= p /\ m < n
    <2>1. \A m \in Linked : m \in Nat /\ m \in 0 .. N /\ m # n
      BY <1>8
    <2>2. p \in Nat /\ p \in 0 .. N /\ p # n
      BY <1>3, <1>4, <1>8
    <2> QED
      BY <1>3, <1>4, <2>1, <2>2
  <1>9. Ascending(next', Linked \cup {n})
    <2> SUFFICES ASSUME NEW q \in {0} \cup Linked \cup {n}
                 PROVE  /\ next'[q] \in {0} \cup Linked \cup {n}
                        /\ next'[q] = 0 \/ next'[q] > q
                        /\ \A m \in Linked \cup {n} : m > q => next'[q] # 0 /\ next'[q] <= m
      BY DEF Ascending
    <2>1. CASE q = n
      <3>1. next'[q] = 0
        BY <1>3, <1>4, <1>5, <1>8, <2>1
      <3>2. \A m \in Linked \cup {n} : ~(m > q)
        <4> TAKE m \in Linked \cup {n}
        <4>1. CASE m = n
          BY <1>8b, <2>1, <4>1
        <4>2. CASE m \in Linked
          BY <1>8b, <2>1, <4>2
        <4> QED
          BY <4>1, <4>2
      <3> QED
        BY <3>1, <3>2
    <2>2. CASE q = p
      <3>1. next'[q] = n
        BY <1>4, <1>5, <1>8, <2>2
      <3>2. \A m \in Linked \cup {n} : m > q => m = n
        BY <1>8b, <2>2
      <3> QED
        BY <1>3, <2>2, <3>1, <3>2
    <2>3. CASE q # n /\ q # p
      <3>1. q \in {0} \cup Linked /\ next'[q] = next[q]
        BY <1>5, <1>8, <2>3
      <3>2. p \in Linked /\ p > q
        BY <1>4, <1>8, <2>3, <3>1
      <3>3. /\ next[q] \in {0} \cup Linked /\ (next[q] = 0 \/ next[q] > q)
            /\ \A m \in Linked : m > q => next[q] # 0 /\ next[q] <= m
        BY <1>1, <3>1 DEF Ascending
      <3>4. next[q] # 0 /\ next[q] <= n
        <4>1. next[q] # 0 /\ next[q] <= p /\ next[q] \in Nat /\ p \in Nat
          BY <1>8, <3>2, <3>3
        <4> QED
          BY <1>3, <4>1
      <3> QED
        BY <3>1, <3>3, <3>4
    <2> QED
      BY <2>1, <2>2, <2>3
  <1>10. OneAdder'
    BY <1>6 DEF OneAdder
  <1>11. NewSectors'
    <2>1. \A u \in Submitters : stage'[u] # "add"
      BY <1>6 DEF Adding
    <2>2. Nodes' = Nodes
      BY <1>0 DEF Nodes
    <2> QED
      BY <1>0, <1>1, <2>1, <2>2 DEF NewSectors
  <1>12. \A u \in Submitters : AtTheEnd(u)'
    BY <1>6 DEF AtTheEnd
  <1>13. Topmost(Linked \cup {n}, back[0])
    <2>1. \A m \in Linked \cup {n} : m <= n
      BY <1>8b
    <2> QED
      BY <1>4, <2>1 DEF Topmost
  <1>14. WalkAhead'
    <2> SUFFICES ASSUME mod = "free_list", walk[1] # 0
                 PROVE  walk[1] = next'[0] /\ walk[2] \in {0, next'[walk[1]]}
      BY <1>0 DEF WalkAhead
    <2>1. walk[1] = next[0] /\ walk[2] \in {0, next[walk[1]]} /\ walk[1] \in Linked
      BY <1>1 DEF WalkAhead, Ascending
    <2>2. walk[1] <= p /\ walk[1] \in Nat /\ p \in Nat /\ p # 0
      BY <1>8b, <2>1
    <2>3. next'[0] = next[0]
      BY <1>3, <1>5, <2>2
    <2>4. walk[2] \in {0, next'[walk[1]]}
      <3>1. CASE walk[1] = p
        <4>1. next[p] = 0 \/ (next[p] \in Linked /\ next[p] > p)
          BY <1>1, <2>1, <3>1 DEF Ascending
        <4>2. next[p] = 0
          BY <1>8b, <4>1
        <4> QED
          BY <2>1, <3>1, <4>2
      <3>2. CASE walk[1] # p
        BY <1>3, <1>5, <2>1, <3>2
      <3> QED
        BY <3>1, <3>2
    <2> QED
      BY <2>1, <2>3, <2>4
  <1>15. AllFreed'
    <2>1. Busy(t)
      BY <1>0 DEF Busy
    <2> QED
      BY <1>0, <2>1, BusyTorn DEF AllFreed
  <1> QED
    BY <1>0, <1>7, <1>9, <1>10, <1>11, <1>12, <1>13, <1>14, <1>15

LEMMA BioInOrder ==
  ASSUME Basics, InOrder, NEW t \in Submitters, BioStep(t)
  PROVE  InOrder'
  <1>0. BioTypes /\ ListTypes
    BY DEF Basics, SbullTypeOK
  <1>1. CASE Submit(t)
    <2>1. /\ UNCHANGED <<next, back, blocks, raced>> /\ stage[t] = "idle" /\ stage'[t] = "seg"
      BY <1>0, <1>1 DEF Submit, store, BioTypes
    <2> QED
      BY <2>1, KeptInOrder DEF Adding
  <1>2. CASE Transfer(t)
    <2>1. /\ UNCHANGED <<next, back, blocks, raced>> /\ stage[t] = "seg"
          /\ stage'[t] \in {"seg", "end", "copy", "find"}
      BY <1>0, <1>2 DEF Transfer, NextSeg, store, hist, BioTypes
    <2> QED
      BY <2>1, KeptInOrder DEF Adding
  <1>3. CASE Find(t) /\ stage'[t] # "add"
    <2>1. /\ UNCHANGED <<next, back, blocks, raced>> /\ stage[t] = "find"
          /\ stage'[t] \in {"seg", "end", "copy"}
      BY <1>0, <1>3 DEF Find, NextSeg, store, BioTypes
    <2> QED
      BY <2>1, KeptInOrder DEF Adding
  <1>4. CASE Copy(t)
    <2>1. /\ UNCHANGED <<next, back, raced>> /\ stage[t] = "copy" /\ stage'[t] \in {"seg", "end"}
      BY <1>0, <1>4 DEF Copy, NextSeg, hist, BioTypes
    <2>2. Len(blocks') = Len(blocks)
      <3>1. CASE UNCHANGED blocks
        BY <3>1
      <3>2. CASE WriteBlock(t)
        <4>1. PICK x : blocks' = [blocks EXCEPT ![node[t]].buf = x]
          BY <3>2 DEF WriteBlock
        <4> QED
          BY <1>0, <4>1 DEF ListTypes
      <3> QED
        BY <1>4, <3>1, <3>2 DEF Copy
    <2> QED
      BY <2>1, <2>2, KeptInOrder DEF Adding
  <1>5. CASE UseAfterFree(t)
    <2>1. UNCHANGED <<driver, mod, freed, walk, torn, next, back, blocks, raced, stage, node, prev, bio, k>>
      BY <1>5 DEF UseAfterFree, store, bioVars, hist
    <2>2. Linked' = Linked
      BY <2>1 DEF Linked, Nodes, Unpublished
    <2>3. ~raced => WalkAhead' /\ AllFreed'
      BY <2>1, <2>2 DEF InOrder, WalkAhead, AllFreed
    <2> QED
      BY <2>1, <2>3, OrderKept
  <1>6. CASE EndIo(t)
    <2>1. /\ UNCHANGED <<next, back, blocks, raced>> /\ stage[t] = "end" /\ stage'[t] = "idle"
      BY <1>0, <1>6 DEF EndIo, store, hist, BioTypes
    <2> QED
      BY <2>1, KeptInOrder DEF Adding
  <1> QED
    BY <1>1, <1>2, <1>3, <1>4, <1>5, <1>6, FindInOrder, AllocateInOrder, LinkInOrder, PublishInOrder
    DEF BioStep, Submission

LEMMA StepInOrder == ASSUME Basics, InOrder, [Next]_vars PROVE InOrder'
  <1>1. CASE ModuleStep
    BY <1>1, ModuleInOrder, FreeListInOrder, ModuleKeeps
  <1>2. ASSUME NEW t \in Submitters, BioStep(t) PROVE InOrder'
    BY <1>2, BioInOrder
  <1>3. CASE UNCHANGED vars
    <2>1. UNCHANGED <<driver, mod, freed, walk, torn, next, back, blocks, raced, stage, node, prev, bio, k>>
      BY <1>3 DEF vars, device, store, hist
    <2>2. Linked' = Linked
      BY <2>1 DEF Linked, Nodes, Unpublished
    <2>3. ~raced => WalkAhead' /\ AllFreed'
      BY <2>1, <2>2 DEF InOrder, WalkAhead, AllFreed
    <2> QED
      BY <2>1, <2>3, OrderKept
  <1> QED
    BY <1>1, <1>2, <1>3, NextIs

LEMMA SbullInOrder == Spec => []InOrder
  <1>1. Init => InOrder
    BY InitInOrder
  <1>2. Basics /\ InOrder /\ [Next]_vars => InOrder'
    BY StepInOrder
  <1> QED
    BY <1>1, <1>2, SbullBasics, PTL DEF Spec

(* As long as no two bios add a block at the same time, what a walk of the *)
(* list finds is every block that has been added and not freed, however    *)
(* long the list is: no block is lost, none is found twice, no two are for *)
(* one sector, and head->prev is the last.                                 *)
THEOREM ListHoldsAll == Spec => []ListIsComplete
  <1>1. ASSUME Basics, InOrder, ~raced
        PROVE  /\ {Chain[i] : i \in 1 .. Len(Chain)} = (1 .. Len(blocks)) \ (Unpublished \cup freed)
               /\ \A m, n \in (1 .. Len(blocks)) \ freed : blocks[m].idx = blocks[n].idx => m = n
               /\ Unpublished = {} => back[0] = IF Chain = << >> THEN 0 ELSE Chain[Len(Chain)]
    <2>1. /\ Ascending(next, Linked) /\ NewSectors /\ (Unpublished = {} => Topmost(Linked, back[0]))
      BY <1>1 DEF InOrder
    <2>2. PICK N, L, w, c : N = Len(blocks) /\ L = Linked /\ w = WalkOf(next) /\ c = w[next[0]]
      OBVIOUS
    <2>3. N \in Nat /\ Forward(next, N) /\ L \in SUBSET (1 .. N)
      BY <1>1, <2>2, FindIsForward DEF Linked, Nodes
    <2>4. Listed(c) = L /\ (c = << >> <=> L = {}) /\ (c # << >> => Topmost(L, c[Len(c)]))
      BY <2>1, <2>2, <2>3, WalkCovers
    <2>5. Chain = c
      BY <2>2, LookupIs
    <2>6. {Chain[i] : i \in 1 .. Len(Chain)} = (1 .. Len(blocks)) \ (Unpublished \cup freed)
      BY <2>2, <2>4, <2>5 DEF Listed, Linked, Nodes
    <2>7. \A m \in L : m \in Nat /\ m > 0
      BY <2>3
    <2>8. ASSUME Unpublished = {} PROVE back[0] = IF c = << >> THEN 0 ELSE c[Len(c)]
      <3>1. back[0] \in {0} \cup L /\ \A m \in L : m <= back[0]
        BY <2>1, <2>2, <2>8 DEF Topmost
      <3>2. CASE c = << >>
        BY <2>4, <3>1, <3>2
      <3>3. CASE c # << >>
        <4>1. L # {} /\ c[Len(c)] \in {0} \cup L /\ \A m \in L : m <= c[Len(c)]
          BY <2>4, <3>3 DEF Topmost
        <4>2. back[0] \in L /\ c[Len(c)] \in L
          BY <2>7, <3>1, <4>1
        <4>3. back[0] <= c[Len(c)] /\ c[Len(c)] <= back[0] /\ back[0] \in Nat /\ c[Len(c)] \in Nat
          BY <2>7, <3>1, <4>1, <4>2
        <4> QED
          BY <3>3, <4>3
      <3> QED
        BY <3>2, <3>3
    <2> QED
      BY <2>1, <2>5, <2>6, <2>8 DEF NewSectors, Nodes
  <1>2. Basics /\ InOrder => ListIsComplete
    BY <1>1 DEF ListIsComplete
  <1> QED
    BY <1>2, SbullBasics, SbullInOrder, PTL

(* Removal leaves nothing behind: no array, and no block of the list if    *)
(* the device was closed and no bios ever raced; and neither driver frees  *)
(* anything twice, or touches what it has freed, unless set-up failed or   *)
(* the device was open at rmmod.                                           *)
THEOREM NothingLeaks == Spec => []RemovalFreesAll
  <1>1. ASSUME Basics, InOrder PROVE RemovalFreesAll
    <2>1. ASSUME mod = "gone", driver # "sbull", ~torn, ~raced PROVE freed = 1 .. Len(blocks)
      <3>1. driver = "sbull2"
        BY <1>1, <2>1 DEF Basics, SbullTypeOK, ModTypes, Drivers
      <3>2. Linked = {}
        BY <1>1, <2>1, <3>1 DEF InOrder, AllFreed, Removing
      <3>3. \A t \in Submitters : stage[t] \notin Owning
        BY <1>1, <2>1 DEF Basics, Lifecycle, Busy, Owning
      <3>4. Nodes \ freed = {}
        BY <1>1, <3>2, <3>3, LinkedFacts
      <3>5. freed \in SUBSET Nodes
        BY <1>1 DEF Basics, SbullTypeOK, ListTypes
      <3> QED
        BY <3>4, <3>5 DEF Nodes
    <2>2. (mod = "gone" => array # "allocated") /\ (oops => botched \/ torn)
      BY <1>1 DEF Basics, Lifecycle
    <2> QED
      BY <2>1, <2>2 DEF RemovalFreesAll
  <1> QED
    BY <1>1, SbullBasics, SbullInOrder, PTL

-----------------------------------------------------------------------------
(* Sectors and pages.                                                      *)
LEMMA SameRest ==
  ASSUME NEW P \in Nat, P > 0, NEW q \in Int, NEW r \in Int, NEW p \in Int, NEW u \in Int,
         0 <= r, r < P, 0 <= u, u < P, P * q + r = P * p + u
  PROVE  r = u
  <1>1. CASE q = p
    BY <1>1
  <1>2. CASE q < p
    <2>1. P * (p - q) = r - u
      OBVIOUS
    <2>2. P * (p - q) >= P * 1
      BY <1>2
    <2> QED
      BY <2>1, <2>2
  <1>3. CASE p < q
    <2>1. P * (q - p) = u - r
      OBVIOUS
    <2>2. P * (q - p) >= P * 1
      BY <1>3
    <2> QED
      BY <2>1, <2>2
  <1> QED
    BY <1>1, <1>2, <1>3

LEMMA OnPage ==
  ASSUME NEW P \in Nat, P > 0, NEW a \in Nat, a % P = 0, NEW o \in 0 .. P - 1
  PROVE  (a + o) % P = o /\ (a + o) - ((a + o) % P) = a
  <1> DEFINE s == a + o
             q == s \div P
             p == a \div P
  <1>1. s \in Nat /\ o \in Int
    OBVIOUS
  <1>2. /\ p \in Nat /\ a = (P * p) + (a % P)
    OBVIOUS
  <1>3. q \in Nat /\ s = (P * q) + (s % P) /\ s % P \in 0 .. P - 1
    <2> HIDE DEF s
    <2> QED
      BY <1>1
  <1>4. (P * q) + (s % P) = (P * p) + o
    BY <1>2, <1>3
  <1> HIDE DEF q, p
  <1>5. s % P = o
    <2> HIDE DEF s
    <2>1. s % P \in Int /\ 0 <= s % P /\ s % P < P /\ 0 <= o /\ o < P
      BY <1>1, <1>3
    <2>2. q \in Int /\ p \in Int /\ o \in Int /\ P > 0
      BY <1>1, <1>2, <1>3
    <2> QED
      BY <1>4, <2>1, <2>2, SameRest, Zenon
  <1> QED
    BY <1>1, <1>5

LEMMA PageOf ==
  ASSUME NEW P \in Nat, P > 0, NEW s \in Nat
  PROVE  s % P \in 0 .. P - 1 /\ s - (s % P) \in Nat /\ s = (s - (s % P)) + (s % P)
  <1> DEFINE q == s \div P
  <1>1. q \in Nat /\ s = (P * q) + (s % P) /\ s % P \in 0 .. P - 1
    OBVIOUS
  <1>2. P * q \in Nat
    BY <1>1
  <1> QED
    BY <1>1, <1>2

(* What a list of pages holds for a sector.                                *)
PageHolds(nx, b, s) ==
  LET f == FindIn(nx, b, s - (s % PAGE)) IN IF f = 0 THEN Unset ELSE b[f].buf[s % PAGE]

LEMMA ContentIs ==
  ASSUME NEW s
  PROVE  /\ Content(s) = IF driver = "sbull" THEN disk[s] ELSE PageHolds(next, blocks, s)
         /\ Content(s)' = IF driver' = "sbull" THEN disk'[s] ELSE PageHolds(next', blocks', s)
  <1>1. /\ sbull_find_list(s - (s % PAGE)) = FindIn(next, blocks, s - (s % PAGE))
        /\ sbull_find_list(s - (s % PAGE))' = FindIn(next', blocks', s - (s % PAGE))
    BY LookupIs
  <1> QED
    BY <1>1 DEF Content, PageHolds

LEMMA PageHoldsIs ==
  ASSUME NEW N, NEW nx, NEW L, Ordered(nx, N, L), NEW b, NEW s,
         \A m, n \in L : b[m].idx = b[n].idx => m = n
  PROVE  /\ \A n \in L : b[n].idx = s - (s % PAGE) => PageHolds(nx, b, s) = b[n].buf[s % PAGE]
         /\ (\A n \in L : b[n].idx # s - (s % PAGE)) => PageHolds(nx, b, s) = Unset
  <1>1. PICK a, f : a = s - (s % PAGE) /\ f = FindIn(nx, b, a)
    OBVIOUS
  <1>2. /\ f = 0 \/ (f \in L /\ b[f].idx = a)
        /\ f = 0 => \A n \in L : b[n].idx # a
    BY <1>1, LookupInOrder
  <1>3. PageHolds(nx, b, s) = IF f = 0 THEN Unset ELSE b[f].buf[s % PAGE]
    BY <1>1 DEF PageHolds
  <1>4. f # 0 => f \in L
    BY <1>2
  <1>5. 0 \notin L
    BY DEF Ordered
  <1> QED
    BY <1>1, <1>2, <1>3, <1>4, <1>5

(* A list that is longer by empty blocks holds the same.                   *)
LEMMA PageHoldsSame ==
  ASSUME NEW N, NEW nx, NEW L, Ordered(nx, N, L), NEW b,
         NEW M, NEW my, NEW K, Ordered(my, M, K), NEW d, NEW s,
         \A m, n \in L : b[m].idx = b[n].idx => m = n,
         \A m, n \in K : d[m].idx = d[n].idx => m = n,
         L \subseteq K,
         \A n \in L : d[n].idx = b[n].idx,
         \A n \in L : b[n].idx = s - (s % PAGE) => d[n].buf[s % PAGE] = b[n].buf[s % PAGE],
         \A n \in K \ L : d[n].buf[s % PAGE] = Unset
  PROVE  PageHolds(my, d, s) = PageHolds(nx, b, s)
  <1>1. /\ \A n \in L : b[n].idx = s - (s % PAGE) => PageHolds(nx, b, s) = b[n].buf[s % PAGE]
        /\ (\A n \in L : b[n].idx # s - (s % PAGE)) => PageHolds(nx, b, s) = Unset
    BY PageHoldsIs
  <1>2. /\ \A n \in K : d[n].idx = s - (s % PAGE) => PageHolds(my, d, s) = d[n].buf[s % PAGE]
        /\ (\A n \in K : d[n].idx # s - (s % PAGE)) => PageHolds(my, d, s) = Unset
    BY PageHoldsIs
  <1>3. CASE \E n \in L : b[n].idx = s - (s % PAGE)
    <2>1. PICK n \in L : b[n].idx = s - (s % PAGE)
      BY <1>3
    <2> QED
      BY <1>1, <1>2, <2>1
  <1>4. CASE \A n \in L : b[n].idx # s - (s % PAGE)
    <2>1. PageHolds(nx, b, s) = Unset
      BY <1>1, <1>4
    <2>2. CASE \E n \in K : d[n].idx = s - (s % PAGE)
      <3>1. PICK n \in K : d[n].idx = s - (s % PAGE)
        BY <2>2
      <3>2. n \notin L
        BY <1>4, <3>1
      <3> QED
        BY <1>2, <2>1, <3>1, <3>2
    <2>3. CASE \A n \in K : d[n].idx # s - (s % PAGE)
      BY <1>2, <2>1, <2>3
    <2> QED
      BY <2>2, <2>3
  <1> QED
    BY <1>3, <1>4

-----------------------------------------------------------------------------
(* What was written, and what is read.                                     *)
InSeg(b, i, s) == s \in b.segs[i].at .. b.segs[i].at + b.segs[i].len - 1

Done(t) == {s \in Sectors : \E i \in 1 .. k[t] - 1 : InSeg(bio[t], i, s)}

NoClash ==
  ~overlapped => \A t, u \in Submitters : t # u /\ Busy(t) /\ Busy(u) => ~Clash(bio[t], bio[u])

(* A block that is being added is empty, one in use is in the list.        *)
Held(t) ==
  /\ stage[t] \in Owning => \A o \in 0 .. PAGE - 1 : blocks[node[t]].buf[o] = Unset
  /\ stage[t] = "copy" /\ driver = "sbull2" => node[t] \in Linked

(* What a bio under way has written or read so far.                        *)
Progress(t) ==
  Busy(t) => \A s \in Done(t) : IF bio[t].write THEN Content(s) = <<id[t], s>>
                                ELSE last[s] = Unset \/ got[t][s] = last[s]

Kept == \A s \in Sectors \ BeingWritten : last[s] = Unset \/ Content(s) = last[s]

DataKept == NoClash /\ (Orderly => Kept /\ \A t \in Submitters : Held(t) /\ Progress(t))

LEMMA SpanIs ==
  ASSUME NEW b \in Bios
  PROVE  /\ \A s : s \in Span(b) <=> \E i \in 1 .. Len(b.segs) : InSeg(b, i, s)
         /\ \A i \in 1 .. Len(b.segs) : \A s : InSeg(b, i, s) => s \in Sectors
         /\ Span(b) \subseteq Sectors
  <1>1. \A s : s \in Span(b) <=> \E i \in 1 .. Len(b.segs) : InSeg(b, i, s)
    BY DEF Span, Segs, InSeg
  <1>2. ASSUME NEW i \in 1 .. Len(b.segs), NEW s, InSeg(b, i, s) PROVE s \in Sectors
    <2>1. b.segs[i].at \in Nat /\ b.segs[i].len \in 1 .. PAGE /\ b.segs[i].at + b.segs[i].len <= nsectors
          /\ nsectors \in Nat /\ PAGE \in Nat
      BY BioShape
    <2> QED
      BY <1>2, <2>1 DEF InSeg, Sectors
  <1> QED
    BY <1>1, <1>2

LEMMA WriterIs ==
  /\ \A s : s \in BeingWritten <=> \E t \in Submitters : Busy(t) /\ bio[t].write /\ s \in Span(bio[t])
  /\ \A s : s \in BeingWritten' <=> \E t \in Submitters : Busy(t)' /\ bio'[t].write /\ s \in Span(bio'[t])
  BY DEF BeingWritten, Span, Segs, Busy

(* Where the bio is, and the sectors it is at.                             *)
LEMMA AtSegment ==
  ASSUME Basics, AllRegular, ~irregular, NEW t \in Submitters, Busy(t), stage[t] # "end"
  PROVE  /\ k[t] \in 1 .. Len(bio[t].segs) /\ bio[t] \in Bios
         /\ Sector(t) \in Nat /\ CurSectors(t) \in 1 .. PAGE /\ PAGE \in Nat \ {0}
         /\ Sector(t) + CurSectors(t) <= nsectors /\ nsectors \in Nat
         /\ \A s : InSeg(bio[t], k[t], s) <=> s \in Sector(t) .. Sector(t) + CurSectors(t) - 1
         /\ \A s : InSeg(bio[t], k[t], s) => s \in Sectors /\ s \in Span(bio[t])
         /\ bio[t].segs[k[t]].at = Sector(t) /\ bio[t].segs[k[t]].len = CurSectors(t)
         /\ driver = "sbull2" => CurSectors(t) = PAGE /\ Sector(t) % PAGE = 0
  <1>1. UnderWay(t) /\ Regular(bio[t])
    BY DEF Basics, BiosOK, BioOK, AllRegular
  <1>2. bio[t] \in Bios /\ k[t] \in 1 .. Len(bio[t].segs)
    <2>1. Len(bio[t].segs) \in Nat
      BY <1>1, BioShape DEF UnderWay
    <2> QED
      BY <1>1, <2>1 DEF UnderWay
  <1>3. /\ bio[t].segs[k[t]].at = Sector(t) /\ bio[t].segs[k[t]].len = CurSectors(t)
        /\ driver = "sbull2" => CurSectors(t) = PAGE /\ Sector(t) % PAGE = 0
    BY <1>1, RegularSector
  <1>4. /\ bio[t].segs[k[t]].at \in Nat /\ bio[t].segs[k[t]].len \in 1 .. PAGE
        /\ bio[t].segs[k[t]].at + bio[t].segs[k[t]].len <= nsectors
        /\ nsectors \in Nat /\ PAGE \in Nat \ {0}
    BY <1>2, BioShape
  <1>5. \A s : InSeg(bio[t], k[t], s) => s \in Sectors /\ s \in Span(bio[t])
    BY <1>2, SpanIs
  <1>6. \A s : InSeg(bio[t], k[t], s) <=> s \in Sector(t) .. Sector(t) + CurSectors(t) - 1
    BY <1>3 DEF InSeg
  <1> QED
    BY <1>2, <1>3, <1>4, <1>5, <1>6

(* A history of mishaps is never forgotten.                                *)
LEMMA OrderlyBefore ==
  ASSUME Basics, ModuleStep \/ \E t \in Submitters : BioStep(t), Orderly'
  PROVE  Orderly
  <1>0. ~irregular' /\ ~overlapped' /\ ~raced' /\ ~starved' /\ array' # "freed" /\ freed' = {}
    BY DEF Orderly
  <1>1. CASE ModuleStep
    <2>1. UNCHANGED <<irregular, overlapped, raced, starved>>
      BY <1>1, ModuleKeeps
    <2>2. freed = {}
      <3>1. UNCHANGED freed \/ \E x : freed' = freed \cup x
        BY <1>1, ModuleKeeps DEF FreeList
      <3> QED
        BY <1>0, <3>1
    <2>3. array # "freed"
      BY <1>0, <1>1 DEF ModuleStep, sbull_init, setup_device, Vmalloc, OutVfree, BlkAllocDisk, AddDisk,
         sbull_open, sbull_release, Removal, sbull_exit, FreeList, DelGendisk, Drained, Vfree,
         Basics, Lifecycle, Removing
    <2> QED
      BY <1>0, <2>1, <2>2, <2>3 DEF Orderly
  <1>2. ASSUME NEW t \in Submitters, BioStep(t) PROVE Orderly
    <2>1. freed = {} /\ array # "freed"
      BY <1>0, <1>2, BioKeeps DEF Basics, SbullTypeOK
    <2>2. CASE Submit(t)
      <3>1. /\ \E b : irregular' = (irregular \/ ~Regular(b))
            /\ \E b : overlapped' = (overlapped \/ \E u \in Submitters : Busy(u) /\ Clash(b, bio[u]))
        BY <2>2 DEF Submit
      <3>2. UNCHANGED <<raced, starved>>
        BY <2>2 DEF Submit
      <3> QED
        BY <1>0, <2>1, <3>1, <3>2, Zenon DEF Orderly
    <2>3. CASE Find(t)
      <3>1. /\ raced' = raced \/ raced' = (raced \/ \E u \in Submitters : stage[u] \in Adding)
            /\ starved' = starved \/ starved' = (starved \/ bio[t].write)
        BY <2>3, Zenon DEF Find
      <3>2. ~raced /\ ~starved
        <4>1. ~raced
          <5>1. CASE raced' = raced
            BY <1>0, <5>1
          <5>2. CASE raced' = (raced \/ \E u \in Submitters : stage[u] \in Adding)
            BY <1>0, <5>2, Zenon
          <5> QED
            BY <3>1, <5>1, <5>2
        <4>2. ~starved
          <5>1. CASE starved' = starved
            BY <1>0, <5>1
          <5>2. CASE starved' = (starved \/ bio[t].write)
            BY <1>0, <5>2, Zenon
          <5> QED
            BY <3>1, <5>1, <5>2
        <4> QED
          BY <4>1, <4>2
      <3>3. UNCHANGED <<irregular, overlapped>>
        BY <2>3 DEF Find
      <3> QED
        BY <1>0, <2>1, <3>2, <3>3 DEF Orderly
    <2>4. CASE ~Submit(t) /\ ~Find(t)
      <3>1. UNCHANGED <<irregular, overlapped, raced, starved>>
        BY <1>2, <2>4 DEF BioStep, Submission, Transfer, Allocate, Link, Publish, Copy, UseAfterFree,
           EndIo, hist
      <3> QED
        BY <1>0, <2>1, <3>1 DEF Orderly
    <2> QED
      BY <2>2, <2>3, <2>4
  <1> QED
    BY <1>1, <1>2

LEMMA LinkedStep ==
  ASSUME Basics, NEW t \in Submitters, BioStep(t)
  PROVE  /\ Publish(t) => Linked' = Linked \cup {node[t]} /\ node[t] \notin Linked
         /\ ~Publish(t) => Linked' = Linked
  <1>0. /\ \A u \in Submitters \ {t} : stage'[u] = stage[u] /\ node'[u] = node[u]
        /\ freed' = freed /\ ListTypes /\ BioTypes /\ Len(blocks) \in Nat
        /\ \A u \in Submitters : stage[u] \in Owning =>
             /\ node[u] \in Nodes \ freed
             /\ \A v \in Submitters : stage[v] \in Owning /\ node[v] = node[u] => v = u
    BY BioKeeps, Pointers DEF Basics, SbullTypeOK, Shape, FreshBlock
  <1>1. CASE Publish(t)
    <2>1. /\ stage[t] = "publish" /\ stage'[t] = "copy" /\ UNCHANGED <<node, blocks>>
      BY <1>0, <1>1 DEF Publish, BioTypes
    <2>2. \A n : n \in Unpublished' <=> n \in Unpublished /\ n # node[t]
      <3>1. ASSUME NEW n, n \in Unpublished' PROVE n \in Unpublished /\ n # node[t]
        <4>1. PICK u \in Submitters : stage'[u] \in Owning /\ n = node'[u]
          BY <3>1 DEF Unpublished, Owning
        <4>2. u # t /\ stage[u] \in Owning /\ n = node[u]
          BY <1>0, <2>1, <4>1 DEF Owning
        <4>3. stage[t] \in Owning
          BY <2>1 DEF Owning
        <4> QED
          BY <1>0, <4>2, <4>3 DEF Unpublished, Owning
      <3>2. ASSUME NEW n, n \in Unpublished, n # node[t] PROVE n \in Unpublished'
        <4>1. PICK u \in Submitters : stage[u] \in Owning /\ n = node[u]
          BY <3>2 DEF Unpublished, Owning
        <4>2. u # t /\ stage'[u] \in Owning /\ n = node'[u]
          BY <1>0, <3>2, <4>1
        <4> QED
          BY <4>2 DEF Unpublished, Owning
      <3> QED
        BY <3>1, <3>2
    <2>3. node[t] \in Unpublished /\ node[t] \in Nodes \ freed /\ Nodes' = Nodes
      BY <1>0, <2>1 DEF Unpublished, Owning, Nodes
    <2>4. Linked' = Linked \cup {node[t]} /\ node[t] \notin Linked
      BY <1>0, <2>2, <2>3 DEF Linked
    <2> QED
      BY <1>1, <2>4
  <1>2. CASE Allocate(t)
    <2>1. stage[t] = "add" /\ stage'[t] = "link" /\ node'[t] = Len(blocks) + 1
      BY <1>0, <1>2 DEF Allocate, BioTypes, ListTypes
    <2>2. Len(blocks') = Len(blocks) + 1
      <3>1. PICK b : blocks' = Append(blocks, b)
        BY <1>2 DEF Allocate
      <3> QED
        BY <1>0, <3>1 DEF ListTypes
    <2>3. \A n : n \in Nodes' <=> n \in Nodes \/ n = Len(blocks) + 1
      BY <1>0, <2>2 DEF Nodes
    <2>4. \A n : n \in Unpublished' <=> n \in Unpublished \/ n = Len(blocks) + 1
      <3>1. \A u \in Submitters : /\ stage'[u] \in Owning <=> u = t \/ stage[u] \in Owning
                                  /\ node'[u] = IF u = t THEN Len(blocks) + 1 ELSE node[u]
                                  /\ stage[t] \notin Owning
        BY <1>0, <2>1 DEF Owning
      <3> QED
        BY <3>1 DEF Unpublished, Owning
    <2>5. Len(blocks) + 1 \notin Nodes
      BY <1>0 DEF Nodes
    <2>6. Linked' = Linked
      BY <1>0, <2>3, <2>4, <2>5 DEF Linked
    <2> QED
      BY <1>2, <2>1, <2>6 DEF Publish
  <1>3. CASE ~Publish(t) /\ ~Allocate(t)
    <2>1. \A u \in Submitters : /\ stage'[u] \in Owning <=> stage[u] \in Owning
                                /\ stage[u] \in Owning => node'[u] = node[u]
      <3>1. /\ stage'[t] \in Owning <=> stage[t] \in Owning
            /\ stage[t] \in Owning => node'[t] = node[t]
        BY <1>0, <1>3 DEF BioStep, Submission, Submit, Transfer, Find, Link, Copy, UseAfterFree, EndIo,
           NextSeg, NoLocals, Owning, BioTypes, bioVars
      <3> QED
        BY <1>0, <3>1
    <2>2. Unpublished' = Unpublished
      BY <2>1 DEF Unpublished, Owning
    <2>3. Len(blocks') = Len(blocks)
      <3>1. CASE UNCHANGED blocks
        BY <3>1
      <3>2. CASE WriteBlock(t)
        <4>1. PICK x : blocks' = [blocks EXCEPT ![node[t]].buf = x]
          BY <3>2 DEF WriteBlock
        <4> QED
          BY <1>0, <4>1 DEF ListTypes
      <3> QED
        BY <1>3, <3>1, <3>2 DEF BioStep, Submission, Submit, Transfer, Find, Link, Copy, UseAfterFree,
           EndIo, store
    <2> QED
      BY <1>0, <1>3, <2>2, <2>3 DEF Linked, Nodes
  <1> QED
    BY <1>1, <1>2, <1>3
LEMMA OrderedNow ==
  ASSUME Basics, InOrder, ~raced
  PROVE  /\ Ordered(next, Len(blocks), Linked)
         /\ \A m, n \in Linked : blocks[m].idx = blocks[n].idx => m = n
  <1>1. Forward(next, Len(blocks)) /\ Len(blocks) \in Nat
    BY FindIsForward
  <1>2. Ascending(next, Linked) /\ NewSectors /\ Linked \in SUBSET (Nodes \ freed)
    BY DEF InOrder, Linked
  <1>3. Linked \in SUBSET (1 .. Len(blocks))
    BY <1>2 DEF Nodes
  <1> QED
    BY <1>1, <1>2, <1>3 DEF Ordered, NewSectors

LEMMA OrderedThen ==
  ASSUME Basics', InOrder', ~raced'
  PROVE  /\ Ordered(next', Len(blocks'), Linked')
         /\ \A m, n \in Linked' : blocks'[m].idx = blocks'[n].idx => m = n
  <1>0. PICK N : N = Len(blocks')
    OBVIOUS
  <1>1. N \in Nat
    <2>1. blocks' \in Seq(Blocks)
      BY DEF Basics, SbullTypeOK, ListTypes, Blocks, Values, Sectors
    <2>2. PICK R, q : R = Blocks /\ q = blocks'
      OBVIOUS
    <2>3. q \in Seq(R)
      BY <2>1, <2>2
    <2>4. Len(q) \in Nat
      BY <2>3
    <2> QED
      BY <1>0, <2>2, <2>4
  <1>2. Forward(next', N)
    <2>1. next' \in [0 .. N -> 0 .. N]
      BY <1>0 DEF Basics, SbullTypeOK, ListTypes
    <2>2. \A n \in 1 .. N : next'[n] = 0 \/ next'[n] > n
      BY <1>0 DEF Basics, Shape, PointersMatch, Nodes
    <2> QED
      BY <1>1, <2>1, <2>2 DEF Forward
  <1>3. Ascending(next', Linked') /\ NewSectors' /\ Linked' \in SUBSET (Nodes' \ freed')
    <2>1. Linked' \in SUBSET (Nodes' \ freed')
      BY DEF Linked
    <2>2. Ascending(next, Linked)' /\ NewSectors'
      BY DEF InOrder
    <2> QED
      BY <2>1, <2>2 DEF Ascending
  <1>4. Linked' \in SUBSET (1 .. N)
    BY <1>0, <1>3 DEF Nodes
  <1> QED
    BY <1>0, <1>1, <1>2, <1>3, <1>4 DEF Ordered, NewSectors

(* Only a write moves what is on the disk.                                 *)
LEMMA ContentUnwritten ==
  ASSUME Basics, InOrder, ~raced, Basics', InOrder', ~raced',
         NEW t \in Submitters, BioStep(t), Held(t), Copy(t) => ~bio[t].write, NEW s \in Sectors
  PROVE  Content(s)' = Content(s)
  <1>0. /\ UNCHANGED <<driver, disk>> /\ ListTypes /\ PAGE \in Nat /\ PAGE > 0 /\ s \in Nat
        /\ (UNCHANGED blocks \/ Allocate(t))
    <2>1. UNCHANGED driver
      BY BioKeeps DEF Basics, SbullTypeOK
    <2>2. UNCHANGED disk /\ (UNCHANGED blocks \/ Allocate(t))
      BY DEF BioStep, Submission, Submit, Transfer, Find, Allocate, Link, Publish, Copy, UseAfterFree,
         EndIo, store
    <2>3. PAGE \in Nat /\ PAGE > 0 /\ s \in Nat
      BY SbullAssumption DEF Sectors
    <2> QED
      BY <2>1, <2>2, <2>3 DEF Basics, SbullTypeOK
  <1>1. CASE driver = "sbull"
    BY <1>0, <1>1, ContentIs
  <1>2. CASE driver # "sbull"
    <2>1. PICK N, L, M, K : N = Len(blocks) /\ L = Linked /\ M = Len(blocks') /\ K = Linked'
      OBVIOUS
    <2>2. PICK nx, b, my, d : nx = next /\ b = blocks /\ my = next' /\ d = blocks'
      OBVIOUS
    <2>3. Ordered(nx, N, L) /\ \A m, n \in L : b[m].idx = b[n].idx => m = n
      BY <2>1, <2>2, OrderedNow
    <2>4. Ordered(my, M, K) /\ \A m, n \in K : d[m].idx = d[n].idx => m = n
      BY <2>1, <2>2, OrderedThen
    <2>5. \A n \in Nodes : d[n] = b[n]
      <3>1. CASE UNCHANGED blocks
        BY <2>2, <3>1
      <3>2. CASE Allocate(t)
        <4>1. PICK x : blocks' = Append(blocks, x)
          BY <3>2 DEF Allocate
        <4> QED
          BY <1>0, <2>2, <4>1 DEF ListTypes, Nodes
      <3> QED
        BY <1>0, <3>1, <3>2
    <2>6. L \in SUBSET Nodes
      BY <2>1 DEF Linked
    <2>7. L \subseteq K /\ \A n \in K \ L : d[n].buf[s % PAGE] = Unset
      <3>1. CASE Publish(t)
        <4>1. K = L \cup {node[t]}
          BY <2>1, <3>1, LinkedStep
        <4>2. stage[t] \in Owning /\ UNCHANGED blocks
          BY <3>1 DEF Publish, Owning
        <4>3. s % PAGE \in 0 .. PAGE - 1
          BY <1>0, PageOf
        <4>4. blocks[node[t]].buf[s % PAGE] = Unset
          BY <4>2, <4>3 DEF Held
        <4> QED
          BY <2>2, <4>1, <4>2, <4>4
      <3>2. CASE ~Publish(t)
        BY <2>1, <3>2, LinkedStep
      <3> QED
        BY <3>1, <3>2
    <2>8. \A n \in L : d[n].idx = b[n].idx /\ d[n].buf[s % PAGE] = b[n].buf[s % PAGE]
      BY <2>5, <2>6
    <2>9. PageHolds(my, d, s) = PageHolds(nx, b, s)
      BY <2>3, <2>4, <2>7, <2>8, PageHoldsSame
    <2> QED
      BY <1>0, <1>2, <2>2, <2>9, ContentIs
  <1> QED
    BY <1>1, <1>2

(* A regular write puts into each sector of the segment the value meant    *)
(* for it, and touches no other.                                           *)
LEMMA ContentWritten ==
  ASSUME Basics, AllRegular, ~irregular, InOrder, ~raced, Basics', InOrder', ~raced',
         NEW t \in Submitters, Copy(t), bio[t].write, Held(t), NEW s \in Sectors
  PROVE  Content(s)' = IF InSeg(bio[t], k[t], s) THEN <<id[t], s>> ELSE Content(s)
  <1>0. /\ stage[t] = "copy" /\ BioStep(t) /\ UNCHANGED driver /\ UNCHANGED next
        /\ driver \in Drivers /\ ListTypes /\ s \in Nat
    BY BioKeeps DEF Copy, BioStep, Submission, Basics, SbullTypeOK, ModTypes, Sectors
  <1>1. /\ Sector(t) \in Nat /\ CurSectors(t) \in 1 .. PAGE /\ PAGE \in Nat /\ PAGE > 0
        /\ InSeg(bio[t], k[t], s) <=> s \in Sector(t) .. Sector(t) + CurSectors(t) - 1
        /\ driver = "sbull2" => CurSectors(t) = PAGE /\ Sector(t) % PAGE = 0
    <2>1. Busy(t) /\ stage[t] # "end"
      BY <1>0 DEF Busy
    <2> QED
      BY <2>1, AtSegment
  <1>2. InSeg(bio[t], k[t], s) <=> s - Sector(t) \in Moved(t)
    BY <1>0, <1>1 DEF Moved
  <1>3. \A o \in Moved(t) : Memory(t, o) = <<id[t], Sector(t) + o>>
    BY <1>0, RegularMemory
  <1>4. CASE driver = "sbull"
    <2>1. WriteDisk(t)
      BY <1>4 DEF Copy, Drivers
    <2>2. disk'[s] = IF s - Sector(t) \in Moved(t) THEN Memory(t, s - Sector(t)) ELSE disk[s]
      BY <2>1 DEF WriteDisk
    <2>3. s - Sector(t) \in Moved(t) => Memory(t, s - Sector(t)) = <<id[t], s>>
      <3>1. Sector(t) + (s - Sector(t)) = s
        BY <1>0, <1>1
      <3> QED
        BY <1>3, <3>1
    <2> QED
      BY <1>0, <1>2, <1>4, <2>2, <2>3, ContentIs
  <1>5. CASE driver # "sbull"
    <2>0. PICK m, a, o : m = node[t] /\ a = Sector(t) /\ o = s % PAGE
      OBVIOUS
    <2>1. driver = "sbull2" /\ WriteBlock(t) /\ m \in Linked /\ blocks[m].idx = a
      BY <1>0, <1>5, <2>0 DEF Copy, Drivers, Held, Basics, BiosOK, BioOK, HasBlock
    <2>2. PICK N, L, nx, b, d : N = Len(blocks) /\ L = Linked /\ nx = next /\ b = blocks /\ d = blocks'
      OBVIOUS
    <2>3. Ordered(nx, N, L) /\ \A i, n \in L : b[i].idx = b[n].idx => i = n
      BY <2>2, OrderedNow
    <2>4. Linked' = L
      BY <1>0, <2>2, LinkedStep DEF Publish
    <2>5. Ordered(nx, Len(blocks'), L) /\ \A i, n \in L : d[i].idx = d[n].idx => i = n
      BY <1>0, <2>2, <2>4, OrderedThen
    <2>6. o \in 0 .. PAGE - 1 /\ s = (s - o) + o /\ s - o \in Nat
      BY <1>0, <1>1, <2>0, PageOf
    <2>7. /\ d[m].idx = b[m].idx /\ d[m].buf[o] = <<id[t], a + o>>
          /\ \A n \in Nodes \ {m} : d[n] = b[n]
      <3>1. PICK x : /\ x = [p \in 0 .. PAGE - 1 |-> IF p \in Moved(t) THEN Memory(t, p) ELSE blocks[m].buf[p]]
                     /\ blocks' = [blocks EXCEPT ![m].buf = x]
        BY <2>0, <2>1 DEF WriteBlock
      <3>2. blocks[m] \in Blocks /\ m \in 1 .. Len(blocks)
        <4>1. m \in 1 .. Len(blocks)
          BY <2>1 DEF Linked, Nodes
        <4> QED
          BY <1>0, <4>1, ElementOf DEF ListTypes
      <3>3. blocks'[m].buf = x /\ blocks'[m].idx = blocks[m].idx /\ \A n \in Nodes \ {m} : blocks'[n] = blocks[n]
        <4>1. blocks' = [blocks EXCEPT ![m] = [blocks[m] EXCEPT !.buf = x]]
          BY <3>1
        <4> QED
          BY <1>0, <3>2, <4>1 DEF ListTypes, Nodes, Blocks
      <3>4. o \in Moved(t)
        BY <1>1, <2>1, <2>6 DEF Moved
      <3>5. x[o] = Memory(t, o)
        BY <2>6, <3>1, <3>4
      <3>6. Memory(t, o) = <<id[t], a + o>>
        BY <1>3, <2>0, <3>4
      <3> QED
        BY <2>2, <3>3, <3>5, <3>6
    <2>8. CASE a = s - o
      <3>1. InSeg(bio[t], k[t], s)
        <4>1. a \in Nat /\ s = a + o /\ o \in 0 .. PAGE - 1
          BY <1>1, <2>0, <2>6, <2>8
        <4>2. s \in a .. a + PAGE - 1
          BY <1>1, <4>1
        <4> QED
          BY <1>1, <2>0, <2>1, <4>2
      <3>2. PageHolds(nx, d, s) = d[m].buf[s % PAGE]
        <4>1. d[m].idx = s - (s % PAGE) /\ m \in L
          BY <2>0, <2>1, <2>2, <2>7, <2>8
        <4> QED
          BY <2>5, <4>1, PageHoldsIs
      <3>3. a + o = s
        BY <2>6, <2>8
      <3>4. PageHolds(nx, d, s) = <<id[t], s>>
        BY <2>0, <2>7, <3>2, <3>3
      <3> QED
        BY <1>0, <1>5, <2>2, <3>1, <3>4, ContentIs
    <2>9. CASE a # s - o
      <3>1. ~InSeg(bio[t], k[t], s)
        <4> SUFFICES ASSUME s \in a .. a + PAGE - 1 PROVE FALSE
          BY <1>1, <2>0, <2>1
        <4>1. s - a \in 0 .. PAGE - 1 /\ a \in Nat /\ a % PAGE = 0 /\ s = a + (s - a)
          BY <1>0, <1>1, <2>0, <2>1
        <4>2. PICK e : e = s - a
          OBVIOUS
        <4>3. (a + e) - ((a + e) % PAGE) = a
          <5>1. e \in 0 .. PAGE - 1 /\ a \in Nat /\ a % PAGE = 0 /\ PAGE \in Nat /\ PAGE > 0
            BY <1>1, <4>1, <4>2
          <5> QED
            BY <5>1, OnPage
        <4> QED
          BY <2>0, <2>9, <4>1, <4>2, <4>3
      <3>2. \A n \in L : d[n].idx = b[n].idx
        BY <2>2, <2>7 DEF Linked
      <3>3. \A n \in L : b[n].idx = s - (s % PAGE) => d[n].buf[s % PAGE] = b[n].buf[s % PAGE]
        BY <2>0, <2>1, <2>2, <2>7, <2>9 DEF Linked
      <3>4. PageHolds(nx, d, s) = PageHolds(nx, b, s)
        BY <2>3, <2>5, <3>2, <3>3, PageHoldsSame
      <3> QED
        BY <1>0, <1>5, <2>2, <3>1, <3>4, ContentIs
    <2> QED
      BY <2>8, <2>9
  <1> QED
    BY <1>4, <1>5

(* A regular read takes from each sector of the segment what it holds.     *)
LEMMA ReadGets ==
  ASSUME Basics, AllRegular, ~irregular, InOrder, ~raced,
         NEW t \in Submitters, Copy(t), ~bio[t].write, Held(t), NEW s \in Sectors
  PROVE  got'[t][s] = IF InSeg(bio[t], k[t], s) THEN Content(s) ELSE got[t][s]
  <1>0. /\ stage[t] = "copy" /\ Read(t) /\ driver \in Drivers /\ s \in Nat
        /\ got \in [Submitters -> [Sectors -> Values]]
    BY DEF Copy, Basics, SbullTypeOK, ModTypes, DataTypes, Sectors
  <1>1. /\ Sector(t) \in Nat /\ CurSectors(t) \in 1 .. PAGE /\ PAGE \in Nat /\ PAGE > 0
        /\ InSeg(bio[t], k[t], s) <=> s \in Sector(t) .. Sector(t) + CurSectors(t) - 1
        /\ bio[t].segs[k[t]].at = Sector(t) /\ bio[t].segs[k[t]].len = CurSectors(t)
        /\ driver = "sbull2" => CurSectors(t) = PAGE /\ Sector(t) % PAGE = 0
    <2>1. Busy(t) /\ stage[t] # "end"
      BY <1>0 DEF Busy
    <2> QED
      BY <2>1, AtSegment
  <1>2. PICK a, y : a = Sector(t) /\ y = CurSectors(t)
    OBVIOUS
  <1>3. InSeg(bio[t], k[t], s) <=> (s - a \in 0 .. y - 1 /\ s - a < y)
    BY <1>0, <1>1, <1>2
  <1>4. got'[t][s] = IF s - a \in 0 .. y - 1 /\ s - a < y
                     THEN (IF driver = "sbull" THEN disk[a + (s - a)] ELSE blocks[node[t]].buf[s - a])
                     ELSE got[t][s]
    BY <1>0, <1>1, <1>2 DEF Read, Moved
  <1>5. ASSUME s - a \in 0 .. y - 1, driver = "sbull" PROVE disk[a + (s - a)] = Content(s)
    <2>1. a + (s - a) = s
      BY <1>0, <1>1, <1>2
    <2> QED
      BY <1>5, <2>1, ContentIs
  <1>6. ASSUME s - a \in 0 .. y - 1, driver # "sbull" PROVE blocks[node[t]].buf[s - a] = Content(s)
    <2>1. PICK m, e : m = node[t] /\ e = s - a
      OBVIOUS
    <2>2. driver = "sbull2" /\ m \in Linked /\ blocks[m].idx = a /\ y = PAGE /\ a % PAGE = 0
      BY <1>0, <1>1, <1>2, <1>6, <2>1 DEF Drivers, Held, Basics, BiosOK, BioOK, HasBlock
    <2>3. PICK N, L, nx, b : N = Len(blocks) /\ L = Linked /\ nx = next /\ b = blocks
      OBVIOUS
    <2>4. Ordered(nx, N, L) /\ \A i, n \in L : b[i].idx = b[n].idx => i = n
      BY <2>3, OrderedNow
    <2>5. (a + e) % PAGE = e /\ (a + e) - ((a + e) % PAGE) = a /\ a + e = s
      <3>1. a \in Nat /\ e \in 0 .. PAGE - 1 /\ a + e = s
        BY <1>0, <1>1, <1>2, <1>6, <2>1, <2>2
      <3> QED
        BY <1>1, <2>2, <3>1, OnPage
    <2>6. b[m].idx = s - (s % PAGE) /\ m \in L /\ s % PAGE = e
      BY <2>2, <2>3, <2>5
    <2>7. PageHolds(nx, b, s) = b[m].buf[s % PAGE]
      BY <2>4, <2>6, PageHoldsIs
    <2> QED
      BY <1>6, <2>1, <2>3, <2>6, <2>7, ContentIs
  <1> QED
    BY <1>3, <1>4, <1>5, <1>6

-----------------------------------------------------------------------------
LEMMA Apart ==
  ASSUME NoClash, ~overlapped, NEW t \in Submitters, NEW u \in Submitters, t # u, Busy(t), Busy(u),
         NEW s, s \in Span(bio[t]), s \in Span(bio[u])
  PROVE  ~bio[t].write /\ ~bio[u].write
  <1>1. ~Clash(bio[t], bio[u])
    BY DEF NoClash
  <1>2. Span(bio[t]) \cap Span(bio[u]) # {}
    OBVIOUS
  <1> QED
    BY <1>1, <1>2, Zenon DEF Clash

LEMMA ReadApart ==
  ASSUME NoClash, ~overlapped, NEW t \in Submitters, Busy(t), ~bio[t].write, NEW s, s \in Span(bio[t])
  PROVE  s \notin BeingWritten
  <1> SUFFICES ASSUME s \in BeingWritten PROVE FALSE
    OBVIOUS
  <1>1. PICK u \in Submitters : Busy(u) /\ bio[u].write /\ s \in Span(bio[u])
    BY WriterIs
  <1>2. u # t
    BY <1>1
  <1> QED
    BY <1>1, <1>2, Apart

LEMMA DoneIs ==
  ASSUME Basics, NEW t \in Submitters, Busy(t)
  PROVE  /\ Done(t) \subseteq Span(bio[t]) /\ Done(t) \subseteq Sectors
         /\ stage[t] = "end" => Done(t) = Span(bio[t])
  <1>1. PICK b, n : b = bio[t] /\ n = Len(b.segs)
    OBVIOUS
  <1>2. /\ b \in Bios /\ n \in Nat /\ k[t] \in 1 .. n + 1 /\ (stage[t] = "end" => k[t] = n + 1)
    <2>1. UnderWay(t)
      BY DEF Basics, BiosOK, BioOK
    <2>2. bio[t] \in Bios
      BY <2>1 DEF UnderWay
    <2>3. n \in Nat
      BY <1>1, <2>2, BioShape
    <2> QED
      BY <1>1, <2>1, <2>3 DEF UnderWay
  <1>3. /\ \A s : s \in Span(b) <=> \E i \in 1 .. n : InSeg(b, i, s)
        /\ Span(b) \subseteq Sectors
    BY <1>1, <1>2, SpanIs
  <1>4. \A s : s \in Done(t) <=> s \in Sectors /\ \E i \in 1 .. k[t] - 1 : InSeg(b, i, s)
    BY <1>1 DEF Done
  <1>5. \A i \in 1 .. k[t] - 1 : i \in 1 .. n
    BY <1>2
  <1>6. stage[t] = "end" => k[t] - 1 = n
    BY <1>2
  <1> QED
    BY <1>1, <1>3, <1>4, <1>5, <1>6

LEMMA DoneNext ==
  ASSUME NEW t \in Submitters, bio'[t] = bio[t], k[t] \in Nat \ {0}, k'[t] = k[t] + 1
  PROVE  \A s \in Done(t)' : s \in Done(t) \/ InSeg(bio[t], k[t], s)
  <1> TAKE s \in Done(t)'
  <1>1. PICK i \in 1 .. k'[t] - 1 : s \in Sectors /\ InSeg(bio'[t], i, s)
    BY DEF Done, InSeg
  <1>2. i \in 1 .. k[t] - 1 \/ i = k[t]
    BY <1>1
  <1>3. s \in Sectors /\ InSeg(bio[t], i, s)
    BY <1>1
  <1> QED
    BY <1>2, <1>3 DEF Done

(* Steps that leave all of it alone.                                       *)
LEMMA DataUnmoved ==
  ASSUME DataKept, Orderly' => Orderly,
         UNCHANGED <<driver, disk, blocks, next, bio, id, k, stage, node, got, last, freed, overlapped>>
  PROVE  DataKept'
  <1>1. \A s : Content(s)' = Content(s)
    BY ContentIs
  <1>2. Linked' = Linked
    BY DEF Linked, Nodes, Unpublished
  <1>3. /\ \A t \in Submitters : Busy(t)' <=> Busy(t)
        /\ \A t \in Submitters : Done(t)' = Done(t)
    BY DEF Busy, Done, InSeg
  <1>4. \A s : s \in BeingWritten' <=> s \in BeingWritten
    BY <1>3, WriterIs
  <1>5. NoClash'
    <2>1. NoClash
      BY DEF DataKept
    <2> QED
      BY <1>3, <2>1 DEF NoClash, Clash, Span, Segs
  <1>6. ASSUME Orderly' PROVE Kept' /\ \A t \in Submitters : Held(t)' /\ Progress(t)'
    <2>1. Kept /\ \A t \in Submitters : Held(t) /\ Progress(t)
      BY <1>6 DEF DataKept
    <2>2. Kept'
      BY <1>1, <1>4, <2>1 DEF Kept
    <2>3. \A t \in Submitters : Held(t)'
      BY <1>2, <2>1 DEF Held
    <2>4. \A t \in Submitters : Progress(t)'
      BY <1>1, <1>3, <2>1 DEF Progress
    <2> QED
      BY <2>2, <2>3, <2>4
  <1> QED
    BY <1>5, <1>6 DEF DataKept

LEMMA NoClashKept ==
  ASSUME Basics, NoClash, NEW t \in Submitters, BioStep(t)
  PROVE  NoClash'
  <1>0. \A u \in Submitters \ {t} : bio'[u] = bio[u] /\ stage'[u] = stage[u]
    BY BioKeeps DEF Basics, SbullTypeOK
  <1> SUFFICES ASSUME ~overlapped', NEW u \in Submitters, NEW v \in Submitters, u # v,
                      Busy(u)', Busy(v)'
               PROVE  ~Clash(bio'[u], bio'[v])
    BY DEF NoClash, Clash, Span, Segs
  <1>1. CASE Submit(t)
    <2>1. PICK b : /\ bio' = [bio EXCEPT ![t] = b]
                   /\ overlapped' = (overlapped \/ \E w \in Submitters : Busy(w) /\ Clash(b, bio[w]))
      BY <1>1 DEF Submit
    <2>2. bio'[t] = b
      BY <2>1 DEF Basics, SbullTypeOK, BioTypes
    <2>3. ~overlapped /\ \A w \in Submitters : Busy(w) => ~Clash(b, bio[w])
      BY <2>1, Zenon
    <2>4. \A w \in Submitters \ {t} : Busy(w)' => Busy(w) /\ bio'[w] = bio[w] /\ ~Clash(b, bio[w])
      BY <1>0, <2>3 DEF Busy
    <2>5. \A c, d : Clash(c, d) => Clash(d, c)
      BY Zenon DEF Clash
    <2>6. CASE u = t
      BY <2>2, <2>4, <2>6
    <2>7. CASE v = t
      BY <2>2, <2>4, <2>5, <2>7
    <2>8. CASE u # t /\ v # t
      BY <2>3, <2>4, <2>8 DEF NoClash
    <2> QED
      BY <2>6, <2>7, <2>8
  <1>2. CASE Submission(t)
    <2>1. overlapped' = overlapped
      BY <1>2 DEF Submission, Transfer, Find, Allocate, Link, Publish, Copy, UseAfterFree, EndIo, hist
    <2>2. Busy(t) /\ (Busy(t)' => bio'[t] = bio[t])
      BY <1>2 DEF Submission, Transfer, Find, Allocate, Link, Publish, Copy, UseAfterFree, EndIo, Busy,
         bioVars, Basics, SbullTypeOK, BioTypes
    <2>3. \A w \in Submitters : Busy(w)' => Busy(w) /\ bio'[w] = bio[w]
      BY <1>0, <2>2 DEF Busy
    <2> QED
      BY <2>1, <2>3 DEF NoClash
  <1> QED
    BY <1>1, <1>2 DEF BioStep

(* As long as nothing has gone wrong.                                      *)
Intact ==
  /\ Basics /\ AllRegular /\ InOrder /\ NoClash /\ Orderly
  /\ Kept /\ \A t \in Submitters : Held(t) /\ Progress(t)

LEMMA ContentStep ==
  ASSUME Intact, Basics', InOrder', Orderly', NEW t \in Submitters, BioStep(t), NEW s \in Sectors
  PROVE  /\ Copy(t) /\ bio[t].write =>
              Content(s)' = IF InSeg(bio[t], k[t], s) THEN <<id[t], s>> ELSE Content(s)
         /\ ~(Copy(t) /\ bio[t].write) => Content(s)' = Content(s)
  <1>1. /\ Basics /\ AllRegular /\ InOrder /\ ~irregular /\ ~raced /\ ~raced' /\ Held(t)
    BY DEF Intact, Orderly
  <1>2. ASSUME Copy(t), bio[t].write
        PROVE  Content(s)' = IF InSeg(bio[t], k[t], s) THEN <<id[t], s>> ELSE Content(s)
    BY <1>1, <1>2, ContentWritten
  <1>3. ASSUME Copy(t) => ~bio[t].write PROVE Content(s)' = Content(s)
    BY <1>1, <1>3, ContentUnwritten
  <1> QED
    BY <1>2, <1>3

(* Bios under way that meet in a sector are both reads, so that what one   *)
(* of them does to the disk is nothing to the other.                       *)
LEMMA ContentForOthers ==
  ASSUME Intact, Basics', InOrder', Orderly', NEW t \in Submitters, BioStep(t),
         NEW s \in Sectors, s \notin Span(bio[t])
  PROVE  Content(s)' = Content(s)
  <1>1. CASE Copy(t) /\ bio[t].write
    <2>1. Busy(t) /\ stage[t] # "end"
      BY <1>1 DEF Copy, Busy
    <2>2. ~InSeg(bio[t], k[t], s)
      BY <2>1, AtSegment DEF Intact, Orderly
    <2> QED
      BY <1>1, <2>2, ContentStep
  <1> QED
    BY <1>1, ContentStep

LEMMA HeldStep ==
  ASSUME Intact, Basics', InOrder', Orderly', NEW t \in Submitters, BioStep(t)
  PROVE  \A u \in Submitters : Held(u)'
  <1>0. /\ \A u \in Submitters \ {t} : stage'[u] = stage[u] /\ node'[u] = node[u]
        /\ UNCHANGED <<driver, freed>> /\ ListTypes /\ BioTypes /\ BioOK(t)
        /\ \A u \in Submitters : stage[u] \in Owning => node[u] \in Nodes
        /\ Len(blocks) \in Nat /\ driver \in Drivers
    BY BioKeeps, Pointers DEF Intact, Basics, SbullTypeOK, Shape, FreshBlock, BiosOK, ModTypes
  <1>1. Linked \in SUBSET Linked'
    BY LinkedStep DEF Intact
  <1>2. \A n \in Nodes : blocks'[n] = blocks[n] \/ (n = node[t] /\ WriteBlock(t) /\ stage[t] = "copy")
    <2>1. CASE UNCHANGED blocks
      BY <2>1
    <2>2. CASE Allocate(t)
      <3>1. PICK b : blocks' = Append(blocks, b)
        BY <2>2 DEF Allocate
      <3> QED
        BY <1>0, <3>1 DEF ListTypes, Nodes
    <2>3. CASE WriteBlock(t) /\ stage[t] = "copy"
      <3>1. PICK x : blocks' = [blocks EXCEPT ![node[t]].buf = x]
        BY <2>3 DEF WriteBlock
      <3> QED
        BY <1>0, <2>3, <3>1 DEF ListTypes, Nodes
    <2> QED
      BY <2>1, <2>2, <2>3 DEF BioStep, Submission, Submit, Transfer, Find, Link, Publish, Copy,
         UseAfterFree, EndIo, store
  <1>3. ASSUME NEW u \in Submitters, stage[u] \in Owning, stage'[u] \in Owning, node'[u] = node[u]
        PROVE  \A o \in 0 .. PAGE - 1 : blocks'[node'[u]].buf[o] = Unset
    <2>1. \A o \in 0 .. PAGE - 1 : blocks[node[u]].buf[o] = Unset
      BY <1>3 DEF Intact, Held
    <2>2. node[u] \in Nodes /\ node[u] \in Unpublished
      BY <1>0, <1>3, LinkedFacts DEF Intact
    <2>3. stage[t] = "copy" /\ WriteBlock(t) /\ BioStep(t) => node[t] # node[u] \/ UNCHANGED blocks
      <3>1. CASE driver = "sbull"
        BY <3>1 DEF BioStep, Submission, Submit, Transfer, Find, Allocate, Link, Publish, Copy,
           UseAfterFree, EndIo, store
      <3>2. CASE driver # "sbull"
        <4>1. stage[t] = "copy" => node[t] \in Linked
          BY <1>0, <3>2 DEF Intact, Held, Drivers
        <4> QED
          BY <2>2, <4>1 DEF Linked
      <3> QED
        BY <3>1, <3>2
    <2>4. blocks'[node[u]] = blocks[node[u]]
      BY <1>2, <2>2, <2>3
    <2> QED
      BY <1>3, <2>1, <2>4
  <1>4. ASSUME NEW u \in Submitters \ {t} PROVE Held(u)'
    <2>1. Held(u) /\ stage'[u] = stage[u] /\ node'[u] = node[u]
      BY <1>0 DEF Intact
    <2>2. stage'[u] \in Owning => \A o \in 0 .. PAGE - 1 : blocks'[node'[u]].buf[o] = Unset
      BY <1>3, <2>1
    <2> QED
      BY <1>0, <1>1, <2>1, <2>2 DEF Held
  <1>5. Held(t)'
    <2>1. CASE Allocate(t)
      <3>1. stage'[t] = "link" /\ node'[t] = Len(blocks) + 1
        BY <1>0, <2>1 DEF Allocate, BioTypes, ListTypes
      <3>2. PICK b : /\ b = [idx |-> Sector(t), buf |-> [o \in 0 .. PAGE - 1 |-> Unset]]
                     /\ blocks' = Append(blocks, b)
        BY <2>1 DEF Allocate
      <3>3. blocks'[Len(blocks) + 1] = b
        BY <1>0, <3>2 DEF ListTypes
      <3>4. \A o \in 0 .. PAGE - 1 : b.buf[o] = Unset
        BY <3>2
      <3> QED
        BY <3>1, <3>3, <3>4 DEF Held
    <2>2. CASE Link(t)
      <3>1. stage[t] = "link" /\ stage'[t] = "publish" /\ node'[t] = node[t]
        BY <1>0, <2>2 DEF Link, BioTypes
      <3> QED
        BY <1>3, <3>1 DEF Held, Owning
    <2>3. CASE Publish(t)
      <3>1. stage'[t] = "copy" /\ node'[t] = node[t]
        BY <1>0, <2>3 DEF Publish, BioTypes
      <3>2. node[t] \in Linked'
        BY <2>3, LinkedStep DEF Intact
      <3> QED
        BY <3>1, <3>2 DEF Held, Owning
    <2>4. CASE Find(t)
      <3>1. PICK f, s : s = Sector(t) /\ f = sbull_find_list(s)
        OBVIOUS
      <3>2. node'[t] = f /\ stage'[t] \notin Owning /\ (stage'[t] = "copy" => f # 0)
        BY <1>0, <2>4, <3>1 DEF Find, NextSeg, Owning, BioTypes, ListTypes
      <3>3. f # 0 => f \in Linked
        <4>1. PICK N, L, nx, b : N = Len(blocks) /\ L = Linked /\ nx = next /\ b = blocks
          OBVIOUS
        <4>2. Ordered(nx, N, L)
          BY <4>1, OrderedNow DEF Intact, Orderly
        <4>3. FindIn(nx, b, s) = 0 \/ FindIn(nx, b, s) \in L
          BY <4>2, LookupInOrder
        <4>4. f = FindIn(nx, b, s)
          BY <3>1, <4>1, LookupIs
        <4> QED
          BY <4>1, <4>3, <4>4
      <3> QED
        BY <1>1, <3>2, <3>3 DEF Held
    <2>5. CASE UseAfterFree(t)
      <3>1. stage'[t] = stage[t] /\ node'[t] = node[t]
        BY <2>5 DEF UseAfterFree, bioVars
      <3> QED
        BY <1>0, <1>1, <1>3, <3>1 DEF Held, Intact
    <2>6. CASE Transfer(t)
      <3>1. stage'[t] \in {"seg", "end", "find"} \/ (driver = "sbull" /\ stage'[t] = "copy")
        BY <1>0, <2>6 DEF Transfer, NextSeg, BioTypes
      <3> QED
        BY <1>0, <3>1 DEF Held, Owning
    <2>7. CASE Submit(t) \/ Copy(t) \/ EndIo(t)
      <3>1. stage'[t] \in {"seg", "end", "idle"}
        BY <1>0, <2>7 DEF Submit, Copy, EndIo, NextSeg, BioTypes
      <3> QED
        BY <3>1 DEF Held, Owning
    <2> QED
      BY <2>1, <2>2, <2>3, <2>4, <2>5, <2>6, <2>7 DEF BioStep, Submission
  <1> QED
    BY <1>4, <1>5

(* The values a bio under way relies on are not disturbed by another.      *)
LEMMA ProgressOfOthers ==
  ASSUME Intact, Basics', InOrder', Orderly', NEW t \in Submitters, BioStep(t),
         NEW u \in Submitters \ {t}
  PROVE  Progress(u)'
  <1>0. /\ bio'[u] = bio[u] /\ id'[u] = id[u] /\ k'[u] = k[u] /\ stage'[u] = stage[u] /\ got'[u] = got[u]
    BY BioKeeps DEF Intact, Basics, SbullTypeOK
  <1> SUFFICES ASSUME Busy(u), NEW s \in Done(u)
               PROVE  IF bio[u].write THEN Content(s)' = <<id[u], s>>
                      ELSE last'[s] = Unset \/ got[u][s] = last'[s]
    <2>1. (Busy(u)' <=> Busy(u)) /\ Done(u)' = Done(u)
      BY <1>0 DEF Busy, Done, InSeg
    <2> QED
      BY <1>0, <2>1 DEF Progress
  <1>1. IF bio[u].write THEN Content(s) = <<id[u], s>> ELSE last[s] = Unset \/ got[u][s] = last[s]
    BY DEF Intact, Progress
  <1>2. s \in Sectors /\ s \in Span(bio[u])
    BY DoneIs DEF Intact
  <1>3. Busy(t) /\ s \in Span(bio[t]) => ~bio[t].write /\ ~bio[u].write
    BY <1>2, Apart DEF Intact, Orderly
  <1>4. CASE bio[u].write
    <2>1. Content(s)' = Content(s)
      <3>1. CASE Busy(t)
        <4>1. s \notin Span(bio[t])
          BY <1>3, <1>4, <3>1
        <4> QED
          BY <1>2, <4>1, ContentForOthers
      <3>2. CASE ~Busy(t)
        <4>1. ~Copy(t)
          BY <3>2 DEF Copy, Busy
        <4> QED
          BY <1>2, <4>1, ContentStep
      <3> QED
        BY <3>1, <3>2
    <2> QED
      BY <1>1, <1>4, <2>1
  <1>5. CASE ~bio[u].write
    <2>1. last'[s] = last[s]
      <3>1. CASE EndIo(t)
        <4>1. Busy(t)
          BY <3>1 DEF EndIo, Busy
        <4>2. bio[t].write => s \notin Span(bio[t])
          BY <1>3, <4>1
        <4>3. bio[t].write => last' = [r \in Sectors |-> IF r \in Span(bio[t]) THEN <<id[t], r>> ELSE last[r]]
          BY <3>1 DEF EndIo
        <4>4. ~bio[t].write => last' = last
          BY <3>1 DEF EndIo
        <4> QED
          BY <1>2, <4>2, <4>3, <4>4
      <3>2. CASE ~EndIo(t)
        BY <3>2 DEF BioStep, Submission, Submit, Transfer, Find, Allocate, Link, Publish, Copy,
           UseAfterFree, bioVars
      <3> QED
        BY <3>1, <3>2
    <2> QED
      BY <1>1, <1>5, <2>1
  <1> QED
    BY <1>4, <1>5

(* One more segment is done.                                               *)
LEMMA ProgressOfCopy ==
  ASSUME Intact, Basics', InOrder', Orderly', NEW t \in Submitters, Copy(t)
  PROVE  Progress(t)'
  <1>0. /\ Busy(t) /\ stage[t] # "end" /\ BioStep(t) /\ UNCHANGED <<bio, id, last>>
        /\ k[t] \in Nat \ {0} /\ k'[t] = k[t] + 1
    <2>1. Busy(t) /\ stage[t] # "end" /\ BioStep(t) /\ UNCHANGED <<bio, id, last>>
      BY DEF Copy, Busy, BioStep, Submission
    <2>2. k[t] \in Nat \ {0} /\ k \in [Submitters -> Nat]
      BY <2>1 DEF Intact, Basics, SbullTypeOK, BioTypes, BiosOK, BioOK, UnderWay
    <2>3. k'[t] = k[t] + 1
      BY <2>2 DEF Copy, NextSeg
    <2> QED
      BY <2>1, <2>2, <2>3
  <1> SUFFICES ASSUME NEW s \in Done(t)'
               PROVE  IF bio[t].write THEN Content(s)' = <<id[t], s>>
                      ELSE last[s] = Unset \/ got'[t][s] = last[s]
    BY <1>0 DEF Progress
  <1>1. s \in Done(t) \/ InSeg(bio[t], k[t], s)
    BY <1>0, DoneNext
  <1>2. s \in Sectors /\ s \in Span(bio[t])
    <2>1. s \in Done(t) => s \in Sectors /\ s \in Span(bio[t])
      BY <1>0, DoneIs DEF Intact
    <2>2. InSeg(bio[t], k[t], s) => s \in Sectors /\ s \in Span(bio[t])
      BY <1>0, AtSegment DEF Intact, Orderly
    <2> QED
      BY <1>1, <2>1, <2>2
  <1>3. s \in Done(t) => IF bio[t].write THEN Content(s) = <<id[t], s>>
                         ELSE last[s] = Unset \/ got[t][s] = last[s]
    BY <1>0 DEF Intact, Progress
  <1>4. CASE bio[t].write
    <2>1. Content(s)' = IF InSeg(bio[t], k[t], s) THEN <<id[t], s>> ELSE Content(s)
      BY <1>0, <1>2, <1>4, ContentStep
    <2> QED
      BY <1>1, <1>3, <1>4, <2>1
  <1>5. CASE ~bio[t].write
    <2>1. got'[t][s] = IF InSeg(bio[t], k[t], s) THEN Content(s) ELSE got[t][s]
      BY <1>2, <1>5, ReadGets DEF Intact, Orderly
    <2>2. s \notin BeingWritten
      BY <1>0, <1>2, <1>5, ReadApart DEF Intact, Orderly
    <2>3. last[s] = Unset \/ Content(s) = last[s]
      BY <1>2, <2>2 DEF Intact, Kept
    <2> QED
      BY <1>1, <1>3, <1>5, <2>1, <2>3
  <1> QED
    BY <1>4, <1>5

(* A read of a page that is not in the list has nothing to return.         *)
LEMMA ProgressOfFind ==
  ASSUME Intact, Basics', InOrder', Orderly', NEW t \in Submitters, Find(t)
  PROVE  Progress(t)'
  <1>0. /\ Busy(t) /\ stage[t] # "end" /\ BioStep(t) /\ UNCHANGED <<driver, bio, id, last, got>>
        /\ stage[t] = "find" /\ driver = "sbull2" /\ ~Copy(t)
    <2>1. Busy(t) /\ stage[t] = "find" /\ BioStep(t) /\ UNCHANGED <<bio, id, last, got>> /\ ~Copy(t)
      BY DEF Find, Busy, BioStep, Submission, Copy
    <2>2. driver = "sbull2" /\ UNCHANGED driver
      BY <2>1, BioKeeps DEF Intact, Basics, SbullTypeOK, ModTypes, BiosOK, BioOK, Drivers
    <2> QED
      BY <2>1, <2>2
  <1>1. CASE UNCHANGED k
    <2>1. Done(t)' = Done(t)
      BY <1>0, <1>1 DEF Done, InSeg
    <2>2. \A s \in Done(t) : Content(s)' = Content(s)
      <3>1. Done(t) \subseteq Sectors
        BY <1>0, DoneIs DEF Intact
      <3> QED
        BY <1>0, <3>1, ContentStep
    <2>3. Progress(t)
      BY DEF Intact
    <2> QED
      BY <1>0, <2>1, <2>2, <2>3 DEF Progress
  <1>2. CASE ~UNCHANGED k
    <2>1. /\ sbull_find_list(Sector(t)) = 0 /\ NextSeg(t) /\ starved' = (starved \/ bio[t].write)
      BY <1>2 DEF Find
    <2>2. ~bio[t].write
      <3>1. ~starved'
        BY DEF Orderly
      <3> QED
        BY <2>1, <3>1, Zenon
    <2>3. k[t] \in Nat \ {0} /\ k'[t] = k[t] + 1
      <3>1. k[t] \in Nat \ {0} /\ k \in [Submitters -> Nat]
        BY <1>0 DEF Intact, Basics, SbullTypeOK, BioTypes, BiosOK, BioOK, UnderWay
      <3> QED
        BY <2>1, <3>1 DEF NextSeg
    <2> SUFFICES ASSUME NEW s \in Done(t)'
                 PROVE  last[s] = Unset \/ got[t][s] = last[s]
      BY <1>0, <2>2 DEF Progress
    <2>4. s \in Done(t) \/ InSeg(bio[t], k[t], s)
      BY <1>0, <2>3, DoneNext
    <2>5. CASE s \in Done(t)
      BY <1>0, <2>2, <2>5 DEF Intact, Progress
    <2>6. CASE InSeg(bio[t], k[t], s)
      <3>1. /\ s \in Sectors /\ s \in Span(bio[t]) /\ s \in Sector(t) .. Sector(t) + PAGE - 1
            /\ Sector(t) \in Nat /\ Sector(t) % PAGE = 0 /\ PAGE \in Nat /\ PAGE > 0
        BY <1>0, <2>6, AtSegment DEF Intact, Orderly
      <3>2. PICK N, L, nx, b, a : /\ N = Len(blocks) /\ L = Linked /\ nx = next /\ b = blocks
                                  /\ a = Sector(t)
        OBVIOUS
      <3>3. Ordered(nx, N, L) /\ \A m, n \in L : b[m].idx = b[n].idx => m = n
        BY <3>2, OrderedNow DEF Intact, Orderly
      <3>4. s - (s % PAGE) = a
        <4>1. PICK o : o = s - a
          OBVIOUS
        <4>2. a \in Nat /\ o \in 0 .. PAGE - 1 /\ a + o = s
          BY <3>1, <3>2, <4>1
        <4>3. a % PAGE = 0
          BY <3>1, <3>2
        <4>4. (a + o) - ((a + o) % PAGE) = a
          BY <3>1, <4>2, <4>3, OnPage
        <4> QED
          BY <4>2, <4>4
      <3>5. \A n \in L : b[n].idx # a
        <4>1. FindIn(nx, b, a) = 0
          BY <2>1, <3>2, LookupIs
        <4> QED
          BY <3>3, <4>1, LookupInOrder
      <3>6. PageHolds(nx, b, s) = Unset
        BY <3>3, <3>4, <3>5, PageHoldsIs
      <3>7. Content(s) = Unset
        BY <1>0, <3>2, <3>6, ContentIs
      <3>8. s \notin BeingWritten
        BY <1>0, <2>2, <3>1, ReadApart DEF Intact, Orderly
      <3> QED
        BY <3>1, <3>7, <3>8 DEF Intact, Kept
    <2> QED
      BY <2>4, <2>5, <2>6
  <1> QED
    BY <1>1, <1>2

LEMMA ProgressStep ==
  ASSUME Intact, Basics', InOrder', Orderly', NEW t \in Submitters, BioStep(t)
  PROVE  \A u \in Submitters : Progress(u)'
  <1>1. \A u \in Submitters \ {t} : Progress(u)'
    BY ProgressOfOthers
  <1>2. CASE Submit(t)
    <2>1. k'[t] = 1
      BY <1>2 DEF Submit, Intact, Basics, BiosOK, BioOK, Busy
    <2>2. Done(t)' = {}
      BY <2>1 DEF Done
    <2>3. Progress(t)'
      BY <2>2 DEF Progress
    <2> QED
      BY <1>1, <2>3
  <1>3. CASE EndIo(t)
    <2>1. ~Busy(t)'
      BY <1>3 DEF EndIo, Busy, Intact, Basics, SbullTypeOK, BioTypes
    <2>2. Progress(t)'
      BY <2>1 DEF Progress
    <2> QED
      BY <1>1, <2>2
  <1>4. CASE Copy(t)
    BY <1>1, <1>4, ProgressOfCopy
  <1>5. CASE Find(t)
    BY <1>1, <1>5, ProgressOfFind
  <1>6. CASE Transfer(t) \/ Allocate(t) \/ Link(t) \/ Publish(t) \/ UseAfterFree(t)
    <2>1. /\ Busy(t) /\ UNCHANGED <<bio, id, k, last, got>>
      <3>1. Busy(t) /\ UNCHANGED <<bio, id, last, got>>
        BY <1>6 DEF Transfer, Allocate, Link, Publish, UseAfterFree, bioVars, Busy
      <3>2. UNCHANGED k
        <4>1. CASE Transfer(t)
          <5>1. stage[t] # "end"
            BY <4>1 DEF Transfer
          <5>2. Sector(t) + CurSectors(t) <= nsectors /\ Sector(t) \in Nat /\ CurSectors(t) \in Nat /\ nsectors \in Nat
            BY <3>1, <5>1, AtSegment DEF Intact, Orderly
          <5> QED
            BY <4>1, <5>2 DEF Transfer
        <4>2. CASE ~Transfer(t)
          BY <1>6, <4>2 DEF Allocate, Link, Publish, UseAfterFree, bioVars
        <4> QED
          BY <4>1, <4>2
      <3> QED
        BY <3>1, <3>2
    <2>2. Done(t)' = Done(t)
      BY <2>1 DEF Done, InSeg
    <2>3. Done(t) \subseteq Sectors
      BY <2>1, DoneIs DEF Intact
    <2>4. ~Copy(t)
      <3>1. stage[t] # "copy" \/ (UseAfterFree(t) /\ Freed(t))
        BY <1>6 DEF Transfer, Allocate, Link, Publish, UseAfterFree
      <3> QED
        BY <3>1 DEF Copy
    <2>5. \A s \in Done(t) : Content(s)' = Content(s)
      BY <2>3, <2>4, ContentStep
    <2>6. Progress(t)
      BY DEF Intact
    <2>7. Progress(t)'
      BY <2>1, <2>2, <2>5, <2>6 DEF Progress
    <2> QED
      BY <1>1, <2>7
  <1> QED
    BY <1>2, <1>3, <1>4, <1>5, <1>6 DEF BioStep, Submission

(* No step of a bio disturbs what a finished write has left.               *)
LEMMA KeptStep ==
  ASSUME Intact, Basics', InOrder', Orderly', NEW t \in Submitters, BioStep(t)
  PROVE  Kept'
  <1>0. /\ \A u \in Submitters \ {t} : bio'[u] = bio[u] /\ stage'[u] = stage[u]
        /\ last \in [Sectors -> Values] /\ stage \in [Submitters -> Stages]
    BY BioKeeps DEF Intact, Basics, SbullTypeOK, BioTypes, DataTypes
  <1> SUFFICES ASSUME NEW s \in Sectors, s \notin BeingWritten'
               PROVE  last'[s] = Unset \/ Content(s)' = last'[s]
    BY DEF Kept
  <1>1. \A u \in Submitters : Busy(u)' /\ bio'[u].write => s \notin Span(bio'[u])
    BY WriterIs
  <1>2. \A u \in Submitters \ {t} : Busy(u) /\ bio[u].write => s \notin Span(bio[u])
    BY <1>0, <1>1 DEF Busy
  <1>3. ASSUME Busy(t) /\ bio[t].write => s \notin Span(bio[t])
        PROVE  last[s] = Unset \/ Content(s) = last[s]
    <2>1. s \notin BeingWritten
      BY <1>2, <1>3, WriterIs
    <2> QED
      BY <2>1 DEF Intact, Kept
  <1>4. CASE EndIo(t)
    <2>1. Busy(t) /\ stage[t] = "end" /\ ~Copy(t)
      BY <1>4 DEF EndIo, Busy, Copy
    <2>2. Content(s)' = Content(s)
      BY <2>1, ContentStep
    <2>3. /\ bio[t].write => last' = [r \in Sectors |-> IF r \in Span(bio[t]) THEN <<id[t], r>> ELSE last[r]]
          /\ ~bio[t].write => last' = last
      BY <1>4 DEF EndIo
    <2>4. CASE bio[t].write /\ s \in Span(bio[t])
      <3>1. Content(s) = <<id[t], s>>
        BY <2>1, <2>4, DoneIs DEF Intact, Progress
      <3> QED
        BY <2>2, <2>3, <2>4, <3>1
    <2>5. CASE ~(bio[t].write /\ s \in Span(bio[t]))
      <3>1. last'[s] = last[s]
        BY <2>3, <2>5
      <3> QED
        BY <1>3, <2>2, <2>5, <3>1
    <2> QED
      BY <2>4, <2>5
  <1>5. CASE ~EndIo(t)
    <2>1. last' = last
      BY <1>5 DEF BioStep, Submission, Submit, Transfer, Find, Allocate, Link, Publish, Copy,
         UseAfterFree, bioVars
    <2>2. Busy(t) => Busy(t)' /\ bio'[t] = bio[t]
      <3>1. CASE Submit(t)
        BY <3>1 DEF Submit, Busy
      <3>2. CASE Submission(t)
        <4>1. UNCHANGED bio
          BY <1>5, <3>2 DEF Submission, Transfer, Find, Allocate, Link, Publish, Copy, UseAfterFree, bioVars
        <4>2. Busy(t)'
          BY <1>0, <1>5, <3>2 DEF Submission, Transfer, Find, Allocate, Link, Publish, Copy, UseAfterFree,
             NextSeg, bioVars, Busy
        <4> QED
          BY <4>1, <4>2
      <3> QED
        BY <3>1, <3>2 DEF BioStep
    <2>3. Busy(t) /\ bio[t].write => s \notin Span(bio[t])
      BY <1>1, <2>2
    <2>4. Content(s)' = Content(s)
      <3>1. CASE Copy(t) /\ bio[t].write
        <4>1. Busy(t)
          BY <3>1 DEF Copy, Busy
        <4> QED
          BY <2>3, <3>1, <4>1, ContentForOthers
      <3>2. CASE ~(Copy(t) /\ bio[t].write)
        BY <3>2, ContentStep
      <3> QED
        BY <3>1, <3>2
    <2> QED
      BY <1>3, <2>1, <2>3, <2>4
  <1> QED
    BY <1>4, <1>5

LEMMA InitDataKept == ASSUME Init PROVE DataKept
  <1>1. \A t \in Submitters : stage[t] = "idle"
    BY DEF Init
  <1>2. NoClash /\ \A t \in Submitters : Held(t) /\ Progress(t)
    BY <1>1 DEF NoClash, Held, Progress, Busy, Owning
  <1>3. Kept
    BY DEF Init, Kept
  <1> QED
    BY <1>2, <1>3 DEF DataKept

LEMMA StepDataKept ==
  ASSUME Basics, AllRegular, InOrder, DataKept, Basics', InOrder', [Next]_vars
  PROVE  DataKept'
  <1>1. CASE UNCHANGED vars
    <2>1. Orderly' => Orderly
      BY <1>1 DEF Orderly, vars, device, hist
    <2> QED
      BY <1>1, <2>1, DataUnmoved DEF vars, device, store, hist
  <1>2. CASE ModuleStep
    <2>1. Orderly' => Orderly
      BY <1>2, OrderlyBefore
    <2>2. /\ UNCHANGED <<driver, disk, blocks, bio, id, k, stage, node, prev, got, count, last>>
          /\ UNCHANGED <<irregular, overlapped, raced, starved>>
      BY <1>2, ModuleKeeps
    <2>3. CASE Orderly'
      <3>1. UNCHANGED <<next, back, freed>>
        <4>1. CASE FreeList
          BY <2>3, <4>1 DEF FreeList, Orderly
        <4>2. CASE ~FreeList
          BY <1>2, <4>2, ModuleKeeps
        <4> QED
          BY <4>1, <4>2
      <3> QED
        BY <2>1, <2>2, <3>1, DataUnmoved
    <2>4. CASE ~Orderly'
      <3>1. NoClash'
        BY <2>2 DEF DataKept, NoClash, Clash, Span, Segs, Busy
      <3> QED
        BY <2>4, <3>1 DEF DataKept
    <2> QED
      BY <2>3, <2>4
  <1>3. ASSUME NEW t \in Submitters, BioStep(t) PROVE DataKept'
    <2>1. NoClash'
      BY <1>3, NoClashKept DEF DataKept
    <2>2. ASSUME Orderly' PROVE Kept' /\ \A u \in Submitters : Held(u)' /\ Progress(u)'
      <3>1. Orderly
        BY <1>3, <2>2, OrderlyBefore
      <3>2. Intact
        BY <3>1 DEF DataKept, Intact
      <3> QED
        BY <1>3, <2>2, <3>2, HeldStep, ProgressStep, KeptStep
    <2> QED
      BY <2>1, <2>2 DEF DataKept
  <1> QED
    BY <1>1, <1>2, <1>3, NextIs

LEMMA SbullDataKept == Spec => [](Basics /\ AllRegular /\ DataKept)
  <1>1. Init => AllRegular /\ DataKept
    BY InitPlaced, InitDataKept
  <1>2. Basics /\ AllRegular /\ InOrder /\ DataKept /\ Basics' /\ InOrder' /\ [Next]_vars =>
          AllRegular' /\ DataKept'
    BY StepRegular, StepDataKept
  <1> QED
    BY <1>1, <1>2, SbullBasics, SbullInOrder, PTL DEF Spec

(* What a finished write left stays on the disk until the next write of    *)
(* the sector, for any number of processes, bios and sectors: whatever     *)
(* else is read and written meanwhile, as long as bios are regular and     *)
(* none meets a write of its sectors, no two add a block at once, and      *)
(* memory is neither refused nor freed.                                    *)
THEOREM WritesLast == Spec => []WritesStay
  <1>1. DataKept => WritesStay
    BY DEF DataKept, Kept, WritesStay
  <1> QED
    BY <1>1, SbullDataKept, PTL

(* A read that meets no write returns, in every sector, what was last      *)
(* written there.                                                          *)
THEOREM ReadsAreRight == Spec => []ReadsReturnLastWrite
  <1>1. ASSUME Basics, DataKept, Orderly, NEW t \in Submitters, stage[t] = "end", ~bio[t].write,
               NEW s \in Span(bio[t])
        PROVE  last[s] = Unset \/ got[t][s] = last[s]
    <2>1. Busy(t) /\ Progress(t)
      BY <1>1 DEF Busy, DataKept
    <2>2. s \in Done(t)
      BY <1>1, <2>1, DoneIs
    <2> QED
      BY <1>1, <2>1, <2>2 DEF Progress
  <1>2. Basics /\ DataKept => ReadsReturnLastWrite
    BY <1>1 DEF ReadsReturnLastWrite
  <1> QED
    BY <1>2, SbullDataKept, PTL
=============================================================================
