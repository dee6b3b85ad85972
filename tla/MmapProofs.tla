------------------------------ MODULE MmapProofs ------------------------------
(***************************************************************************)
(* Proofs about the mmap device, for any finite sets of files, areas,      *)
(* offsets and pages, and any number of users.                             *)
(***************************************************************************)
EXTENDS MmapDevice, FiniteSetTheorems, TLAPS

LEMMA MmapTypeInit == Init => TypeOK
  <1> SUFFICES ASSUME Init PROVE TypeOK
    OBVIOUS
  <1>1. /\ mod \in {"absent", "live", "noentry", "removing"}
        /\ file \in [Files -> {"new", "open", "released"}] /\ fd \subseteq Files
        /\ data \in [Files -> OptPages]
        /\ area \in [Areas -> Files \cup {None}] /\ vmdata \in [Areas -> OptPages]
        /\ pte \in [Areas -> [Offsets -> OptPages]]
    BY DEF Init, OptPages
  <1>2. fault \in [Users -> {None} \cup [area : Areas, at : Offsets, stage : {"enter", "sleep"}]]
    BY DEF Init
  <1>3. /\ refs \in [Pages -> Nat]
        /\ content \in [Pages -> {"zero", "greeting"} \cup Files]
        /\ faults \in [Files -> 0 .. 2] /\ wrote \subseteq Files
    BY DEF Init
  <1>4. oops \in BOOLEAN /\ torn \in BOOLEAN
    BY DEF Init
  <1> QED
    BY <1>1, <1>2, <1>3, <1>4 DEF TypeOK

(* All of the types but that of the counts, which follows from balance.    *)
Typed ==
  /\ mod \in {"absent", "live", "noentry", "removing"}
  /\ file \in [Files -> {"new", "open", "released"}] /\ fd \subseteq Files
  /\ data \in [Files -> OptPages]
  /\ area \in [Areas -> Files \cup {None}] /\ vmdata \in [Areas -> OptPages]
  /\ pte \in [Areas -> [Offsets -> OptPages]]
  /\ fault \in [Users -> {None} \cup
        [area : Areas, at : Offsets, stage : {"enter", "sleep"}]]
  /\ refs \in [Pages -> Int]
  /\ content \in [Pages -> {"zero", "greeting"} \cup Files]
  /\ faults \in [Files -> 0 .. 2] /\ wrote \subseteq Files

(* my_close and Fput, as facts about each file and page.                   *)
Closed(f, n) ==
  /\ file' = [file EXCEPT ![f] = "released"] /\ data' = [data EXCEPT ![f] = None]
  /\ \A g \in Pages : refs'[g] = refs[g] - n[g] - IF g = data[f] THEN 1 ELSE 0

StillHeld(n) ==
  /\ UNCHANGED <<file, data>>
  /\ \A g \in Pages : refs'[g] = refs[g] - n[g]

LEMMA CloseEffect ==
  ASSUME Typed, NEW f \in Files, NEW n \in [Pages -> Nat], my_close(f, n)
  PROVE  /\ Closed(f, n) /\ refs' \in [Pages -> Int]
         /\ file' \in [Files -> {"new", "open", "released"}] /\ data' \in [Files -> OptPages]
  <1>1. Closed(f, n)
    BY DEF my_close, Closed
  <1>2. refs' \in [Pages -> Int]
    BY DEF my_close, Typed
  <1>3. file' \in [Files -> {"new", "open", "released"}] /\ data' \in [Files -> OptPages]
    BY DEF my_close, Typed, OptPages
  <1> QED
    BY <1>1, <1>2, <1>3

LEMMA FputEffect ==
  ASSUME Typed, NEW f \in Files, NEW n \in [Pages -> Nat], NEW others, Fput(f, n, others)
  PROVE  /\ \/ file[f] = "open" /\ others = {} /\ Closed(f, n)
            \/ (file[f] # "open" \/ others # {}) /\ StillHeld(n)
         /\ refs' \in [Pages -> Int]
         /\ file' \in [Files -> {"new", "open", "released"}] /\ data' \in [Files -> OptPages]
  <1>1. CASE file[f] = "open" /\ others = {}
    BY <1>1, CloseEffect DEF Fput
  <1>2. CASE ~(file[f] = "open" /\ others = {})
    <2>1. refs' = [g \in Pages |-> refs[g] - n[g]] /\ UNCHANGED <<file, data>>
      BY <1>2 DEF Fput
    <2> QED
      BY <1>2, <2>1 DEF StillHeld, Typed
  <1> QED
    BY <1>1, <1>2

(* How often page g is in the page table of area a.                        *)
Here(a, g) == {o \in Offsets : pte[a][o] = g}

LEMMA HereFinite == \A a, g : IsFiniteSet(Here(a, g)) /\ Cardinality(Here(a, g)) \in Nat
  BY MmapAssumption, FS_Subset, FS_CardinalityType DEF Here

LEMMA MunmapEffect ==
  ASSUME Typed, NEW a \in Areas, Munmap(a)
  PROVE  LET f == area[a]
             n == [g \in Pages |-> Cardinality(Here(a, g))]
         IN  f \in Files /\ n \in [Pages -> Nat]
             /\ Fput(f, n, (Mapped(f) \ {a}) \cup (fd \cap {f}))
  <1> DEFINE f == area[a]
             n == [g \in Pages |-> Cardinality(Here(a, g))]
  <1>1. f \in Files
    BY DEF Munmap, Typed
  <1>2. n \in [Pages -> Nat]
    BY HereFinite
  <1>3. Fput(f, n, (Mapped(f) \ {a}) \cup (fd \cap {f}))
    BY DEF Munmap, Here
  <1> QED
    BY <1>1, <1>2, <1>3

LEMMA NothingEffect == Nothing \in [Pages -> Nat]
  BY DEF Nothing

LEMMA MmapTypeStep ==
  ASSUME MmapInv, Next PROVE Typed'
  <1>a. Typed
    BY DEF MmapInv, TypeOK, Typed
  <1> USE DEF fileVars, areaVars, pageVars, hist, OptPages
  <1>1. CASE mmap_test_module_init
    BY <1>a, <1>1 DEF mmap_test_module_init, Typed
  <1>2. ASSUME NEW f \in Files, my_open(f) PROVE Typed'
    <2>1. CASE UNCHANGED <<data, pageVars>>
      BY <1>a, <1>2, <2>1 DEF my_open, Typed
    <2>2. ASSUME NEW g \in Pages, data' = [data EXCEPT ![f] = g], refs' = [refs EXCEPT ![g] = 1],
                 content' = [content EXCEPT ![g] = "zero"]
          PROVE  Typed'
      <3>1. data' \in [Files -> OptPages] /\ refs' \in [Pages -> Int]
        BY <1>a, <2>2 DEF Typed
      <3>2. content' \in [Pages -> {"zero", "greeting"} \cup Files]
        BY <1>a, <2>2 DEF Typed
      <3> QED
        BY <1>a, <1>2, <3>1, <3>2 DEF my_open, Typed
    <2> QED
      BY <1>2, <2>1, <2>2 DEF my_open
  <1>3. ASSUME NEW f \in Files, NEW a \in Areas, my_mmap(f, a) PROVE Typed'
    BY <1>a, <1>3 DEF my_mmap, Typed
  <1>4. ASSUME NEW a \in Areas, NEW b \in Areas, Fork(a, b) PROVE Typed'
    BY <1>a, <1>4 DEF Fork, Typed
  <1>5. ASSUME NEW f \in Files, Close(f) PROVE Typed'
    <2>1. /\ refs' \in [Pages -> Int]
          /\ file' \in [Files -> {"new", "open", "released"}] /\ data' \in [Files -> OptPages]
      BY <1>a, <1>5, NothingEffect, FputEffect DEF Close
    <2> QED
      BY <1>a, <1>5, <2>1 DEF Close, Typed
  <1>6. ASSUME NEW a \in Areas, Munmap(a) PROVE Typed'
    <2>1. /\ refs' \in [Pages -> Int]
          /\ file' \in [Files -> {"new", "open", "released"}] /\ data' \in [Files -> OptPages]
      BY <1>a, <1>6, MunmapEffect, FputEffect
    <2> QED
      BY <1>a, <1>6, <2>1 DEF Munmap, Typed
  <1>7. ASSUME NEW a \in Areas, NEW o \in Offsets, DontNeed(a, o) PROVE Typed'
    BY <1>a, <1>7 DEF DontNeed, Typed
  <1>8. ASSUME NEW u \in Users, NEW a \in Areas, NEW o \in Offsets, Touch(u, a, o) PROVE Typed'
    BY <1>a, <1>8 DEF Touch, Typed
  <1>9. ASSUME NEW u \in Users, Oops(u) PROVE Typed'
    BY <1>a, <1>9 DEF Oops, Typed
  <1>10. ASSUME NEW u \in Users, NoData(u) PROVE Typed'
    BY <1>a, <1>10 DEF NoData, Typed
  <1>11. ASSUME NEW u \in Users, WriteGreeting(u) PROVE Typed'
    BY <1>a, <1>11 DEF WriteGreeting, Faulting, Typed
  <1>12. ASSUME NEW u \in Users, ReturnPage(u) PROVE Typed'
    <2> DEFINE a == fault[u].area
               o == fault[u].at
    <2>1. a \in Areas /\ o \in Offsets /\ vmdata[a] \in Pages
      BY <1>a, <1>12 DEF ReturnPage, Faulting, Typed, MmapInv, FaultsInAreas
    <2>2. fault' \in [Users -> {None} \cup [area : Areas, at : Offsets, stage : {"enter", "sleep"}]]
      BY <1>a, <1>12 DEF ReturnPage, Typed
    <2>3. pte' \in [Areas -> [Offsets -> OptPages]] /\ refs' \in [Pages -> Int]
      <3>1. CASE UNCHANGED <<pte, refs>>
        BY <1>a, <3>1 DEF Typed
      <3>2. CASE pte' = [pte EXCEPT ![a][o] = vmdata[a]] /\ refs' = [refs EXCEPT ![vmdata[a]] = @ + 1]
        BY <1>a, <2>1, <3>2 DEF Typed
      <3> QED
        BY <1>12, <3>1, <3>2 DEF ReturnPage
    <2> QED
      BY <1>a, <1>12, <2>2, <2>3 DEF ReturnPage, Typed
  <1>13. ASSUME NEW a \in Areas, NEW o \in Offsets, Write(a, o) PROVE Typed'
    <2>1. area[a] \in Files
      BY <1>a, <1>13 DEF Write, Typed, MmapInv, Ownership
    <2>2. content' \in [Pages -> {"zero", "greeting"} \cup Files] /\ wrote' \subseteq Files
      BY <1>a, <1>13, <2>1 DEF Write, Typed
    <2> QED
      BY <1>a, <1>13, <2>2 DEF Write, Typed
  <1>14. CASE Rmmod
    BY <1>a, <1>14 DEF Rmmod, Typed
  <1>15. ASSUME NEW f \in Files, CloseOpened(f) PROVE Typed'
    BY <1>a, <1>15 DEF CloseOpened, my_close, Nothing, Typed
  <1>16. CASE Removed
    BY <1>a, <1>16 DEF Removed, Typed
  <1> QED
    BY <1>1, <1>2, <1>3, <1>4, <1>5, <1>6, <1>7, <1>8, <1>9, <1>10, <1>11, <1>12, <1>13, <1>14,
       <1>15, <1>16 DEF Next, mmap_fault, mmap_test_module_exit

-----------------------------------------------------------------------------
(* References.                                                             *)
LEMMA EntriesFinite ==
  ASSUME NEW g
  PROVE  /\ IsFiniteSet(Entries(g)) /\ Cardinality(Entries(g)) \in Nat
         /\ IsFiniteSet(Owners(g)) /\ Cardinality(Owners(g)) \in Nat
         /\ Cardinality(Entries(g)') \in Nat /\ Cardinality(Owners(g)') \in Nat
  <1>1. IsFiniteSet(Areas \X Offsets)
    BY MmapAssumption, FS_Product
  <1>2. Entries(g) \subseteq Areas \X Offsets /\ Entries(g)' \subseteq Areas \X Offsets
    BY DEF Entries
  <1>3. Owners(g) \subseteq Files /\ Owners(g)' \subseteq Files
    BY DEF Owners
  <1> QED
    BY <1>1, <1>2, <1>3, MmapAssumption, FS_Subset, FS_CardinalityType

Accounted(g) == refs[g] = Cardinality(Entries(g)) + Cardinality(Owners(g))

LEMMA BalanceIsAccounted ==
  /\ PagesAccountedFor <=> \A g \in Pages : Accounted(g)
  /\ PagesAccountedFor' <=> \A g \in Pages : Accounted(g)'
  BY DEF PagesAccountedFor, Accounted

(* A page with no reference is nobody's and is not mapped.                 *)
LEMMA FreePage ==
  ASSUME NEW g \in Pages, Accounted(g), refs[g] = 0
  PROVE  Entries(g) = {} /\ Owners(g) = {}
  <1>1. Cardinality(Entries(g)) = 0 /\ Cardinality(Owners(g)) = 0
    BY EntriesFinite DEF Accounted
  <1> QED
    BY <1>1, EntriesFinite, FS_EmptySet

(* What the release of a file does to the owners of a page.                *)
LEMMA ClosedOwners ==
  ASSUME Typed, NEW f \in Files, NEW n, Closed(f, n), NEW g \in Pages
  PROVE  Cardinality(Owners(g)') = Cardinality(Owners(g)) - IF g = data[f] THEN 1 ELSE 0
  <1>1. CASE data[f] = g
    <2>1. f \in Owners(g) /\ Owners(g)' = Owners(g) \ {f}
      BY <1>1, MmapAssumption DEF Closed, Owners, Typed
    <2> QED
      BY <1>1, <2>1, EntriesFinite, FS_RemoveElement
  <1>2. CASE data[f] # g
    <2>1. Owners(g)' = Owners(g)
      BY <1>2, MmapAssumption DEF Closed, Owners, Typed
    <2> QED
      BY <1>2, <2>1, EntriesFinite
  <1> QED
    BY <1>1, <1>2

(* What letting go of a file and of n mappings of each page does.          *)
LEMMA FputAccounted ==
  ASSUME Typed, NEW f \in Files, NEW n \in [Pages -> Nat], NEW others, Fput(f, n, others),
         NEW g \in Pages, Accounted(g),
         Cardinality(Entries(g)') = Cardinality(Entries(g)) - n[g]
  PROVE  Accounted(g)'
  <1>1. CASE Closed(f, n)
    <2>1. refs'[g] = refs[g] - n[g] - IF g = data[f] THEN 1 ELSE 0
      BY <1>1 DEF Closed
    <2> QED
      BY <1>1, <2>1, ClosedOwners, EntriesFinite DEF Accounted
  <1>2. CASE StillHeld(n)
    <2>1. Owners(g)' = Owners(g) /\ refs'[g] = refs[g] - n[g]
      BY <1>2 DEF StillHeld, Owners
    <2> QED
      BY <2>1, EntriesFinite DEF Accounted
  <1> QED
    BY <1>1, <1>2, FputEffect

(* An area is unmapped: its places in the page table go.                   *)
LEMMA MunmapEntries ==
  ASSUME Typed, NEW a \in Areas, Munmap(a), NEW g \in Pages
  PROVE  Cardinality(Entries(g)') = Cardinality(Entries(g)) - Cardinality(Here(a, g))
  <1> DEFINE H == {a} \X Here(a, g)
  <1>1. Entries(g)' = Entries(g) \ H /\ H \subseteq Entries(g)
    BY MmapAssumption DEF Munmap, Entries, Here, Typed
  <1>2. Cardinality(H) = Cardinality(Here(a, g))
    <2>1. IsFiniteSet({a}) /\ Cardinality({a}) = 1
      BY FS_Singleton
    <2>2. IsFiniteSet(Here(a, g)) /\ Cardinality(Here(a, g)) \in Nat
      BY HereFinite
    <2>3. Cardinality(H) = Cardinality({a}) * Cardinality(Here(a, g))
      BY <2>1, <2>2, FS_Product
    <2> QED
      BY <2>1, <2>2, <2>3
  <1>3. IsFiniteSet(H) /\ Entries(g) \cap H = H
    BY <1>1, EntriesFinite, FS_Subset
  <1>4. Cardinality(Entries(g) \ H) = Cardinality(Entries(g)) - Cardinality(Entries(g) \cap H)
    BY EntriesFinite, FS_Difference
  <1> QED
    BY <1>1, <1>2, <1>3, <1>4

LEMMA SameAccount ==
  ASSUME NEW g \in Pages, Accounted(g), refs'[g] = refs[g],
         Entries(g)' = Entries(g), Owners(g)' = Owners(g)
  PROVE  Accounted(g)'
  BY DEF Accounted

LEMMA PagesStep ==
  ASSUME MmapInv, Next PROVE PagesAccountedFor'
  <1>a. Typed /\ Ownership /\ FaultsInAreas /\ \A g \in Pages : Accounted(g)
    BY BalanceIsAccounted DEF MmapInv, TypeOK, Typed
  <1>b. SUFFICES ASSUME NEW g \in Pages PROVE Accounted(g)'
    BY BalanceIsAccounted
  <1>c. Accounted(g) /\ g # None
    BY <1>a, MmapAssumption
  <1> USE DEF fileVars, areaVars, pageVars, hist
  <1>1. CASE UNCHANGED <<pte, data, refs>>
    <2>1. Entries(g)' = Entries(g) /\ Owners(g)' = Owners(g) /\ refs'[g] = refs[g]
      BY <1>1 DEF Entries, Owners
    <2> QED
      BY <1>c, <2>1, SameAccount
  <1>2. ASSUME NEW f \in Files, my_open(f) PROVE Accounted(g)'
    <2>1. Entries(g)' = Entries(g) /\ data[f] = None
      BY <1>a, <1>2 DEF my_open, Entries, Ownership
    <2>2. CASE UNCHANGED <<data, pageVars>>
      BY <1>2, <2>2, <1>1 DEF my_open
    <2>3. ASSUME NEW h \in Pages, refs[h] = 0, data' = [data EXCEPT ![f] = h],
                 refs' = [refs EXCEPT ![h] = 1]
          PROVE  Accounted(g)'
      <3>1. CASE g = h
        <4>1. Entries(g) = {} /\ Owners(g) = {}
          BY <1>c, <2>3, <3>1, FreePage
        <4>2. Owners(g)' = {f}
          BY <1>a, <2>3, <3>1, <4>1 DEF Owners, Typed
        <4>3. refs'[g] = 1
          BY <1>a, <2>3, <3>1 DEF Typed
        <4> QED
          BY <2>1, <4>1, <4>2, <4>3, FS_EmptySet, FS_Singleton DEF Accounted
      <3>2. CASE g # h
        <4>1. Owners(g)' = Owners(g) /\ refs'[g] = refs[g]
          BY <1>a, <1>c, <2>1, <2>3, <3>2 DEF Owners, Typed
        <4> QED
          BY <1>c, <2>1, <4>1, SameAccount
      <3> QED
        BY <3>1, <3>2
    <2> QED
      BY <1>2, <2>2, <2>3 DEF my_open
  <1>3. ASSUME NEW f \in Files, Close(f) PROVE Accounted(g)'
    <2>1. Entries(g)' = Entries(g) /\ Nothing[g] = 0 /\ Fput(f, Nothing, Mapped(f))
      BY <1>3 DEF Close, Entries, Nothing
    <2>2. Cardinality(Entries(g)') = Cardinality(Entries(g)) - Nothing[g]
      BY <2>1, EntriesFinite
    <2> QED
      BY <1>a, <1>c, <2>1, <2>2, NothingEffect, FputAccounted
  <1>4. ASSUME NEW a \in Areas, Munmap(a) PROVE Accounted(g)'
    <2> DEFINE f == area[a]
               n == [h \in Pages |-> Cardinality(Here(a, h))]
               others == (Mapped(f) \ {a}) \cup (fd \cap {f})
    <2>1. f \in Files /\ n \in [Pages -> Nat] /\ Fput(f, n, others)
      BY <1>a, <1>4, MunmapEffect
    <2>2. Cardinality(Entries(g)') = Cardinality(Entries(g)) - n[g]
      BY <1>a, <1>4, MunmapEntries
    <2> HIDE DEF f, n, others
    <2> QED
      BY <1>a, <1>c, <2>1, <2>2, FputAccounted
  <1>5. ASSUME NEW a \in Areas, NEW o \in Offsets, DontNeed(a, o) PROVE Accounted(g)'
    <2>1. Owners(g)' = Owners(g)
      BY <1>5 DEF DontNeed, Owners
    <2>2. CASE pte[a][o] = g
      <3>1. Entries(g)' = Entries(g) \ {<<a, o>>} /\ <<a, o>> \in Entries(g)
        BY <1>a, <1>c, <1>5, <2>2 DEF DontNeed, Entries, Typed
      <3>2. refs'[g] = refs[g] - 1
        BY <1>a, <1>5, <2>2 DEF DontNeed, Typed
      <3>3. Cardinality(Entries(g)') = Cardinality(Entries(g)) - 1
        BY <3>1, EntriesFinite, FS_RemoveElement
      <3> QED
        BY <1>c, <2>1, <3>2, <3>3, EntriesFinite DEF Accounted
    <2>3. CASE pte[a][o] # g
      <3>1. Entries(g)' = Entries(g)
        BY <1>a, <1>c, <1>5, <2>3 DEF DontNeed, Entries, Typed
      <3>2. refs'[g] = refs[g]
        BY <1>a, <1>5, <2>3 DEF DontNeed, Typed
      <3> QED
        BY <1>c, <2>1, <3>1, <3>2, SameAccount
    <2> QED
      BY <2>2, <2>3
  <1>6. ASSUME NEW u \in Users, ReturnPage(u) PROVE Accounted(g)'
    <2> DEFINE a == fault[u].area
               o == fault[u].at
    <2>1. a \in Areas /\ o \in Offsets /\ vmdata[a] \in Pages
      BY <1>a, <1>6 DEF ReturnPage, Faulting, Typed, FaultsInAreas, OptPages
    <2>2. CASE UNCHANGED <<pte, refs>>
      BY <1>1, <1>6, <2>2 DEF ReturnPage
    <2>3. CASE /\ pte[a][o] = None
               /\ pte' = [pte EXCEPT ![a][o] = vmdata[a]]
               /\ refs' = [refs EXCEPT ![vmdata[a]] = @ + 1]
      <3>1. Owners(g)' = Owners(g)
        BY <1>6 DEF ReturnPage, Owners
      <3>2. CASE vmdata[a] = g
        <4>1. Entries(g)' = Entries(g) \cup {<<a, o>>} /\ <<a, o>> \notin Entries(g)
          BY <1>a, <1>c, <2>1, <2>3, <3>2 DEF Entries, Typed
        <4>2. refs'[g] = refs[g] + 1
          BY <1>a, <2>3, <3>2 DEF Typed
        <4>3. Cardinality(Entries(g)') = Cardinality(Entries(g)) + 1
          BY <4>1, EntriesFinite, FS_AddElement
        <4> QED
          BY <1>c, <3>1, <4>2, <4>3, EntriesFinite DEF Accounted
      <3>3. CASE vmdata[a] # g
        <4>1. Entries(g)' = Entries(g)
          BY <1>a, <1>c, <2>1, <2>3, <3>3 DEF Entries, Typed
        <4>2. refs'[g] = refs[g]
          BY <1>a, <2>3, <3>3 DEF Typed
        <4> QED
          BY <1>c, <3>1, <4>1, <4>2, SameAccount
      <3> QED
        BY <3>2, <3>3
    <2> QED
      BY <1>6, <2>2, <2>3 DEF ReturnPage
  <1>7. ASSUME NEW f \in Files, CloseOpened(f) PROVE Accounted(g)'
    <2>1. Entries(g)' = Entries(g) /\ Nothing[g] = 0 /\ Closed(f, Nothing)
      BY <1>a, <1>7, NothingEffect, CloseEffect DEF CloseOpened, Entries, Nothing
    <2>2. refs'[g] = refs[g] - 0 - IF g = data[f] THEN 1 ELSE 0
      BY <2>1 DEF Closed
    <2> QED
      BY <1>a, <1>c, <2>1, <2>2, ClosedOwners, EntriesFinite DEF Accounted
  <1>8. CASE \/ mmap_test_module_init \/ Rmmod \/ Removed
             \/ \E f \in Files, a \in Areas : my_mmap(f, a)
             \/ \E a \in Areas, b \in Areas : Fork(a, b)
             \/ \E a \in Areas, o \in Offsets : Write(a, o) \/ \E u \in Users : Touch(u, a, o)
             \/ \E u \in Users : Oops(u) \/ NoData(u) \/ WriteGreeting(u)
    <2>1. UNCHANGED <<pte, data, refs>>
      BY <1>8 DEF mmap_test_module_init, Rmmod, Removed, my_mmap, Fork, Write, Touch, Oops,
         NoData, WriteGreeting
    <2> QED
      BY <1>1, <2>1
  <1> QED
    BY <1>2, <1>3, <1>4, <1>5, <1>6, <1>7, <1>8 DEF Next, mmap_fault, mmap_test_module_exit

-----------------------------------------------------------------------------
(* Whose page is whose.                                                    *)
LEMMA OwnershipStep ==
  ASSUME MmapInv, Next PROVE Ownership'
  <1>a. Typed /\ Ownership /\ FaultsInAreas /\ \A g \in Pages : Accounted(g)
    BY BalanceIsAccounted DEF MmapInv, TypeOK, Typed
  <1> USE DEF fileVars, areaVars, pageVars, hist
  <1>1. CASE UNCHANGED <<file, fd, data, area, vmdata, pte>>
    BY <1>a, <1>1 DEF Ownership
  <1>2. ASSUME NEW f \in Files, my_open(f) PROVE Ownership'
    <2>1. /\ file[f] = "new" /\ file' = [file EXCEPT ![f] = "open"] /\ fd' = fd \cup {f}
          /\ UNCHANGED <<area, vmdata, pte>>
          /\ \A h \in Files \ {f} : data'[h] = data[h] /\ file'[h] = file[h]
          /\ file'[f] = "open"
      BY <1>a, <1>2 DEF my_open, Typed
    <2>2. data'[f] = None \/ (Entries(data'[f]) = {} /\ Owners(data'[f]) = {})
      <3>1. CASE UNCHANGED <<data, pageVars>>
        BY <1>a, <2>1, <3>1 DEF Ownership
      <3>2. ASSUME NEW g \in Pages, refs[g] = 0, data' = [data EXCEPT ![f] = g]
            PROVE  Entries(data'[f]) = {} /\ Owners(data'[f]) = {}
        <4>1. data'[f] = g
          BY <1>a, <3>2 DEF Typed
        <4> QED
          BY <1>a, <3>2, <4>1, FreePage
      <3> QED
        BY <1>2, <3>1, <3>2 DEF my_open
    <2>3. data'[f] # None => \A a \in Areas, o \in Offsets : pte[a][o] # data'[f]
      <3>1. ASSUME data'[f] # None, NEW a \in Areas, NEW o \in Offsets, pte[a][o] = data'[f]
            PROVE  FALSE
        <4>1. <<a, o>> \in Entries(data'[f])
          BY <3>1 DEF Entries
        <4> QED
          BY <2>2, <3>1, <4>1
      <3> QED
        BY <3>1
    <2>4. data'[f] # None => \A h \in Files : data[h] # data'[f]
      BY <2>2 DEF Owners
    <2>5. \A a \in Areas : area[a] # None => area[a] \in Files \ {f}
      BY <1>a, <2>1 DEF Ownership, Typed
    <2>6. \A h \in Files : data'[h] # None =>
            file'[h] = "open" /\ \A k \in Files : data'[k] = data'[h] => k = h
      BY <1>a, <2>1, <2>4 DEF Ownership
    <2>7. \A h \in fd' : file'[h] # "new"
      BY <1>a, <2>1 DEF Ownership, Typed
    <2>8. \A a \in Areas : area'[a] # None =>
            /\ file'[area'[a]] # "new"
            /\ file'[area'[a]] = "open" => vmdata'[a] = data'[area'[a]]
      BY <1>a, <2>1, <2>5 DEF Ownership
    <2>9. \A a \in Areas, o \in Offsets : pte'[a][o] # None =>
            /\ area'[a] # None
            /\ \A h \in Files : data'[h] = pte'[a][o] => area'[a] = h
            /\ \A b \in Areas, q \in Offsets : pte'[b][q] = pte'[a][o] => area'[b] = area'[a]
      BY <1>a, <2>1, <2>3 DEF Ownership
    <2> QED
      BY <2>6, <2>7, <2>8, <2>9 DEF Ownership
  <1>3. ASSUME NEW f \in Files, NEW a \in Areas, my_mmap(f, a) PROVE Ownership'
    <2>1. \A o \in Offsets : pte[a][o] = None
      BY <1>a, <1>3 DEF my_mmap, Ownership
    <2> QED
      BY <1>a, <1>3, <2>1 DEF my_mmap, Ownership, Typed
  <1>4. ASSUME NEW a \in Areas, NEW b \in Areas, Fork(a, b) PROVE Ownership'
    <2>1. \A o \in Offsets : pte[b][o] = None
      BY <1>a, <1>4 DEF Fork, Ownership
    <2> QED
      BY <1>a, <1>4, <2>1 DEF Fork, Ownership, Typed
  <1>5. ASSUME NEW f \in Files, NEW n, Closed(f, n) \/ StillHeld(n), fd' \subseteq fd,
               \A a \in Areas :
                 \/ area'[a] = area[a] /\ vmdata'[a] = vmdata[a] /\ pte'[a] = pte[a]
                 \/ area'[a] = None /\ \A o \in Offsets : pte'[a][o] = None
        PROVE  Ownership'
    <2>1. \A h \in Files :
            \/ data'[h] = data[h] /\ file'[h] = file[h]
            \/ data'[h] = None /\ file'[h] = "released"
      BY <1>a, <1>5 DEF Closed, StillHeld, Typed
    <2>2. \A a \in Areas, o \in Offsets : pte'[a][o] # None =>
             pte'[a][o] = pte[a][o] /\ area'[a] = area[a]
      BY <1>5
    <2>3. \A h \in Files : data'[h] # None =>
            file'[h] = "open" /\ \A k \in Files : data'[k] = data'[h] => k = h
      BY <1>a, <2>1 DEF Ownership
    <2>4. \A h \in fd' : file'[h] # "new"
      BY <1>a, <1>5, <2>1 DEF Ownership, Typed
    <2>5. \A a \in Areas : area'[a] # None =>
            /\ file'[area'[a]] # "new"
            /\ file'[area'[a]] = "open" => vmdata'[a] = data'[area'[a]]
      BY <1>a, <1>5, <2>1 DEF Ownership, Typed
    <2>6. \A a \in Areas, o \in Offsets : pte'[a][o] # None =>
            /\ area'[a] # None
            /\ \A h \in Files : data'[h] = pte'[a][o] => area'[a] = h
            /\ \A b \in Areas, q \in Offsets : pte'[b][q] = pte'[a][o] => area'[b] = area'[a]
      BY <1>a, <2>1, <2>2 DEF Ownership
    <2> QED
      BY <2>3, <2>4, <2>5, <2>6 DEF Ownership
  <1>6. ASSUME NEW f \in Files, Close(f) PROVE Ownership'
    <2>1. Closed(f, Nothing) \/ StillHeld(Nothing)
      BY <1>a, <1>6, NothingEffect, FputEffect DEF Close
    <2>2. fd' \subseteq fd /\ UNCHANGED <<area, vmdata, pte>>
      BY <1>6 DEF Close
    <2> QED
      BY <1>5, <2>1, <2>2
  <1>7. ASSUME NEW a \in Areas, Munmap(a) PROVE Ownership'
    <2> DEFINE f == area[a]
               n == [h \in Pages |-> Cardinality(Here(a, h))]
    <2>1. f \in Files /\ (Closed(f, n) \/ StillHeld(n))
      BY <1>a, <1>7, MunmapEffect, FputEffect
    <2>2. /\ fd' = fd
          /\ \A b \in Areas \ {a} : area'[b] = area[b] /\ vmdata'[b] = vmdata[b] /\ pte'[b] = pte[b]
          /\ area'[a] = None /\ \A o \in Offsets : pte'[a][o] = None
      BY <1>a, <1>7 DEF Munmap, Typed
    <2> HIDE DEF f, n
    <2> QED
      BY <1>5, <2>1, <2>2
  <1>8. ASSUME NEW f \in Files, CloseOpened(f) PROVE Ownership'
    <2>1. Closed(f, Nothing) /\ UNCHANGED <<fd, area, vmdata, pte>>
      BY <1>a, <1>8, NothingEffect, CloseEffect DEF CloseOpened
    <2> QED
      BY <1>5, <2>1
  <1>9. ASSUME NEW a \in Areas, NEW o \in Offsets, DontNeed(a, o) PROVE Ownership'
    <2>1. \A b \in Areas, q \in Offsets : pte'[b][q] = None \/ pte'[b][q] = pte[b][q]
      BY <1>a, <1>9 DEF DontNeed, Typed
    <2> QED
      BY <1>a, <1>9, <2>1 DEF DontNeed, Ownership
  <1>10. ASSUME NEW u \in Users, ReturnPage(u) PROVE Ownership'
    <2> DEFINE a == fault[u].area
               o == fault[u].at
               g == vmdata[a]
    <2>1. /\ a \in Areas /\ o \in Offsets /\ g \in Pages /\ area[a] \in Files
          /\ file[area[a]] # "released"
      BY <1>a, <1>10 DEF ReturnPage, Faulting, ReleasedUnder, Typed, FaultsInAreas, OptPages
    <2>2. data[area[a]] = g
      BY <1>a, <2>1, MmapAssumption DEF Ownership, Typed
    <2>3. UNCHANGED <<file, fd, data, area, vmdata>>
      BY <1>10 DEF ReturnPage
    <2>4. CASE pte' = pte
      BY <1>1, <2>3, <2>4
    <2>5. CASE pte' = [pte EXCEPT ![a][o] = g]
      <3>1. \A b \in Areas, q \in Offsets :
              pte'[b][q] = IF b = a /\ q = o THEN g ELSE pte[b][q]
        BY <1>a, <2>1, <2>5 DEF Typed
      <3>2. g # None
        BY <2>1, MmapAssumption
      <3>3. \A b \in Areas, q \in Offsets : pte[b][q] = g => area[b] = area[a]
        BY <1>a, <2>1, <2>2, <3>2 DEF Ownership
      <3>4. \A h \in Files : data[h] = g => area[a] = h
        BY <1>a, <2>1, <2>2, <3>2 DEF Ownership
      <3>5. area[a] # None
        BY <2>1, MmapAssumption
      <3> HIDE DEF a, o, g
      <3>6. \A b \in Areas, q \in Offsets : pte'[b][q] # None =>
              /\ area[b] # None
              /\ \A h \in Files : data[h] = pte'[b][q] => area[b] = h
              /\ \A c \in Areas, r \in Offsets : pte'[c][r] = pte'[b][q] => area[c] = area[b]
        BY <1>a, <3>1, <3>3, <3>4, <3>5 DEF Ownership
      <3> QED
        BY <1>a, <2>3, <3>6 DEF Ownership
    <2> QED
      BY <1>10, <2>4, <2>5 DEF ReturnPage
  <1>11. CASE \/ mmap_test_module_init \/ Rmmod \/ Removed
              \/ \E a \in Areas, o \in Offsets : Write(a, o) \/ \E u \in Users : Touch(u, a, o)
              \/ \E u \in Users : Oops(u) \/ NoData(u) \/ WriteGreeting(u)
    <2>1. UNCHANGED <<file, fd, data, area, vmdata, pte>>
      BY <1>11 DEF mmap_test_module_init, Rmmod, Removed, Write, Touch, Oops, NoData, WriteGreeting
    <2> QED
      BY <1>1, <2>1
  <1> QED
    BY <1>2, <1>3, <1>4, <1>6, <1>7, <1>8, <1>9, <1>10, <1>11
       DEF Next, mmap_fault, mmap_test_module_exit

-----------------------------------------------------------------------------
(* The steps by what they do to areas, page table and content.             *)
Facts ==
  /\ Typed /\ Ownership /\ FaultsInAreas /\ OwnContent /\ FirstFault
  /\ WordsSurvive /\ ReleasedIsTorn /\ OnlyRmmodTears
  /\ \A g \in Pages : Accounted(g)

LEMMA FactsHold == MmapInv => Facts
  BY BalanceIsAccounted DEF MmapInv, TypeOK, Typed, Facts

(* An open(2) touches no area, and no page that is owned or mapped.        *)
LEMMA OpenEffect ==
  ASSUME Facts, NEW f \in Files, my_open(f)
  PROVE  /\ mod = "live" /\ file' = [file EXCEPT ![f] = "open"]
         /\ UNCHANGED <<mod, area, vmdata, pte, fault, oops, torn, faults, wrote>>
         /\ \A a \in Areas : area[a] # None => area[a] \in Files \ {f}
         /\ \A g \in Pages : Entries(g) # {} \/ Owners(g) # {} => content'[g] = content[g]
  <1>1. /\ mod = "live" /\ file' = [file EXCEPT ![f] = "open"] /\ file[f] = "new"
        /\ UNCHANGED <<mod, area, vmdata, pte, fault, oops, torn, faults, wrote>>
    BY DEF my_open, areaVars, hist
  <1>2. \A a \in Areas : area[a] # None => area[a] \in Files \ {f}
    BY <1>1 DEF Facts, Ownership, Typed
  <1>3. ASSUME NEW g \in Pages, Entries(g) # {} \/ Owners(g) # {}
        PROVE  content'[g] = content[g]
    <2>1. refs[g] # 0
      BY <1>3, FreePage DEF Facts
    <2> QED
      BY <2>1 DEF my_open, Facts, Typed, pageVars
  <1> QED
    BY <1>1, <1>2, <1>3

(* mmap(2) and fork(2) leave the areas in use alone.                       *)
MapsArea == \E a \in Areas : (\E f \in Files : my_mmap(f, a)) \/ \E b \in Areas : Fork(a, b)

LEMMA MapsEffect ==
  ASSUME Facts, MapsArea
  PROVE  /\ UNCHANGED <<mod, file, fd, data, pte, fault, content, oops, torn, faults, wrote>>
         /\ \A a \in Areas : area[a] # None => area'[a] = area[a] /\ vmdata'[a] = vmdata[a]
         /\ \A a \in Areas : area'[a] # None =>
              (mod = "live" /\ file[area'[a]] = "open") \/ \E b \in Areas : area'[a] = area[b]
  <1> USE DEF fileVars, pageVars, hist
  <1>1. ASSUME NEW f \in Files, NEW a \in Areas, my_mmap(f, a)
        PROVE  /\ UNCHANGED <<mod, file, fd, data, pte, fault, content, oops, torn, faults, wrote>>
               /\ \A b \in Areas : area[b] # None => area'[b] = area[b] /\ vmdata'[b] = vmdata[b]
               /\ \A b \in Areas : area'[b] # None =>
                    (mod = "live" /\ file[area'[b]] = "open") \/ \E c \in Areas : area'[b] = area[c]
    BY <1>1 DEF my_mmap, Facts, Typed
  <1>2. ASSUME NEW a \in Areas, NEW d \in Areas, Fork(a, d)
        PROVE  /\ UNCHANGED <<mod, file, fd, data, pte, fault, content, oops, torn, faults, wrote>>
               /\ \A b \in Areas : area[b] # None => area'[b] = area[b] /\ vmdata'[b] = vmdata[b]
               /\ \A b \in Areas : area'[b] # None => \E c \in Areas : area'[b] = area[c]
    BY <1>2 DEF Fork, Facts, Typed
  <1> QED
    BY <1>1, <1>2 DEF MapsArea

(* close(2), munmap(2), madvise(2) and the releases of rmmod take areas    *)
(* without faults and places in the page table away, change no content,    *)
(* and release a file that is mapped only in rmmod.                        *)
LetsGo ==
  \/ \E f \in Files : Close(f) \/ CloseOpened(f)
  \/ \E a \in Areas : Munmap(a) \/ \E o \in Offsets : DontNeed(a, o)

Lessened(a) ==
  /\ \A o \in Offsets : pte'[a][o] \in {None, pte[a][o]}
  /\ \/ area'[a] = area[a] /\ vmdata'[a] = vmdata[a]
     \/ /\ area'[a] = None /\ InFault(a) = {}
        /\ \A o \in Offsets : pte'[a][o] = None

OnlyLessened ==
  /\ UNCHANGED <<mod, fault, content, oops, torn, faults, wrote>>
  /\ \A a \in Areas : Lessened(a)
  /\ \A h \in Files : file'[h] = file[h] \/ (file[h] = "open" /\ file'[h] = "released")
  /\ \A a \in Areas : area'[a] # None /\ file'[area'[a]] = "released" =>
       file[area[a]] = "released" \/ (mod = "removing" /\ file[area[a]] = "open")

LEMMA LetsGoEffect ==
  ASSUME Facts, LetsGo PROVE OnlyLessened
  <1> USE DEF fileVars, areaVars, pageVars, hist
  <1>a. Typed
    BY DEF Facts
  <1>b. \A a \in Areas : area[a] # None => area[a] \in Files
    BY <1>a DEF Typed
  <1>1. ASSUME NEW f \in Files, Close(f) PROVE OnlyLessened
    <2>1. /\ UNCHANGED <<mod, area, vmdata, pte, fault, content, oops, torn, faults, wrote>>
          /\ \/ file[f] = "open" /\ Mapped(f) = {} /\ file' = [file EXCEPT ![f] = "released"]
             \/ file' = file
      BY <1>a, <1>1, NothingEffect, FputEffect DEF Close, Closed, StillHeld
    <2>2. \A h \in Files :
            \/ file'[h] = file[h]
            \/ h = f /\ file[h] = "open" /\ file'[h] = "released" /\ Mapped(f) = {}
      BY <1>a, <2>1 DEF Typed
    <2>3. \A a \in Areas : area[a] = f => Mapped(f) # {}
      BY DEF Mapped
    <2>4. \A a \in Areas : Lessened(a)
      BY <2>1 DEF Lessened
    <2> QED
      BY <1>b, <2>1, <2>2, <2>3, <2>4 DEF OnlyLessened
  <1>2. ASSUME NEW f \in Files, CloseOpened(f) PROVE OnlyLessened
    <2>1. /\ UNCHANGED <<mod, area, vmdata, pte, fault, content, oops, torn, faults, wrote>>
          /\ mod = "removing" /\ file[f] = "open" /\ file' = [file EXCEPT ![f] = "released"]
      BY <1>2 DEF CloseOpened, my_close
    <2>2. \A h \in Files :
            \/ file'[h] = file[h]
            \/ h = f /\ file[h] = "open" /\ file'[h] = "released"
      BY <1>a, <2>1 DEF Typed
    <2>3. \A a \in Areas : Lessened(a)
      BY <2>1 DEF Lessened
    <2> QED
      BY <1>b, <2>1, <2>2, <2>3 DEF OnlyLessened
  <1>3. ASSUME NEW a \in Areas, Munmap(a) PROVE OnlyLessened
    <2> DEFINE f == area[a]
               n == [h \in Pages |-> Cardinality(Here(a, h))]
    <2>1. /\ f \in Files
          /\ \/ (Mapped(f) \ {a}) \cup (fd \cap {f}) = {} /\ Closed(f, n) /\ file[f] = "open"
             \/ StillHeld(n)
      BY <1>a, <1>3, MunmapEffect, FputEffect
    <2>2. /\ UNCHANGED <<mod, fault, content, oops, torn, faults, wrote>> /\ InFault(a) = {}
          /\ \A b \in Areas \ {a} : area'[b] = area[b] /\ vmdata'[b] = vmdata[b] /\ pte'[b] = pte[b]
          /\ area'[a] = None /\ \A o \in Offsets : pte'[a][o] = None
      BY <1>a, <1>3 DEF Munmap, Typed
    <2>3. \A h \in Files :
            \/ file'[h] = file[h]
            \/ h = f /\ file[h] = "open" /\ file'[h] = "released" /\ Mapped(f) \ {a} = {}
      BY <1>a, <2>1 DEF Typed, Closed, StillHeld
    <2>4. \A b \in Areas : Lessened(b)
      BY <2>2 DEF Lessened
    <2>5. \A b \in Areas \ {a} : area[b] = f => Mapped(f) \ {a} # {}
      BY DEF Mapped
    <2> HIDE DEF f, n
    <2> QED
      BY <1>b, <2>2, <2>3, <2>4, <2>5 DEF OnlyLessened
  <1>4. ASSUME NEW a \in Areas, NEW o \in Offsets, DontNeed(a, o) PROVE OnlyLessened
    <2>1. /\ UNCHANGED <<mod, file, area, vmdata, fault, content, oops, torn, faults, wrote>>
          /\ pte' = [pte EXCEPT ![a][o] = None]
      BY <1>4 DEF DontNeed
    <2>2. \A b \in Areas : Lessened(b)
      BY <1>a, <2>1 DEF Lessened, Typed
    <2> QED
      BY <1>b, <2>1, <2>2 DEF OnlyLessened
  <1> QED
    BY <1>1, <1>2, <1>3, <1>4 DEF LetsGo

(* A fault under way before my_close is in an area of an open file.        *)
LEMMA FaultPlace ==
  ASSUME Facts, NEW u \in Users, fault[u] # None, ~ReleasedUnder(u)
  PROVE  LET a == fault[u].area IN
         /\ a \in Areas /\ fault[u].at \in Offsets
         /\ area[a] \in Files /\ file[area[a]] = "open" /\ vmdata[a] = data[area[a]]
         /\ FaultOn(u, area[a])
  <1>1. fault[u].area \in Areas /\ fault[u].at \in Offsets /\ area[fault[u].area] \in Files
    BY DEF Facts, Typed, FaultsInAreas
  <1>2. file[area[fault[u].area]] = "open"
    BY <1>1, MmapAssumption DEF Facts, Typed, ReleasedUnder, Ownership
  <1> QED
    BY <1>1, <1>2, MmapAssumption DEF Facts, Ownership, FaultOn

Still == UNCHANGED <<file, data, area, vmdata, pte, fault, content, torn, faults, wrote>>

(* Every step, sorted.                                                     *)
LEMMA StepCases ==
  ASSUME Next
  PROVE  \/ MapsArea \/ LetsGo \/ Rmmod
         \/ Still /\ oops' = oops /\ (mod' \in {"live", "noentry", "absent"})
         \/ \E f \in Files : my_open(f)
         \/ \E a \in Areas, o \in Offsets : Write(a, o) \/ \E u \in Users : Touch(u, a, o)
         \/ \E u \in Users : Oops(u) \/ NoData(u) \/ WriteGreeting(u) \/ ReturnPage(u)
  <1>1. mmap_test_module_init \/ Removed =>
          Still /\ oops' = oops /\ (mod' \in {"live", "noentry", "absent"})
    BY DEF mmap_test_module_init, Removed, Still, fileVars, areaVars, pageVars, hist
  <1>2. (\E f \in Files, a \in Areas : my_mmap(f, a)) \/ (\E a, b \in Areas : Fork(a, b)) => MapsArea
    BY DEF MapsArea
  <1>3. \/ \E f \in Files : Close(f) \/ CloseOpened(f)
        \/ \E a \in Areas : Munmap(a) \/ \E o \in Offsets : DontNeed(a, o)
        => LetsGo
    BY DEF LetsGo
  <1>4. \/ mmap_test_module_init \/ Rmmod \/ Removed
        \/ \E f \in Files : CloseOpened(f) \/ my_open(f) \/ Close(f)
        \/ \E f \in Files, a \in Areas : my_mmap(f, a)
        \/ \E a \in Areas : Munmap(a) \/ \E b \in Areas : Fork(a, b)
        \/ \E a \in Areas, o \in Offsets : DontNeed(a, o) \/ Write(a, o)
        \/ \E a \in Areas, o \in Offsets : \E u \in Users : Touch(u, a, o)
        \/ \E u \in Users : Oops(u) \/ NoData(u) \/ WriteGreeting(u) \/ ReturnPage(u)
    BY DEF Next, mmap_test_module_exit, mmap_fault
  <1> QED
    BY <1>1, <1>2, <1>3, <1>4

LEMMA FaultsStep ==
  ASSUME Facts, Next PROVE FaultsInAreas'
  <1> USE DEF fileVars, areaVars, pageVars, hist
  <1>a. Typed /\ Ownership /\ FaultsInAreas
    BY DEF Facts
  <1>1. CASE Still
    BY <1>a, <1>1 DEF Still, FaultsInAreas
  <1>2. CASE MapsArea
    BY <1>a, <1>2, MapsEffect DEF FaultsInAreas, Typed
  <1>3. CASE LetsGo
    <2>1. OnlyLessened
      BY <1>3, LetsGoEffect
    <2>2. ASSUME NEW u \in Users, fault[u] # None
          PROVE  LET a == fault[u].area IN
                 a \in Areas /\ area[a] \in Files /\ area'[a] = area[a] /\ vmdata'[a] = vmdata[a]
      BY <1>a, <2>1, <2>2 DEF OnlyLessened, Lessened, InFault, Typed, FaultsInAreas
    <2> QED
      BY <1>a, <2>1, <2>2 DEF OnlyLessened, FaultsInAreas
  <1>4. CASE Rmmod
    BY <1>a, <1>4 DEF Rmmod, FaultsInAreas
  <1>5. ASSUME NEW f \in Files, my_open(f) PROVE FaultsInAreas'
    <2>1. ASSUME NEW u \in Users, fault[u] # None
          PROVE  LET a == fault[u].area IN
                 /\ a \in Areas /\ area[a] \in Files /\ file'[area[a]] = file[area[a]]
                 /\ file[area[a]] = "open" /\ vmdata[a] # None => content'[vmdata[a]] = content[vmdata[a]]
      <3> DEFINE a == fault[u].area
      <3>1. a \in Areas /\ area[a] \in Files
        BY <1>a, <2>1 DEF Typed, FaultsInAreas
      <3>2. file'[area[a]] = file[area[a]]
        BY <1>a, <1>5, <3>1, OpenEffect, MmapAssumption DEF Typed
      <3>3. ASSUME file[area[a]] = "open", vmdata[a] # None
            PROVE  content'[vmdata[a]] = content[vmdata[a]]
        <4>1. vmdata[a] \in Pages /\ area[a] \in Owners(vmdata[a])
          BY <1>a, <3>1, <3>3, MmapAssumption DEF Ownership, Typed, OptPages, Owners
        <4> QED
          BY <1>5, <4>1, OpenEffect
      <3> QED
        BY <3>1, <3>2, <3>3
    <2> QED
      BY <1>a, <1>5, <2>1, OpenEffect DEF FaultsInAreas
  <1>6. ASSUME NEW a \in Areas, NEW o \in Offsets, Write(a, o) PROVE FaultsInAreas'
    <2>1. \A b \in Areas : area[b] \in Files /\ file[area[b]] = "open" /\ vmdata[b] = pte[a][o]
                           => area[a] = area[b]
      BY <1>a, <1>6, MmapAssumption DEF Write, Ownership
    <2>2. pte[a][o] \in Pages
      BY <1>a, <1>6 DEF Write, Typed, OptPages
    <2>3. \A g \in Pages : content'[g] = IF g = pte[a][o] THEN area[a] ELSE content[g]
      BY <1>a, <1>6, <2>2 DEF Write, Typed
    <2>4. ASSUME NEW u \in Users, fault[u] # None
          PROVE  fault[u].area \in Areas /\ area[fault[u].area] \in Files
      BY <1>a, <2>4 DEF FaultsInAreas, Typed
    <2>5. \A b \in Areas : vmdata[b] # None => vmdata[b] \in Pages
      BY <1>a DEF Typed, OptPages
    <2> QED
      BY <1>a, <1>6, <2>1, <2>3, <2>4, <2>5 DEF Write, FaultsInAreas
  <1>7. ASSUME NEW u \in Users, NEW a \in Areas, NEW o \in Offsets, Touch(u, a, o)
        PROVE  FaultsInAreas'
    BY <1>a, <1>7 DEF Touch, FaultsInAreas, Typed
  <1>8. ASSUME NEW u \in Users, NoData(u) \/ ReturnPage(u) PROVE FaultsInAreas'
    <2>1. /\ UNCHANGED <<file, area, vmdata, content>>
          /\ \A v \in Users : fault'[v] # None => fault'[v] = fault[v]
      BY <1>a, <1>8 DEF NoData, ReturnPage, Typed
    <2> QED
      BY <1>a, <2>1 DEF FaultsInAreas
  <1>9. ASSUME NEW u \in Users, WriteGreeting(u) PROVE FaultsInAreas'
    <2> DEFINE g == vmdata[fault[u].area]
    <2>1. /\ UNCHANGED <<file, area, vmdata>> /\ g # None /\ fault[u] # None
          /\ content' = [content EXCEPT ![g] = "greeting"]
          /\ fault' = [fault EXCEPT ![u].stage = "sleep"]
      BY <1>9 DEF WriteGreeting, Faulting
    <2>2. g \in Pages /\ fault[u].area \in Areas /\ area[fault[u].area] # None
      BY <1>a, <2>1 DEF Typed, OptPages, FaultsInAreas
    <2>3. \A h \in Pages : content'[h] = IF h = g THEN "greeting" ELSE content[h]
      BY <1>a, <2>1 DEF Typed
    <2>4. /\ \A v \in Users \ {u} : fault'[v] = fault[v]
          /\ fault'[u].area = fault[u].area
      BY <1>a, <2>1 DEF Typed
    <2>5. \A v \in Users : fault[v] # None =>
            fault[v].area \in Areas /\ vmdata[fault[v].area] \in OptPages
      BY <1>a DEF Typed
    <2>6. ASSUME NEW v \in Users, fault'[v] # None
          PROVE  LET b == fault'[v].area IN
                 /\ area'[b] # None
                 /\ fault'[v].stage = "sleep" =>
                      /\ vmdata'[b] # None
                      /\ file'[area'[b]] = "open" => content'[vmdata'[b]] \in {"greeting", area'[b]}
      <3>1. CASE v = u
        BY <2>1, <2>2, <2>3, <2>4, <3>1
      <3>2. CASE v # u
        BY <1>a, <2>1, <2>3, <2>4, <2>5, <2>6, <3>2 DEF FaultsInAreas, OptPages
      <3> QED
        BY <3>1, <3>2
    <2> QED
      BY <2>6 DEF FaultsInAreas
  <1>10. ASSUME NEW u \in Users, Oops(u) PROVE FaultsInAreas'
    BY <1>a, <1>10 DEF Oops, FaultsInAreas
  <1> QED
    BY <1>1, <1>2, <1>3, <1>4, <1>5, <1>6, <1>7, <1>8, <1>9, <1>10, StepCases

LEMMA ContentStep ==
  ASSUME Facts, Next PROVE OwnContent'
  <1> USE DEF fileVars, areaVars, pageVars, hist
  <1>a. Typed /\ Ownership /\ FaultsInAreas /\ OwnContent
    BY DEF Facts
  <1>b. \A a \in Areas, o \in Offsets : pte[a][o] # None =>
          pte[a][o] \in Pages /\ area[a] \in Files /\ <<a, o>> \in Entries(pte[a][o])
    BY <1>a DEF Typed, OptPages, Ownership, Entries
  <1>1. CASE UNCHANGED <<area, pte, content>>
    BY <1>a, <1>1 DEF OwnContent
  <1>2. CASE MapsArea
    BY <1>a, <1>2, MapsEffect DEF OwnContent, Ownership
  <1>3. CASE LetsGo
    <2>1. OnlyLessened
      BY <1>3, LetsGoEffect
    <2> QED
      BY <1>a, <2>1 DEF OnlyLessened, Lessened, OwnContent
  <1>4. ASSUME NEW f \in Files, my_open(f) PROVE OwnContent'
    BY <1>a, <1>b, <1>4, OpenEffect DEF OwnContent
  <1>5. ASSUME NEW a \in Areas, NEW o \in Offsets, Write(a, o) PROVE OwnContent'
    <2>1. \A g \in Pages : content'[g] = IF g = pte[a][o] THEN area[a] ELSE content[g]
      BY <1>a, <1>5 DEF Write, Typed
    <2> QED
      BY <1>a, <1>b, <1>5, <2>1 DEF Write, Ownership, OwnContent
  <1>6. ASSUME NEW u \in Users, WriteGreeting(u) PROVE OwnContent'
    <2>1. \A g \in Pages : content'[g] \in {"greeting", content[g]}
      BY <1>a, <1>6 DEF WriteGreeting, Typed
    <2> QED
      BY <1>a, <1>b, <1>6, <2>1 DEF WriteGreeting, OwnContent
  <1>7. ASSUME NEW u \in Users, ReturnPage(u) PROVE OwnContent'
    <2> DEFINE a == fault[u].area
               o == fault[u].at
    <2>1. UNCHANGED <<area, content>> /\ fault[u] # None /\ fault[u].stage = "sleep" /\ ~ReleasedUnder(u)
      BY <1>7 DEF ReturnPage, Faulting
    <2>2. /\ a \in Areas /\ file[area[a]] = "open"
          /\ content[vmdata[a]] \in {"greeting", area[a]}
      BY <1>a, <2>1, FaultPlace DEF FaultsInAreas
    <2>3. \A b \in Areas, q \in Offsets : pte'[b][q] = pte[b][q] \/ (b = a /\ pte'[b][q] = vmdata[a])
      BY <1>a, <1>7 DEF ReturnPage, Typed
    <2> HIDE DEF a, o
    <2> QED
      BY <1>a, <2>1, <2>2, <2>3 DEF OwnContent
  <1>8. CASE \/ Still \/ Rmmod
             \/ \E u \in Users : Oops(u) \/ NoData(u) \/ \E a \in Areas, o \in Offsets : Touch(u, a, o)
    <2>1. UNCHANGED <<area, pte, content>>
      BY <1>8 DEF Still, Rmmod, Oops, NoData, Touch
    <2> QED
      BY <1>1, <2>1
  <1> QED
    BY <1>2, <1>3, <1>4, <1>5, <1>6, <1>7, <1>8, StepCases

(* What WordsSurvive says of one place in the page table.                  *)
Word(a, o) ==
  pte[a][o] # None /\ faults[area[a]] = 1 /\ area[a] \in wrote => content[pte[a][o]] = area[a]

LEMMA WordsStep ==
  ASSUME Facts, Next PROVE WordsSurvive'
  <1> USE DEF fileVars, areaVars, pageVars, hist
  <1>a. Typed /\ Ownership /\ FaultsInAreas /\ FirstFault
    BY DEF Facts
  <1>b. \A a \in Areas, o \in Offsets : pte[a][o] # None =>
          /\ pte[a][o] \in Pages /\ area[a] \in Files /\ <<a, o>> \in Entries(pte[a][o])
          /\ MappedTo(a, o, area[a])
    BY <1>a DEF Typed, OptPages, Ownership, Entries, MappedTo
  <1>c. SUFFICES ASSUME NEW a \in Areas, NEW o \in Offsets PROVE Word(a, o)'
    BY DEF WordsSurvive, Word
  <1>d. \A b \in Areas, q \in Offsets : Word(b, q)
    BY DEF Facts, WordsSurvive, Word
  <1>1. CASE UNCHANGED <<area, pte, content, faults, wrote>>
    BY <1>d, <1>1 DEF Word
  <1>2. CASE MapsArea
    <2>1. UNCHANGED <<pte, content, faults, wrote>> /\ (area[a] # None => area'[a] = area[a])
      BY <1>2, MapsEffect DEF Facts
    <2>2. pte[a][o] # None => area'[a] = area[a]
      BY <1>a, <2>1 DEF Ownership
    <2> QED
      BY <1>d, <2>1, <2>2 DEF Word
  <1>3. CASE LetsGo
    <2>1. OnlyLessened
      BY <1>3, LetsGoEffect
    <2> QED
      BY <1>d, <2>1 DEF OnlyLessened, Lessened, Word
  <1>4. ASSUME NEW f \in Files, my_open(f) PROVE Word(a, o)'
    <2>1. UNCHANGED <<area, pte, faults, wrote>>
      BY <1>4, OpenEffect
    <2>2. pte[a][o] # None => content'[pte[a][o]] = content[pte[a][o]]
      BY <1>b, <1>4, OpenEffect
    <2> QED
      BY <1>d, <2>1, <2>2 DEF Word
  <1>5. ASSUME NEW b \in Areas, NEW q \in Offsets, Write(b, q) PROVE Word(a, o)'
    <2>1. \A g \in Pages : content'[g] = IF g = pte[b][q] THEN area[b] ELSE content[g]
      BY <1>a, <1>5 DEF Write, Typed
    <2>2. /\ UNCHANGED <<area, pte, faults>> /\ pte[b][q] # None
          /\ wrote' = wrote \cup {area[b]}
      BY <1>5 DEF Write
    <2>3. CASE pte[a][o] # None /\ pte[a][o] = pte[b][q]
      <3>1. area[a] = area[b]
        BY <1>a, <2>3 DEF Ownership
      <3> QED
        BY <1>b, <2>1, <2>2, <2>3, <3>1 DEF Word
    <2>4. CASE pte[a][o] # None /\ pte[a][o] # pte[b][q] /\ area[a] = area[b] /\ faults[area[a]] = 1
      <3>1. MappedTo(a, o, area[a]) /\ MappedTo(b, q, area[a]) /\ area[a] \in Files
        BY <1>b, <2>2, <2>4
      <3>2. a = b /\ o = q
        BY <1>a, <2>4, <3>1 DEF FirstFault
      <3> QED
        BY <2>4, <3>2
    <2>5. CASE pte[a][o] # None /\ pte[a][o] # pte[b][q] /\ ~(area[a] = area[b] /\ faults[area[a]] = 1)
      BY <1>b, <1>d, <2>1, <2>2, <2>5 DEF Word
    <2>6. CASE pte[a][o] = None
      BY <2>2, <2>6 DEF Word
    <2> QED
      BY <2>3, <2>4, <2>5, <2>6
  <1>6. ASSUME NEW u \in Users, NEW b \in Areas, NEW q \in Offsets, Touch(u, b, q)
        PROVE  Word(a, o)'
    <2>1. /\ UNCHANGED <<area, pte, content, wrote>> /\ area[b] # None
          /\ faults' = [faults EXCEPT ![area[b]] = IF @ = 0 THEN 1 ELSE 2]
      BY <1>6 DEF Touch
    <2>2. pte[a][o] # None => faults[area[a]] # 0
      BY <1>a, <1>b DEF FirstFault
    <2>3. pte[a][o] # None => area[a] \in Files
      BY <1>b
    <2>4. pte[a][o] # None /\ faults'[area[a]] = 1 => faults[area[a]] = 1
      BY <1>a, <2>1, <2>2, <2>3 DEF Typed
    <2> QED
      BY <1>d, <2>1, <2>4 DEF Word
  <1>7. ASSUME NEW u \in Users, WriteGreeting(u) PROVE Word(a, o)'
    <2> DEFINE b == fault[u].area
               g == vmdata[b]
    <2>1. /\ UNCHANGED <<area, pte, faults, wrote>> /\ fault[u] # None /\ ~ReleasedUnder(u)
          /\ content' = [content EXCEPT ![g] = "greeting"] /\ g # None
      BY <1>7 DEF WriteGreeting, Faulting
    <2>2. b \in Areas /\ area[b] \in Files /\ g = data[area[b]] /\ FaultOn(u, area[b])
      BY <2>1, FaultPlace
    <2>3. CASE pte[a][o] = g
      <3>1. area[a] = area[b]
        BY <1>a, <2>1, <2>2, <2>3 DEF Ownership
      <3>2. faults[area[a]] = 1 => area[a] \notin wrote
        BY <1>a, <2>2, <3>1 DEF FirstFault
      <3> QED
        BY <2>1, <3>2 DEF Word
    <2>4. CASE pte[a][o] # g
      <3>1. pte[a][o] # None => content'[pte[a][o]] = content[pte[a][o]]
        BY <1>a, <1>b, <2>1, <2>4 DEF Typed
      <3> QED
        BY <1>d, <2>1, <3>1 DEF Word
    <2> QED
      BY <2>3, <2>4
  <1>8. ASSUME NEW u \in Users, ReturnPage(u) PROVE Word(a, o)'
    <2> DEFINE b == fault[u].area
    <2>1. UNCHANGED <<area, content, faults, wrote>> /\ fault[u] # None /\ ~ReleasedUnder(u)
      BY <1>8 DEF ReturnPage, Faulting
    <2>2. b \in Areas /\ area[b] \in Files /\ FaultOn(u, area[b])
      BY <2>1, FaultPlace
    <2>3. faults[area[b]] = 1 => area[b] \notin wrote
      BY <1>a, <2>2 DEF FirstFault
    <2>4. pte'[a][o] = pte[a][o] \/ a = b
      BY <1>a, <1>8 DEF ReturnPage, Typed
    <2> QED
      BY <1>d, <2>1, <2>3, <2>4 DEF Word
  <1>9. CASE Still \/ Rmmod \/ \E u \in Users : Oops(u) \/ NoData(u)
    <2>1. UNCHANGED <<area, pte, content, faults, wrote>>
      BY <1>9 DEF Still, Rmmod, Oops, NoData
    <2> QED
      BY <1>1, <2>1
  <1> QED
    BY <1>2, <1>3, <1>4, <1>5, <1>6, <1>7, <1>8, <1>9, StepCases

(* What FirstFault says of one file.                                       *)
First(f) ==
  /\ faults[f] = 0 => f \notin wrote
  /\ \A u \in Users : FaultOn(u, f) =>
       /\ faults[f] # 0
       /\ faults[f] = 1 => f \notin wrote /\ \A v \in Users : FaultOn(v, f) => u = v
  /\ \A a \in Areas, o \in Offsets : MappedTo(a, o, f) =>
       /\ faults[f] # 0
       /\ faults[f] = 1 =>
            /\ \A u \in Users : ~FaultOn(u, f)
            /\ \A b \in Areas, q \in Offsets : MappedTo(b, q, f) => a = b /\ o = q

(* It holds on when faults end and places in the page table go.            *)
LEMMA FirstLessens ==
  ASSUME NEW f \in Files, First(f), faults'[f] = faults[f], wrote' = wrote,
         \A u \in Users : FaultOn(u, f)' => FaultOn(u, f),
         \A a \in Areas, o \in Offsets : MappedTo(a, o, f)' => MappedTo(a, o, f)
  PROVE  First(f)'
  BY DEF First

LEMMA FirstFaultStep ==
  ASSUME Facts, Next PROVE FirstFault'
  <1> USE DEF fileVars, areaVars, pageVars, hist
  <1>a. Typed /\ Ownership /\ FaultsInAreas
    BY DEF Facts
  <1>b. SUFFICES ASSUME NEW f \in Files PROVE First(f)'
    BY DEF FirstFault, First
  <1>c. First(f) /\ f # None
    BY MmapAssumption DEF Facts, FirstFault, First
  <1>d. \A u \in Users : fault[u] # None => fault[u].area \in Areas /\ area[fault[u].area] # None
    BY <1>a DEF FaultsInAreas, Typed
  <1>1. CASE UNCHANGED <<area, pte, fault, faults, wrote>>
    BY <1>c, <1>1 DEF First, FaultOn, MappedTo
  <1>2. CASE MapsArea
    <2>1. /\ UNCHANGED <<pte, fault, faults, wrote>>
          /\ \A b \in Areas : area[b] # None => area'[b] = area[b]
      BY <1>2, MapsEffect DEF Facts
    <2>2. \A u \in Users : FaultOn(u, f)' => FaultOn(u, f)
      BY <1>d, <2>1 DEF FaultOn
    <2>3. \A a \in Areas, o \in Offsets : MappedTo(a, o, f)' => MappedTo(a, o, f)
      BY <1>a, <2>1 DEF MappedTo, Ownership
    <2> QED
      BY <1>c, <2>1, <2>2, <2>3, FirstLessens
  <1>3. CASE LetsGo
    <2>1. OnlyLessened
      BY <1>3, LetsGoEffect
    <2>2. \A u \in Users : FaultOn(u, f)' => FaultOn(u, f)
      BY <1>c, <1>d, <2>1 DEF OnlyLessened, Lessened, FaultOn
    <2>3. \A a \in Areas, o \in Offsets : MappedTo(a, o, f)' => MappedTo(a, o, f)
      BY <1>c, <2>1 DEF OnlyLessened, Lessened, MappedTo
    <2> QED
      BY <1>c, <2>1, <2>2, <2>3, FirstLessens DEF OnlyLessened
  <1>4. ASSUME NEW a \in Areas, NEW o \in Offsets, Write(a, o) PROVE First(f)'
    <2>1. /\ UNCHANGED <<area, pte, fault, faults>> /\ wrote' = wrote \cup {area[a]}
          /\ (area[a] = f => MappedTo(a, o, f))
      BY <1>4 DEF Write, MappedTo
    <2>2. /\ \A u \in Users : FaultOn(u, f)' <=> FaultOn(u, f)
          /\ \A b \in Areas, q \in Offsets : MappedTo(b, q, f)' <=> MappedTo(b, q, f)
      BY <2>1 DEF FaultOn, MappedTo
    <2> QED
      BY <1>c, <2>1, <2>2 DEF First
  <1>5. ASSUME NEW u \in Users, NEW a \in Areas, NEW o \in Offsets, Touch(u, a, o)
        PROVE  First(f)'
    <2>1. /\ UNCHANGED <<area, pte, wrote>> /\ area[a] \in Files
          /\ faults'[f] = IF f # area[a] THEN faults[f] ELSE IF faults[f] = 0 THEN 1 ELSE 2
          /\ \A v \in Users \ {u} : fault'[v] = fault[v]
          /\ fault'[u] = [area |-> a, at |-> o, stage |-> "enter"]
      BY <1>a, <1>5 DEF Touch, Typed
    <2>2. /\ \A v \in Users \ {u} : FaultOn(v, f)' <=> FaultOn(v, f)
          /\ \A b \in Areas, q \in Offsets : MappedTo(b, q, f)' <=> MappedTo(b, q, f)
          /\ FaultOn(u, f)' => area[a] = f
      BY <2>1 DEF FaultOn, MappedTo
    <2>3. CASE area[a] # f
      <3>1. /\ faults'[f] = faults[f]
            /\ \A v \in Users : FaultOn(v, f)' => FaultOn(v, f)
        BY <2>1, <2>2, <2>3
      <3> QED
        BY <1>c, <2>1, <2>2, <3>1, FirstLessens
    <2>4. CASE area[a] = f /\ faults[f] = 0
      <3>1. /\ faults'[f] = 1 /\ f \notin wrote'
            /\ \A v \in Users \ {u} : ~FaultOn(v, f)'
            /\ \A b \in Areas, q \in Offsets : ~MappedTo(b, q, f)'
        BY <1>c, <2>1, <2>2, <2>4 DEF First
      <3> QED
        BY <3>1 DEF First
    <2>5. CASE area[a] = f /\ faults[f] # 0
      <3>1. faults'[f] = 2
        BY <2>1, <2>5
      <3> QED
        BY <3>1 DEF First
    <2> QED
      BY <2>3, <2>4, <2>5
  <1>6. ASSUME NEW u \in Users, NoData(u) \/ WriteGreeting(u) PROVE First(f)'
    <2>1. /\ UNCHANGED <<area, pte, faults, wrote>>
          /\ \A v \in Users : fault'[v] # None => fault[v] # None /\ fault'[v].area = fault[v].area
      BY <1>a, <1>6 DEF NoData, WriteGreeting, Faulting, Typed
    <2>2. \A v \in Users : FaultOn(v, f)' => FaultOn(v, f)
      BY <2>1 DEF FaultOn
    <2>3. \A b \in Areas, q \in Offsets : MappedTo(b, q, f)' => MappedTo(b, q, f)
      BY <2>1 DEF MappedTo
    <2> QED
      BY <1>c, <2>1, <2>2, <2>3, FirstLessens
  <1>7. ASSUME NEW u \in Users, ReturnPage(u) PROVE First(f)'
    <2> DEFINE a == fault[u].area
               o == fault[u].at
    <2>1. /\ UNCHANGED <<area, faults, wrote>> /\ fault[u] # None /\ ~ReleasedUnder(u)
          /\ fault' = [fault EXCEPT ![u] = None]
      BY <1>7 DEF ReturnPage, Faulting
    <2>2. fault'[u] = None /\ \A v \in Users \ {u} : fault'[v] = fault[v]
      BY <1>a, <2>1 DEF Typed
    <2>3. ~FaultOn(u, f)' /\ \A v \in Users \ {u} : FaultOn(v, f)' <=> FaultOn(v, f)
      BY <2>1, <2>2 DEF FaultOn
    <2>4. a \in Areas /\ o \in Offsets /\ FaultOn(u, area[a])
      BY <2>1, FaultPlace
    <2>5. \A b \in Areas, q \in Offsets : (b # a \/ q # o) => pte'[b][q] = pte[b][q]
      BY <1>a, <1>7 DEF ReturnPage, Typed
    <2> HIDE DEF a, o
    <2>6. \A b \in Areas, q \in Offsets : (b # a \/ q # o) => (MappedTo(b, q, f)' <=> MappedTo(b, q, f))
      BY <2>1, <2>5 DEF MappedTo
    <2>7. CASE area[a] = f
      <3>1. /\ FaultOn(u, f) /\ faults[f] # 0
            /\ faults[f] = 1 => \A v \in Users \ {u} : ~FaultOn(v, f)
        BY <1>c, <2>4, <2>7 DEF First
      <3>2. faults[f] = 1 => \A b \in Areas, q \in Offsets : ~MappedTo(b, q, f)
        BY <1>c, <3>1 DEF First
      <3>3. faults[f] = 1 => \A b \in Areas, q \in Offsets : MappedTo(b, q, f)' => b = a /\ q = o
        BY <2>6, <3>2
      <3>4. faults[f] = 1 => \A v \in Users : ~FaultOn(v, f)'
        BY <2>3, <3>1
      <3> QED
        BY <1>c, <2>1, <3>1, <3>3, <3>4, <2>3 DEF First
    <2>8. CASE area[a] # f
      <3>1. \A b \in Areas, q \in Offsets : MappedTo(b, q, f)' => MappedTo(b, q, f)
        BY <2>1, <2>6, <2>8 DEF MappedTo
      <3> QED
        BY <1>c, <2>1, <2>3, <3>1, FirstLessens
    <2> QED
      BY <2>7, <2>8
  <1>8. CASE \/ Still \/ Rmmod
             \/ (\E u \in Users : Oops(u)) \/ \E h \in Files : my_open(h)
    <2>1. UNCHANGED <<area, pte, fault, faults, wrote>>
      BY <1>8 DEF Still, Rmmod, Oops, my_open
    <2> QED
      BY <1>1, <2>1
  <1> QED
    BY <1>2, <1>3, <1>4, <1>5, <1>6, <1>7, <1>8, StepCases

-----------------------------------------------------------------------------
(* Torn by rmmod.  The files whose areas are in danger:                    *)
Endangered(a) ==
  area[a] # None /\ (file[area[a]] = "released" \/ (mod = "removing" /\ file[area[a]] = "open"))

LEMMA TornIsEndangered ==
  /\ ReleasedIsTorn <=> \A a \in Areas : Endangered(a) => torn
  /\ ReleasedIsTorn' <=> \A a \in Areas : Endangered(a)' => torn'
  BY DEF ReleasedIsTorn, Endangered

LEMMA TornStep ==
  ASSUME Facts, Next PROVE ReleasedIsTorn'
  <1> USE DEF fileVars, areaVars, pageVars, hist
  <1>a. Typed /\ Ownership
    BY DEF Facts
  <1>b. \A a \in Areas : Endangered(a) => torn
    BY TornIsEndangered DEF Facts
  <1>c. \A a \in Areas : area[a] # None => area[a] \in Files
    BY <1>a DEF Typed
  <1>1. ASSUME torn' = torn,
               \A a \in Areas : Endangered(a)' => \E b \in Areas : Endangered(b)
        PROVE  ReleasedIsTorn'
    BY <1>b, <1>1, TornIsEndangered
  <1>2. CASE MapsArea
    <2>1. /\ UNCHANGED <<mod, file, torn>>
          /\ \A a \in Areas : area'[a] # None =>
               (mod = "live" /\ file[area'[a]] = "open") \/ \E b \in Areas : area'[a] = area[b]
      BY <1>2, MapsEffect
    <2>2. \A a \in Areas : Endangered(a)' => \E b \in Areas : Endangered(b)
      BY <2>1 DEF Endangered
    <2> QED
      BY <1>1, <2>1, <2>2
  <1>3. CASE LetsGo
    <2>1. OnlyLessened
      BY <1>3, LetsGoEffect
    <2>2. torn' = torn
      BY <2>1 DEF OnlyLessened
    <2>3. \A a \in Areas : area'[a] # None => area'[a] = area[a] /\ area[a] \in Files
      BY <1>c, <2>1 DEF OnlyLessened, Lessened
    <2>4. \A a \in Areas : Endangered(a)' => Endangered(a)
      BY <2>1, <2>3 DEF OnlyLessened, Endangered
    <2> QED
      BY <1>1, <2>2, <2>4
  <1>4. CASE Rmmod
    <2>1. UNCHANGED <<file, area>>
      BY <1>4 DEF Rmmod
    <2>2. ASSUME NEW a \in Areas, Endangered(a)' PROVE torn'
      <3>1. CASE file[area[a]] = "released"
        <4>1. Endangered(a)
          BY <2>1, <2>2, <3>1 DEF Endangered
        <4> QED
          BY <1>b, <1>4, <4>1 DEF Rmmod
      <3>2. CASE file[area[a]] # "released"
        <4>1. area[a] \in Files /\ file[area[a]] = "open" /\ a \in Mapped(area[a])
          BY <1>c, <2>1, <2>2, <3>2 DEF Endangered, Mapped
        <4>2. \E f \in Files : file[f] = "open" /\ Mapped(f) # {}
          BY <4>1
        <4> QED
          BY <1>4, <4>2 DEF Rmmod
      <3> QED
        BY <3>1, <3>2
    <2> QED
      BY <2>2, TornIsEndangered
  <1>5. ASSUME NEW f \in Files, my_open(f) PROVE ReleasedIsTorn'
    <2>1. /\ mod = "live" /\ file' = [file EXCEPT ![f] = "open"]
          /\ UNCHANGED <<mod, area, torn>>
          /\ \A a \in Areas : area[a] # None => area[a] \in Files \ {f}
      BY <1>5, OpenEffect
    <2>2. \A a \in Areas : area[a] # None => file'[area[a]] = file[area[a]]
      BY <1>a, <2>1 DEF Typed
    <2>3. \A a \in Areas : Endangered(a)' => Endangered(a)
      BY <2>1, <2>2 DEF Endangered
    <2> QED
      BY <1>1, <2>1, <2>3
  <1>6. CASE Still /\ (mod' \in {"live", "noentry", "absent"})
    <2>1. UNCHANGED <<file, area, torn>> /\ mod' # "removing"
      BY <1>6 DEF Still
    <2>2. \A a \in Areas : Endangered(a)' => Endangered(a)
      BY <2>1 DEF Endangered
    <2> QED
      BY <1>1, <2>1, <2>2
  <1>7. CASE \/ \E a \in Areas, o \in Offsets : Write(a, o) \/ \E u \in Users : Touch(u, a, o)
             \/ \E u \in Users : Oops(u) \/ NoData(u) \/ WriteGreeting(u) \/ ReturnPage(u)
    <2>1. UNCHANGED <<mod, file, area, torn>>
      BY <1>7 DEF Write, Touch, Oops, NoData, WriteGreeting, ReturnPage
    <2>2. \A a \in Areas : Endangered(a)' => Endangered(a)
      BY <2>1 DEF Endangered
    <2> QED
      BY <1>1, <2>1, <2>2
  <1> QED
    BY <1>2, <1>3, <1>4, <1>5, <1>6, <1>7, StepCases

LEMMA OopsStep ==
  ASSUME Facts, Next PROVE OnlyRmmodTears'
  <1> USE DEF fileVars, areaVars, pageVars, hist
  <1>1. CASE oops' = oops /\ (torn => torn')
    BY <1>1 DEF Facts, OnlyRmmodTears
  <1>2. ASSUME NEW u \in Users, Oops(u) PROVE OnlyRmmodTears'
    <2>1. fault[u] # None /\ ReleasedUnder(u)
      BY <1>2 DEF Oops
    <2>2. fault[u].area \in Areas /\ area[fault[u].area] # None
      BY <2>1 DEF Facts, Typed, FaultsInAreas
    <2>3. Endangered(fault[u].area)
      BY <2>1, <2>2 DEF Endangered, ReleasedUnder
    <2>4. torn
      BY <2>2, <2>3, TornIsEndangered DEF Facts
    <2> QED
      BY <1>2, <2>4 DEF Oops, OnlyRmmodTears
  <1>3. CASE LetsGo
    <2>1. OnlyLessened
      BY <1>3, LetsGoEffect
    <2> QED
      BY <1>1, <2>1 DEF OnlyLessened
  <1>4. CASE MapsArea
    <2>1. UNCHANGED <<oops, torn>>
      BY <1>4, MapsEffect
    <2> QED
      BY <1>1, <2>1
  <1>5. CASE Still /\ oops' = oops
    BY <1>1, <1>5 DEF Still
  <1>6. CASE Rmmod
    BY <1>1, <1>6 DEF Rmmod
  <1>7. CASE \/ \E f \in Files : my_open(f)
             \/ \E a \in Areas, o \in Offsets : Write(a, o) \/ \E u \in Users : Touch(u, a, o)
             \/ \E u \in Users : NoData(u) \/ WriteGreeting(u) \/ ReturnPage(u)
    <2>1. UNCHANGED <<oops, torn>>
      BY <1>7 DEF my_open, Write, Touch, NoData, WriteGreeting, ReturnPage
    <2> QED
      BY <1>1, <2>1
  <1> QED
    BY <1>2, <1>3, <1>4, <1>5, <1>6, <1>7, StepCases

-----------------------------------------------------------------------------
(* With the balance, the counts are natural numbers.                       *)
LEMMA TypedAndBalanced ==
  /\ Typed /\ PagesAccountedFor /\ oops \in BOOLEAN /\ torn \in BOOLEAN => TypeOK
  /\ Typed' /\ PagesAccountedFor' /\ oops' \in BOOLEAN /\ torn' \in BOOLEAN => TypeOK'
  <1>1. ASSUME Typed, PagesAccountedFor PROVE refs \in [Pages -> Nat]
    <2>1. \A g \in Pages : refs[g] \in Nat
      BY <1>1, EntriesFinite DEF PagesAccountedFor
    <2> QED
      BY <1>1, <2>1 DEF Typed
  <1>2. ASSUME Typed', PagesAccountedFor' PROVE refs' \in [Pages -> Nat]
    <2>1. \A g \in Pages : refs'[g] \in Nat
      BY <1>2, EntriesFinite DEF PagesAccountedFor
    <2> QED
      BY <1>2, <2>1 DEF Typed
  <1> QED
    BY <1>1, <1>2 DEF Typed, TypeOK

LEMMA FlagsStep ==
  ASSUME Next, oops \in BOOLEAN, torn \in BOOLEAN PROVE oops' \in BOOLEAN /\ torn' \in BOOLEAN
  <1> USE DEF fileVars, areaVars, pageVars, hist
  <1>1. CASE Rmmod
    BY <1>1 DEF Rmmod
  <1>2. CASE \E u \in Users : Oops(u)
    BY <1>2 DEF Oops
  <1>3. CASE UNCHANGED <<oops, torn>>
    BY <1>3
  <1>4. MapsArea \/ LetsGo => UNCHANGED <<oops, torn>>
    BY DEF MapsArea, my_mmap, Fork, LetsGo, Close, CloseOpened, Munmap, DontNeed
  <1>5. \/ Still /\ oops' = oops
        \/ \E f \in Files : my_open(f)
        \/ \E a \in Areas, o \in Offsets : Write(a, o) \/ \E u \in Users : Touch(u, a, o)
        \/ \E u \in Users : NoData(u) \/ WriteGreeting(u) \/ ReturnPage(u)
        => UNCHANGED <<oops, torn>>
    BY DEF Still, my_open, Write, Touch, NoData, WriteGreeting, ReturnPage
  <1> QED
    BY <1>1, <1>2, <1>3, <1>4, <1>5, StepCases

LEMMA MmapInit == Init => MmapInv
  <1> SUFFICES ASSUME Init PROVE MmapInv
    OBVIOUS
  <1>1. TypeOK
    BY MmapTypeInit
  <1>2. PagesAccountedFor
    <2>1. ASSUME NEW g \in Pages PROVE Entries(g) = {} /\ Owners(g) = {} /\ refs[g] = 0
      BY MmapAssumption DEF Init, Entries, Owners
    <2> QED
      BY <2>1, FS_EmptySet DEF PagesAccountedFor
  <1>3. Ownership /\ FaultsInAreas /\ OwnContent /\ WordsSurvive
    BY DEF Init, Ownership, FaultsInAreas, OwnContent, WordsSurvive
  <1>4. FirstFault
    BY DEF Init, FirstFault, FaultOn, MappedTo
  <1>5. ReleasedIsTorn
    BY DEF Init, ReleasedIsTorn
  <1>6. OnlyRmmodTears
    BY DEF Init, OnlyRmmodTears
  <1> QED
    BY <1>1, <1>2, <1>3, <1>4, <1>5, <1>6 DEF MmapInv

LEMMA MmapStep == MmapInv /\ [Next]_vars => MmapInv'
  <1> SUFFICES ASSUME MmapInv, [Next]_vars PROVE MmapInv'
    OBVIOUS
  <1>1. CASE Next
    <2>1. Facts
      BY FactsHold
    <2>2. Typed' /\ PagesAccountedFor'
      BY <1>1, MmapTypeStep, PagesStep
    <2>3. oops \in BOOLEAN /\ torn \in BOOLEAN
      BY DEF MmapInv, TypeOK
    <2>4. TypeOK'
      BY <1>1, <2>2, <2>3, FlagsStep, TypedAndBalanced
    <2>5. /\ Ownership' /\ FaultsInAreas' /\ OwnContent' /\ FirstFault'
          /\ WordsSurvive' /\ ReleasedIsTorn' /\ OnlyRmmodTears'
      BY <1>1, <2>1, OwnershipStep, FaultsStep, ContentStep, FirstFaultStep, WordsStep,
         TornStep, OopsStep
    <2> QED
      BY <2>2, <2>4, <2>5 DEF MmapInv
  <1>2. CASE UNCHANGED vars
    <2> USE <1>2 DEF vars, fileVars, areaVars, pageVars, hist
    <2>1. TypeOK'
      <3>1. Typed'
        BY DEF MmapInv, TypeOK, Typed, OptPages
      <3>2. refs' \in [Pages -> Nat] /\ oops' \in BOOLEAN /\ torn' \in BOOLEAN
        BY DEF MmapInv, TypeOK
      <3> QED
        BY <3>1, <3>2 DEF TypeOK, Typed
    <2>2. PagesAccountedFor'
      BY DEF MmapInv, PagesAccountedFor, Entries, Owners
    <2>3. Ownership' /\ FaultsInAreas' /\ OwnContent' /\ WordsSurvive'
      BY DEF MmapInv, Ownership, FaultsInAreas, OwnContent, WordsSurvive
    <2>4. FirstFault'
      BY DEF MmapInv, FirstFault, FaultOn, MappedTo
    <2>5. ReleasedIsTorn' /\ OnlyRmmodTears'
      BY DEF MmapInv, ReleasedIsTorn, OnlyRmmodTears
    <2> QED
      BY <2>1, <2>2, <2>3, <2>4, <2>5 DEF MmapInv
  <1> QED
    BY <1>1, <1>2

LEMMA MmapInvariance == Spec => []MmapInv
  BY MmapInit, MmapStep, PTL DEF Spec

(* The variables keep their types: no reference count goes below zero,     *)
(* though my_close and the page table give references up in any order.     *)
THEOREM MmapTypeCorrect == Spec => []TypeOK
  <1>1. MmapInv => TypeOK
    BY DEF MmapInv
  <1> QED
    BY <1>1, MmapInvariance, PTL

(* A page has a reference for its file and one for each place it is mapped *)
(* at: get_page in mmap_fault and free_page in my_close balance.           *)
THEOREM PagesAreAccountedFor == Spec => []PagesAccountedFor
  <1>1. MmapInv => PagesAccountedFor
    BY DEF MmapInv
  <1> QED
    BY <1>1, MmapInvariance, PTL

(* Through a mapping one sees the greeting of mmap_fault or the words      *)
(* written through the same open file, never another's.                    *)
THEOREM MappingsShowOwnContent == Spec => []OwnContent
  <1>1. MmapInv => OwnContent
    BY DEF MmapInv
  <1> QED
    BY <1>1, MmapInvariance, PTL

(* The strcpy of mmap_fault destroys nothing before the second fault on a  *)
(* file.                                                                   *)
THEOREM WordsOutliveOthers == Spec => []WordsSurvive
  <1>1. MmapInv => WordsSurvive
    BY DEF MmapInv
  <1> QED
    BY <1>1, MmapInvariance, PTL

(* mmap_fault runs after my_close only when rmmod ran with areas mapped.   *)
THEOREM FaultsFindTheirFile == Spec => []OnlyRmmodTears
  <1>1. MmapInv => OnlyRmmodTears
    BY DEF MmapInv
  <1> QED
    BY <1>1, MmapInvariance, PTL
=============================================================================
