--------------------------- MODULE HugePagesProofs --------------------------
(***************************************************************************)
(* Proofs about the files of the huge pages (HugePages.tla), for any page  *)
(* sizes, machines and requests: rte_eal_hugepage_init, when it succeeds,  *)
(* has given back every page it took and does not use, and at no step is a *)
(* page mapped twice.                                                      *)
(*                                                                         *)
(* The invariant follows the files from their creation on: those of the    *)
(* table and the stray ones, left by a failed mmap or flock, are all there *)
(* are and no file is both (Working), because the names of one size are    *)
(* counted up (Collecting) and a failure ends the count, so that no size   *)
(* has two stray files; the mappings that stay are those of the pages      *)
(* mapped again so far (Remapping).                                        *)
(***************************************************************************)
EXTENDS HugePages, SequenceTheorems, FiniteSetTheorems, TLAPS

Finite == INSTANCE FiniteSetTheorems

Table(t) == \E S : t \in Seq(S)
FilesIn(t, n) == {t[j].file : j \in 1 .. n}
VmFiles == {m.file : m \in vm}
AllFiles == FilesIn(tbl, Len(tbl))
StrayApart == \A f, g \in stray : f[1] = g[1] => f = g

Working ==
  /\ Table(tbl) /\ off \in 0 .. Len(tbl) /\ size \in 1 .. Len(Sizes) + 1
  /\ num \in [DOMAIN Sizes -> [Nodes -> Nat]]
  /\ \A j \in DOMAIN tbl : "file" \in DOMAIN tbl[j]
  /\ DOMAIN files = stray \cup AllFiles /\ stray \cap AllFiles = {}
  /\ \A f \in stray : /\ f[1] \in 1 .. size
                      /\ f[1] = size => size <= Len(Sizes) /\ Mapped = num[size][0]
  /\ StrayApart

Collecting ==
  /\ \A j \in 1 .. off : tbl[j].file[1] \in 1 .. size - 1
  /\ \A j \in off + 1 .. Len(tbl) : tbl[j].file = <<size, j - off - 1>>
  /\ IF size <= Len(Sizes) THEN Mapped <= num[size][0] ELSE Mapped = 0
  /\ VmFiles = FilesIn(tbl, off)

Remapping ==
  /\ \A j \in 1 .. Len(tbl) : tbl[j].file[1] \in 1 .. size
  /\ size <= Len(Sizes) /\ Mapped = num[size][0] /\ k \in 0 .. Mapped
  /\ VmFiles = FilesIn(tbl, off + k)

Complete ==
  /\ Table(tbl)
  /\ DOMAIN files = stray \cup AllFiles /\ stray \cap AllFiles = {} /\ VmFiles = AllFiles
  /\ StrayApart

Returned ==
  /\ DOMAIN files = stray \cup (IF conf.hugepage_unlink THEN {} ELSE VmFiles)
  /\ stray \cap VmFiles = {} /\ StrayApart

ConfFields == {"no_hugetlbfs", "memory", "socket_mem", "force_sockets", "hugepage_unlink"}

FilesInv ==
  /\ DOMAIN conf = ConfFields
  /\ pc \in {"start", "orig", "remap"} => Working
  /\ pc \in {"start", "orig"} => Collecting
  /\ pc = "remap" => Remapping
  /\ pc = "share" => Complete
  /\ pc \in {"fill", "done"} => conf.no_hugetlbfs \/ Returned

-----------------------------------------------------------------------------
(* Tables.                                                                 *)
LEMMA TableIs ==
  ASSUME NEW t, Table(t)
  PROVE  Len(t) \in Nat /\ DOMAIN t = 1 .. Len(t)
BY DEF Table

Longer(t, x) == Append(t, x)

LEMMA TableGrows ==
  ASSUME NEW t, Table(t), NEW x, NEW u, u = Longer(t, x)
  PROVE  /\ Table(u) /\ Len(u) = Len(t) + 1 /\ u[Len(t) + 1] = x
         /\ \A j \in 1 .. Len(t) : u[j] = t[j]
<1>1. PICK S : t \in Seq(S)
  BY DEF Table
<1> DEFINE T == S \cup {x}
<1>2. t \in Seq(T) /\ x \in T
  <2>1. Len(t) \in Nat /\ t \in [1 .. Len(t) -> S]
    BY <1>1
  <2>2. t \in [1 .. Len(t) -> T]
    BY <2>1
  <2> QED BY <2>1, <2>2, SeqDef
<1> HIDE DEF T
<1>3. u \in Seq(T) /\ Len(u) = Len(t) + 1 /\ u[Len(t) + 1] = x /\ \A j \in 1 .. Len(t) : u[j] = t[j]
  BY <1>2 DEF Longer
<1> QED BY <1>3 DEF Table

LEMMA TableRemade ==
  ASSUME NEW t, Table(t), NEW u, u = [j \in DOMAIN t |-> u[j]]
  PROVE  Table(u) /\ Len(u) = Len(t)
<1>1. Len(t) \in Nat /\ DOMAIN t = 1 .. Len(t)
  BY TableIs
<1> DEFINE T == {u[j] : j \in DOMAIN t}
<1>2. u \in [1 .. Len(t) -> T]
  BY <1>1
<1> HIDE DEF T
<1>3. u \in Seq(T)
  BY <1>1, <1>2, SeqDef
<1>4. Len(u) = Len(t)
  BY <1>1, <1>2, <1>3
<1> QED BY <1>3, <1>4 DEF Table

LEMMA FilesInIs ==
  \A t, n, f : f \in FilesIn(t, n) <=> \E j \in 1 .. n : f = t[j].file
BY DEF FilesIn

Reordered(new, pages, D) ==
  \E p \in [D -> D] : /\ \A d \in D : \E i \in D : p[i] = d
                      /\ new = [i \in D |-> pages[p[i]]]

LEMMA SortedIs ==
  ASSUME NEW pages, NEW D, D = DOMAIN pages, NEW new, new \in Sorted(pages)
  PROVE  Reordered(new, pages, D)
BY Zenon DEF Sorted, Reordered

LEMMA SizesFacts ==
  /\ Len(Sizes) \in Nat /\ DOMAIN Sizes = 1 .. Len(Sizes) /\ 0 \in Nodes
BY HugePagesAssumption DEF Nodes

-----------------------------------------------------------------------------
LEMMA FilesInit == HpInit => FilesInv
<1> SUFFICES ASSUME HpInit PROVE FilesInv
  OBVIOUS
<1>1. DOMAIN conf = ConfFields
  BY HugePagesAssumption DEF HpInit, ConfFields
<1>2. num \in [DOMAIN Sizes -> [Nodes -> Nat]]
  <2>1. ASSUME NEW i \in DOMAIN Sizes
        PROVE  Cardinality({f \in machine.frames : f.size = Sizes[i]}) \in Nat
    <3>1. IsFiniteSet(machine.frames)
      BY HugePagesAssumption DEF HpInit
    <3>2. IsFiniteSet({f \in machine.frames : f.size = Sizes[i]})
      BY <3>1, FS_Subset
    <3> QED BY <3>2, FS_CardinalityType
  <2> QED BY <2>1 DEF HpInit
<1>3. Table(tbl) /\ Len(tbl) = 0 /\ DOMAIN tbl = {}
  <2>1. tbl = <<>> /\ <<>> \in Seq({})
    BY DEF HpInit
  <2> QED BY <2>1 DEF Table
<1>4. AllFiles = {} /\ VmFiles = {} /\ FilesIn(tbl, off) = {}
  BY <1>3 DEF HpInit, AllFiles, VmFiles, FilesIn
<1>5. Working
  BY <1>2, <1>3, <1>4, SizesFacts DEF HpInit, Working, StrayApart
<1>6. Collecting
  BY <1>2, <1>3, <1>4, SizesFacts DEF HpInit, Collecting, Mapped
<1> QED BY <1>1, <1>5, <1>6 DEF FilesInv, HpInit

(* map_all_hugepages takes another page.  The name of its file is new.     *)
LEMMA NameIsNew ==
  ASSUME Working, Collecting, size <= Len(Sizes), Mapped < num[size][0]
  PROVE  ThisFile \notin stray /\ ThisFile \notin AllFiles
<1>1. /\ Len(tbl) \in Nat /\ off \in 0 .. Len(tbl) /\ Mapped = Len(tbl) - off /\ Mapped \in Nat
      /\ size \in 1 .. Len(Sizes) /\ num[size][0] \in Nat
  <2>1. Len(tbl) \in Nat
    BY TableIs DEF Working
  <2> QED BY <2>1, SizesFacts DEF Working, Mapped
<1>2. ThisFile[1] = size /\ ThisFile[2] = Mapped
  BY DEF ThisFile
<1>3. ThisFile \notin stray
  BY <1>1, <1>2 DEF Working
<1>4. ASSUME NEW j \in 1 .. Len(tbl), ThisFile = tbl[j].file
      PROVE  FALSE
  <2>1. CASE j \in 1 .. off
    <3>1. tbl[j].file[1] \in 1 .. size - 1
      BY <2>1 DEF Collecting
    <3> QED BY <1>1, <1>2, <1>4, <3>1
  <2>2. CASE j \in off + 1 .. Len(tbl)
    <3>1. ThisFile = <<size, j - off - 1>>
      BY <1>4, <2>2 DEF Collecting
    <3>2. ThisFile[2] = j - off - 1
      BY <3>1
    <3> QED BY <1>1, <1>2, <2>2, <3>2
  <2> QED BY <1>1, <2>1, <2>2
<1> QED BY <1>3, <1>4, FilesInIs DEF AllFiles

LEMMA MapOrigPageKeeps ==
  ASSUME FilesInv, MapOrigPage
  PROVE  FilesInv'
<1>1. /\ pc = "orig" /\ pc' = pc /\ conf' = conf /\ size <= Len(Sizes) /\ Mapped < num[size][0]
      /\ num' = num /\ size' = size /\ off' = off /\ vm' = vm /\ stray' = stray
  BY DEF MapOrigPage
<1>2. Working /\ Collecting
  BY <1>1 DEF FilesInv
<1>3. ThisFile \notin stray /\ ThisFile \notin AllFiles
  BY <1>1, <1>2, NameIsNew
<1> DEFINE x == [ZeroPage EXCEPT !.size = Sizes[size], !.file = ThisFile]
           n == Len(tbl)
<1>4. "file" \in DOMAIN x /\ x.file = ThisFile
  BY DEF ZeroPage
<1>5. tbl' = Append(tbl, x) /\ DOMAIN files' = DOMAIN files \cup {ThisFile}
  BY DEF MapOrigPage, Created
<1> HIDE DEF x
<1>6. /\ Table(tbl) /\ n \in Nat /\ DOMAIN tbl = 1 .. n /\ off \in 0 .. n
      /\ Table(tbl') /\ Len(tbl') = n + 1 /\ tbl'[n + 1] = x /\ \A j \in 1 .. n : tbl'[j] = tbl[j]
  <2>1. Table(tbl) /\ n \in Nat /\ DOMAIN tbl = 1 .. n /\ off \in 0 .. n
    BY <1>2, TableIs DEF Working
  <2>2. /\ Table(tbl') /\ Len(tbl') = n + 1 /\ tbl'[n + 1] = x
        /\ \A j \in 1 .. n : tbl'[j] = tbl[j]
    <3>1. tbl' = Longer(tbl, x)
      BY <1>5 DEF Longer
    <3> QED BY <2>1, <3>1, TableGrows
  <2> QED BY <2>1, <2>2
<1>7. DOMAIN tbl' = 1 .. n + 1
  BY <1>6, TableIs
<1> HIDE DEF n
<1>8. AllFiles' = AllFiles \cup {ThisFile}
  <2>1. ASSUME NEW f
        PROVE  f \in FilesIn(tbl', n + 1) <=> f \in FilesIn(tbl, n) \cup {ThisFile}
    BY <1>4, <1>6, FilesInIs
  <2>2. FilesIn(tbl', n + 1) = FilesIn(tbl, n) \cup {ThisFile}
    BY <2>1
  <2> QED BY <1>6, <2>2 DEF AllFiles, n
<1>9. Working'
  <2>1. \A j \in DOMAIN tbl' : "file" \in DOMAIN tbl'[j]
    BY <1>2, <1>4, <1>6, <1>7 DEF Working
  <2>2. DOMAIN files' = stray' \cup AllFiles' /\ stray' \cap AllFiles' = {}
    BY <1>1, <1>2, <1>3, <1>5, <1>8 DEF Working
  <2>3. off' \in 0 .. Len(tbl')
    BY <1>1, <1>6
  <2>4. /\ \A f \in stray : f[1] \in 1 .. size /\ f[1] # size
        /\ StrayApart'
    <3>1. num[size][0] \in Nat /\ Mapped \in Nat
      BY <1>1, <1>2, <1>6, SizesFacts DEF Working, Mapped, n
    <3> QED BY <1>1, <1>2, <3>1 DEF Working, StrayApart
  <2> QED BY <1>1, <1>2, <1>6, <2>1, <2>2, <2>3, <2>4 DEF Working
<1>10. Collecting'
  <2>1. \A j \in 1 .. off : tbl'[j].file[1] \in 1 .. size - 1
    <3>1. \A j \in 1 .. off : tbl'[j] = tbl[j]
      BY <1>6
    <3>2. \A j \in 1 .. off : tbl[j].file[1] \in 1 .. size - 1
      BY <1>2 DEF Collecting
    <3> QED BY <3>1, <3>2
  <2>2. \A j \in off + 1 .. n + 1 : tbl'[j].file = <<size, j - off - 1>>
    <3>1. ThisFile = <<size, n + 1 - off - 1>>
      <4>1. Mapped = n - off
        BY DEF Mapped, n
      <4>2. n - off = n + 1 - off - 1
        BY <1>6
      <4> QED BY <4>1, <4>2, Zenon DEF ThisFile
    <3>2. \A j \in off + 1 .. n : tbl'[j].file = <<size, j - off - 1>>
      <4>1. \A j \in off + 1 .. n : tbl'[j] = tbl[j]
        BY <1>6
      <4>2. \A j \in off + 1 .. n : tbl[j].file = <<size, j - off - 1>>
        BY <1>2 DEF Collecting, n
      <4> QED BY <4>1, <4>2
    <3> QED BY <1>4, <1>6, <3>1, <3>2
  <2>3. Mapped' <= num[size][0]
    <3>1. num[size][0] \in Nat
      BY <1>1, <1>2, SizesFacts DEF Working
    <3> QED BY <1>1, <1>6, <3>1 DEF Mapped, n
  <2>4. VmFiles' = FilesIn(tbl', off)
    <3>1. FilesIn(tbl', off) = FilesIn(tbl, off)
      BY <1>6 DEF FilesIn
    <3> QED BY <1>1, <1>2, <3>1 DEF Collecting, VmFiles
  <2> QED BY <1>1, <1>6, <2>1, <2>2, <2>3, <2>4 DEF Collecting
<1> QED BY <1>1, <1>9, <1>10 DEF FilesInv

LEMMA OrigPageFailsKeeps ==
  ASSUME FilesInv, OrigPageFails
  PROVE  FilesInv'
<1>1. /\ pc = "orig" /\ pc' = pc /\ conf' = conf /\ size <= Len(Sizes) /\ Mapped < num[size][0]
      /\ num' = [num EXCEPT ![size][0] = Mapped] /\ size' = size /\ off' = off /\ vm' = vm
      /\ tbl' = tbl /\ Mapped' = Mapped /\ AllFiles' = AllFiles /\ VmFiles' = VmFiles
  BY DEF OrigPageFails, Mapped, AllFiles, VmFiles
<1>2. Working /\ Collecting
  BY <1>1 DEF FilesInv
<1>3. ThisFile \notin stray /\ ThisFile \notin AllFiles
  BY <1>1, <1>2, NameIsNew
<1>4. \/ files' = files /\ stray' = stray
      \/ DOMAIN files' = DOMAIN files \cup {ThisFile} /\ stray' = stray \cup {ThisFile}
  BY DEF OrigPageFails, Created
<1>5. /\ size \in 1 .. Len(Sizes) /\ Mapped \in Nat /\ num[size][0] \in Nat
      /\ num' \in [DOMAIN Sizes -> [Nodes -> Nat]] /\ num'[size][0] = Mapped
  <2>1. Len(tbl) \in Nat /\ off \in 0 .. Len(tbl)
    BY <1>2, TableIs DEF Working
  <2>2. Mapped \in Nat
    BY <2>1 DEF Mapped
  <2>3. size \in DOMAIN Sizes /\ size \in 1 .. Len(Sizes) /\ 0 \in Nodes
    BY <1>1, <1>2, SizesFacts DEF Working
  <2>4. num \in [DOMAIN Sizes -> [Nodes -> Nat]]
    BY <1>2 DEF Working
  <2> QED BY <1>1, <2>2, <2>3, <2>4
<1>6. DOMAIN files' = stray' \cup AllFiles /\ stray' \cap AllFiles = {}
  BY <1>2, <1>3, <1>4 DEF Working
<1>7. /\ \A f \in stray : f[1] \in 1 .. size /\ f[1] # size
      /\ \A f, g \in stray : f[1] = g[1] => f = g
      /\ ThisFile[1] = size
  BY <1>1, <1>2, <1>5 DEF Working, StrayApart, ThisFile
<1>8. Working'
  <2>1. \A f \in stray' : f[1] \in 1 .. size
    BY <1>4, <1>5, <1>7
  <2>2. StrayApart'
    BY <1>4, <1>7 DEF StrayApart
  <2> QED BY <1>1, <1>2, <1>5, <1>6, <2>1, <2>2 DEF Working
<1>9. Collecting'
  BY <1>1, <1>2, <1>5 DEF Collecting
<1> QED BY <1>1, <1>8, <1>9 DEF FilesInv

LEMMA NextSizeKeeps ==
  ASSUME FilesInv, NoPages \/ RemapDone
  PROVE  FilesInv'
<1>1. /\ pc' = "orig" /\ size' = size + 1 /\ conf' = conf /\ num' = num /\ tbl' = tbl
      /\ files' = files /\ vm' = vm /\ stray' = stray /\ AllFiles' = AllFiles /\ VmFiles' = VmFiles
  BY DEF NoPages, RemapDone, AllFiles, VmFiles
<1>2. Working /\ size <= Len(Sizes)
  BY DEF FilesInv, NoPages, RemapDone, Remapping
<1>3. Len(tbl) \in Nat /\ off \in 0 .. Len(tbl) /\ size \in 1 .. Len(Sizes) /\ Len(Sizes) \in Nat
  BY <1>2, TableIs, SizesFacts DEF Working
<1>4. /\ off' = Len(tbl) /\ VmFiles = FilesIn(tbl, Len(tbl))
      /\ \A j \in 1 .. Len(tbl) : tbl[j].file[1] \in 1 .. size
  <2>1. CASE NoPages
    <3>1. Collecting /\ num[size][0] = 0 /\ off' = off
      BY <2>1 DEF NoPages, FilesInv
    <3>2. off = Len(tbl)
      BY <1>2, <1>3, <3>1 DEF Collecting, Mapped
    <3>3. \A j \in 1 .. Len(tbl) : tbl[j].file[1] \in 1 .. size - 1
      BY <3>1, <3>2 DEF Collecting
    <3> QED BY <1>3, <3>1, <3>2, <3>3 DEF Collecting
  <2>2. CASE RemapDone
    <3>1. Remapping /\ k = num[size][0] /\ off' = Len(tbl)
      BY <2>2 DEF RemapDone, FilesInv
    <3>2. off + k = Len(tbl)
      BY <1>3, <3>1 DEF Remapping, Mapped
    <3> QED BY <3>1, <3>2 DEF Remapping
  <2> QED BY <2>1, <2>2
<1>5. size' \in 1 .. Len(Sizes) + 1 /\ off' \in 0 .. Len(tbl)
  BY <1>1, <1>3, <1>4
<1>6. ASSUME NEW f \in stray
      PROVE  f[1] \in 1 .. size' /\ f[1] # size'
  <2>1. f[1] \in 1 .. size
    BY <1>2 DEF Working
  <2> QED BY <1>1, <1>3, <2>1
<1>7. Working'
  BY <1>1, <1>2, <1>5, <1>6 DEF Working, StrayApart
<1>8. Collecting'
  <2>1. Mapped' = 0
    BY <1>1, <1>3, <1>4 DEF Mapped
  <2>2. size' <= Len(Sizes) => num[size'][0] \in Nat
    <3>1. num \in [DOMAIN Sizes -> [Nodes -> Nat]] /\ DOMAIN Sizes = 1 .. Len(Sizes) /\ 0 \in Nodes
      BY <1>2, SizesFacts DEF Working
    <3> QED BY <1>1, <1>3, <3>1
  <2>3. \A j \in 1 .. Len(tbl) : tbl[j].file[1] \in 1 .. size' - 1
    BY <1>1, <1>3, <1>4
  <2>4. ~\E j \in Len(tbl) + 1 .. Len(tbl) : TRUE
    BY <1>3
  <2>5. size' <= Len(Sizes) => 0 <= num[size'][0]
    BY <2>2
  <2> QED BY <1>1, <1>4, <2>1, <2>3, <2>4, <2>5 DEF Collecting
<1> QED BY <1>1, <1>7, <1>8 DEF FilesInv

(* find_physaddrs, find_numasocket and qsort: the same files, in another   *)
(* order.                                                                  *)
Moved(p, n) ==
  /\ p \in [1 .. Mapped -> 1 .. Mapped] /\ \A d \in 1 .. Mapped : \E i \in 1 .. Mapped : p[i] = d
  /\ Table(tbl') /\ Len(tbl') = n /\ DOMAIN tbl' = 1 .. n
  /\ \A i \in 1 .. off : tbl'[i] = tbl[i]
  /\ \A i \in 1 .. Mapped : /\ tbl'[off + i].file = tbl[off + p[i]].file
                            /\ "file" \in DOMAIN tbl'[off + i]

LEMMA Parts ==
  ASSUME Working, NEW n, n = Len(tbl)
  PROVE  /\ Table(tbl) /\ n \in Nat /\ DOMAIN tbl = 1 .. n /\ off \in 0 .. n
         /\ Mapped = n - off /\ Mapped \in Nat
         /\ \A j \in 1 .. n : j \in 1 .. off \/ \E i \in 1 .. Mapped : j = off + i
         /\ \A i \in 1 .. Mapped : off + i \in 1 .. n
<1>1. Table(tbl) /\ n \in Nat /\ DOMAIN tbl = 1 .. n /\ off \in 0 .. n
  BY TableIs DEF Working
<1>2. Mapped = n - off /\ Mapped \in Nat
  BY <1>1 DEF Mapped
<1>3. ASSUME NEW j \in 1 .. n
      PROVE  j \in 1 .. off \/ \E i \in 1 .. Mapped : j = off + i
  <2>1. j \in 1 .. off \/ (j - off \in 1 .. Mapped /\ j = off + (j - off))
    BY <1>1, <1>2
  <2> QED BY <2>1
<1>4. \A i \in 1 .. Mapped : off + i \in 1 .. n
  BY <1>1, <1>2
<1> QED BY <1>1, <1>2, <1>3, <1>4

LEMMA IdentifyMoves ==
  ASSUME Working, Identify, pc' = "remap", NEW n, n = Len(tbl)
  PROVE  \E p : Moved(p, n)
<1> DEFINE old == [i \in 1 .. Mapped |-> Identified(off + i)]
<1>1. PICK new \in Sorted(old) :
        tbl' = [i \in DOMAIN tbl |-> IF i <= off THEN tbl[i] ELSE new[i - off]]
  BY DEF Identify
<1>2. /\ Table(tbl) /\ n \in Nat /\ DOMAIN tbl = 1 .. n /\ off \in 0 .. n
      /\ Mapped \in Nat /\ \A i \in 1 .. Mapped : off + i \in 1 .. n
  BY Parts
<1>3. \A i \in 1 .. Mapped : old[i].file = tbl[off + i].file /\ "file" \in DOMAIN old[i]
  <2>1. ASSUME NEW i \in 1 .. Mapped
        PROVE  Identified(off + i).file = tbl[off + i].file /\ "file" \in DOMAIN Identified(off + i)
    <3>1. "file" \in DOMAIN tbl[off + i]
      BY <1>2 DEF Working
    <3> QED BY <3>1 DEF Identified
  <2> QED BY <2>1
<1>4. new \in Sorted(old) /\ 1 .. Mapped = DOMAIN old
  BY <1>1
<1> HIDE DEF old
<1>5. PICK p \in [1 .. Mapped -> 1 .. Mapped] :
        /\ \A d \in 1 .. Mapped : \E i \in 1 .. Mapped : p[i] = d
        /\ new = [i \in 1 .. Mapped |-> old[p[i]]]
  <2>1. Reordered(new, old, 1 .. Mapped)
    BY <1>4, SortedIs
  <2> QED BY <2>1, Zenon DEF Reordered
<1>6. \A i \in 1 .. off : tbl'[i] = tbl[i]
  <2>1. \A i \in 1 .. off : i \in DOMAIN tbl /\ i <= off
    BY <1>2
  <2> QED BY <1>1, <2>1
<1>7. ASSUME NEW i \in 1 .. Mapped
      PROVE  tbl'[off + i].file = tbl[off + p[i]].file /\ "file" \in DOMAIN tbl'[off + i]
  <2>1. off + i \in DOMAIN tbl /\ ~(off + i <= off) /\ (off + i) - off = i
    <3>1. off \in Nat /\ i \in Nat /\ i >= 1
      BY <1>2
    <3>2. ~(off + i <= off) /\ (off + i) - off = i
      BY <3>1
    <3> QED BY <1>2, <3>2
  <2>2. tbl'[off + i] = new[i]
    BY <1>1, <2>1
  <2>3. new[i] = old[p[i]] /\ p[i] \in 1 .. Mapped
    BY <1>5
  <2> QED BY <1>3, <2>2, <2>3
<1>8. Table(tbl') /\ Len(tbl') = n /\ DOMAIN tbl' = 1 .. n
  <2>1. tbl' = [j \in DOMAIN tbl |-> tbl'[j]]
    BY <1>1
  <2>2. Table(tbl') /\ Len(tbl') = n
    BY <1>2, <2>1, TableRemade
  <2> QED BY <2>2, TableIs
<1> QED BY <1>5, <1>6, <1>7, <1>8 DEF Moved

LEMMA IdentifyKeeps ==
  ASSUME FilesInv, Identify
  PROVE  FilesInv'
<1>1. /\ pc = "orig" /\ size <= Len(Sizes) /\ Mapped = num[size][0]
      /\ size' = size /\ conf' = conf /\ num' = num /\ off' = off /\ k' = 0
      /\ files' = files /\ vm' = vm /\ stray' = stray /\ VmFiles' = VmFiles
  BY DEF Identify, VmFiles
<1>2. Working /\ Collecting
  BY <1>1 DEF FilesInv
<1>3. CASE pc' = "failed"
  BY <1>1, <1>3 DEF FilesInv
<1>4. CASE pc' = "remap"
  <2> DEFINE n == Len(tbl)
  <2>1. PICK p : Moved(p, n)
    BY <1>2, <1>4, IdentifyMoves
  <2>2. /\ Table(tbl) /\ n \in Nat /\ DOMAIN tbl = 1 .. n /\ off \in 0 .. n
        /\ Mapped = n - off /\ Mapped \in Nat /\ size \in 1 .. Len(Sizes)
        /\ \A j \in 1 .. n : j \in 1 .. off \/ \E i \in 1 .. Mapped : j = off + i
        /\ \A i \in 1 .. Mapped : off + i \in 1 .. n
    <3>1. size \in 1 .. Len(Sizes)
      BY <1>1, <1>2, SizesFacts DEF Working
    <3> QED BY <1>2, <3>1, Parts
  <2> HIDE DEF n
  <2>3. /\ \A i \in 1 .. off : tbl'[i] = tbl[i]
        /\ \A i \in 1 .. Mapped : /\ tbl'[off + i].file = tbl[off + p[i]].file
                                  /\ "file" \in DOMAIN tbl'[off + i] /\ p[i] \in 1 .. Mapped
        /\ \A d \in 1 .. Mapped : \E i \in 1 .. Mapped : p[i] = d
        /\ Table(tbl') /\ Len(tbl') = n /\ DOMAIN tbl' = 1 .. n
    BY <2>1 DEF Moved
  <2>4. ASSUME NEW j \in 1 .. n
        PROVE  \E i \in 1 .. n : tbl'[j].file = tbl[i].file /\ "file" \in DOMAIN tbl'[j]
    <3>1. CASE j \in 1 .. off
      BY <1>2, <2>2, <2>3, <3>1 DEF Working
    <3>2. CASE j \notin 1 .. off
      <4>1. PICK i \in 1 .. Mapped : j = off + i
        BY <2>2, <3>2
      <4>2. off + p[i] \in 1 .. n
        BY <2>2, <2>3
      <4> QED BY <2>3, <4>1, <4>2
    <3> QED BY <3>1, <3>2
  <2>5. ASSUME NEW j \in 1 .. n
        PROVE  \E i \in 1 .. n : tbl[j].file = tbl'[i].file
    <3>1. CASE j \in 1 .. off
      BY <2>3, <3>1
    <3>2. CASE j \notin 1 .. off
      <4>1. PICK d \in 1 .. Mapped : j = off + d
        BY <2>2, <3>2
      <4>2. PICK i \in 1 .. Mapped : p[i] = d
        BY <2>3
      <4>3. tbl'[off + i].file = tbl[j].file /\ off + i \in 1 .. n
        BY <2>2, <2>3, <4>1, <4>2
      <4> QED BY <4>3
    <3> QED BY <3>1, <3>2
  <2>6. AllFiles' = AllFiles
    <3>1. ASSUME NEW f
          PROVE  f \in FilesIn(tbl', n) <=> f \in FilesIn(tbl, n)
      <4>1. ASSUME f \in FilesIn(tbl', n)
            PROVE  f \in FilesIn(tbl, n)
        <5>1. PICK j \in 1 .. n : f = tbl'[j].file
          BY <4>1, FilesInIs
        <5> QED BY <2>4, <5>1, FilesInIs
      <4>2. ASSUME f \in FilesIn(tbl, n)
            PROVE  f \in FilesIn(tbl', n)
        <5>1. PICK j \in 1 .. n : f = tbl[j].file
          BY <4>2, FilesInIs
        <5> QED BY <2>5, <5>1, FilesInIs
      <4> QED BY <4>1, <4>2
    <3>2. FilesIn(tbl', n) = FilesIn(tbl, n)
      BY <3>1
    <3> QED BY <2>3, <3>2 DEF AllFiles, n
  <2>7. Working'
    <3>1. \A j \in DOMAIN tbl' : "file" \in DOMAIN tbl'[j]
      BY <2>3, <2>4
    <3>2. off' \in 0 .. Len(tbl')
      BY <1>1, <2>2, <2>3
    <3>3. Mapped' = Mapped
      BY <1>1, <2>2, <2>3 DEF Mapped
    <3> QED BY <1>1, <1>2, <2>3, <2>6, <3>1, <3>2, <3>3 DEF Working, StrayApart
  <2>8. Remapping'
    <3>1. ASSUME NEW i \in 1 .. n
          PROVE  tbl[i].file[1] \in 1 .. size
      <4>1. CASE i \in 1 .. off
        <5>1. tbl[i].file[1] \in 1 .. size - 1
          BY <1>2, <4>1 DEF Collecting
        <5> QED BY <2>2, <5>1
      <4>2. CASE i \in off + 1 .. n
        <5>1. tbl[i].file = <<size, i - off - 1>>
          BY <1>2, <4>2 DEF Collecting, n
        <5> QED BY <2>2, <5>1
      <4> QED BY <2>2, <4>1, <4>2
    <3>2. \A j \in 1 .. n : tbl'[j].file[1] \in 1 .. size
      BY <2>4, <3>1
    <3>3. VmFiles' = FilesIn(tbl', off)
      <4>1. FilesIn(tbl', off) = FilesIn(tbl, off)
        <5>1. \A i \in 1 .. off : tbl'[i] = tbl[i]
          BY <2>3
        <5> QED BY <5>1 DEF FilesIn
      <4> QED BY <1>1, <1>2, <4>1 DEF Collecting
    <3>4. Mapped' = Mapped /\ off + 0 = off /\ 0 \in 0 .. Mapped
      BY <1>1, <2>2, <2>3 DEF Mapped
    <3> QED BY <1>1, <2>3, <3>2, <3>3, <3>4 DEF Remapping
  <2> QED BY <1>1, <1>4, <2>7, <2>8 DEF FilesInv
<1> QED BY <1>3, <1>4 DEF Identify

(* map_all_hugepages maps a page again: its file has a mapping that stays. *)
LEMMA RemapPageKeeps ==
  ASSUME FilesInv, RemapPage
  PROVE  FilesInv'
<1>1. /\ pc = "remap" /\ pc' = pc /\ k < num[size][0] /\ k' = k + 1 /\ conf' = conf /\ num' = num
      /\ size' = size /\ off' = off /\ files' = files /\ stray' = stray
  BY DEF RemapPage
<1>2. Working /\ Remapping
  BY <1>1 DEF FilesInv
<1> DEFINE n == Len(tbl)
           c == off + k + 1
<1>3. PICK at : /\ vm' = vm \cup {[at |-> at, file |-> Page.file, frame |-> files[Page.file]]}
                /\ tbl' = [tbl EXCEPT ![off + k + 1].final = at]
  BY DEF RemapPage
<1>4. /\ Table(tbl) /\ n \in Nat /\ DOMAIN tbl = 1 .. n /\ off \in 0 .. n /\ c \in 1 .. n
      /\ Mapped = n - off /\ k \in 0 .. Mapped /\ k + 1 \in 0 .. Mapped /\ off + (k + 1) = c
      /\ c - 1 = off + k
  <2>1. Table(tbl) /\ n \in Nat /\ DOMAIN tbl = 1 .. n /\ off \in 0 .. n
    BY <1>2, TableIs DEF Working
  <2>2. Mapped = n - off /\ k \in 0 .. Mapped /\ k < Mapped
    BY <1>1, <1>2 DEF Mapped, Remapping
  <2> QED BY <2>1, <2>2
<1>5. /\ DOMAIN tbl' = DOMAIN tbl /\ tbl' = [j \in DOMAIN tbl |-> tbl'[j]]
      /\ \A j \in 1 .. n : tbl'[j].file = tbl[j].file /\ "file" \in DOMAIN tbl'[j]
  <2>1. \A j \in 1 .. n : "file" \in DOMAIN tbl[j]
    BY <1>2, <1>4 DEF Working
  <2> QED BY <1>3, <1>4, <2>1
<1>6. Table(tbl') /\ Len(tbl') = n
  BY <1>4, <1>5, TableRemade
<1>7. VmFiles' = VmFiles \cup {tbl[c].file}
  <2>1. Page.file = tbl[c].file
    BY DEF Page
  <2> DEFINE m == [at |-> at, file |-> Page.file, frame |-> files[Page.file]]
  <2>2. vm' = vm \cup {m} /\ m.file = tbl[c].file
    BY <1>3, <2>1
  <2> HIDE DEF m, c
  <2>3. \A f : f \in VmFiles' <=> f \in VmFiles \/ f = tbl[c].file
    BY <2>2 DEF VmFiles
  <2> QED BY <2>3
<1> HIDE DEF n, c
<1>8. AllFiles' = AllFiles
  <2>1. FilesIn(tbl', n) = FilesIn(tbl, n)
    BY <1>5 DEF FilesIn
  <2> QED BY <1>6, <2>1 DEF AllFiles, n
<1>9. VmFiles' = FilesIn(tbl', c)
  <2>1. VmFiles = FilesIn(tbl, c - 1)
    BY <1>2, <1>4 DEF Remapping
  <2>2. ASSUME NEW f
        PROVE  f \in FilesIn(tbl', c) <=> f \in FilesIn(tbl, c - 1) \cup {tbl[c].file}
    <3>1. 1 .. c = (1 .. c - 1) \cup {c} /\ \A j \in 1 .. c : j \in 1 .. n
      BY <1>4
    <3>2. f \in FilesIn(tbl', c) <=> \E j \in 1 .. c : f = tbl[j].file
      BY <1>5, <3>1, FilesInIs
    <3> QED BY <3>1, <3>2, FilesInIs
  <2>3. FilesIn(tbl', c) = FilesIn(tbl, c - 1) \cup {tbl[c].file}
    BY <2>2
  <2> QED BY <1>7, <2>1, <2>3
<1>10. Working'
  <2>1. \A j \in DOMAIN tbl' : "file" \in DOMAIN tbl'[j]
    BY <1>4, <1>5
  <2>2. Mapped' = Mapped
    BY <1>1, <1>4, <1>6 DEF Mapped, n
  <2> QED BY <1>1, <1>2, <1>4, <1>6, <1>8, <2>1, <2>2 DEF Working, StrayApart
<1>11. Remapping'
  <2>1. \A j \in 1 .. n : tbl'[j].file[1] \in 1 .. size
    BY <1>2, <1>5 DEF Remapping, n
  <2>2. Mapped' = Mapped /\ k' \in 0 .. Mapped /\ off' + k' = c
    BY <1>1, <1>4, <1>6 DEF Mapped
  <2> QED BY <1>1, <1>2, <1>6, <1>9, <2>1, <2>2 DEF Remapping
<1> QED BY <1>1, <1>10, <1>11 DEF FilesInv

(* unmap_unneeded_hugepages and unlink_hugepage_files.                     *)
LEMMA SharePagesKeeps ==
  ASSUME FilesInv, SharePages
  PROVE  FilesInv'
<1>1. pc = "share" /\ conf' = conf /\ stray' = stray /\ pc' \in {"failed", "fill"} /\ Complete
  BY DEF SharePages, FilesInv
<1>2. CASE pc' = "failed"
  BY <1>1, <1>2 DEF FilesInv
<1>3. CASE pc' = "fill"
  <2> DEFINE kept == {j \in DOMAIN tbl : Needed(j)}
             gone == {tbl[j].file : j \in DOMAIN tbl \ kept}
  <2>1. vm' = {m \in vm : m.file \notin gone} /\ DOMAIN files' = DOMAIN files \ Unlinked(gone)
    BY <1>3 DEF SharePages
  <2>2. gone \subseteq AllFiles
    <3>1. DOMAIN tbl = 1 .. Len(tbl)
      BY <1>1, TableIs DEF Complete
    <3> QED BY <3>1 DEF AllFiles, FilesIn
  <2> HIDE DEF gone
  <2>3. VmFiles' = VmFiles \ gone
    <3>1. \A f : f \in VmFiles' <=> f \in VmFiles /\ f \notin gone
      BY <2>1 DEF VmFiles
    <3> QED BY <3>1
  <2>4. /\ DOMAIN files = stray \cup AllFiles /\ stray \cap AllFiles = {} /\ VmFiles = AllFiles
        /\ StrayApart'
    BY <1>1 DEF Complete, StrayApart
  <2>5. Returned'
    <3>1. CASE conf.hugepage_unlink
      <4>1. DOMAIN files' = stray
        BY <2>1, <2>4, <3>1 DEF Unlinked
      <4> QED BY <1>1, <2>3, <2>4, <3>1, <4>1 DEF Returned
    <3>2. CASE ~conf.hugepage_unlink
      <4>1. DOMAIN files' = stray \cup (AllFiles \ gone)
        BY <2>1, <2>2, <2>4, <3>2 DEF Unlinked
      <4> QED BY <1>1, <2>3, <2>4, <3>2, <4>1 DEF Returned
    <3> QED BY <3>1, <3>2
  <2> QED BY <1>1, <1>3, <2>5 DEF FilesInv
<1> QED BY <1>1, <1>2, <1>3

(* calc_num_pages_per_socket counts; the files stay as they are.           *)
LEMMA CountPagesKeeps ==
  ASSUME FilesInv, CountPages
  PROVE  FilesInv'
<1>1. /\ pc = "orig" /\ size > Len(Sizes) /\ pc' \in {"share", "failed_short"}
      /\ tbl' = tbl /\ files' = files /\ stray' = stray /\ vm' = vm
      /\ \E total : conf' = [conf EXCEPT !.memory = total]
  BY DEF CountPages
<1>2. DOMAIN conf' = ConfFields
  BY <1>1 DEF FilesInv
<1>3. Working /\ Collecting /\ Len(tbl) \in Nat /\ off \in 0 .. Len(tbl) /\ size \in 1 .. Len(Sizes) + 1
  BY <1>1, TableIs DEF FilesInv, Working
<1>4. off = Len(tbl)
  <2>1. ~(size <= Len(Sizes))
    BY <1>1, <1>3, SizesFacts
  <2>2. Mapped = 0
    BY <1>3, <2>1 DEF Collecting
  <2> QED BY <1>3, <2>2 DEF Mapped
<1>5. Complete
  BY <1>3, <1>4 DEF Complete, Working, Collecting, AllFiles
<1>6. Complete'
  BY <1>1, <1>5 DEF Complete, AllFiles, VmFiles, StrayApart
<1> QED BY <1>1, <1>2, <1>6 DEF FilesInv

LEMMA StartKeeps ==
  ASSUME FilesInv, Start
  PROVE  FilesInv'
<1>1. /\ pc = "start" /\ pc' \in {"failed", "done", "orig"} /\ (pc' = "done" => conf.no_hugetlbfs)
      /\ conf' = conf /\ mapping' = mapping /\ files' = files /\ vm' = vm /\ stray' = stray
  BY DEF Start
<1>2. Working /\ Collecting
  BY <1>1 DEF FilesInv
<1>3. Working' /\ Collecting'
  BY <1>1, <1>2 DEF Working, Collecting, mapping, Mapped, AllFiles, VmFiles, StrayApart
<1> QED BY <1>1, <1>3 DEF FilesInv

(* The steps that touch neither the files nor the mappings of the primary. *)
LEMMA OthersKeep ==
  ASSUME FilesInv, RemapFails \/ FillMemsegs \/ AttachOpen \/ ReserveSegment \/ ReserveDone
                     \/ MapSegment \/ Attached \/ UNCHANGED hp_vars
  PROVE  FilesInv'
<1>1. /\ conf' = conf /\ mapping' = mapping /\ files' = files /\ vm' = vm /\ stray' = stray
      /\ \/ pc' = pc
         \/ pc = "fill" /\ pc' = "done"
         \/ pc' \in {"failed", "failed_segs"}
  BY DEF RemapFails, FillMemsegs, AttachOpen, ReserveSegment, ReserveDone, MapSegment, Attached, hp_vars
<1>2. /\ Working' <=> Working
      /\ Collecting' <=> Collecting
      /\ Remapping' <=> Remapping
      /\ Complete' <=> Complete
      /\ Returned' <=> Returned
  <2>1. /\ size' = size /\ tbl' = tbl /\ off' = off /\ k' = k /\ num' = num
        /\ AllFiles' = AllFiles /\ VmFiles' = VmFiles /\ Mapped' = Mapped
    BY <1>1 DEF mapping, AllFiles, VmFiles, Mapped
  <2>2. Working' <=> Working
    BY <1>1, <2>1 DEF Working, StrayApart
  <2>3. (Collecting' <=> Collecting) /\ (Remapping' <=> Remapping)
    BY <1>1, <2>1 DEF Collecting, Remapping
  <2>4. (Complete' <=> Complete) /\ (Returned' <=> Returned)
    BY <1>1, <2>1 DEF Complete, Returned, StrayApart
  <2> QED BY <2>2, <2>3, <2>4
<1> QED BY <1>1, <1>2 DEF FilesInv

-----------------------------------------------------------------------------
(* Frames.  A frame has one file and a file one entry of the table, so a   *)
(* page that is mapped again is not mapped yet.  Only a stray file may be  *)
(* without a frame.                                                        *)
OneToOne == \A f, g \in DOMAIN files : files[f] = files[g] /\ files[f] # NoFrame => f = g
Backed == \A f \in DOMAIN files \ stray : files[f] # NoFrame
MapsTrue == \A m \in vm : m.file \in DOMAIN files /\ m.frame = files[m.file]
NamesApart == \A i, j \in 1 .. Len(tbl) : i # j => tbl[i].file # tbl[j].file

FramesInv ==
  /\ OneToOne /\ Backed /\ FramesApart
  /\ pc \in {"start", "orig", "remap", "share"} => MapsTrue
  /\ pc \in {"start", "orig", "remap"} => NamesApart

LEMMA FramesInit == HpInit => FramesInv
<1> SUFFICES ASSUME HpInit PROVE FramesInv
  OBVIOUS
<1>1. files = <<>> /\ vm = {} /\ tbl = <<>>
  BY DEF HpInit
<1>2. DOMAIN files = {} /\ Len(tbl) = 0
  BY <1>1
<1> QED BY <1>1, <1>2 DEF FramesInv, OneToOne, Backed, FramesApart, MapsTrue, NamesApart

LEMMA CandidateIsFrame ==
  ASSUME size \in 1 .. Len(Sizes), NEW f \in Candidates
  PROVE  f # NoFrame /\ f \notin Taken
<1>1. f.size = Sizes[size] /\ f \notin Taken
  BY DEF Candidates
<1>2. Sizes[size] # 0
  BY HugePagesAssumption
<1> QED BY <1>1, <1>2 DEF NoFrame

LEMMA CreatedKeeps ==
  ASSUME OneToOne, MapsTrue, NEW f, f = NoFrame \/ f \notin Taken, files' = Created(f), vm' = vm,
         ThisFile \notin DOMAIN files
  PROVE  OneToOne' /\ MapsTrue'
<1>1. f # NoFrame => \A g \in DOMAIN files : files[g] # f
  BY DEF Taken
<1>2. /\ DOMAIN files' = DOMAIN files \cup {ThisFile} /\ files'[ThisFile] = f
      /\ \A g \in DOMAIN files : files'[g] = files[g]
  BY DEF Created
<1>3. OneToOne'
  BY <1>1, <1>2 DEF OneToOne
<1>4. MapsTrue'
  BY <1>2 DEF MapsTrue
<1> QED BY <1>3, <1>4

LEMMA OrigFramesKeep ==
  ASSUME FilesInv, FramesInv, MapOrigPage \/ OrigPageFails
  PROVE  FramesInv'
<1>1. pc = "orig" /\ pc' = pc /\ size <= Len(Sizes) /\ Mapped < num[size][0] /\ vm' = vm
  BY DEF MapOrigPage, OrigPageFails
<1>2. Working /\ Collecting /\ OneToOne /\ Backed /\ FramesApart /\ MapsTrue /\ NamesApart
  BY <1>1 DEF FilesInv, FramesInv
<1>3. ThisFile \notin stray /\ ThisFile \notin AllFiles
  BY <1>1, <1>2, NameIsNew
<1>4. ThisFile \notin DOMAIN files
  BY <1>2, <1>3 DEF Working
<1>5. \/ files' = files /\ stray' = stray
      \/ \E f \in Candidates \cup {NoFrame} :
           /\ files' = Created(f)
           /\ (stray' = stray /\ f \in Candidates) \/ stray' = stray \cup {ThisFile}
  BY DEF MapOrigPage, OrigPageFails
<1>6. OneToOne' /\ MapsTrue' /\ Backed'
  <2>1. CASE files' = files /\ stray' = stray
    BY <1>1, <1>2, <2>1 DEF OneToOne, MapsTrue, Backed
  <2>2. ASSUME NEW f \in Candidates \cup {NoFrame}, files' = Created(f),
               (stray' = stray /\ f \in Candidates) \/ stray' = stray \cup {ThisFile}
        PROVE  OneToOne' /\ MapsTrue' /\ Backed'
    <3>1. size \in 1 .. Len(Sizes)
      BY <1>1, <1>2, SizesFacts DEF Working
    <3>2. f \in Candidates => f # NoFrame /\ f \notin Taken
      BY <3>1, CandidateIsFrame
    <3>3. OneToOne' /\ MapsTrue'
      BY <1>1, <1>2, <1>4, <2>2, <3>2, CreatedKeeps
    <3>4. Backed'
      BY <1>2, <1>4, <2>2, <3>2 DEF Backed, Created
    <3> QED BY <3>3, <3>4
  <2> QED BY <1>5, <2>1, <2>2
<1>7. NamesApart'
  <2>1. CASE OrigPageFails
    BY <1>2, <2>1 DEF OrigPageFails, NamesApart
  <2>2. CASE MapOrigPage
    <3> DEFINE x == [ZeroPage EXCEPT !.size = Sizes[size], !.file = ThisFile]
               n == Len(tbl)
    <3>1. x.file = ThisFile
      BY DEF ZeroPage
    <3>2. tbl' = Longer(tbl, x)
      BY <2>2 DEF MapOrigPage, Longer
    <3> HIDE DEF x
    <3>3. /\ n \in Nat /\ Len(tbl') = n + 1 /\ tbl'[n + 1] = x /\ \A j \in 1 .. n : tbl'[j] = tbl[j]
      <4>1. Table(tbl) /\ n \in Nat
        BY <1>2, TableIs DEF Working
      <4> QED BY <3>2, <4>1, TableGrows
    <3>4. \A j \in 1 .. n : tbl[j].file # ThisFile
      BY <1>3, FilesInIs DEF AllFiles
    <3>5. \A i, j \in 1 .. n : i # j => tbl[i].file # tbl[j].file
      BY <1>2 DEF NamesApart
    <3> HIDE DEF n
    <3>6. ASSUME NEW i \in 1 .. n + 1, NEW j \in 1 .. n + 1, i # j
          PROVE  tbl'[i].file # tbl'[j].file
      <4>1. (i \in 1 .. n \/ i = n + 1) /\ (j \in 1 .. n \/ j = n + 1)
        BY <3>3
      <4>2. CASE i \in 1 .. n /\ j \in 1 .. n
        BY <3>3, <3>5, <3>6, <4>2
      <4>3. CASE i \in 1 .. n /\ j = n + 1
        BY <3>1, <3>3, <3>4, <4>3
      <4>4. CASE i = n + 1 /\ j \in 1 .. n
        BY <3>1, <3>3, <3>4, <4>4
      <4> QED BY <3>6, <4>1, <4>2, <4>3, <4>4
    <3> QED BY <3>3, <3>6 DEF NamesApart
  <2> QED BY <2>1, <2>2
<1>8. FramesApart'
  BY <1>1, <1>2 DEF FramesApart
<1> QED BY <1>1, <1>6, <1>7, <1>8 DEF FramesInv

LEMMA OntoIsOneToOne ==
  ASSUME NEW n \in Nat, NEW p \in [1 .. n -> 1 .. n],
         \A d \in 1 .. n : \E i \in 1 .. n : p[i] = d,
         NEW i \in 1 .. n, NEW j \in 1 .. n, i # j
  PROVE  p[i] # p[j]
<1> DEFINE S == 1 .. n
<1>1. Finite!IsFiniteSet(S)
  BY Finite!FS_Interval
<1>2. p \in Finite!Surjection(S, S)
  BY DEF Finite!Surjection
<1>3. p \in Finite!Injection(S, S)
  <2> HIDE DEF S
  <2> QED BY <1>1, <1>2, Finite!FS_SurjSameCardinalityImpliesInj
<1> QED BY <1>3 DEF Finite!Injection, Finite!IsInjective

LEMMA IdentifyFramesKeep ==
  ASSUME FilesInv, FramesInv, Identify
  PROVE  FramesInv'
<1>1. /\ pc = "orig" /\ pc' \in {"failed", "remap"} /\ files' = files /\ vm' = vm /\ off' = off
      /\ stray' = stray
  BY DEF Identify
<1>2. Working /\ OneToOne /\ Backed /\ FramesApart /\ MapsTrue /\ NamesApart
  BY <1>1 DEF FilesInv, FramesInv
<1>3. OneToOne' /\ Backed' /\ FramesApart' /\ MapsTrue'
  BY <1>1, <1>2 DEF OneToOne, Backed, FramesApart, MapsTrue
<1>4. ASSUME pc' = "remap"
      PROVE  NamesApart'
  <2> DEFINE n == Len(tbl)
  <2>1. PICK p : Moved(p, n)
    BY <1>2, <1>4, IdentifyMoves
  <2>2. /\ n \in Nat /\ off \in 0 .. n /\ Mapped = n - off /\ Mapped \in Nat
        /\ \A j \in 1 .. n : j \in 1 .. off \/ \E i \in 1 .. Mapped : j = off + i
        /\ \A i \in 1 .. Mapped : off + i \in 1 .. n
    BY <1>2, Parts
  <2>3. \A i, j \in 1 .. n : i # j => tbl[i].file # tbl[j].file
    BY <1>2 DEF NamesApart
  <2> HIDE DEF n
  <2>4. /\ \A i \in 1 .. off : tbl'[i] = tbl[i]
        /\ \A i \in 1 .. Mapped : tbl'[off + i].file = tbl[off + p[i]].file /\ p[i] \in 1 .. Mapped
        /\ Len(tbl') = n
    BY <2>1 DEF Moved
  <2>5. \A i, j \in 1 .. Mapped : i # j => p[i] # p[j]
    <3>1. p \in [1 .. Mapped -> 1 .. Mapped] /\ \A d \in 1 .. Mapped : \E i \in 1 .. Mapped : p[i] = d
      BY <2>1 DEF Moved
    <3> QED BY <2>2, <3>1, OntoIsOneToOne, Zenon
  <2>6. ASSUME NEW i \in 1 .. off, NEW e \in 1 .. Mapped
        PROVE  tbl'[i].file # tbl'[off + e].file
    <3>1. i \in 1 .. n /\ off + p[e] \in 1 .. n /\ i # off + p[e]
      BY <2>2, <2>4
    <3> QED BY <2>3, <2>4, <3>1
  <2>7. ASSUME NEW d \in 1 .. Mapped, NEW e \in 1 .. Mapped, d # e
        PROVE  tbl'[off + d].file # tbl'[off + e].file
    <3>1. p[d] \in 1 .. Mapped /\ p[e] \in 1 .. Mapped /\ p[d] # p[e]
      BY <2>4, <2>5, <2>7
    <3>2. off + p[d] \in 1 .. n /\ off + p[e] \in 1 .. n /\ off + p[d] # off + p[e]
      BY <2>2, <3>1
    <3> QED BY <2>3, <2>4, <3>2
  <2>8. ASSUME NEW i \in 1 .. off, NEW j \in 1 .. off, i # j
        PROVE  tbl'[i].file # tbl'[j].file
    <3>1. i \in 1 .. n /\ j \in 1 .. n
      BY <2>2
    <3> QED BY <2>3, <2>4, <2>8, <3>1
  <2>9. ASSUME NEW i \in 1 .. n, NEW j \in 1 .. n, i # j
        PROVE  tbl'[i].file # tbl'[j].file
    BY <2>2, <2>6, <2>7, <2>8, <2>9
  <2> QED BY <2>4, <2>9 DEF NamesApart
<1> QED BY <1>1, <1>3, <1>4 DEF FramesInv

LEMMA RemapFramesKeep ==
  ASSUME FilesInv, FramesInv, RemapPage
  PROVE  FramesInv'
<1>1. /\ pc = "remap" /\ pc' = pc /\ k < num[size][0] /\ files' = files /\ off' = off
      /\ stray' = stray
  BY DEF RemapPage
<1>2. Working /\ Remapping /\ OneToOne /\ Backed /\ FramesApart /\ MapsTrue /\ NamesApart
  BY <1>1 DEF FilesInv, FramesInv
<1> DEFINE n == Len(tbl)
           c == off + k + 1
           g == tbl[c].file
<1>3. PICK at : /\ vm' = vm \cup {[at |-> at, file |-> Page.file, frame |-> files[Page.file]]}
                /\ tbl' = [tbl EXCEPT ![off + k + 1].final = at]
  BY DEF RemapPage
<1> DEFINE new == [at |-> at, file |-> g, frame |-> files[g]]
<1>4. /\ Table(tbl) /\ n \in Nat /\ DOMAIN tbl = 1 .. n /\ c \in 1 .. n /\ c - 1 = off + k
  <2>1. Table(tbl) /\ n \in Nat /\ DOMAIN tbl = 1 .. n /\ off \in 0 .. n
    BY <1>2, TableIs DEF Working
  <2>2. Mapped = n - off /\ k \in 0 .. Mapped /\ k < Mapped
    BY <1>1, <1>2 DEF Mapped, Remapping
  <2> QED BY <2>1, <2>2
<1>5. /\ DOMAIN tbl' = DOMAIN tbl /\ tbl' = [j \in DOMAIN tbl |-> tbl'[j]]
      /\ \A j \in 1 .. n : tbl'[j].file = tbl[j].file
  <2>1. \A j \in 1 .. n : "file" \in DOMAIN tbl[j]
    BY <1>2, <1>4 DEF Working
  <2> QED BY <1>3, <1>4, <2>1
<1>6. Len(tbl') = n
  BY <1>4, <1>5, TableRemade
<1>7. vm' = vm \cup {new} /\ new.file = g /\ new.frame = files[g]
  BY <1>3 DEF Page
<1> HIDE DEF new
<1>8. NamesApart'
  BY <1>2, <1>5, <1>6 DEF NamesApart
<1>9. g \in DOMAIN files /\ files[g] # NoFrame
  <2>1. g \in AllFiles
    BY <1>4, FilesInIs DEF AllFiles
  <2> QED BY <1>2, <2>1 DEF Working, Backed
<1>10. g \notin VmFiles
  <2>1. VmFiles = FilesIn(tbl, c - 1)
    BY <1>2, <1>4 DEF Remapping
  <2>2. \A j \in 1 .. c - 1 : j \in 1 .. n /\ j # c
    BY <1>4
  <2>3. \A j \in 1 .. c - 1 : tbl[j].file # g
    BY <1>2, <1>4, <2>2 DEF NamesApart
  <2> HIDE DEF g, c
  <2> QED BY <2>1, <2>3, FilesInIs
<1> HIDE DEF g
<1>11. \A m \in vm : m.file # g /\ m.frame # files[g]
  <2>1. \A m \in vm : m.file # g
    BY <1>10 DEF VmFiles
  <2> QED BY <1>2, <1>9, <2>1 DEF MapsTrue, OneToOne
<1>12. FramesApart'
  BY <1>2, <1>7, <1>11 DEF FramesApart
<1>13. MapsTrue' /\ OneToOne' /\ Backed'
  BY <1>1, <1>2, <1>7, <1>9 DEF MapsTrue, OneToOne, Backed
<1> QED BY <1>1, <1>8, <1>12, <1>13 DEF FramesInv

LEMMA ShareFramesKeep ==
  ASSUME FramesInv, SharePages
  PROVE  FramesInv'
<1>1. pc' \in {"failed", "fill"} /\ vm' \subseteq vm /\ stray' = stray
  BY DEF SharePages
<1>2. DOMAIN files' \subseteq DOMAIN files /\ \A f \in DOMAIN files' : files'[f] = files[f]
  BY DEF SharePages
<1>3. OneToOne' /\ Backed' /\ FramesApart'
  BY <1>1, <1>2 DEF FramesInv, OneToOne, Backed, FramesApart
<1> QED BY <1>1, <1>3 DEF FramesInv

LEMMA OtherFramesKeep ==
  ASSUME FramesInv, Start \/ NoPages \/ RemapDone \/ RemapFails \/ CountPages \/ FillMemsegs
                      \/ AttachOpen \/ ReserveSegment \/ ReserveDone \/ MapSegment \/ Attached
                      \/ UNCHANGED hp_vars
  PROVE  FramesInv'
<1>1. /\ files' = files /\ vm' = vm /\ tbl' = tbl /\ stray' = stray
      /\ \/ pc' = pc
         \/ pc \in {"start", "remap"} /\ pc' = "orig"
         \/ pc = "orig" /\ pc' = "share"
         \/ pc' \in {"done", "failed", "failed_short", "failed_segs"}
  BY DEF Start, NoPages, RemapDone, RemapFails, CountPages, FillMemsegs, AttachOpen, ReserveSegment,
         ReserveDone, MapSegment, Attached, hp_vars, mapping
<1>2. /\ OneToOne' <=> OneToOne
      /\ Backed' <=> Backed
      /\ FramesApart' <=> FramesApart
      /\ MapsTrue' <=> MapsTrue
      /\ NamesApart' <=> NamesApart
  BY <1>1 DEF OneToOne, Backed, FramesApart, MapsTrue, NamesApart
<1> QED BY <1>1, <1>2 DEF FramesInv

-----------------------------------------------------------------------------
(* The invariant holds in all behaviours of rte_eal_hugepage_init and      *)
(* rte_eal_hugepage_attach: no file is created twice, and which files      *)
(* exist is known at every step (eal_memory.c).                            *)
THEOREM FilesInvariant == HpSpec => []FilesInv
<1>1. FilesInv /\ [HpNext]_hp_vars => FilesInv'
  <2> SUFFICES ASSUME FilesInv, [HpNext]_hp_vars
               PROVE  FilesInv'
    OBVIOUS
  <2>1. CASE Start
    BY <2>1, StartKeeps
  <2>2. CASE MapOrigPage
    BY <2>2, MapOrigPageKeeps
  <2>3. CASE OrigPageFails
    BY <2>3, OrigPageFailsKeeps
  <2>4. CASE NoPages \/ RemapDone
    BY <2>4, NextSizeKeeps
  <2>5. CASE Identify
    BY <2>5, IdentifyKeeps
  <2>6. CASE RemapPage
    BY <2>6, RemapPageKeeps
  <2>7. CASE CountPages
    BY <2>7, CountPagesKeeps
  <2>8. CASE SharePages
    BY <2>8, SharePagesKeeps
  <2>9. CASE RemapFails \/ FillMemsegs \/ AttachOpen \/ ReserveSegment \/ ReserveDone
               \/ MapSegment \/ Attached \/ UNCHANGED hp_vars
    BY <2>9, OthersKeep
  <2> QED BY <2>1, <2>2, <2>3, <2>4, <2>5, <2>6, <2>7, <2>8, <2>9 DEF HpNext
<1> QED BY <1>1, FilesInit, PTL DEF HpSpec

(* PagesReturned holds for any machine, page sizes and request: when       *)
(* rte_eal_hugepage_init succeeds, hugetlbfs holds the files of the pages  *)
(* it uses (none when they are unlinked) and, of each page size, at most   *)
(* one file that a failed mmap or a failed flock left.                     *)
THEOREM PagesGivenBack == HpSpec => []PagesReturned
<1>1. FilesInv => PagesReturned
  <2> SUFFICES ASSUME FilesInv, UsesHugePages
               PROVE  PagesReturned
    BY DEF PagesReturned
  <2>1. Returned
    BY DEF FilesInv, UsesHugePages
  <2> QED BY <2>1 DEF PagesReturned, Returned, VmFiles, StrayApart
<1> QED BY <1>1, FilesInvariant, PTL

(* FramesApart holds for any machine, page sizes and request, at every     *)
(* step: no huge page is mapped twice by the second pass of                *)
(* map_all_hugepages, however the kernel chose frames and addresses and    *)
(* however the table was sorted.                                           *)
THEOREM FramesMappedOnce == HpSpec => []FramesApart
<1>1. FilesInv /\ FramesInv /\ [HpNext]_hp_vars => FramesInv'
  <2> SUFFICES ASSUME FilesInv, FramesInv, [HpNext]_hp_vars
               PROVE  FramesInv'
    OBVIOUS
  <2>1. CASE MapOrigPage \/ OrigPageFails
    BY <2>1, OrigFramesKeep
  <2>2. CASE Identify
    BY <2>2, IdentifyFramesKeep
  <2>3. CASE RemapPage
    BY <2>3, RemapFramesKeep
  <2>4. CASE SharePages
    BY <2>4, ShareFramesKeep
  <2>5. CASE Start \/ NoPages \/ RemapDone \/ RemapFails \/ CountPages \/ FillMemsegs
               \/ AttachOpen \/ ReserveSegment \/ ReserveDone \/ MapSegment \/ Attached
               \/ UNCHANGED hp_vars
    BY <2>5, OtherFramesKeep
  <2> QED BY <2>1, <2>2, <2>3, <2>4, <2>5 DEF HpNext
<1>2. FramesInv => FramesApart
  BY DEF FramesInv
<1> QED BY <1>1, <1>2, FramesInit, FilesInvariant, PTL DEF HpSpec
=============================================================================
