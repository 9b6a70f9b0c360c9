--------------------------- MODULE RegistryProofs ---------------------------
(***************************************************************************)
(* Proofs about creating, freeing and listing rings and mempools           *)
(* (Registry.tla), for any callers, names, places and number of chunks.    *)
(*                                                                         *)
(* The invariant says of every list entry where it is, also while calls    *)
(* are under way: TesSound for the entries, LocksSound for the locks under *)
(* which they are moved, LocalsOf and NameOf for the locals of the calls.  *)
(* RegistryZoneProofs goes on with the memory behind the lists.            *)
(***************************************************************************)
EXTENDS Registry, FiniteSetTheorems, SequenceTheorems, WellFoundedInduction, TLAPS

-----------------------------------------------------------------------------
(* Where a caller can be.                                                  *)
Creating == {"rc_te", "rc_lock", "rc_zone"}
Freeing == {"rf_zone", "rf_unlink", "rf_te"}
PoolPcs == {"pc_lock", "populate", "pool_ring", "phy", "phy_fail", "fail",
            "pf_unlink", "pf_chunks", "pf_zone"}
FreePcs == {"idle", "pc_te", "pc_zone", "rings", "pools"}
Pcs == Creating \cup Freeing \cup PoolPcs \cup FreePcs

Words == {"RG", "MP"} \cup RingNames \cup PoolNames \cup Nat
Locals == [pc : Pcs, te : Tes \cup {Nil}, mp : Addrs \cup {Nil}, ring : Addrs \cup {Nil},
           chunk : Addrs \cup {Nil}, name : Seq(Words), pos : Nat]
Entry == [te : Tes, data : Addrs]
Lock == [w : Callers \cup {NoOne}, r : SUBSET Callers]

RegTypes ==
  /\ qlock \in Lock /\ mplock \in Lock
  /\ zone \in [Addrs -> Seq(Words)] /\ te_used \in SUBSET Tes
  /\ ring_list \in Seq(Entry) /\ pool_list \in Seq(Entry)
  /\ pool \in [Addrs -> [ring : Addrs \cup {Nil}, chunks : SUBSET Addrs]]
  /\ loc \in [Callers -> Locals]
  /\ owned \in SUBSET ({"ring", "pool"} \X Addrs)

HasChunk(t) ==
  loc[t].pc \in {"pool_ring", "phy", "phy_fail"} \/ (loc[t].pc \in Creating /\ InPool(t))
HasTe(t) == loc[t].pc \in {"rc_lock", "rc_zone", "rf_te", "pc_zone", "pc_lock"}

(* What the locals of a caller are worth.                                  *)
LocalsOf(t) ==
  LET c == loc[t]
  IN /\ c.pc \in PoolPcs => InPool(t)
     /\ c.pc \in FreePcs => ~InPool(t)
     /\ c.pc \in {"rf_zone", "rf_unlink"} => c.ring # Nil
     /\ HasChunk(t) => c.chunk # Nil
     /\ HasTe(t) => c.te # Nil
     /\ c.pc \in {"rings", "pools"} => c.pos # 0

(* The name that it works with.                                            *)
MP(n) == <<"MP", n>>
RGMP(n) == <<"RG", "MP", n>>
Chunk(n, k) == <<"MP", n, k>>
NameOf(t) ==
  LET c == loc[t]
  IN /\ c.pc \in {"pc_te", "pc_zone", "pc_lock", "populate", "pool_ring"} =>
          \E n \in PoolNames : c.name = MP(n)
     /\ c.pc \in Creating =>
          IF InPool(t) THEN \E n \in PoolNames : c.name = RGMP(n)
          ELSE \E n \in RingNames : c.name = <<"RG", n>>
     /\ c.pc = "phy" => \E n \in PoolNames : c.name \in {MP(n), RGMP(n)}

(* The list entries.                                                       *)
TesOf(list) == {e.te : e \in Entries(list)}
HeldTes == {loc[t].te : t \in {u \in Callers : HasTe(u)}}
Single(list) == \A i, j \in DOMAIN list : list[i].te = list[j].te => i = j
TesSound ==
  /\ Single(ring_list) /\ Single(pool_list)
  /\ TesOf(ring_list) \cap TesOf(pool_list) = {}
  /\ HeldTes \cap (TesOf(ring_list) \cup TesOf(pool_list)) = {}
  /\ \A t, u \in Callers : HasTe(t) /\ HasTe(u) /\ loc[t].te = loc[u].te => t = u
  /\ te_used = TesOf(ring_list) \cup TesOf(pool_list) \cup HeldTes

(* The locks.                                                              *)
LocksSound ==
  /\ qlock.w # NoOne => qlock.r = {}
  /\ \A t \in Callers :
       /\ qlock.w = t <=> loc[t].pc = "rc_zone"
       /\ mplock.w = t <=> loc[t].pc \in {"pc_te", "pc_zone", "pc_lock"}
       /\ loc[t].pc = "rings" =>
            t \in qlock.r /\ (loc[t].te # Nil => loc[t].te \in TesOf(ring_list))

ListInv ==
  /\ RegTypes /\ (\A t \in Callers : LocalsOf(t) /\ NameOf(t))
  /\ TesSound /\ LocksSound

-----------------------------------------------------------------------------
(* The lists.                                                              *)
LEMMA AppendList ==
  ASSUME NEW s \in Seq(Entry), NEW e \in Entry, Single(s), e.te \notin TesOf(s)
  PROVE  /\ Append(s, e) \in Seq(Entry) /\ Single(Append(s, e))
         /\ Entries(Append(s, e)) = Entries(s) \cup {e}
         /\ TesOf(Append(s, e)) = TesOf(s) \cup {e.te}
  <1> DEFINE a == Append(s, e)
  <1>1. /\ a \in Seq(Entry) /\ Len(a) = Len(s) + 1
        /\ \A i \in 1 .. Len(s) : a[i] = s[i]
        /\ a[Len(s) + 1] = e
    OBVIOUS
  <1>2. DOMAIN a = DOMAIN s \cup {Len(s) + 1} /\ DOMAIN s = 1 .. Len(s) /\ Len(s) \in Nat
    BY <1>1
  <1> HIDE DEF a
  <1>3. Entries(a) = Entries(s) \cup {e}
    BY <1>1, <1>2 DEF Entries
  <1>4. TesOf(a) = TesOf(s) \cup {e.te}
    BY <1>3 DEF TesOf
  <1>5. \A i \in DOMAIN s : s[i].te # e.te
    BY DEF TesOf, Entries
  <1>6. Single(a)
    BY <1>1, <1>2, <1>5 DEF Single
  <1> QED BY <1>1, <1>3, <1>4, <1>6 DEF a

(* The positions of a list of n entries once that at i is dropped.         *)
LEMMA Positions ==
  ASSUME NEW n \in Nat, NEW i \in 1 .. n
  PROVE  /\ (IF i + 1 <= n THEN n - (i + 1) + 1 ELSE 0) = n - i
         /\ n - (i + 1) + 1 = n - i
         /\ \A j \in 1 .. n - i : (i + 1) + j - 1 = i + j
         /\ (i - 1) + (n - i) = n - 1
         /\ \A j \in 1 .. n - 1 : j <= i - 1 <=> j < i
         /\ \A j \in 1 .. n - 1 : ~(j < i) => j - (i - 1) \in 1 .. n - i /\ i + (j - (i - 1)) = j + 1
         /\ \A j \in 1 .. n - 1 : j < i => j \in 1 .. i - 1
         /\ \A j \in 1 .. n - 1 : j \in 1 .. n /\ j + 1 \in 1 .. n
  OBVIOUS

LEMMA DropList ==
  ASSUME NEW s \in Seq(Entry), NEW i \in DOMAIN s, Single(s)
  PROVE  /\ Drop(s, i) \in Seq(Entry) /\ Single(Drop(s, i))
         /\ s[i] \in Entry /\ s[i] \in Entries(s)
         /\ Entries(Drop(s, i)) = Entries(s) \ {s[i]}
         /\ TesOf(Drop(s, i)) = TesOf(s) \ {s[i].te}
  <1> DEFINE a == SubSeq(s, 1, i - 1)
             b == SubSeq(s, i + 1, Len(s))
             d == Drop(s, i)
  <1>1. i \in 1 .. Len(s) /\ Len(s) \in Nat /\ DOMAIN s = 1 .. Len(s) /\ \A j \in 1 .. Len(s) : s[j] \in Entry
    OBVIOUS
  <1>2. a \in Seq(Entry) /\ Len(a) = i - 1 /\ \A j \in 1 .. i - 1 : a[j] = s[j]
    BY <1>1, SubSeqProperties
  <1>3. b \in Seq(Entry) /\ Len(b) = Len(s) - i /\ \A j \in 1 .. Len(s) - i : b[j] = s[i + j]
    <2>1. \A j \in i + 1 .. Len(s) : s[j] \in Entry
      BY <1>1
    <2>2. /\ b \in Seq(Entry)
          /\ Len(b) = IF i + 1 <= Len(s) THEN Len(s) - (i + 1) + 1 ELSE 0
          /\ \A j \in 1 .. Len(s) - (i + 1) + 1 : b[j] = s[(i + 1) + j - 1]
      BY <1>1, <2>1, SubSeqProperties
    <2> HIDE DEF b
    <2>3. Len(b) = Len(s) - i
      BY <1>1, <2>2, Positions
    <2>4. ASSUME NEW j \in 1 .. Len(s) - i PROVE b[j] = s[i + j]
      <3>1. b[j] = s[(i + 1) + j - 1]
        BY <1>1, <2>2, Positions
      <3>2. (i + 1) + j - 1 = i + j
        BY <1>1
      <3> QED BY <3>1, <3>2
    <2> QED BY <2>2, <2>3, <2>4
  <1> HIDE DEF a, b
  <1>4. /\ d \in Seq(Entry) /\ Len(d) = Len(s) - 1
        /\ \A j \in 1 .. Len(s) - 1 : d[j] = IF j < i THEN s[j] ELSE s[j + 1]
    <2>1. d = a \o b
      BY DEF Drop, a, b
    <2>2. /\ d \in Seq(Entry) /\ Len(d) = Len(a) + Len(b)
          /\ \A j \in 1 .. Len(a) + Len(b) : d[j] = IF j <= Len(a) THEN a[j] ELSE b[j - Len(a)]
      BY <1>2, <1>3, <2>1, ConcatProperties
    <2> HIDE DEF d
    <2>3. Len(d) = Len(s) - 1
      BY <1>1, <1>2, <1>3, <2>2, Positions
    <2>4. ASSUME NEW j \in 1 .. Len(s) - 1, j < i
          PROVE  d[j] = s[j]
      BY <1>1, <1>2, <1>3, <2>2, <2>3, <2>4, Positions
    <2>5. ASSUME NEW j \in 1 .. Len(s) - 1, ~(j < i)
          PROVE  d[j] = s[j + 1]
      <3>1. ~(j <= Len(a)) /\ j \in 1 .. Len(a) + Len(b) /\ Len(a) = i - 1
        BY <1>1, <1>2, <1>3, <2>5
      <3>2. d[j] = b[j - (i - 1)]
        BY <2>2, <3>1
      <3>3. j - (i - 1) \in 1 .. Len(s) - i /\ i + (j - (i - 1)) = j + 1
        BY <1>1, <2>5
      <3> QED BY <1>3, <3>2, <3>3
    <2> QED BY <2>2, <2>3, <2>4, <2>5
  <1> HIDE DEF d
  <1>5. DOMAIN d = 1 .. Len(s) - 1
    BY <1>1, <1>4
  <1>6. Single(d)
    <2> SUFFICES ASSUME NEW j \in DOMAIN d, NEW k \in DOMAIN d, d[j].te = d[k].te
                 PROVE  j = k
      BY DEF Single
    <2> DEFINE to(m) == IF m < i THEN m ELSE m + 1
    <2>1. \A m \in DOMAIN d : to(m) \in DOMAIN s /\ d[m] = s[to(m)]
      BY <1>1, <1>4, <1>5
    <2>2. to(j) = to(k)
      <3> HIDE DEF to
      <3> QED BY <2>1 DEF Single
    <2> QED BY <1>1, <1>5, <2>2
  <1>7. \A j \in DOMAIN s \ {i} : s[j].te # s[i].te
    BY DEF Single
  <1>8. Entries(d) = {s[j] : j \in DOMAIN s \ {i}}
    <2>1. \A j \in DOMAIN d : \E k \in DOMAIN s \ {i} : d[j] = s[k]
      BY <1>1, <1>4, <1>5
    <2>2. \A k \in DOMAIN s \ {i} : \E j \in DOMAIN d : d[j] = s[k]
      <3> TAKE k \in DOMAIN s \ {i}
      <3>1. CASE k < i
        <4>1. k \in DOMAIN d /\ d[k] = s[k]
          BY <1>1, <1>4, <1>5, <3>1
        <4> QED BY <4>1
      <3>2. CASE k > i
        <4>1. k - 1 \in DOMAIN d /\ d[k - 1] = s[k]
          BY <1>1, <1>4, <1>5, <3>2
        <4> QED BY <4>1
      <3> QED BY <1>1, <3>1, <3>2
    <2> QED BY <2>1, <2>2 DEF Entries
  <1>9. Entries(d) = Entries(s) \ {s[i]}
    BY <1>7, <1>8 DEF Entries
  <1>10. TesOf(d) = TesOf(s) \ {s[i].te}
    <2>1. TesOf(d) = {s[j].te : j \in DOMAIN s \ {i}}
      BY <1>8 DEF TesOf
    <2>2. TesOf(s) = {s[j].te : j \in DOMAIN s}
      BY DEF TesOf, Entries
    <2> QED BY <1>7, <2>1, <2>2
  <1> QED BY <1>1, <1>4, <1>6, <1>9, <1>10 DEF Entries, d

LEMMA FindEntry ==
  ASSUME NEW s \in Seq(Entry), NEW x, Find(s, x) # 0
  PROVE  Find(s, x) \in DOMAIN s /\ s[Find(s, x)].data = x
  <1> DEFINE S == {i \in DOMAIN s : s[i].data = x}
             R == OpToRel(<, Nat)
  <1>1. S # {} /\ Find(s, x) = CHOOSE i \in S : \A j \in S : i <= j
    BY DEF Find
  <1>2. S \subseteq Nat
    OBVIOUS
  <1>3. \E i \in S : \A j \in S : ~(<<j, i>> \in R)
    <2> HIDE DEF S, R
    <2>1. IsWellFoundedOn(R, Nat)
      BY NatLessThanWellFounded DEF R
    <2> QED BY <1>1, <1>2, <2>1, WFMin
  <1>4. \E i \in S : \A j \in S : i <= j
    <2>1. PICK i \in S : \A j \in S : ~(<<j, i>> \in R)
      BY <1>3
    <2>2. ASSUME NEW j \in S PROVE i <= j
      <3>1. ~(j < i)
        BY <1>2, <2>1 DEF OpToRel
      <3> QED BY <1>2, <3>1
    <2> QED BY <2>2
  <1>5. Find(s, x) \in S
    <2> HIDE DEF S
    <2> QED BY <1>1, <1>4
  <1> QED BY <1>5

-----------------------------------------------------------------------------
(* How a step of t can change the entries that are in use.                 *)
Others(t) == \A u \in Callers \ {t} : loc'[u] = loc[u]

LEMMA TesKept ==
  ASSUME TesSound, NEW t \in Callers, Others(t), UNCHANGED <<ring_list, pool_list, te_used>>,
         HasTe(t)' <=> HasTe(t), HasTe(t) => loc'[t].te = loc[t].te
  PROVE  TesSound'
  <1>1. \A u \in Callers : (HasTe(u)' <=> HasTe(u)) /\ (HasTe(u) => loc'[u].te = loc[u].te)
    BY DEF Others, HasTe
  <1>2. HeldTes' = HeldTes
    BY <1>1 DEF HeldTes
  <1> QED BY <1>1, <1>2 DEF TesSound, TesOf, Single, Entries

LEMMA TesTaken ==
  ASSUME TesSound, NEW t \in Callers, Others(t), UNCHANGED <<ring_list, pool_list>>,
         NEW e \in Tes \ te_used, te_used' = te_used \cup {e},
         ~HasTe(t), HasTe(t)', loc'[t].te = e
  PROVE  TesSound'
  <1>1. \A u \in Callers \ {t} : (HasTe(u)' <=> HasTe(u)) /\ (HasTe(u) => loc'[u].te = loc[u].te)
    BY DEF Others, HasTe
  <1>2. HeldTes' = HeldTes \cup {e}
    BY <1>1 DEF HeldTes
  <1>3. \A u \in Callers : HasTe(u) => loc[u].te \in te_used
    BY DEF TesSound, HeldTes
  <1>4. \A u, v \in Callers : HasTe(u)' /\ HasTe(v)' /\ loc'[u].te = loc'[v].te => u = v
    BY <1>1, <1>3 DEF TesSound
  <1>5. TesOf(ring_list)' = TesOf(ring_list) /\ TesOf(pool_list)' = TesOf(pool_list)
    BY DEF TesOf, Entries
  <1>6. Single(ring_list)' /\ Single(pool_list)'
    BY DEF TesSound, Single
  <1> QED BY <1>2, <1>4, <1>5, <1>6 DEF TesSound

(* The entry that t holds leaves its hands.                                *)
LEMMA HandsOff ==
  ASSUME TesSound, NEW t \in Callers, Others(t), HasTe(t), ~HasTe(t)'
  PROVE  /\ HeldTes' = HeldTes \ {loc[t].te} /\ loc[t].te \in HeldTes
         /\ \A u, v \in Callers : HasTe(u)' /\ HasTe(v)' /\ loc'[u].te = loc'[v].te => u = v
  <1>1. \A u \in Callers \ {t} : (HasTe(u)' <=> HasTe(u)) /\ (HasTe(u) => loc'[u].te = loc[u].te)
    BY DEF Others, HasTe
  <1>2. \A u \in Callers \ {t} : HasTe(u) => loc[u].te # loc[t].te
    BY DEF TesSound
  <1>3. HeldTes' = HeldTes \ {loc[t].te}
    BY <1>1, <1>2 DEF HeldTes
  <1> QED BY <1>1, <1>3 DEF HeldTes, TesSound

LEMMA TesFreed ==
  ASSUME TesSound, NEW t \in Callers, Others(t), UNCHANGED <<ring_list, pool_list>>,
         te_used' = te_used \ {loc[t].te}, HasTe(t), ~HasTe(t)'
  PROVE  TesSound'
  <1>1. TesOf(ring_list)' = TesOf(ring_list) /\ TesOf(pool_list)' = TesOf(pool_list)
    BY DEF TesOf, Entries
  <1>2. Single(ring_list)' /\ Single(pool_list)'
    BY DEF TesSound, Single
  <1> QED BY HandsOff, <1>1, <1>2 DEF TesSound

(* The entry that t holds is linked in a list.                             *)
LEMMA TesLinked ==
  ASSUME TesSound, ring_list \in Seq(Entry), pool_list \in Seq(Entry),
         NEW t \in Callers, Others(t), te_used' = te_used, HasTe(t), ~HasTe(t)',
         NEW e \in Entry, e.te = loc[t].te,
         \/ ring_list' = Append(ring_list, e) /\ pool_list' = pool_list
         \/ pool_list' = Append(pool_list, e) /\ ring_list' = ring_list
  PROVE  TesSound'
  <1>1. /\ HeldTes' = HeldTes \ {e.te} /\ e.te \in HeldTes
        /\ \A u, v \in Callers : HasTe(u)' /\ HasTe(v)' /\ loc'[u].te = loc'[v].te => u = v
    BY HandsOff
  <1>2. e.te \notin TesOf(ring_list) /\ e.te \notin TesOf(pool_list)
    BY <1>1 DEF TesSound
  <1>3. CASE ring_list' = Append(ring_list, e) /\ pool_list' = pool_list
    <2>1. Single(ring_list)' /\ TesOf(ring_list)' = TesOf(ring_list) \cup {e.te}
      <3>1. Single(Append(ring_list, e)) /\ TesOf(Append(ring_list, e)) = TesOf(ring_list) \cup {e.te}
        BY <1>2, AppendList DEF TesSound
      <3> QED BY <1>3, <3>1 DEF Single, TesOf, Entries
    <2>2. Single(pool_list)' /\ TesOf(pool_list)' = TesOf(pool_list)
      BY <1>3 DEF TesSound, Single, TesOf, Entries
    <2> QED BY <1>1, <1>2, <2>1, <2>2 DEF TesSound
  <1>4. CASE pool_list' = Append(pool_list, e) /\ ring_list' = ring_list
    <2>1. Single(pool_list)' /\ TesOf(pool_list)' = TesOf(pool_list) \cup {e.te}
      <3>1. Single(Append(pool_list, e)) /\ TesOf(Append(pool_list, e)) = TesOf(pool_list) \cup {e.te}
        BY <1>2, AppendList DEF TesSound
      <3> QED BY <1>4, <3>1 DEF Single, TesOf, Entries
    <2>2. Single(ring_list)' /\ TesOf(ring_list)' = TesOf(ring_list)
      BY <1>4 DEF TesSound, Single, TesOf, Entries
    <2> QED BY <1>1, <1>2, <2>1, <2>2 DEF TesSound
  <1> QED BY <1>3, <1>4

(* An entry of the list of rings is unlinked and stays with t.             *)
LEMMA TesUnlinked ==
  ASSUME TesSound, ring_list \in Seq(Entry),
         NEW t \in Callers, Others(t), te_used' = te_used, pool_list' = pool_list,
         NEW i \in DOMAIN ring_list, ring_list' = Drop(ring_list, i),
         ~HasTe(t), HasTe(t)', loc'[t].te = ring_list[i].te
  PROVE  TesSound'
  <1> DEFINE x == ring_list[i].te
  <1>1. \A u \in Callers \ {t} : (HasTe(u)' <=> HasTe(u)) /\ (HasTe(u) => loc'[u].te = loc[u].te)
    BY DEF Others, HasTe
  <1>2. HeldTes' = HeldTes \cup {x}
    BY <1>1 DEF HeldTes
  <1>3. x \in TesOf(ring_list)
    BY DEF TesOf, Entries
  <1>4. Single(ring_list)' /\ TesOf(ring_list)' = TesOf(ring_list) \ {x}
    <2>1. Single(Drop(ring_list, i)) /\ TesOf(Drop(ring_list, i)) = TesOf(ring_list) \ {x}
      BY DropList DEF TesSound
    <2> QED BY <2>1 DEF Single, TesOf, Entries
  <1>5. Single(pool_list)' /\ TesOf(pool_list)' = TesOf(pool_list)
    BY DEF TesSound, Single, TesOf, Entries
  <1>6. \A u \in Callers : HasTe(u) => loc[u].te \in HeldTes
    BY DEF HeldTes
  <1> HIDE DEF x
  <1>7. \A u, v \in Callers : HasTe(u)' /\ HasTe(v)' /\ loc'[u].te = loc'[v].te => u = v
    BY <1>1, <1>3, <1>6 DEF TesSound, x
  <1> QED BY <1>2, <1>3, <1>4, <1>5, <1>7 DEF TesSound

(* An entry of the list of mempools is unlinked and freed.                 *)
LEMMA TesDropped ==
  ASSUME TesSound, pool_list \in Seq(Entry),
         NEW t \in Callers, Others(t), ring_list' = ring_list,
         NEW i \in DOMAIN pool_list, pool_list' = Drop(pool_list, i),
         te_used' = te_used \ {pool_list[i].te}, ~HasTe(t), ~HasTe(t)'
  PROVE  TesSound'
  <1> DEFINE x == pool_list[i].te
  <1>1. \A u \in Callers : (HasTe(u)' <=> HasTe(u)) /\ (HasTe(u) => loc'[u].te = loc[u].te)
    BY DEF Others, HasTe
  <1>2. HeldTes' = HeldTes
    BY <1>1 DEF HeldTes
  <1>3. x \in TesOf(pool_list)
    BY DEF TesOf, Entries
  <1>4. Single(pool_list)' /\ TesOf(pool_list)' = TesOf(pool_list) \ {x}
    <2>1. Single(Drop(pool_list, i)) /\ TesOf(Drop(pool_list, i)) = TesOf(pool_list) \ {x}
      BY DropList DEF TesSound
    <2> QED BY <2>1 DEF Single, TesOf, Entries
  <1>5. Single(ring_list)' /\ TesOf(ring_list)' = TesOf(ring_list)
    BY DEF TesSound, Single, TesOf, Entries
  <1> HIDE DEF x
  <1>6. te_used' = te_used \ {x}
    BY DEF x
  <1> QED BY <1>1, <1>2, <1>3, <1>4, <1>5, <1>6 DEF TesSound

LEMMA LocalsStep ==
  ASSUME \A u \in Callers : LocalsOf(u) /\ NameOf(u), NEW t \in Callers, Others(t),
         LocalsOf(t)', NameOf(t)'
  PROVE  (\A u \in Callers : LocalsOf(u) /\ NameOf(u))'
  <1>1. \A u \in Callers \ {t} : LocalsOf(u)'
    BY DEF LocalsOf, Others, InPool, HasChunk, HasTe
  <1>2. \A u \in Callers \ {t} : NameOf(u)'
    BY DEF NameOf, Others, InPool
  <1> QED BY <1>1, <1>2

LEMMA Element ==
  ASSUME NEW s \in Seq(Entry), NEW i \in DOMAIN s
  PROVE  s[i] \in Entry /\ s[i].te \in Tes /\ s[i].data \in Addrs
  <1>1. s[i] \in Entry
    OBVIOUS
  <1> QED BY <1>1 DEF Entry

LEMMA Joined ==
  ASSUME NEW x, NEW y, NEW z
  PROVE  /\ <<x>> \o <<y, z>> = <<x, y, z>>
         /\ <<x, y>> \o <<z>> = <<x, y, z>>
  <1> DEFINE S == {x, y, z}
             s == <<x, y, z>>
  <1>1. s \in Seq(S) /\ Len(s) = 3 /\ s[1] = x /\ s[2] = y /\ s[3] = z
    OBVIOUS
  <1>2. ASSUME NEW a \in Seq(S), NEW b \in Seq(S), Len(a) + Len(b) = 3,
               \A i \in 1 .. 3 : s[i] = IF i <= Len(a) THEN a[i] ELSE b[i - Len(a)]
        PROVE  a \o b = s
    <2> HIDE DEF S, s
    <2>1. a \o b \in Seq(S) /\ Len(a \o b) = 3 /\ \A i \in 1 .. 3 : (a \o b)[i] = s[i]
      BY <1>2, ConcatProperties
    <2> QED BY <1>1, <2>1, SeqEqual
  <1>3. <<x>> \o <<y, z>> = s
    <2> DEFINE a == <<x>>
               b == <<y, z>>
    <2>1. a \in Seq(S) /\ b \in Seq(S) /\ Len(a) = 1 /\ Len(b) = 2
      OBVIOUS
    <2>2. \A i \in 1 .. 3 : s[i] = IF i <= 1 THEN a[i] ELSE b[i - 1]
      BY <1>1
    <2> HIDE DEF a, b, s, S
    <2>3. Len(a) + Len(b) = 3 /\ \A i \in 1 .. 3 : s[i] = IF i <= Len(a) THEN a[i] ELSE b[i - Len(a)]
      BY <2>1, <2>2
    <2>4. a \o b = s
      BY <1>2, <2>1, <2>3
    <2> QED BY <2>4 DEF a, b, s
  <1>4. <<x, y>> \o <<z>> = s
    <2> DEFINE a == <<x, y>>
               b == <<z>>
    <2>1. a \in Seq(S) /\ b \in Seq(S) /\ Len(a) = 2 /\ Len(b) = 1
      OBVIOUS
    <2>2. \A i \in 1 .. 3 : s[i] = IF i <= 2 THEN a[i] ELSE b[i - 2]
      BY <1>1
    <2> HIDE DEF a, b, s, S
    <2>3. Len(a) + Len(b) = 3 /\ \A i \in 1 .. 3 : s[i] = IF i <= Len(a) THEN a[i] ELSE b[i - Len(a)]
      BY <2>1, <2>2
    <2>4. a \o b = s
      BY <1>2, <2>1, <2>3
    <2> QED BY <2>4 DEF a, b, s
  <1> QED BY <1>3, <1>4

(* A mempool's ring has its name with a prefix, and a chunk with a number. *)
LEMMA Forms ==
  ASSUME NEW n \in PoolNames
  PROVE  /\ <<"RG">> \o MP(n) = RGMP(n) /\ Tail(RGMP(n)) = MP(n)
         /\ MP(n)[1] = "MP" /\ RGMP(n)[1] = "RG"
         /\ \A k : MP(n) \o <<k>> = Chunk(n, k)
         /\ MP(n) # <<>> /\ RGMP(n) # <<>> /\ \A k : Chunk(n, k) # <<>>
  <1>1. <<"RG">> \o <<"MP", n>> = <<"RG", "MP", n>>
    BY Joined
  <1>2. Tail(<<"RG", "MP", n>>) = <<"MP", n>>
    OBVIOUS
  <1>3. ASSUME NEW k PROVE <<"MP", n>> \o <<k>> = <<"MP", n, k>>
    BY Joined
  <1>4. <<"MP", n>>[1] = "MP" /\ <<"RG", "MP", n>>[1] = "RG"
    OBVIOUS
  <1>5. <<"MP", n>> # <<>> /\ <<"RG", "MP", n>> # <<>> /\ \A k : <<"MP", n, k>> # <<>>
    OBVIOUS
  <1> QED BY <1>1, <1>2, <1>3, <1>4, <1>5 DEF MP, RGMP, Chunk

(* What is known of a caller's locals.                                     *)
LEMMA Fields ==
  ASSUME ListInv, NEW t \in Callers
  PROVE  /\ loc[t] \in Locals /\ LocalsOf(t)
         /\ NameOf(t) /\ loc[t].te \in Tes \cup {Nil} /\ loc[t].mp \in Addrs \cup {Nil}
         /\ loc[t].ring \in Addrs \cup {Nil} /\ loc[t].chunk \in Addrs \cup {Nil}
         /\ loc[t].name \in Seq(Words) /\ loc[t].pos \in Nat /\ loc[t].pc \in Pcs
  <1>1. loc[t] \in Locals
    BY DEF ListInv, RegTypes
  <1>2. LocalsOf(t) /\ NameOf(t)
    BY DEF ListInv
  <1> QED BY <1>1, <1>2 DEF Locals

LEMMA PcsAre ==
  Pcs = {"idle", "rc_te", "rc_lock", "rc_zone", "rf_zone", "rf_unlink", "rf_te",
         "pc_te", "pc_zone", "pc_lock", "populate", "pool_ring", "phy", "phy_fail", "fail",
         "pf_unlink", "pf_chunks", "pf_zone", "rings", "pools"}
  BY DEF Pcs, Creating, Freeing, PoolPcs, FreePcs

LEMMA Fresh ==
  /\ \A e \in FreeTe : e \in Tes /\ e \notin te_used /\ e # Nil
  /\ \A a \in FreeAddr : a \in Addrs /\ zone[a] = <<>> /\ a # Nil
  BY RegistryAssumption DEF FreeTe, FreeAddr, FirstOf, Nil

LEMMA NameTypes ==
  /\ <<>> \in Seq(Words)
  /\ \A n \in RingNames : <<"RG", n>> \in Seq(Words)
  /\ \A n \in PoolNames : <<"MP", n>> \in Seq(Words)
  /\ \A s \in Seq(Words) : <<"RG">> \o s \in Seq(Words)
  /\ \A s \in Seq(Words), k \in Nat : s \o <<k>> \in Seq(Words)
  <1> DEFINE W == Words
  <1>1. "RG" \in W /\ "MP" \in W /\ RingNames \subseteq W /\ PoolNames \subseteq W /\ Nat \subseteq W
    BY DEF Words
  <1> HIDE DEF W
  <1>2. \A x \in W : <<x>> \in Seq(W)
    OBVIOUS
  <1>3. \A x, y \in W : <<x, y>> \in Seq(W)
    OBVIOUS
  <1>4. \A s, r \in Seq(W) : s \o r \in Seq(W)
    OBVIOUS
  <1>5. <<>> \in Seq(W)
    OBVIOUS
  <1>6. \A n \in RingNames : <<"RG", n>> \in Seq(W)
    BY <1>1, <1>3
  <1>7. \A n \in PoolNames : <<"MP", n>> \in Seq(W)
    BY <1>1, <1>3
  <1>8. \A s \in Seq(W) : <<"RG">> \o s \in Seq(W)
    BY <1>1, <1>2, <1>4
  <1>9. \A s \in Seq(W), k \in Nat : s \o <<k>> \in Seq(W)
    BY <1>1, <1>2, <1>4
  <1> QED BY <1>5, <1>6, <1>7, <1>8, <1>9 DEF W

(* A step that does not touch what LocksSound says, or changes the locks   *)
(* for t only.                                                             *)
LEMMA LocksStep ==
  ASSUME LocksSound, NEW t \in Callers, Others(t),
         qlock'.w # NoOne => qlock'.r = {},
         qlock'.w = t <=> loc'[t].pc = "rc_zone",
         \A u \in Callers \ {t} : qlock'.w = u <=> qlock.w = u,
         mplock'.w = t <=> loc'[t].pc \in {"pc_te", "pc_zone", "pc_lock"},
         \A u \in Callers \ {t} : mplock'.w = u <=> mplock.w = u,
         \A u \in Callers \ {t} : u \in qlock.r => u \in qlock'.r,
         qlock.r # {} => TesOf(ring_list) \subseteq TesOf(ring_list'),
         loc'[t].pc = "rings" =>
           t \in qlock'.r /\ (loc'[t].te # Nil => loc'[t].te \in TesOf(ring_list'))
  PROVE  LocksSound'
  <1> DEFINE lockers == {"pc_te", "pc_zone", "pc_lock"}
             old == TesOf(ring_list)
             new == TesOf(ring_list')
             Of(u) == /\ qlock'.w = u <=> loc'[u].pc = "rc_zone"
                      /\ mplock'.w = u <=> loc'[u].pc \in lockers
                      /\ loc'[u].pc = "rings" =>
                           u \in qlock'.r /\ (loc'[u].te # Nil => loc'[u].te \in new)
  <1>1. \A u \in Callers : /\ qlock.w = u <=> loc[u].pc = "rc_zone"
                           /\ mplock.w = u <=> loc[u].pc \in lockers
                           /\ loc[u].pc = "rings" =>
                                u \in qlock.r /\ (loc[u].te # Nil => loc[u].te \in old)
    BY DEF LocksSound
  <1> HIDE DEF old, new, lockers
  <1>2. ASSUME NEW u \in Callers \ {t} PROVE Of(u)
    <2>1. loc'[u] = loc[u]
      BY DEF Others
    <2>2. qlock.r # {} => old \subseteq new
      BY DEF old, new
    <2>3. loc'[u].pc = "rings" => u \in qlock'.r /\ (loc'[u].te # Nil => loc'[u].te \in new)
      BY <1>1, <2>1, <2>2
    <2> QED BY <1>1, <2>1, <2>3
  <1>3. Of(t)
    BY DEF new, lockers
  <1>4. \A u \in Callers : Of(u)
    BY <1>2, <1>3
  <1>5. TesOf(ring_list)' = new
    BY DEF new, TesOf, Entries
  <1> QED BY <1>4, <1>5 DEF LocksSound, lockers

LEMMA LocksKept ==
  ASSUME LocksSound, NEW t \in Callers, Others(t), UNCHANGED <<qlock, mplock, ring_list>>,
         loc'[t].pc # "rings", loc'[t].pc = "rc_zone" <=> loc[t].pc = "rc_zone",
         loc'[t].pc \in {"pc_te", "pc_zone", "pc_lock"} <=> loc[t].pc \in {"pc_te", "pc_zone", "pc_lock"}
  PROVE  LocksSound'
  BY DEF LocksSound, Others, TesOf, Entries

LEMMA ChunkName ==
  ASSUME ListInv, NEW t \in Callers, loc[t].pc = "populate"
  PROVE  loc[t].name \o <<Cardinality(pool[loc[t].mp].chunks)>> \in Seq(Words)
  <1>1. loc[t].mp \in Addrs
    BY Fields DEF LocalsOf, InPool, PoolPcs
  <1>2. pool[loc[t].mp].chunks \subseteq Addrs
    BY <1>1 DEF ListInv, RegTypes
  <1>3. Cardinality(pool[loc[t].mp].chunks) \in Nat
    BY <1>2, RegistryAssumption, FS_Subset, FS_CardinalityType
  <1> QED BY <1>3, Fields, NameTypes

LEMMA PoolNameType ==
  ASSUME ListInv, NEW t \in Callers, loc[t].pc = "phy"
  PROVE  PoolName(t) \in Seq(Words) /\ \E n \in PoolNames : PoolName(t) = MP(n)
  <1>1. PICK n \in PoolNames : loc[t].name = MP(n) \/ loc[t].name = RGMP(n)
    BY Fields DEF NameOf
  <1>2. PoolName(t) = MP(n)
    BY <1>1, Forms DEF PoolName
  <1>3. MP(n) \in Seq(Words)
    BY NameTypes DEF MP
  <1> QED BY <1>2, <1>3

(* The writers of the locks.                                               *)
LEMMA LockFacts ==
  ASSUME ListInv, NEW t \in Callers
  PROVE  /\ t # NoOne /\ qlock \in Lock /\ mplock \in Lock
         /\ qlock.w = t <=> loc[t].pc = "rc_zone"
         /\ mplock.w = t <=> loc[t].pc \in {"pc_te", "pc_zone", "pc_lock"}
         /\ qlock.w # NoOne => qlock.r = {}
         /\ loc[t].pc = "rings" => t \in qlock.r /\ (loc[t].te # Nil => loc[t].te \in TesOf(ring_list))
  BY RegistryAssumption DEF ListInv, RegTypes, LocksSound

LEMMA RingCreateLists ==
  ASSUME ListInv, NEW t \in Callers, NEW n \in RingNames, RingCreate(t, n)
  PROVE  ListInv'
  <1>1. /\ loc[t].pc = "idle"
        /\ UNCHANGED <<qlock, mplock, zone, te_used, ring_list, pool_list, pool, owned>>
        /\ loc' = [loc EXCEPT ![t] = [Returned EXCEPT !.name = <<"RG", n>>, !.pc = "rc_te"]]
    BY DEF RingCreate, memory, lists, GoWith
  <1>2. [Returned EXCEPT !.name = <<"RG", n>>, !.pc = "rc_te"] \in Locals
    BY Fields, PcsAre, NameTypes DEF Locals, Returned
  <1>3. loc' \in [Callers -> Locals] /\ loc'[t] = [Returned EXCEPT !.name = <<"RG", n>>, !.pc = "rc_te"] /\ Others(t)
    BY <1>1, <1>2 DEF ListInv, RegTypes, Others
  <1>4. RegTypes'
    BY <1>1, <1>3 DEF ListInv, RegTypes
  <1>5. LocalsOf(t)'
    BY <1>1, <1>3, Fields, RegistryAssumption DEF LocalsOf, InPool, HasTe, HasChunk, Nil, Creating, Freeing, PoolPcs, FreePcs, Returned
  <1>6. NameOf(t)'
    BY <1>1, <1>3, Fields DEF NameOf, LocalsOf, InPool, Nil, Creating, Freeing, PoolPcs, FreePcs, Returned, MP
  <1>7. (HasTe(t)' <=> HasTe(t)) /\ (HasTe(t) => loc'[t].te = loc[t].te)
    BY <1>1, <1>3, Fields DEF HasTe, Locals, Returned
  <1>8. TesSound'
    BY <1>1, <1>3, <1>7, TesKept DEF ListInv, RegTypes
  <1>9. LocksSound'
    BY <1>1, <1>3, Fields, LocksKept DEF ListInv, Locals, Returned
  <1> QED BY <1>3, <1>4, <1>5, <1>6, <1>8, <1>9, LocalsStep DEF ListInv

LEMMA RingTeLists ==
  ASSUME ListInv, NEW t \in Callers, RingTe(t)
  PROVE  ListInv'
  <1>1. /\ loc[t].pc = "rc_te"
        /\ UNCHANGED <<qlock, mplock, zone, ring_list, pool_list, pool, owned>>
    BY DEF RingTe, memory, lists, RingFailed, Go, Leave
  <1>2. ASSUME NEW e \in FreeTe,
               te_used' = te_used \cup {e},
               loc' = [loc EXCEPT ![t] = [loc[t] EXCEPT !.te = e, !.pc = "rc_lock"]]
        PROVE  ListInv'
    <2>1. [loc[t] EXCEPT !.te = e, !.pc = "rc_lock"] \in Locals
      BY Fields, PcsAre, Fresh DEF Locals
    <2>2. loc' \in [Callers -> Locals] /\ loc'[t] = [loc[t] EXCEPT !.te = e, !.pc = "rc_lock"] /\ Others(t)
      BY <1>1, <1>2, <2>1 DEF ListInv, RegTypes, Others
    <2>3. te_used' \in SUBSET Tes
      BY <1>1, <1>2, Fresh DEF ListInv, RegTypes
    <2>4. RegTypes'
      BY <1>1, <1>2, <2>2, <2>3 DEF ListInv, RegTypes
    <2>5. LocalsOf(t)'
      BY <1>1, <1>2, <2>2, Fields, Fresh, RegistryAssumption DEF LocalsOf, InPool, HasTe, HasChunk, Nil, Creating, Freeing, PoolPcs, FreePcs, Locals
    <2>6. NameOf(t)'
      BY <1>1, <1>2, <2>2, Fields, Fresh DEF NameOf, LocalsOf, InPool, Nil, Creating, Freeing, PoolPcs, FreePcs, Locals
    <2>7. ~HasTe(t) /\ HasTe(t)' /\ loc'[t].te = e
      BY <1>1, <1>2, <2>2, Fields DEF HasTe, Locals
    <2>8. TesSound'
      BY <1>1, <1>2, <2>2, <2>7, TesTaken, Fresh DEF ListInv, RegTypes
    <2>9. LocksSound'
      BY <1>1, <1>2, <2>2, Fields, LocksKept DEF ListInv, Locals
    <2> QED BY <2>2, <2>4, <2>5, <2>6, <2>8, <2>9, LocalsStep DEF ListInv
  <1>3. ASSUME InPool(t),
               UNCHANGED <<te_used>>,
               loc' = [loc EXCEPT ![t] = [loc[t] EXCEPT !.pc = "phy_fail"]]
        PROVE  ListInv'
    <2>1. [loc[t] EXCEPT !.pc = "phy_fail"] \in Locals
      BY Fields, PcsAre DEF Locals
    <2>2. loc' \in [Callers -> Locals] /\ loc'[t] = [loc[t] EXCEPT !.pc = "phy_fail"] /\ Others(t)
      BY <1>1, <1>3, <2>1 DEF ListInv, RegTypes, Others
    <2>3. RegTypes'
      BY <1>1, <1>3, <2>2 DEF ListInv, RegTypes
    <2>4. LocalsOf(t)'
      BY <1>1, <1>3, <2>2, Fields, RegistryAssumption DEF LocalsOf, InPool, HasTe, HasChunk, Nil, Creating, Freeing, PoolPcs, FreePcs, Locals
    <2>5. NameOf(t)'
      BY <1>1, <1>3, <2>2, Fields DEF NameOf, LocalsOf, InPool, Nil, Creating, Freeing, PoolPcs, FreePcs, Locals
    <2>6. (HasTe(t)' <=> HasTe(t)) /\ (HasTe(t) => loc'[t].te = loc[t].te)
      BY <1>1, <1>3, <2>2, Fields DEF HasTe, Locals
    <2>7. TesSound'
      BY <1>1, <1>3, <2>2, <2>6, TesKept DEF ListInv, RegTypes
    <2>8. LocksSound'
      BY <1>1, <1>3, <2>2, Fields, LocksKept DEF ListInv, Locals
    <2> QED BY <2>2, <2>3, <2>4, <2>5, <2>7, <2>8, LocalsStep DEF ListInv
  <1>4. ASSUME ~InPool(t),
               UNCHANGED <<te_used>>,
               loc' = [loc EXCEPT ![t] = Returned]
        PROVE  ListInv'
    <2>1. Returned \in Locals
      BY Fields, PcsAre, NameTypes DEF Locals, Returned
    <2>2. loc' \in [Callers -> Locals] /\ loc'[t] = Returned /\ Others(t)
      BY <1>1, <1>4, <2>1 DEF ListInv, RegTypes, Others
    <2>3. RegTypes'
      BY <1>1, <1>4, <2>2 DEF ListInv, RegTypes
    <2>4. LocalsOf(t)'
      BY <1>1, <1>4, <2>2, Fields, RegistryAssumption DEF LocalsOf, InPool, HasTe, HasChunk, Nil, Creating, Freeing, PoolPcs, FreePcs, Returned
    <2>5. NameOf(t)'
      BY <1>1, <1>4, <2>2, Fields DEF NameOf, LocalsOf, InPool, Nil, Creating, Freeing, PoolPcs, FreePcs, Returned, MP
    <2>6. (HasTe(t)' <=> HasTe(t)) /\ (HasTe(t) => loc'[t].te = loc[t].te)
      BY <1>1, <1>4, <2>2, Fields DEF HasTe, Locals, Returned
    <2>7. TesSound'
      BY <1>1, <1>4, <2>2, <2>6, TesKept DEF ListInv, RegTypes
    <2>8. LocksSound'
      BY <1>1, <1>4, <2>2, Fields, LocksKept DEF ListInv, Locals, Returned
    <2> QED BY <2>2, <2>3, <2>4, <2>5, <2>7, <2>8, LocalsStep DEF ListInv
  <1> QED BY <1>1, <1>2, <1>3, <1>4, ZenonT(40) DEF RingTe, memory, lists, RingFailed, Go, Leave

LEMMA RingLockLists ==
  ASSUME ListInv, NEW t \in Callers, RingLock(t)
  PROVE  ListInv'
  <1>1. /\ loc[t].pc = "rc_lock" /\ MayWrite(qlock)
        /\ UNCHANGED <<mplock, zone, te_used, ring_list, pool_list, pool, owned>>
        /\ qlock' = [qlock EXCEPT !.w = t]
        /\ loc' = [loc EXCEPT ![t] = [loc[t] EXCEPT !.pc = "rc_zone"]]
    BY DEF RingLock, memory, lists, Go
  <1>2. [loc[t] EXCEPT !.pc = "rc_zone"] \in Locals
    BY Fields, PcsAre DEF Locals
  <1>3. loc' \in [Callers -> Locals] /\ loc'[t] = [loc[t] EXCEPT !.pc = "rc_zone"] /\ Others(t)
    BY <1>1, <1>2 DEF ListInv, RegTypes, Others
  <1>4. qlock' \in Lock
    BY <1>1 DEF ListInv, RegTypes, Lock, Unlocked
  <1>5. RegTypes'
    BY <1>1, <1>3, <1>4 DEF ListInv, RegTypes
  <1>6. LocalsOf(t)'
    BY <1>1, <1>3, Fields, RegistryAssumption DEF LocalsOf, InPool, HasTe, HasChunk, Nil, Creating, Freeing, PoolPcs, FreePcs, Locals
  <1>7. NameOf(t)'
    BY <1>1, <1>3, Fields DEF NameOf, LocalsOf, InPool, Nil, Creating, Freeing, PoolPcs, FreePcs, Locals
  <1>8. (HasTe(t)' <=> HasTe(t)) /\ (HasTe(t) => loc'[t].te = loc[t].te)
    BY <1>1, <1>3, Fields DEF HasTe, Locals
  <1>9. TesSound'
    BY <1>1, <1>3, <1>8, TesKept DEF ListInv, RegTypes
  <1>10. loc'[t].pc = "rc_zone"
    BY <1>1, <1>3, Fields DEF Locals
  <1>11. qlock'.w # NoOne => qlock'.r = {}
    BY <1>1, LockFacts DEF Lock, Unlocked, MayWrite
  <1>12. qlock'.w = t <=> loc'[t].pc = "rc_zone"
    BY <1>1, <1>10, LockFacts DEF Lock, Unlocked, MayWrite
  <1>13. \A u \in Callers \ {t} : (qlock'.w = u <=> qlock.w = u) /\ (u \in qlock.r => u \in qlock'.r)
    BY <1>1, LockFacts, RegistryAssumption DEF Lock, Unlocked, MayWrite
  <1>14. mplock'.w = t <=> loc'[t].pc \in {"pc_te", "pc_zone", "pc_lock"}
    BY <1>1, <1>10, LockFacts DEF Lock, Unlocked, MayWrite
  <1>15. \A u \in Callers \ {t} : mplock'.w = u <=> mplock.w = u
    BY <1>1, LockFacts, RegistryAssumption DEF Lock, Unlocked, MayWrite
  <1>16. qlock.r # {} => TesOf(ring_list) \subseteq TesOf(ring_list')
    BY <1>1
  <1>17. loc'[t].pc = "rings" =>
          t \in qlock'.r /\ (loc'[t].te # Nil => loc'[t].te \in TesOf(ring_list'))
    BY <1>1, <1>3, Fields, LockFacts DEF Locals, Lock, TesOf, Entries
  <1>18. LocksSound'
    BY <1>3, <1>11, <1>12, <1>13, <1>14, <1>15, <1>16, <1>17, LocksStep DEF ListInv
  <1> QED BY <1>3, <1>5, <1>6, <1>7, <1>9, <1>18, LocalsStep DEF ListInv

LEMMA RingZoneLists ==
  ASSUME ListInv, NEW t \in Callers, RingZone(t)
  PROVE  ListInv'
  <1>1. /\ loc[t].pc = "rc_zone"
        /\ UNCHANGED <<mplock, pool_list>>
    BY DEF RingZone, memory, lists, Reserved, Go, Leave, NoRing, RingFailed, FreedTes
  <1>2. ASSUME NEW a \in FreeAddr,
               InPool(t),
               UNCHANGED <<te_used, owned>>,
               zone' = [zone EXCEPT ![a] = loc[t].name],
               qlock' = Unlocked,
               ring_list' = Append(ring_list, [te |-> loc[t].te, data |-> a]),
               pool' = [pool EXCEPT ![loc[t].mp].ring = a],
               loc' = [loc EXCEPT ![t] = [loc[t] EXCEPT !.pc = "phy"]]
        PROVE  ListInv'
    <2>1. a \in Addrs /\ loc[t].mp \in Addrs /\ [te |-> loc[t].te, data |-> a] \in Entry
      BY <1>1, <1>2, Fields, Fresh DEF LocalsOf, InPool, HasTe, Entry
    <2>2. [loc[t] EXCEPT !.pc = "phy"] \in Locals
      BY <2>1, Fields, PcsAre, Fresh DEF Locals
    <2>3. loc' \in [Callers -> Locals] /\ loc'[t] = [loc[t] EXCEPT !.pc = "phy"] /\ Others(t)
      BY <1>1, <1>2, <2>2 DEF ListInv, RegTypes, Others
    <2>4. zone' \in [Addrs -> Seq(Words)]
      BY <1>1, <1>2, <2>1, Fresh, Fields, NameTypes DEF ListInv, RegTypes
    <2>5. qlock' \in Lock
      BY <1>1, <1>2, <2>1, Fresh DEF ListInv, RegTypes, Lock, Unlocked
    <2>6. ring_list' \in Seq(Entry)
      BY <1>1, <1>2, <2>1, Fresh DEF ListInv, RegTypes
    <2>7. pool' \in [Addrs -> [ring : Addrs \cup {Nil}, chunks : SUBSET Addrs]]
      BY <1>1, <1>2, <2>1, Fresh, ZenonT(40) DEF ListInv, RegTypes, NoPool
    <2>8. RegTypes'
      BY <1>1, <1>2, <2>3, <2>4, <2>5, <2>6, <2>7 DEF ListInv, RegTypes
    <2>9. LocalsOf(t)'
      BY <1>1, <1>2, <2>1, <2>3, Fields, Fresh, RegistryAssumption DEF LocalsOf, InPool, HasTe, HasChunk, Nil, Creating, Freeing, PoolPcs, FreePcs, Locals
    <2>10. NameOf(t)'
      BY <1>1, <1>2, <2>3, Fields, Fresh DEF NameOf, LocalsOf, InPool, Nil, Creating, Freeing, PoolPcs, FreePcs, Locals
    <2>11. HasTe(t) /\ ~HasTe(t)'
      BY <1>1, <1>2, <2>3, Fields DEF HasTe, Locals
    <2>12. TesSound'
      BY <1>1, <1>2, <2>1, <2>3, <2>11, TesLinked DEF ListInv, RegTypes
    <2>13. loc'[t].pc = "phy"
      BY <1>1, <1>2, <2>3, Fields DEF Locals
    <2>14. qlock'.w # NoOne => qlock'.r = {}
      BY <1>1, <1>2, LockFacts DEF Lock, Unlocked
    <2>15. qlock'.w = t <=> loc'[t].pc = "rc_zone"
      BY <1>1, <1>2, <2>13, LockFacts DEF Lock, Unlocked
    <2>16. \A u \in Callers \ {t} : (qlock'.w = u <=> qlock.w = u) /\ (u \in qlock.r => u \in qlock'.r)
      BY <1>1, <1>2, LockFacts, RegistryAssumption DEF Lock, Unlocked
    <2>17. mplock'.w = t <=> loc'[t].pc \in {"pc_te", "pc_zone", "pc_lock"}
      BY <1>1, <1>2, <2>13, LockFacts DEF Lock, Unlocked
    <2>18. \A u \in Callers \ {t} : mplock'.w = u <=> mplock.w = u
      BY <1>1, <1>2, LockFacts, RegistryAssumption DEF Lock, Unlocked
    <2>19. qlock.r # {} => TesOf(ring_list) \subseteq TesOf(ring_list')
      BY <1>1, <1>2, LockFacts DEF MayWrite
    <2>20. loc'[t].pc = "rings" =>
            t \in qlock'.r /\ (loc'[t].te # Nil => loc'[t].te \in TesOf(ring_list'))
      BY <1>1, <1>2, <2>1, <2>3, Fields, LockFacts DEF Locals, Lock, TesOf, Entries
    <2>21. LocksSound'
      BY <2>3, <2>14, <2>15, <2>16, <2>17, <2>18, <2>19, <2>20, LocksStep DEF ListInv
    <2> QED BY <2>3, <2>8, <2>9, <2>10, <2>12, <2>21, LocalsStep DEF ListInv
  <1>3. ASSUME NEW a \in FreeAddr,
               ~InPool(t),
               UNCHANGED <<te_used, pool>>,
               zone' = [zone EXCEPT ![a] = loc[t].name],
               qlock' = Unlocked,
               ring_list' = Append(ring_list, [te |-> loc[t].te, data |-> a]),
               owned' = owned \cup {<<"ring", a>>},
               loc' = [loc EXCEPT ![t] = Returned]
        PROVE  ListInv'
    <2>1. a \in Addrs /\ [te |-> loc[t].te, data |-> a] \in Entry
      BY <1>1, <1>3, Fields, Fresh DEF LocalsOf, InPool, HasTe, Entry
    <2>2. Returned \in Locals
      BY <2>1, Fields, PcsAre, NameTypes, Fresh DEF Locals, Returned
    <2>3. loc' \in [Callers -> Locals] /\ loc'[t] = Returned /\ Others(t)
      BY <1>1, <1>3, <2>2 DEF ListInv, RegTypes, Others
    <2>4. zone' \in [Addrs -> Seq(Words)]
      BY <1>1, <1>3, <2>1, Fresh, Fields, NameTypes DEF ListInv, RegTypes
    <2>5. qlock' \in Lock
      BY <1>1, <1>3, <2>1, Fresh DEF ListInv, RegTypes, Lock, Unlocked
    <2>6. ring_list' \in Seq(Entry)
      BY <1>1, <1>3, <2>1, Fresh DEF ListInv, RegTypes
    <2>7. owned' \in SUBSET ({"ring", "pool"} \X Addrs)
      BY <1>1, <1>3, <2>1, Fresh DEF ListInv, RegTypes
    <2>8. RegTypes'
      BY <1>1, <1>3, <2>3, <2>4, <2>5, <2>6, <2>7 DEF ListInv, RegTypes
    <2>9. LocalsOf(t)'
      BY <1>1, <1>3, <2>1, <2>3, Fields, Fresh, RegistryAssumption DEF LocalsOf, InPool, HasTe, HasChunk, Nil, Creating, Freeing, PoolPcs, FreePcs, Returned
    <2>10. NameOf(t)'
      BY <1>1, <1>3, <2>3, Fields, Fresh DEF NameOf, LocalsOf, InPool, Nil, Creating, Freeing, PoolPcs, FreePcs, Returned, MP
    <2>11. HasTe(t) /\ ~HasTe(t)'
      BY <1>1, <1>3, <2>3, Fields DEF HasTe, Locals, Returned
    <2>12. TesSound'
      BY <1>1, <1>3, <2>1, <2>3, <2>11, TesLinked DEF ListInv, RegTypes
    <2>13. loc'[t].pc = "idle"
      BY <1>1, <1>3, <2>3, Fields DEF Locals, Returned
    <2>14. qlock'.w # NoOne => qlock'.r = {}
      BY <1>1, <1>3, LockFacts DEF Lock, Unlocked
    <2>15. qlock'.w = t <=> loc'[t].pc = "rc_zone"
      BY <1>1, <1>3, <2>13, LockFacts DEF Lock, Unlocked
    <2>16. \A u \in Callers \ {t} : (qlock'.w = u <=> qlock.w = u) /\ (u \in qlock.r => u \in qlock'.r)
      BY <1>1, <1>3, LockFacts, RegistryAssumption DEF Lock, Unlocked
    <2>17. mplock'.w = t <=> loc'[t].pc \in {"pc_te", "pc_zone", "pc_lock"}
      BY <1>1, <1>3, <2>13, LockFacts DEF Lock, Unlocked
    <2>18. \A u \in Callers \ {t} : mplock'.w = u <=> mplock.w = u
      BY <1>1, <1>3, LockFacts, RegistryAssumption DEF Lock, Unlocked
    <2>19. qlock.r # {} => TesOf(ring_list) \subseteq TesOf(ring_list')
      BY <1>1, <1>3, LockFacts DEF MayWrite
    <2>20. loc'[t].pc = "rings" =>
            t \in qlock'.r /\ (loc'[t].te # Nil => loc'[t].te \in TesOf(ring_list'))
      BY <1>1, <1>3, <2>1, <2>3, Fields, LockFacts DEF Locals, Lock, TesOf, Entries, Returned
    <2>21. LocksSound'
      BY <2>3, <2>14, <2>15, <2>16, <2>17, <2>18, <2>19, <2>20, LocksStep DEF ListInv
    <2> QED BY <2>3, <2>8, <2>9, <2>10, <2>12, <2>21, LocalsStep DEF ListInv
  <1>4. ASSUME InPool(t),
               UNCHANGED <<zone, ring_list, pool, owned>>,
               te_used' = te_used \ {loc[t].te},
               qlock' = Unlocked,
               loc' = [loc EXCEPT ![t] = [loc[t] EXCEPT !.pc = "phy_fail"]]
        PROVE  ListInv'
    <2>1. [loc[t] EXCEPT !.pc = "phy_fail"] \in Locals
      BY Fields, PcsAre DEF Locals
    <2>2. loc' \in [Callers -> Locals] /\ loc'[t] = [loc[t] EXCEPT !.pc = "phy_fail"] /\ Others(t)
      BY <1>1, <1>4, <2>1 DEF ListInv, RegTypes, Others
    <2>3. te_used' \in SUBSET Tes
      BY <1>1, <1>4 DEF ListInv, RegTypes
    <2>4. qlock' \in Lock
      BY <1>1, <1>4 DEF ListInv, RegTypes, Lock, Unlocked
    <2>5. RegTypes'
      BY <1>1, <1>4, <2>2, <2>3, <2>4 DEF ListInv, RegTypes
    <2>6. LocalsOf(t)'
      BY <1>1, <1>4, <2>2, Fields, RegistryAssumption DEF LocalsOf, InPool, HasTe, HasChunk, Nil, Creating, Freeing, PoolPcs, FreePcs, Locals
    <2>7. NameOf(t)'
      BY <1>1, <1>4, <2>2, Fields DEF NameOf, LocalsOf, InPool, Nil, Creating, Freeing, PoolPcs, FreePcs, Locals
    <2>8. HasTe(t) /\ ~HasTe(t)'
      BY <1>1, <1>4, <2>2, Fields DEF HasTe, Locals
    <2>9. TesSound'
      BY <1>1, <1>4, <2>2, <2>8, TesFreed DEF ListInv, RegTypes
    <2>10. loc'[t].pc = "phy_fail"
      BY <1>1, <1>4, <2>2, Fields DEF Locals
    <2>11. qlock'.w # NoOne => qlock'.r = {}
      BY <1>1, <1>4, LockFacts DEF Lock, Unlocked
    <2>12. qlock'.w = t <=> loc'[t].pc = "rc_zone"
      BY <1>1, <1>4, <2>10, LockFacts DEF Lock, Unlocked
    <2>13. \A u \in Callers \ {t} : (qlock'.w = u <=> qlock.w = u) /\ (u \in qlock.r => u \in qlock'.r)
      BY <1>1, <1>4, LockFacts, RegistryAssumption DEF Lock, Unlocked
    <2>14. mplock'.w = t <=> loc'[t].pc \in {"pc_te", "pc_zone", "pc_lock"}
      BY <1>1, <1>4, <2>10, LockFacts DEF Lock, Unlocked
    <2>15. \A u \in Callers \ {t} : mplock'.w = u <=> mplock.w = u
      BY <1>1, <1>4, LockFacts, RegistryAssumption DEF Lock, Unlocked
    <2>16. qlock.r # {} => TesOf(ring_list) \subseteq TesOf(ring_list')
      BY <1>1, <1>4
    <2>17. loc'[t].pc = "rings" =>
            t \in qlock'.r /\ (loc'[t].te # Nil => loc'[t].te \in TesOf(ring_list'))
      BY <1>1, <1>4, <2>2, Fields, LockFacts DEF Locals, Lock, TesOf, Entries
    <2>18. LocksSound'
      BY <2>2, <2>11, <2>12, <2>13, <2>14, <2>15, <2>16, <2>17, LocksStep DEF ListInv
    <2> QED BY <2>2, <2>5, <2>6, <2>7, <2>9, <2>18, LocalsStep DEF ListInv
  <1>5. ASSUME ~InPool(t),
               UNCHANGED <<zone, ring_list, pool, owned>>,
               te_used' = te_used \ {loc[t].te},
               qlock' = Unlocked,
               loc' = [loc EXCEPT ![t] = Returned]
        PROVE  ListInv'
    <2>1. Returned \in Locals
      BY Fields, PcsAre, NameTypes DEF Locals, Returned
    <2>2. loc' \in [Callers -> Locals] /\ loc'[t] = Returned /\ Others(t)
      BY <1>1, <1>5, <2>1 DEF ListInv, RegTypes, Others
    <2>3. te_used' \in SUBSET Tes
      BY <1>1, <1>5 DEF ListInv, RegTypes
    <2>4. qlock' \in Lock
      BY <1>1, <1>5 DEF ListInv, RegTypes, Lock, Unlocked
    <2>5. RegTypes'
      BY <1>1, <1>5, <2>2, <2>3, <2>4 DEF ListInv, RegTypes
    <2>6. LocalsOf(t)'
      BY <1>1, <1>5, <2>2, Fields, RegistryAssumption DEF LocalsOf, InPool, HasTe, HasChunk, Nil, Creating, Freeing, PoolPcs, FreePcs, Returned
    <2>7. NameOf(t)'
      BY <1>1, <1>5, <2>2, Fields DEF NameOf, LocalsOf, InPool, Nil, Creating, Freeing, PoolPcs, FreePcs, Returned, MP
    <2>8. HasTe(t) /\ ~HasTe(t)'
      BY <1>1, <1>5, <2>2, Fields DEF HasTe, Locals, Returned
    <2>9. TesSound'
      BY <1>1, <1>5, <2>2, <2>8, TesFreed DEF ListInv, RegTypes
    <2>10. loc'[t].pc = "idle"
      BY <1>1, <1>5, <2>2, Fields DEF Locals, Returned
    <2>11. qlock'.w # NoOne => qlock'.r = {}
      BY <1>1, <1>5, LockFacts DEF Lock, Unlocked
    <2>12. qlock'.w = t <=> loc'[t].pc = "rc_zone"
      BY <1>1, <1>5, <2>10, LockFacts DEF Lock, Unlocked
    <2>13. \A u \in Callers \ {t} : (qlock'.w = u <=> qlock.w = u) /\ (u \in qlock.r => u \in qlock'.r)
      BY <1>1, <1>5, LockFacts, RegistryAssumption DEF Lock, Unlocked
    <2>14. mplock'.w = t <=> loc'[t].pc \in {"pc_te", "pc_zone", "pc_lock"}
      BY <1>1, <1>5, <2>10, LockFacts DEF Lock, Unlocked
    <2>15. \A u \in Callers \ {t} : mplock'.w = u <=> mplock.w = u
      BY <1>1, <1>5, LockFacts, RegistryAssumption DEF Lock, Unlocked
    <2>16. qlock.r # {} => TesOf(ring_list) \subseteq TesOf(ring_list')
      BY <1>1, <1>5
    <2>17. loc'[t].pc = "rings" =>
            t \in qlock'.r /\ (loc'[t].te # Nil => loc'[t].te \in TesOf(ring_list'))
      BY <1>1, <1>5, <2>2, Fields, LockFacts DEF Locals, Lock, TesOf, Entries, Returned
    <2>18. LocksSound'
      BY <2>2, <2>11, <2>12, <2>13, <2>14, <2>15, <2>16, <2>17, LocksStep DEF ListInv
    <2> QED BY <2>2, <2>5, <2>6, <2>7, <2>9, <2>18, LocalsStep DEF ListInv
  <1> QED BY <1>1, <1>2, <1>3, <1>4, <1>5 DEF RingZone, memory, lists, Reserved, Go, Leave, NoRing, RingFailed, FreedTes

LEMMA RingFreeLists ==
  ASSUME ListInv, NEW t \in Callers, NEW a \in Addrs, RingFree(t, a)
  PROVE  ListInv'
  <1>1. /\ loc[t].pc = "idle" /\ <<"ring", a>> \in owned
        /\ UNCHANGED <<qlock, mplock, zone, te_used, ring_list, pool_list, pool>>
        /\ owned' = owned \ {<<"ring", a>>}
        /\ loc' = [loc EXCEPT ![t] = [Returned EXCEPT !.ring = a, !.pc = "rf_zone"]]
    BY DEF RingFree, memory, lists, GoWith
  <1>2. [Returned EXCEPT !.ring = a, !.pc = "rf_zone"] \in Locals
    BY Fields, PcsAre, NameTypes DEF Locals, Returned
  <1>3. loc' \in [Callers -> Locals] /\ loc'[t] = [Returned EXCEPT !.ring = a, !.pc = "rf_zone"] /\ Others(t)
    BY <1>1, <1>2 DEF ListInv, RegTypes, Others
  <1>4. owned' \in SUBSET ({"ring", "pool"} \X Addrs)
    BY <1>1 DEF ListInv, RegTypes
  <1>5. RegTypes'
    BY <1>1, <1>3, <1>4 DEF ListInv, RegTypes
  <1>6. LocalsOf(t)'
    BY <1>1, <1>3, Fields, RegistryAssumption DEF LocalsOf, InPool, HasTe, HasChunk, Nil, Creating, Freeing, PoolPcs, FreePcs, Returned
  <1>7. NameOf(t)'
    BY <1>1, <1>3, Fields DEF NameOf, LocalsOf, InPool, Nil, Creating, Freeing, PoolPcs, FreePcs, Returned, MP
  <1>8. (HasTe(t)' <=> HasTe(t)) /\ (HasTe(t) => loc'[t].te = loc[t].te)
    BY <1>1, <1>3, Fields DEF HasTe, Locals, Returned
  <1>9. TesSound'
    BY <1>1, <1>3, <1>8, TesKept DEF ListInv, RegTypes
  <1>10. LocksSound'
    BY <1>1, <1>3, Fields, LocksKept DEF ListInv, Locals, Returned
  <1> QED BY <1>3, <1>5, <1>6, <1>7, <1>9, <1>10, LocalsStep DEF ListInv

LEMMA RingFreeZoneLists ==
  ASSUME ListInv, NEW t \in Callers, RingFreeZone(t)
  PROVE  ListInv'
  <1>1. /\ loc[t].pc = "rf_zone"
        /\ UNCHANGED <<qlock, mplock, te_used, ring_list, pool_list, pool, owned>>
        /\ zone' = [zone EXCEPT ![loc[t].ring] = <<>>]
        /\ loc' = [loc EXCEPT ![t] = [loc[t] EXCEPT !.pc = "rf_unlink"]]
    BY DEF RingFreeZone, memory, lists, Go
  <1>2. loc[t].ring \in Addrs
    BY <1>1, Fields DEF LocalsOf
  <1>3. [loc[t] EXCEPT !.pc = "rf_unlink"] \in Locals
    BY <1>2, Fields, PcsAre DEF Locals
  <1>4. loc' \in [Callers -> Locals] /\ loc'[t] = [loc[t] EXCEPT !.pc = "rf_unlink"] /\ Others(t)
    BY <1>1, <1>3 DEF ListInv, RegTypes, Others
  <1>5. zone' \in [Addrs -> Seq(Words)]
    BY <1>1, <1>2, Fields, NameTypes DEF ListInv, RegTypes
  <1>6. RegTypes'
    BY <1>1, <1>4, <1>5 DEF ListInv, RegTypes
  <1>7. LocalsOf(t)'
    BY <1>1, <1>2, <1>4, Fields, RegistryAssumption DEF LocalsOf, InPool, HasTe, HasChunk, Nil, Creating, Freeing, PoolPcs, FreePcs, Locals
  <1>8. NameOf(t)'
    BY <1>1, <1>4, Fields DEF NameOf, LocalsOf, InPool, Nil, Creating, Freeing, PoolPcs, FreePcs, Locals
  <1>9. (HasTe(t)' <=> HasTe(t)) /\ (HasTe(t) => loc'[t].te = loc[t].te)
    BY <1>1, <1>4, Fields DEF HasTe, Locals
  <1>10. TesSound'
    BY <1>1, <1>2, <1>4, <1>9, TesKept DEF ListInv, RegTypes
  <1>11. LocksSound'
    BY <1>1, <1>4, Fields, LocksKept DEF ListInv, Locals
  <1> QED BY <1>4, <1>6, <1>7, <1>8, <1>10, <1>11, LocalsStep DEF ListInv

LEMMA RingUnlinkLists ==
  ASSUME ListInv, NEW t \in Callers, RingUnlink(t)
  PROVE  ListInv'
  <1>1. /\ loc[t].pc = "rf_unlink" /\ MayWrite(qlock) /\ Find(ring_list, loc[t].ring) # 0
        /\ UNCHANGED <<qlock, mplock, zone, te_used, pool_list, pool, owned>>
        /\ ring_list' = Drop(ring_list, Find(ring_list, loc[t].ring))
        /\ loc' = [loc EXCEPT ![t] = [loc[t] EXCEPT !.te = ring_list[Find(ring_list, loc[t].ring)].te, !.pc = "rf_te"]]
    BY DEF RingUnlink, memory, lists
  <1>2. Find(ring_list, loc[t].ring) \in DOMAIN ring_list
    BY <1>1, FindEntry DEF ListInv, RegTypes
  <1>3. ring_list[Find(ring_list, loc[t].ring)].te \in Tes /\ Drop(ring_list, Find(ring_list, loc[t].ring)) \in Seq(Entry)
    BY <1>2, DropList DEF ListInv, RegTypes, TesSound, Entry
  <1>4. [loc[t] EXCEPT !.te = ring_list[Find(ring_list, loc[t].ring)].te, !.pc = "rf_te"] \in Locals
    BY <1>3, Fields, PcsAre DEF Locals
  <1>5. loc' \in [Callers -> Locals] /\ loc'[t] = [loc[t] EXCEPT !.te = ring_list[Find(ring_list, loc[t].ring)].te, !.pc = "rf_te"] /\ Others(t)
    BY <1>1, <1>4 DEF ListInv, RegTypes, Others
  <1>6. ring_list' \in Seq(Entry)
    BY <1>1, <1>2, <1>3 DEF ListInv, RegTypes
  <1>7. RegTypes'
    BY <1>1, <1>5, <1>6 DEF ListInv, RegTypes
  <1>8. LocalsOf(t)'
    BY <1>1, <1>2, <1>3, <1>5, Fields, RegistryAssumption DEF LocalsOf, InPool, HasTe, HasChunk, Nil, Creating, Freeing, PoolPcs, FreePcs, Locals
  <1>9. NameOf(t)'
    BY <1>1, <1>5, Fields DEF NameOf, LocalsOf, InPool, Nil, Creating, Freeing, PoolPcs, FreePcs, Locals
  <1>10. ~HasTe(t) /\ HasTe(t)' /\ loc'[t].te = ring_list[Find(ring_list, loc[t].ring)].te
    BY <1>1, <1>5, Fields DEF HasTe, Locals
  <1>11. TesSound'
    BY <1>1, <1>2, <1>3, <1>5, <1>10, TesUnlinked DEF ListInv, RegTypes
  <1>12. loc'[t].pc = "rf_te"
    BY <1>1, <1>5, Fields DEF Locals
  <1>13. qlock'.w # NoOne => qlock'.r = {}
    BY <1>1, LockFacts DEF Lock, Unlocked, MayWrite
  <1>14. qlock'.w = t <=> loc'[t].pc = "rc_zone"
    BY <1>1, <1>12, LockFacts DEF Lock, Unlocked, MayWrite
  <1>15. \A u \in Callers \ {t} : (qlock'.w = u <=> qlock.w = u) /\ (u \in qlock.r => u \in qlock'.r)
    BY <1>1, LockFacts, RegistryAssumption DEF Lock, Unlocked, MayWrite
  <1>16. mplock'.w = t <=> loc'[t].pc \in {"pc_te", "pc_zone", "pc_lock"}
    BY <1>1, <1>12, LockFacts DEF Lock, Unlocked, MayWrite
  <1>17. \A u \in Callers \ {t} : mplock'.w = u <=> mplock.w = u
    BY <1>1, LockFacts, RegistryAssumption DEF Lock, Unlocked, MayWrite
  <1>18. qlock.r # {} => TesOf(ring_list) \subseteq TesOf(ring_list')
    BY <1>1, LockFacts DEF MayWrite
  <1>19. loc'[t].pc = "rings" =>
          t \in qlock'.r /\ (loc'[t].te # Nil => loc'[t].te \in TesOf(ring_list'))
    BY <1>1, <1>2, <1>3, <1>5, Fields, LockFacts DEF Locals, Lock, TesOf, Entries
  <1>20. LocksSound'
    BY <1>5, <1>13, <1>14, <1>15, <1>16, <1>17, <1>18, <1>19, LocksStep DEF ListInv
  <1> QED BY <1>5, <1>7, <1>8, <1>9, <1>11, <1>20, LocalsStep DEF ListInv

LEMMA RingFreeTeLists ==
  ASSUME ListInv, NEW t \in Callers, RingFreeTe(t)
  PROVE  ListInv'
  <1>1. /\ loc[t].pc = "rf_te"
        /\ UNCHANGED <<qlock, mplock, zone, ring_list, pool_list, pool, owned>>
    BY DEF RingFreeTe, memory, lists, Go, Leave, FreedTes
  <1>2. ASSUME InPool(t),
               te_used' = te_used \ {loc[t].te},
               loc' = [loc EXCEPT ![t] = [loc[t] EXCEPT !.pc = "pf_zone"]]
        PROVE  ListInv'
    <2>1. [loc[t] EXCEPT !.pc = "pf_zone"] \in Locals
      BY Fields, PcsAre DEF Locals
    <2>2. loc' \in [Callers -> Locals] /\ loc'[t] = [loc[t] EXCEPT !.pc = "pf_zone"] /\ Others(t)
      BY <1>1, <1>2, <2>1 DEF ListInv, RegTypes, Others
    <2>3. te_used' \in SUBSET Tes
      BY <1>1, <1>2 DEF ListInv, RegTypes
    <2>4. RegTypes'
      BY <1>1, <1>2, <2>2, <2>3 DEF ListInv, RegTypes
    <2>5. LocalsOf(t)'
      BY <1>1, <1>2, <2>2, Fields, RegistryAssumption DEF LocalsOf, InPool, HasTe, HasChunk, Nil, Creating, Freeing, PoolPcs, FreePcs, Locals
    <2>6. NameOf(t)'
      BY <1>1, <1>2, <2>2, Fields DEF NameOf, LocalsOf, InPool, Nil, Creating, Freeing, PoolPcs, FreePcs, Locals
    <2>7. HasTe(t) /\ ~HasTe(t)'
      BY <1>1, <1>2, <2>2, Fields DEF HasTe, Locals
    <2>8. TesSound'
      BY <1>1, <1>2, <2>2, <2>7, TesFreed DEF ListInv, RegTypes
    <2>9. LocksSound'
      BY <1>1, <1>2, <2>2, Fields, LocksKept DEF ListInv, Locals
    <2> QED BY <2>2, <2>4, <2>5, <2>6, <2>8, <2>9, LocalsStep DEF ListInv
  <1>3. ASSUME ~InPool(t),
               te_used' = te_used \ {loc[t].te},
               loc' = [loc EXCEPT ![t] = Returned]
        PROVE  ListInv'
    <2>1. Returned \in Locals
      BY Fields, PcsAre, NameTypes DEF Locals, Returned
    <2>2. loc' \in [Callers -> Locals] /\ loc'[t] = Returned /\ Others(t)
      BY <1>1, <1>3, <2>1 DEF ListInv, RegTypes, Others
    <2>3. te_used' \in SUBSET Tes
      BY <1>1, <1>3 DEF ListInv, RegTypes
    <2>4. RegTypes'
      BY <1>1, <1>3, <2>2, <2>3 DEF ListInv, RegTypes
    <2>5. LocalsOf(t)'
      BY <1>1, <1>3, <2>2, Fields, RegistryAssumption DEF LocalsOf, InPool, HasTe, HasChunk, Nil, Creating, Freeing, PoolPcs, FreePcs, Returned
    <2>6. NameOf(t)'
      BY <1>1, <1>3, <2>2, Fields DEF NameOf, LocalsOf, InPool, Nil, Creating, Freeing, PoolPcs, FreePcs, Returned, MP
    <2>7. HasTe(t) /\ ~HasTe(t)'
      BY <1>1, <1>3, <2>2, Fields DEF HasTe, Locals, Returned
    <2>8. TesSound'
      BY <1>1, <1>3, <2>2, <2>7, TesFreed DEF ListInv, RegTypes
    <2>9. LocksSound'
      BY <1>1, <1>3, <2>2, Fields, LocksKept DEF ListInv, Locals, Returned
    <2> QED BY <2>2, <2>4, <2>5, <2>6, <2>8, <2>9, LocalsStep DEF ListInv
  <1> QED BY <1>1, <1>2, <1>3 DEF RingFreeTe, memory, lists, Go, Leave, FreedTes

LEMMA PoolCreateLists ==
  ASSUME ListInv, NEW t \in Callers, NEW n \in PoolNames, PoolCreate(t, n)
  PROVE  ListInv'
  <1>1. /\ loc[t].pc = "idle" /\ MayWrite(mplock)
        /\ UNCHANGED <<qlock, zone, te_used, ring_list, pool_list, pool, owned>>
        /\ mplock' = [mplock EXCEPT !.w = t]
        /\ loc' = [loc EXCEPT ![t] = [Returned EXCEPT !.name = <<"MP", n>>, !.pc = "pc_te"]]
    BY DEF PoolCreate, memory, lists, GoWith
  <1>2. [Returned EXCEPT !.name = <<"MP", n>>, !.pc = "pc_te"] \in Locals
    BY Fields, PcsAre, NameTypes DEF Locals, Returned
  <1>3. loc' \in [Callers -> Locals] /\ loc'[t] = [Returned EXCEPT !.name = <<"MP", n>>, !.pc = "pc_te"] /\ Others(t)
    BY <1>1, <1>2 DEF ListInv, RegTypes, Others
  <1>4. mplock' \in Lock
    BY <1>1 DEF ListInv, RegTypes, Lock, Unlocked
  <1>5. RegTypes'
    BY <1>1, <1>3, <1>4 DEF ListInv, RegTypes
  <1>6. LocalsOf(t)'
    BY <1>1, <1>3, Fields, RegistryAssumption DEF LocalsOf, InPool, HasTe, HasChunk, Nil, Creating, Freeing, PoolPcs, FreePcs, Returned
  <1>7. NameOf(t)'
    BY <1>1, <1>3, Fields DEF NameOf, LocalsOf, InPool, Nil, Creating, Freeing, PoolPcs, FreePcs, Returned, MP
  <1>8. (HasTe(t)' <=> HasTe(t)) /\ (HasTe(t) => loc'[t].te = loc[t].te)
    BY <1>1, <1>3, Fields DEF HasTe, Locals, Returned
  <1>9. TesSound'
    BY <1>1, <1>3, <1>8, TesKept DEF ListInv, RegTypes
  <1>10. loc'[t].pc = "pc_te"
    BY <1>1, <1>3, Fields DEF Locals, Returned
  <1>11. qlock'.w # NoOne => qlock'.r = {}
    BY <1>1, LockFacts DEF Lock, Unlocked, MayWrite
  <1>12. qlock'.w = t <=> loc'[t].pc = "rc_zone"
    BY <1>1, <1>10, LockFacts DEF Lock, Unlocked, MayWrite
  <1>13. \A u \in Callers \ {t} : (qlock'.w = u <=> qlock.w = u) /\ (u \in qlock.r => u \in qlock'.r)
    BY <1>1, LockFacts, RegistryAssumption DEF Lock, Unlocked, MayWrite
  <1>14. mplock'.w = t <=> loc'[t].pc \in {"pc_te", "pc_zone", "pc_lock"}
    BY <1>1, <1>10, LockFacts DEF Lock, Unlocked, MayWrite
  <1>15. \A u \in Callers \ {t} : mplock'.w = u <=> mplock.w = u
    BY <1>1, LockFacts, RegistryAssumption DEF Lock, Unlocked, MayWrite
  <1>16. qlock.r # {} => TesOf(ring_list) \subseteq TesOf(ring_list')
    BY <1>1
  <1>17. loc'[t].pc = "rings" =>
          t \in qlock'.r /\ (loc'[t].te # Nil => loc'[t].te \in TesOf(ring_list'))
    BY <1>1, <1>3, Fields, LockFacts DEF Locals, Lock, TesOf, Entries, Returned
  <1>18. LocksSound'
    BY <1>3, <1>11, <1>12, <1>13, <1>14, <1>15, <1>16, <1>17, LocksStep DEF ListInv
  <1> QED BY <1>3, <1>5, <1>6, <1>7, <1>9, <1>18, LocalsStep DEF ListInv

LEMMA PoolTeLists ==
  ASSUME ListInv, NEW t \in Callers, PoolTe(t)
  PROVE  ListInv'
  <1>1. /\ loc[t].pc = "pc_te"
        /\ UNCHANGED <<qlock, zone, ring_list, pool_list, pool, owned>>
    BY DEF PoolTe, memory, lists, PoolExit, Leave
  <1>2. ASSUME NEW e \in FreeTe,
               UNCHANGED <<mplock>>,
               te_used' = te_used \cup {e},
               loc' = [loc EXCEPT ![t] = [loc[t] EXCEPT !.te = e, !.pc = "pc_zone"]]
        PROVE  ListInv'
    <2>1. [loc[t] EXCEPT !.te = e, !.pc = "pc_zone"] \in Locals
      BY Fields, PcsAre, Fresh DEF Locals
    <2>2. loc' \in [Callers -> Locals] /\ loc'[t] = [loc[t] EXCEPT !.te = e, !.pc = "pc_zone"] /\ Others(t)
      BY <1>1, <1>2, <2>1 DEF ListInv, RegTypes, Others
    <2>3. te_used' \in SUBSET Tes
      BY <1>1, <1>2, Fresh DEF ListInv, RegTypes
    <2>4. RegTypes'
      BY <1>1, <1>2, <2>2, <2>3 DEF ListInv, RegTypes
    <2>5. LocalsOf(t)'
      BY <1>1, <1>2, <2>2, Fields, Fresh, RegistryAssumption DEF LocalsOf, InPool, HasTe, HasChunk, Nil, Creating, Freeing, PoolPcs, FreePcs, Locals
    <2>6. NameOf(t)'
      BY <1>1, <1>2, <2>2, Fields, Fresh DEF NameOf, LocalsOf, InPool, Nil, Creating, Freeing, PoolPcs, FreePcs, Locals
    <2>7. ~HasTe(t) /\ HasTe(t)' /\ loc'[t].te = e
      BY <1>1, <1>2, <2>2, Fields DEF HasTe, Locals
    <2>8. TesSound'
      BY <1>1, <1>2, <2>2, <2>7, TesTaken, Fresh DEF ListInv, RegTypes
    <2>9. LocksSound'
      BY <1>1, <1>2, <2>2, Fields, LocksKept DEF ListInv, Locals
    <2> QED BY <2>2, <2>4, <2>5, <2>6, <2>8, <2>9, LocalsStep DEF ListInv
  <1>3. ASSUME UNCHANGED <<te_used>>,
               mplock' = Unlocked,
               loc' = [loc EXCEPT ![t] = Returned]
        PROVE  ListInv'
    <2>1. Returned \in Locals
      BY Fields, PcsAre, NameTypes DEF Locals, Returned
    <2>2. loc' \in [Callers -> Locals] /\ loc'[t] = Returned /\ Others(t)
      BY <1>1, <1>3, <2>1 DEF ListInv, RegTypes, Others
    <2>3. mplock' \in Lock
      BY <1>1, <1>3 DEF ListInv, RegTypes, Lock, Unlocked
    <2>4. RegTypes'
      BY <1>1, <1>3, <2>2, <2>3 DEF ListInv, RegTypes
    <2>5. LocalsOf(t)'
      BY <1>1, <1>3, <2>2, Fields, RegistryAssumption DEF LocalsOf, InPool, HasTe, HasChunk, Nil, Creating, Freeing, PoolPcs, FreePcs, Returned
    <2>6. NameOf(t)'
      BY <1>1, <1>3, <2>2, Fields DEF NameOf, LocalsOf, InPool, Nil, Creating, Freeing, PoolPcs, FreePcs, Returned, MP
    <2>7. (HasTe(t)' <=> HasTe(t)) /\ (HasTe(t) => loc'[t].te = loc[t].te)
      BY <1>1, <1>3, <2>2, Fields DEF HasTe, Locals, Returned
    <2>8. TesSound'
      BY <1>1, <1>3, <2>2, <2>7, TesKept DEF ListInv, RegTypes
    <2>9. loc'[t].pc = "idle"
      BY <1>1, <1>3, <2>2, Fields DEF Locals, Returned
    <2>10. qlock'.w # NoOne => qlock'.r = {}
      BY <1>1, <1>3, LockFacts DEF Lock, Unlocked
    <2>11. qlock'.w = t <=> loc'[t].pc = "rc_zone"
      BY <1>1, <1>3, <2>9, LockFacts DEF Lock, Unlocked
    <2>12. \A u \in Callers \ {t} : (qlock'.w = u <=> qlock.w = u) /\ (u \in qlock.r => u \in qlock'.r)
      BY <1>1, <1>3, LockFacts, RegistryAssumption DEF Lock, Unlocked
    <2>13. mplock'.w = t <=> loc'[t].pc \in {"pc_te", "pc_zone", "pc_lock"}
      BY <1>1, <1>3, <2>9, LockFacts DEF Lock, Unlocked
    <2>14. \A u \in Callers \ {t} : mplock'.w = u <=> mplock.w = u
      BY <1>1, <1>3, LockFacts, RegistryAssumption DEF Lock, Unlocked
    <2>15. qlock.r # {} => TesOf(ring_list) \subseteq TesOf(ring_list')
      BY <1>1, <1>3
    <2>16. loc'[t].pc = "rings" =>
            t \in qlock'.r /\ (loc'[t].te # Nil => loc'[t].te \in TesOf(ring_list'))
      BY <1>1, <1>3, <2>2, Fields, LockFacts DEF Locals, Lock, TesOf, Entries, Returned
    <2>17. LocksSound'
      BY <2>2, <2>10, <2>11, <2>12, <2>13, <2>14, <2>15, <2>16, LocksStep DEF ListInv
    <2> QED BY <2>2, <2>4, <2>5, <2>6, <2>8, <2>17, LocalsStep DEF ListInv
  <1> QED BY <1>1, <1>2, <1>3 DEF PoolTe, memory, lists, PoolExit, Leave

LEMMA PoolZoneLists ==
  ASSUME ListInv, NEW t \in Callers, PoolZone(t)
  PROVE  ListInv'
  <1>1. /\ loc[t].pc = "pc_zone"
        /\ UNCHANGED <<qlock, ring_list, pool_list, owned>>
    BY DEF PoolZone, memory, lists, PoolExit, Leave, Reserved, FreedTes
  <1>2. ASSUME NEW a \in FreeAddr,
               UNCHANGED <<mplock, te_used>>,
               zone' = [zone EXCEPT ![a] = loc[t].name],
               pool' = [pool EXCEPT ![a] = NoPool],
               loc' = [loc EXCEPT ![t] = [loc[t] EXCEPT !.mp = a, !.pc = "pc_lock"]]
        PROVE  ListInv'
    <2>1. a \in Addrs
      BY <1>1, <1>2, Fresh
    <2>2. [loc[t] EXCEPT !.mp = a, !.pc = "pc_lock"] \in Locals
      BY <2>1, Fields, PcsAre, Fresh DEF Locals
    <2>3. loc' \in [Callers -> Locals] /\ loc'[t] = [loc[t] EXCEPT !.mp = a, !.pc = "pc_lock"] /\ Others(t)
      BY <1>1, <1>2, <2>2 DEF ListInv, RegTypes, Others
    <2>4. zone' \in [Addrs -> Seq(Words)]
      BY <1>1, <1>2, <2>1, Fresh, Fields, NameTypes DEF ListInv, RegTypes
    <2>5. pool' \in [Addrs -> [ring : Addrs \cup {Nil}, chunks : SUBSET Addrs]]
      BY <1>1, <1>2, <2>1, Fresh DEF ListInv, RegTypes, NoPool
    <2>6. RegTypes'
      BY <1>1, <1>2, <2>3, <2>4, <2>5 DEF ListInv, RegTypes
    <2>7. LocalsOf(t)'
      BY <1>1, <1>2, <2>1, <2>3, Fields, Fresh, RegistryAssumption DEF LocalsOf, InPool, HasTe, HasChunk, Nil, Creating, Freeing, PoolPcs, FreePcs, Locals
    <2>8. NameOf(t)'
      BY <1>1, <1>2, <2>3, Fields, Fresh DEF NameOf, LocalsOf, InPool, Nil, Creating, Freeing, PoolPcs, FreePcs, Locals
    <2>9. (HasTe(t)' <=> HasTe(t)) /\ (HasTe(t) => loc'[t].te = loc[t].te)
      BY <1>1, <1>2, <2>3, Fields DEF HasTe, Locals
    <2>10. TesSound'
      BY <1>1, <1>2, <2>1, <2>3, <2>9, TesKept DEF ListInv, RegTypes
    <2>11. LocksSound'
      BY <1>1, <1>2, <2>3, Fields, LocksKept DEF ListInv, Locals
    <2> QED BY <2>3, <2>6, <2>7, <2>8, <2>10, <2>11, LocalsStep DEF ListInv
  <1>3. ASSUME UNCHANGED <<zone, pool>>,
               mplock' = Unlocked,
               te_used' = te_used \ {loc[t].te},
               loc' = [loc EXCEPT ![t] = Returned]
        PROVE  ListInv'
    <2>1. Returned \in Locals
      BY Fields, PcsAre, NameTypes DEF Locals, Returned
    <2>2. loc' \in [Callers -> Locals] /\ loc'[t] = Returned /\ Others(t)
      BY <1>1, <1>3, <2>1 DEF ListInv, RegTypes, Others
    <2>3. mplock' \in Lock
      BY <1>1, <1>3 DEF ListInv, RegTypes, Lock, Unlocked
    <2>4. te_used' \in SUBSET Tes
      BY <1>1, <1>3 DEF ListInv, RegTypes
    <2>5. RegTypes'
      BY <1>1, <1>3, <2>2, <2>3, <2>4 DEF ListInv, RegTypes
    <2>6. LocalsOf(t)'
      BY <1>1, <1>3, <2>2, Fields, RegistryAssumption DEF LocalsOf, InPool, HasTe, HasChunk, Nil, Creating, Freeing, PoolPcs, FreePcs, Returned
    <2>7. NameOf(t)'
      BY <1>1, <1>3, <2>2, Fields DEF NameOf, LocalsOf, InPool, Nil, Creating, Freeing, PoolPcs, FreePcs, Returned, MP
    <2>8. HasTe(t) /\ ~HasTe(t)'
      BY <1>1, <1>3, <2>2, Fields DEF HasTe, Locals, Returned
    <2>9. TesSound'
      BY <1>1, <1>3, <2>2, <2>8, TesFreed DEF ListInv, RegTypes
    <2>10. loc'[t].pc = "idle"
      BY <1>1, <1>3, <2>2, Fields DEF Locals, Returned
    <2>11. qlock'.w # NoOne => qlock'.r = {}
      BY <1>1, <1>3, LockFacts DEF Lock, Unlocked
    <2>12. qlock'.w = t <=> loc'[t].pc = "rc_zone"
      BY <1>1, <1>3, <2>10, LockFacts DEF Lock, Unlocked
    <2>13. \A u \in Callers \ {t} : (qlock'.w = u <=> qlock.w = u) /\ (u \in qlock.r => u \in qlock'.r)
      BY <1>1, <1>3, LockFacts, RegistryAssumption DEF Lock, Unlocked
    <2>14. mplock'.w = t <=> loc'[t].pc \in {"pc_te", "pc_zone", "pc_lock"}
      BY <1>1, <1>3, <2>10, LockFacts DEF Lock, Unlocked
    <2>15. \A u \in Callers \ {t} : mplock'.w = u <=> mplock.w = u
      BY <1>1, <1>3, LockFacts, RegistryAssumption DEF Lock, Unlocked
    <2>16. qlock.r # {} => TesOf(ring_list) \subseteq TesOf(ring_list')
      BY <1>1, <1>3
    <2>17. loc'[t].pc = "rings" =>
            t \in qlock'.r /\ (loc'[t].te # Nil => loc'[t].te \in TesOf(ring_list'))
      BY <1>1, <1>3, <2>2, Fields, LockFacts DEF Locals, Lock, TesOf, Entries, Returned
    <2>18. LocksSound'
      BY <2>2, <2>11, <2>12, <2>13, <2>14, <2>15, <2>16, <2>17, LocksStep DEF ListInv
    <2> QED BY <2>2, <2>5, <2>6, <2>7, <2>9, <2>18, LocalsStep DEF ListInv
  <1> QED
    <2>1. ASSUME NEW a \in FreeAddr, Reserved(loc[t].name, a),
                 pool' = [pool EXCEPT ![a] = NoPool],
                 loc' = [loc EXCEPT ![t].mp = a, ![t].pc = "pc_lock"],
                 UNCHANGED <<mplock, te_used>>
          PROVE  ListInv'
      <3>1. zone' = [zone EXCEPT ![a] = loc[t].name]
        BY <2>1 DEF Reserved
      <3> QED BY <1>2, <2>1, <3>1
    <2>2. CASE PoolExit(t) /\ te_used' = FreedTes(t) /\ UNCHANGED <<zone, pool>>
      BY <1>3, <2>2 DEF PoolExit, Leave, FreedTes
    <2> QED BY <2>1, <2>2 DEF PoolZone

LEMMA PoolInsertLists ==
  ASSUME ListInv, NEW t \in Callers, PoolInsert(t)
  PROVE  ListInv'
  <1>1. /\ loc[t].pc = "pc_lock" /\ MayWrite(qlock)
        /\ UNCHANGED <<qlock, zone, te_used, ring_list, pool, owned>>
        /\ mplock' = Unlocked
        /\ pool_list' = Append(pool_list, [te |-> loc[t].te, data |-> loc[t].mp])
        /\ loc' = [loc EXCEPT ![t] = [loc[t] EXCEPT !.pc = "populate"]]
    BY DEF PoolInsert, memory, lists, Go
  <1>2. [te |-> loc[t].te, data |-> loc[t].mp] \in Entry
    BY <1>1, Fields DEF LocalsOf, InPool, HasTe, Entry, PoolPcs
  <1>3. [loc[t] EXCEPT !.pc = "populate"] \in Locals
    BY <1>2, Fields, PcsAre DEF Locals
  <1>4. loc' \in [Callers -> Locals] /\ loc'[t] = [loc[t] EXCEPT !.pc = "populate"] /\ Others(t)
    BY <1>1, <1>3 DEF ListInv, RegTypes, Others
  <1>5. mplock' \in Lock
    BY <1>1, <1>2 DEF ListInv, RegTypes, Lock, Unlocked
  <1>6. pool_list' \in Seq(Entry)
    BY <1>1, <1>2 DEF ListInv, RegTypes
  <1>7. RegTypes'
    BY <1>1, <1>4, <1>5, <1>6 DEF ListInv, RegTypes
  <1>8. LocalsOf(t)'
    BY <1>1, <1>2, <1>4, Fields, RegistryAssumption DEF LocalsOf, InPool, HasTe, HasChunk, Nil, Creating, Freeing, PoolPcs, FreePcs, Locals
  <1>9. NameOf(t)'
    BY <1>1, <1>4, Fields DEF NameOf, LocalsOf, InPool, Nil, Creating, Freeing, PoolPcs, FreePcs, Locals
  <1>10. HasTe(t) /\ ~HasTe(t)'
    BY <1>1, <1>4, Fields DEF HasTe, Locals
  <1>11. TesSound'
    BY <1>1, <1>2, <1>4, <1>10, TesLinked DEF ListInv, RegTypes
  <1>12. loc'[t].pc = "populate"
    BY <1>1, <1>4, Fields DEF Locals
  <1>13. qlock'.w # NoOne => qlock'.r = {}
    BY <1>1, LockFacts DEF Lock, Unlocked, MayWrite
  <1>14. qlock'.w = t <=> loc'[t].pc = "rc_zone"
    BY <1>1, <1>12, LockFacts DEF Lock, Unlocked, MayWrite
  <1>15. \A u \in Callers \ {t} : (qlock'.w = u <=> qlock.w = u) /\ (u \in qlock.r => u \in qlock'.r)
    BY <1>1, LockFacts, RegistryAssumption DEF Lock, Unlocked, MayWrite
  <1>16. mplock'.w = t <=> loc'[t].pc \in {"pc_te", "pc_zone", "pc_lock"}
    BY <1>1, <1>12, LockFacts DEF Lock, Unlocked, MayWrite
  <1>17. \A u \in Callers \ {t} : mplock'.w = u <=> mplock.w = u
    BY <1>1, LockFacts, RegistryAssumption DEF Lock, Unlocked, MayWrite
  <1>18. qlock.r # {} => TesOf(ring_list) \subseteq TesOf(ring_list')
    BY <1>1
  <1>19. loc'[t].pc = "rings" =>
          t \in qlock'.r /\ (loc'[t].te # Nil => loc'[t].te \in TesOf(ring_list'))
    BY <1>1, <1>2, <1>4, Fields, LockFacts DEF Locals, Lock, TesOf, Entries
  <1>20. LocksSound'
    BY <1>4, <1>13, <1>14, <1>15, <1>16, <1>17, <1>18, <1>19, LocksStep DEF ListInv
  <1> QED BY <1>4, <1>7, <1>8, <1>9, <1>11, <1>20, LocalsStep DEF ListInv

LEMMA PopulateLists ==
  ASSUME ListInv, NEW t \in Callers, Populate(t)
  PROVE  ListInv'
  <1>1. /\ loc[t].pc = "populate"
        /\ UNCHANGED <<qlock, mplock, te_used, ring_list, pool_list, pool, owned>>
    BY DEF Populate, memory, lists, Reserved, Go
  <1>2. ASSUME NEW a \in FreeAddr,
               pool[loc[t].mp].ring = Nil,
               zone' = [zone EXCEPT ![a] = loc[t].name \o <<Cardinality(pool[loc[t].mp].chunks)>>],
               loc' = [loc EXCEPT ![t] = [loc[t] EXCEPT !.chunk = a, !.pc = "pool_ring"]]
        PROVE  ListInv'
    <2>1. a \in Addrs
      BY <1>1, <1>2, Fresh
    <2>2. loc[t].name \o <<Cardinality(pool[loc[t].mp].chunks)>> \in Seq(Words)
      BY <1>1, <1>2, ChunkName
    <2>3. [loc[t] EXCEPT !.chunk = a, !.pc = "pool_ring"] \in Locals
      BY <2>1, Fields, PcsAre, Fresh DEF Locals
    <2>4. loc' \in [Callers -> Locals] /\ loc'[t] = [loc[t] EXCEPT !.chunk = a, !.pc = "pool_ring"] /\ Others(t)
      BY <1>1, <1>2, <2>3 DEF ListInv, RegTypes, Others
    <2>5. zone' \in [Addrs -> Seq(Words)]
      BY <1>1, <1>2, <2>1, <2>2, Fresh, Fields, NameTypes DEF ListInv, RegTypes
    <2>6. RegTypes'
      BY <1>1, <1>2, <2>4, <2>5 DEF ListInv, RegTypes
    <2>7. LocalsOf(t)'
      BY <1>1, <1>2, <2>1, <2>2, <2>4, Fields, Fresh, RegistryAssumption DEF LocalsOf, InPool, HasTe, HasChunk, Nil, Creating, Freeing, PoolPcs, FreePcs, Locals
    <2>8. NameOf(t)'
      BY <1>1, <1>2, <2>4, Fields, Fresh DEF NameOf, LocalsOf, InPool, Nil, Creating, Freeing, PoolPcs, FreePcs, Locals
    <2>9. (HasTe(t)' <=> HasTe(t)) /\ (HasTe(t) => loc'[t].te = loc[t].te)
      BY <1>1, <1>2, <2>4, Fields DEF HasTe, Locals
    <2>10. TesSound'
      BY <1>1, <1>2, <2>1, <2>2, <2>4, <2>9, TesKept DEF ListInv, RegTypes
    <2>11. LocksSound'
      BY <1>1, <1>2, <2>4, Fields, LocksKept DEF ListInv, Locals
    <2> QED BY <2>4, <2>6, <2>7, <2>8, <2>10, <2>11, LocalsStep DEF ListInv
  <1>3. ASSUME NEW a \in FreeAddr,
               pool[loc[t].mp].ring # Nil,
               zone' = [zone EXCEPT ![a] = loc[t].name \o <<Cardinality(pool[loc[t].mp].chunks)>>],
               loc' = [loc EXCEPT ![t] = [loc[t] EXCEPT !.chunk = a, !.pc = "phy"]]
        PROVE  ListInv'
    <2>1. a \in Addrs
      BY <1>1, <1>3, Fresh
    <2>2. loc[t].name \o <<Cardinality(pool[loc[t].mp].chunks)>> \in Seq(Words)
      BY <1>1, <1>3, ChunkName
    <2>3. [loc[t] EXCEPT !.chunk = a, !.pc = "phy"] \in Locals
      BY <2>1, Fields, PcsAre, Fresh DEF Locals
    <2>4. loc' \in [Callers -> Locals] /\ loc'[t] = [loc[t] EXCEPT !.chunk = a, !.pc = "phy"] /\ Others(t)
      BY <1>1, <1>3, <2>3 DEF ListInv, RegTypes, Others
    <2>5. zone' \in [Addrs -> Seq(Words)]
      BY <1>1, <1>3, <2>1, <2>2, Fresh, Fields, NameTypes DEF ListInv, RegTypes
    <2>6. RegTypes'
      BY <1>1, <1>3, <2>4, <2>5 DEF ListInv, RegTypes
    <2>7. LocalsOf(t)'
      BY <1>1, <1>3, <2>1, <2>2, <2>4, Fields, Fresh, RegistryAssumption DEF LocalsOf, InPool, HasTe, HasChunk, Nil, Creating, Freeing, PoolPcs, FreePcs, Locals
    <2>8. NameOf(t)'
      BY <1>1, <1>3, <2>4, Fields, Fresh DEF NameOf, LocalsOf, InPool, Nil, Creating, Freeing, PoolPcs, FreePcs, Locals
    <2>9. (HasTe(t)' <=> HasTe(t)) /\ (HasTe(t) => loc'[t].te = loc[t].te)
      BY <1>1, <1>3, <2>4, Fields DEF HasTe, Locals
    <2>10. TesSound'
      BY <1>1, <1>3, <2>1, <2>2, <2>4, <2>9, TesKept DEF ListInv, RegTypes
    <2>11. LocksSound'
      BY <1>1, <1>3, <2>4, Fields, LocksKept DEF ListInv, Locals
    <2> QED BY <2>4, <2>6, <2>7, <2>8, <2>10, <2>11, LocalsStep DEF ListInv
  <1>4. ASSUME UNCHANGED <<zone>>,
               loc' = [loc EXCEPT ![t] = [loc[t] EXCEPT !.pc = "fail"]]
        PROVE  ListInv'
    <2>1. [loc[t] EXCEPT !.pc = "fail"] \in Locals
      BY Fields, PcsAre DEF Locals
    <2>2. loc' \in [Callers -> Locals] /\ loc'[t] = [loc[t] EXCEPT !.pc = "fail"] /\ Others(t)
      BY <1>1, <1>4, <2>1 DEF ListInv, RegTypes, Others
    <2>3. RegTypes'
      BY <1>1, <1>4, <2>2 DEF ListInv, RegTypes
    <2>4. LocalsOf(t)'
      BY <1>1, <1>4, <2>2, Fields, RegistryAssumption DEF LocalsOf, InPool, HasTe, HasChunk, Nil, Creating, Freeing, PoolPcs, FreePcs, Locals
    <2>5. NameOf(t)'
      BY <1>1, <1>4, <2>2, Fields DEF NameOf, LocalsOf, InPool, Nil, Creating, Freeing, PoolPcs, FreePcs, Locals
    <2>6. (HasTe(t)' <=> HasTe(t)) /\ (HasTe(t) => loc'[t].te = loc[t].te)
      BY <1>1, <1>4, <2>2, Fields DEF HasTe, Locals
    <2>7. TesSound'
      BY <1>1, <1>4, <2>2, <2>6, TesKept DEF ListInv, RegTypes
    <2>8. LocksSound'
      BY <1>1, <1>4, <2>2, Fields, LocksKept DEF ListInv, Locals
    <2> QED BY <2>2, <2>3, <2>4, <2>5, <2>7, <2>8, LocalsStep DEF ListInv
  <1> QED
    <2> DEFINE name == loc[t].name \o <<Cardinality(pool[loc[t].mp].chunks)>>
    <2>1. CASE Go(t, "fail") /\ UNCHANGED zone
      BY <1>4, <2>1 DEF Go
    <2>2. ASSUME NEW a \in FreeAddr, Reserved(name, a),
                 loc' = [loc EXCEPT ![t].chunk = a,
                           ![t].pc = IF pool[loc[t].mp].ring = Nil THEN "pool_ring" ELSE "phy"]
          PROVE  ListInv'
      <3>1. zone' = [zone EXCEPT ![a] = name]
        BY <2>2 DEF Reserved
      <3>2. CASE pool[loc[t].mp].ring = Nil
        BY <1>2, <2>2, <3>1, <3>2
      <3>3. CASE pool[loc[t].mp].ring # Nil
        BY <1>3, <2>2, <3>1, <3>3
      <3> QED BY <3>2, <3>3
    <2> QED BY <2>1, <2>2 DEF Populate

LEMMA PoolRingLists ==
  ASSUME ListInv, NEW t \in Callers, PoolRing(t)
  PROVE  ListInv'
  <1>1. /\ loc[t].pc = "pool_ring"
        /\ UNCHANGED <<qlock, mplock, zone, te_used, ring_list, pool_list, pool, owned>>
    BY DEF PoolRing, memory, lists, Go
  <1>2. ASSUME loc' = [loc EXCEPT ![t] = [loc[t] EXCEPT !.pc = "phy_fail"]]
        PROVE  ListInv'
    <2>1. [loc[t] EXCEPT !.pc = "phy_fail"] \in Locals
      BY Fields, PcsAre DEF Locals
    <2>2. loc' \in [Callers -> Locals] /\ loc'[t] = [loc[t] EXCEPT !.pc = "phy_fail"] /\ Others(t)
      BY <1>1, <1>2, <2>1 DEF ListInv, RegTypes, Others
    <2>3. RegTypes'
      BY <1>1, <1>2, <2>2 DEF ListInv, RegTypes
    <2>4. LocalsOf(t)'
      BY <1>1, <1>2, <2>2, Fields, RegistryAssumption DEF LocalsOf, InPool, HasTe, HasChunk, Nil, Creating, Freeing, PoolPcs, FreePcs, Locals
    <2>5. NameOf(t)'
      BY <1>1, <1>2, <2>2, Fields DEF NameOf, LocalsOf, InPool, Nil, Creating, Freeing, PoolPcs, FreePcs, Locals
    <2>6. (HasTe(t)' <=> HasTe(t)) /\ (HasTe(t) => loc'[t].te = loc[t].te)
      BY <1>1, <1>2, <2>2, Fields DEF HasTe, Locals
    <2>7. TesSound'
      BY <1>1, <1>2, <2>2, <2>6, TesKept DEF ListInv, RegTypes
    <2>8. LocksSound'
      BY <1>1, <1>2, <2>2, Fields, LocksKept DEF ListInv, Locals
    <2> QED BY <2>2, <2>3, <2>4, <2>5, <2>7, <2>8, LocalsStep DEF ListInv
  <1>3. ASSUME loc' = [loc EXCEPT ![t] = [loc[t] EXCEPT !.name = <<"RG">> \o loc[t].name, !.pc = "rc_te"]]
        PROVE  ListInv'
    <2>1. \E n \in PoolNames : <<"RG">> \o loc[t].name = RGMP(n)
      BY <1>1, <1>3, Fields, Forms DEF NameOf
    <2>2. [loc[t] EXCEPT !.name = <<"RG">> \o loc[t].name, !.pc = "rc_te"] \in Locals
      BY Fields, PcsAre, NameTypes DEF Locals
    <2>3. loc' \in [Callers -> Locals] /\ loc'[t] = [loc[t] EXCEPT !.name = <<"RG">> \o loc[t].name, !.pc = "rc_te"] /\ Others(t)
      BY <1>1, <1>3, <2>2 DEF ListInv, RegTypes, Others
    <2>4. RegTypes'
      BY <1>1, <1>3, <2>3 DEF ListInv, RegTypes
    <2>5. LocalsOf(t)'
      BY <1>1, <1>3, <2>1, <2>3, Fields, RegistryAssumption DEF LocalsOf, InPool, HasTe, HasChunk, Nil, Creating, Freeing, PoolPcs, FreePcs, Locals
    <2>6. NameOf(t)'
      BY <1>1, <1>3, <2>1, <2>3, Fields DEF NameOf, LocalsOf, InPool, Nil, Creating, Freeing, PoolPcs, FreePcs, Locals
    <2>7. (HasTe(t)' <=> HasTe(t)) /\ (HasTe(t) => loc'[t].te = loc[t].te)
      BY <1>1, <1>3, <2>3, Fields DEF HasTe, Locals
    <2>8. TesSound'
      BY <1>1, <1>3, <2>1, <2>3, <2>7, TesKept DEF ListInv, RegTypes
    <2>9. LocksSound'
      BY <1>1, <1>3, <2>3, Fields, LocksKept DEF ListInv, Locals
    <2> QED BY <2>3, <2>4, <2>5, <2>6, <2>8, <2>9, LocalsStep DEF ListInv
  <1> QED BY <1>1, <1>2, <1>3 DEF PoolRing, memory, lists, Go

LEMMA PopulatePhyLists ==
  ASSUME ListInv, NEW t \in Callers, PopulatePhy(t)
  PROVE  ListInv'
  <1>1. /\ loc[t].pc = "phy"
        /\ UNCHANGED <<qlock, mplock, zone, te_used, ring_list, pool_list>>
    BY DEF PopulatePhy, memory, lists, Go, Leave, GoWith
  <1>2. ASSUME UNCHANGED <<pool, owned>>,
               loc' = [loc EXCEPT ![t] = [loc[t] EXCEPT !.pc = "phy_fail"]]
        PROVE  ListInv'
    <2>1. [loc[t] EXCEPT !.pc = "phy_fail"] \in Locals
      BY Fields, PcsAre DEF Locals
    <2>2. loc' \in [Callers -> Locals] /\ loc'[t] = [loc[t] EXCEPT !.pc = "phy_fail"] /\ Others(t)
      BY <1>1, <1>2, <2>1 DEF ListInv, RegTypes, Others
    <2>3. RegTypes'
      BY <1>1, <1>2, <2>2 DEF ListInv, RegTypes
    <2>4. LocalsOf(t)'
      BY <1>1, <1>2, <2>2, Fields, RegistryAssumption DEF LocalsOf, InPool, HasTe, HasChunk, Nil, Creating, Freeing, PoolPcs, FreePcs, Locals
    <2>5. NameOf(t)'
      BY <1>1, <1>2, <2>2, Fields DEF NameOf, LocalsOf, InPool, Nil, Creating, Freeing, PoolPcs, FreePcs, Locals
    <2>6. (HasTe(t)' <=> HasTe(t)) /\ (HasTe(t) => loc'[t].te = loc[t].te)
      BY <1>1, <1>2, <2>2, Fields DEF HasTe, Locals
    <2>7. TesSound'
      BY <1>1, <1>2, <2>2, <2>6, TesKept DEF ListInv, RegTypes
    <2>8. LocksSound'
      BY <1>1, <1>2, <2>2, Fields, LocksKept DEF ListInv, Locals
    <2> QED BY <2>2, <2>3, <2>4, <2>5, <2>7, <2>8, LocalsStep DEF ListInv
  <1>3. ASSUME pool' = [pool EXCEPT ![loc[t].mp].chunks = pool[loc[t].mp].chunks \cup {loc[t].chunk}],
               owned' = owned \cup {<<"pool", loc[t].mp>>},
               loc' = [loc EXCEPT ![t] = Returned]
        PROVE  ListInv'
    <2>1. loc[t].mp \in Addrs /\ loc[t].chunk \in Addrs
      BY <1>1, <1>3, Fields DEF LocalsOf, InPool, HasChunk, PoolPcs
    <2>2. Returned \in Locals
      BY Fields, PcsAre, NameTypes DEF Locals, Returned
    <2>3. loc' \in [Callers -> Locals] /\ loc'[t] = Returned /\ Others(t)
      BY <1>1, <1>3, <2>2 DEF ListInv, RegTypes, Others
    <2>4. pool' \in [Addrs -> [ring : Addrs \cup {Nil}, chunks : SUBSET Addrs]]
      BY <1>1, <1>3, <2>1 DEF ListInv, RegTypes, NoPool
    <2>5. owned' \in SUBSET ({"ring", "pool"} \X Addrs)
      BY <1>1, <1>3, <2>1 DEF ListInv, RegTypes
    <2>6. RegTypes'
      BY <1>1, <1>3, <2>3, <2>4, <2>5 DEF ListInv, RegTypes
    <2>7. LocalsOf(t)'
      BY <1>1, <1>3, <2>1, <2>3, Fields, RegistryAssumption DEF LocalsOf, InPool, HasTe, HasChunk, Nil, Creating, Freeing, PoolPcs, FreePcs, Returned
    <2>8. NameOf(t)'
      BY <1>1, <1>3, <2>3, Fields DEF NameOf, LocalsOf, InPool, Nil, Creating, Freeing, PoolPcs, FreePcs, Returned, MP
    <2>9. (HasTe(t)' <=> HasTe(t)) /\ (HasTe(t) => loc'[t].te = loc[t].te)
      BY <1>1, <1>3, <2>3, Fields DEF HasTe, Locals, Returned
    <2>10. TesSound'
      BY <1>1, <1>3, <2>1, <2>3, <2>9, TesKept DEF ListInv, RegTypes
    <2>11. LocksSound'
      BY <1>1, <1>3, <2>3, Fields, LocksKept DEF ListInv, Locals, Returned
    <2> QED BY <2>3, <2>6, <2>7, <2>8, <2>10, <2>11, LocalsStep DEF ListInv
  <1>4. ASSUME UNCHANGED <<owned>>,
               pool' = [pool EXCEPT ![loc[t].mp].chunks = pool[loc[t].mp].chunks \cup {loc[t].chunk}],
               loc' = [loc EXCEPT ![t] = [loc[t] EXCEPT !.chunk = Nil, !.name = PoolName(t), !.pc = "populate"]]
        PROVE  ListInv'
    <2>1. loc[t].mp \in Addrs /\ loc[t].chunk \in Addrs
      BY <1>1, <1>4, Fields DEF LocalsOf, InPool, HasChunk, PoolPcs
    <2>2. PoolName(t) \in Seq(Words)
      BY <1>1, <1>4, PoolNameType
    <2>3. [loc[t] EXCEPT !.chunk = Nil, !.name = PoolName(t), !.pc = "populate"] \in Locals
      BY <2>2, Fields, PcsAre DEF Locals
    <2>4. loc' \in [Callers -> Locals] /\ loc'[t] = [loc[t] EXCEPT !.chunk = Nil, !.name = PoolName(t), !.pc = "populate"] /\ Others(t)
      BY <1>1, <1>4, <2>3 DEF ListInv, RegTypes, Others
    <2>5. pool' \in [Addrs -> [ring : Addrs \cup {Nil}, chunks : SUBSET Addrs]]
      BY <1>1, <1>4, <2>1, <2>2 DEF ListInv, RegTypes, NoPool
    <2>6. RegTypes'
      BY <1>1, <1>4, <2>4, <2>5 DEF ListInv, RegTypes
    <2>7. LocalsOf(t)'
      BY <1>1, <1>4, <2>1, <2>2, <2>4, Fields, RegistryAssumption DEF LocalsOf, InPool, HasTe, HasChunk, Nil, Creating, Freeing, PoolPcs, FreePcs, Locals
    <2>8. NameOf(t)'
      BY <1>1, <1>4, <2>4, Fields, PoolNameType DEF NameOf, LocalsOf, InPool, Nil, Creating, Freeing, PoolPcs, FreePcs, Locals
    <2>9. (HasTe(t)' <=> HasTe(t)) /\ (HasTe(t) => loc'[t].te = loc[t].te)
      BY <1>1, <1>4, <2>4, Fields DEF HasTe, Locals
    <2>10. TesSound'
      BY <1>1, <1>4, <2>1, <2>2, <2>4, <2>9, TesKept DEF ListInv, RegTypes
    <2>11. LocksSound'
      BY <1>1, <1>4, <2>4, Fields, LocksKept DEF ListInv, Locals
    <2> QED BY <2>4, <2>6, <2>7, <2>8, <2>10, <2>11, LocalsStep DEF ListInv
  <1> QED BY <1>1, <1>2, <1>3, <1>4 DEF PopulatePhy, memory, lists, Go, Leave, GoWith

LEMMA PhyFailLists ==
  ASSUME ListInv, NEW t \in Callers, PhyFail(t)
  PROVE  ListInv'
  <1>1. /\ loc[t].pc = "phy_fail"
        /\ UNCHANGED <<qlock, mplock, te_used, ring_list, pool_list, pool, owned>>
        /\ zone' = [zone EXCEPT ![loc[t].chunk] = <<>>]
        /\ loc' = [loc EXCEPT ![t] = [loc[t] EXCEPT !.pc = "fail"]]
    BY DEF PhyFail, memory, lists, Go
  <1>2. loc[t].chunk \in Addrs
    BY <1>1, Fields DEF LocalsOf, HasChunk
  <1>3. [loc[t] EXCEPT !.pc = "fail"] \in Locals
    BY <1>2, Fields, PcsAre DEF Locals
  <1>4. loc' \in [Callers -> Locals] /\ loc'[t] = [loc[t] EXCEPT !.pc = "fail"] /\ Others(t)
    BY <1>1, <1>3 DEF ListInv, RegTypes, Others
  <1>5. zone' \in [Addrs -> Seq(Words)]
    BY <1>1, <1>2, Fields, NameTypes DEF ListInv, RegTypes
  <1>6. RegTypes'
    BY <1>1, <1>4, <1>5 DEF ListInv, RegTypes
  <1>7. LocalsOf(t)'
    BY <1>1, <1>2, <1>4, Fields, RegistryAssumption DEF LocalsOf, InPool, HasTe, HasChunk, Nil, Creating, Freeing, PoolPcs, FreePcs, Locals
  <1>8. NameOf(t)'
    BY <1>1, <1>4, Fields DEF NameOf, LocalsOf, InPool, Nil, Creating, Freeing, PoolPcs, FreePcs, Locals
  <1>9. (HasTe(t)' <=> HasTe(t)) /\ (HasTe(t) => loc'[t].te = loc[t].te)
    BY <1>1, <1>4, Fields DEF HasTe, Locals
  <1>10. TesSound'
    BY <1>1, <1>2, <1>4, <1>9, TesKept DEF ListInv, RegTypes
  <1>11. LocksSound'
    BY <1>1, <1>4, Fields, LocksKept DEF ListInv, Locals
  <1> QED BY <1>4, <1>6, <1>7, <1>8, <1>10, <1>11, LocalsStep DEF ListInv

LEMMA FreeMemchunkLists ==
  ASSUME ListInv, NEW t \in Callers, FreeMemchunk(t)
  PROVE  ListInv'
  <1>1. /\ loc[t].pc \in {"fail", "pf_chunks"}
        /\ UNCHANGED <<qlock, mplock, te_used, ring_list, pool_list, owned>>
    BY DEF FreeMemchunk, memory, lists, Go, GoWith
  <1>2. ASSUME NEW a \in pool[loc[t].mp].chunks,
               zone' = [zone EXCEPT ![a] = <<>>],
               pool' = [pool EXCEPT ![loc[t].mp].chunks = pool[loc[t].mp].chunks \ {a}],
               loc' = [loc EXCEPT ![t] = loc[t]]
        PROVE  ListInv'
    <2>1. loc[t].mp \in Addrs
      BY <1>1, <1>2, Fields DEF LocalsOf, InPool, PoolPcs
    <2>2. a \in Addrs
      BY <1>1, <1>2, <2>1 DEF ListInv, RegTypes
    <2>3. loc[t] \in Locals
      BY <2>2, Fields, PcsAre DEF Locals
    <2>4. loc' \in [Callers -> Locals] /\ loc'[t] = loc[t] /\ Others(t)
      BY <1>1, <1>2, <2>3 DEF ListInv, RegTypes, Others
    <2>5. zone' \in [Addrs -> Seq(Words)]
      BY <1>1, <1>2, <2>1, <2>2, Fields, NameTypes DEF ListInv, RegTypes
    <2>6. pool' \in [Addrs -> [ring : Addrs \cup {Nil}, chunks : SUBSET Addrs]]
      BY <1>1, <1>2, <2>1, <2>2 DEF ListInv, RegTypes, NoPool
    <2>7. RegTypes'
      BY <1>1, <1>2, <2>4, <2>5, <2>6 DEF ListInv, RegTypes
    <2>8. LocalsOf(t)'
      BY <1>1, <1>2, <2>1, <2>2, <2>4, Fields, RegistryAssumption DEF LocalsOf, InPool, HasTe, HasChunk, Nil, Creating, Freeing, PoolPcs, FreePcs, Locals
    <2>9. NameOf(t)'
      BY <1>1, <1>2, <2>4, Fields DEF NameOf, LocalsOf, InPool, Nil, Creating, Freeing, PoolPcs, FreePcs, Locals
    <2>10. (HasTe(t)' <=> HasTe(t)) /\ (HasTe(t) => loc'[t].te = loc[t].te)
      BY <1>1, <1>2, <2>4, Fields DEF HasTe, Locals
    <2>11. TesSound'
      BY <1>1, <1>2, <2>1, <2>2, <2>4, <2>10, TesKept DEF ListInv, RegTypes
    <2>12. LocksSound'
      BY <1>1, <1>2, <2>4, Fields, LocksKept DEF ListInv, Locals
    <2> QED BY <2>4, <2>7, <2>8, <2>9, <2>11, <2>12, LocalsStep DEF ListInv
  <1>3. ASSUME pool[loc[t].mp].chunks = {} /\ loc[t].pc = "fail",
               UNCHANGED <<zone, pool>>,
               loc' = [loc EXCEPT ![t] = [loc[t] EXCEPT !.pc = "pf_unlink"]]
        PROVE  ListInv'
    <2>1. [loc[t] EXCEPT !.pc = "pf_unlink"] \in Locals
      BY Fields, PcsAre DEF Locals
    <2>2. loc' \in [Callers -> Locals] /\ loc'[t] = [loc[t] EXCEPT !.pc = "pf_unlink"] /\ Others(t)
      BY <1>1, <1>3, <2>1 DEF ListInv, RegTypes, Others
    <2>3. RegTypes'
      BY <1>1, <1>3, <2>2 DEF ListInv, RegTypes
    <2>4. LocalsOf(t)'
      BY <1>1, <1>3, <2>2, Fields, RegistryAssumption DEF LocalsOf, InPool, HasTe, HasChunk, Nil, Creating, Freeing, PoolPcs, FreePcs, Locals
    <2>5. NameOf(t)'
      BY <1>1, <1>3, <2>2, Fields DEF NameOf, LocalsOf, InPool, Nil, Creating, Freeing, PoolPcs, FreePcs, Locals
    <2>6. (HasTe(t)' <=> HasTe(t)) /\ (HasTe(t) => loc'[t].te = loc[t].te)
      BY <1>1, <1>3, <2>2, Fields DEF HasTe, Locals
    <2>7. TesSound'
      BY <1>1, <1>3, <2>2, <2>6, TesKept DEF ListInv, RegTypes
    <2>8. LocksSound'
      BY <1>1, <1>3, <2>2, Fields, LocksKept DEF ListInv, Locals
    <2> QED BY <2>2, <2>3, <2>4, <2>5, <2>7, <2>8, LocalsStep DEF ListInv
  <1>4. ASSUME pool[loc[t].mp].chunks = {} /\ loc[t].pc = "pf_chunks" /\ pool[loc[t].mp].ring = Nil,
               UNCHANGED <<zone, pool>>,
               loc' = [loc EXCEPT ![t] = [loc[t] EXCEPT !.pc = "pf_zone"]]
        PROVE  ListInv'
    <2>1. [loc[t] EXCEPT !.pc = "pf_zone"] \in Locals
      BY Fields, PcsAre DEF Locals
    <2>2. loc' \in [Callers -> Locals] /\ loc'[t] = [loc[t] EXCEPT !.pc = "pf_zone"] /\ Others(t)
      BY <1>1, <1>4, <2>1 DEF ListInv, RegTypes, Others
    <2>3. RegTypes'
      BY <1>1, <1>4, <2>2 DEF ListInv, RegTypes
    <2>4. LocalsOf(t)'
      BY <1>1, <1>4, <2>2, Fields, RegistryAssumption DEF LocalsOf, InPool, HasTe, HasChunk, Nil, Creating, Freeing, PoolPcs, FreePcs, Locals
    <2>5. NameOf(t)'
      BY <1>1, <1>4, <2>2, Fields DEF NameOf, LocalsOf, InPool, Nil, Creating, Freeing, PoolPcs, FreePcs, Locals
    <2>6. (HasTe(t)' <=> HasTe(t)) /\ (HasTe(t) => loc'[t].te = loc[t].te)
      BY <1>1, <1>4, <2>2, Fields DEF HasTe, Locals
    <2>7. TesSound'
      BY <1>1, <1>4, <2>2, <2>6, TesKept DEF ListInv, RegTypes
    <2>8. LocksSound'
      BY <1>1, <1>4, <2>2, Fields, LocksKept DEF ListInv, Locals
    <2> QED BY <2>2, <2>3, <2>4, <2>5, <2>7, <2>8, LocalsStep DEF ListInv
  <1>5. ASSUME pool[loc[t].mp].chunks = {} /\ loc[t].pc = "pf_chunks" /\ pool[loc[t].mp].ring # Nil,
               UNCHANGED <<zone, pool>>,
               loc' = [loc EXCEPT ![t] = [loc[t] EXCEPT !.ring = pool[loc[t].mp].ring, !.pc = "rf_zone"]]
        PROVE  ListInv'
    <2>1. loc[t].mp \in Addrs
      BY <1>1, <1>5, Fields DEF LocalsOf, InPool, PoolPcs
    <2>2. pool[loc[t].mp].ring \in Addrs
      BY <1>1, <1>5, <2>1 DEF ListInv, RegTypes
    <2>3. [loc[t] EXCEPT !.ring = pool[loc[t].mp].ring, !.pc = "rf_zone"] \in Locals
      BY <2>2, Fields, PcsAre DEF Locals
    <2>4. loc' \in [Callers -> Locals] /\ loc'[t] = [loc[t] EXCEPT !.ring = pool[loc[t].mp].ring, !.pc = "rf_zone"] /\ Others(t)
      BY <1>1, <1>5, <2>3 DEF ListInv, RegTypes, Others
    <2>5. RegTypes'
      BY <1>1, <1>5, <2>4 DEF ListInv, RegTypes
    <2>6. LocalsOf(t)'
      BY <1>1, <1>5, <2>1, <2>2, <2>4, Fields, RegistryAssumption DEF LocalsOf, InPool, HasTe, HasChunk, Nil, Creating, Freeing, PoolPcs, FreePcs, Locals
    <2>7. NameOf(t)'
      BY <1>1, <1>5, <2>4, Fields DEF NameOf, LocalsOf, InPool, Nil, Creating, Freeing, PoolPcs, FreePcs, Locals
    <2>8. (HasTe(t)' <=> HasTe(t)) /\ (HasTe(t) => loc'[t].te = loc[t].te)
      BY <1>1, <1>5, <2>4, Fields DEF HasTe, Locals
    <2>9. TesSound'
      BY <1>1, <1>5, <2>1, <2>2, <2>4, <2>8, TesKept DEF ListInv, RegTypes
    <2>10. LocksSound'
      BY <1>1, <1>5, <2>4, Fields, LocksKept DEF ListInv, Locals
    <2> QED BY <2>4, <2>5, <2>6, <2>7, <2>9, <2>10, LocalsStep DEF ListInv
  <1> QED
    <2>1. loc = [loc EXCEPT ![t] = loc[t]]
      BY DEF ListInv, RegTypes
    <2>2. CASE loc[t].pc = "fail"
      BY <1>1, <1>2, <1>3, <2>1, <2>2 DEF FreeMemchunk, Go
    <2>3. CASE loc[t].pc = "pf_chunks"
      BY <1>1, <1>2, <1>4, <1>5, <2>1, <2>3 DEF FreeMemchunk, Go, GoWith
    <2> QED BY <1>1, <2>2, <2>3

LEMMA PoolFreeLists ==
  ASSUME ListInv, NEW t \in Callers, NEW a \in Addrs, PoolFree(t, a)
  PROVE  ListInv'
  <1>1. /\ loc[t].pc = "idle" /\ <<"pool", a>> \in owned
        /\ UNCHANGED <<qlock, mplock, zone, te_used, ring_list, pool_list, pool>>
        /\ owned' = owned \ {<<"pool", a>>}
        /\ loc' = [loc EXCEPT ![t] = [Returned EXCEPT !.mp = a, !.pc = "pf_unlink"]]
    BY DEF PoolFree, memory, lists, GoWith
  <1>2. [Returned EXCEPT !.mp = a, !.pc = "pf_unlink"] \in Locals
    BY Fields, PcsAre, NameTypes DEF Locals, Returned
  <1>3. loc' \in [Callers -> Locals] /\ loc'[t] = [Returned EXCEPT !.mp = a, !.pc = "pf_unlink"] /\ Others(t)
    BY <1>1, <1>2 DEF ListInv, RegTypes, Others
  <1>4. owned' \in SUBSET ({"ring", "pool"} \X Addrs)
    BY <1>1 DEF ListInv, RegTypes
  <1>5. RegTypes'
    BY <1>1, <1>3, <1>4 DEF ListInv, RegTypes
  <1>6. LocalsOf(t)'
    BY <1>1, <1>3, Fields, RegistryAssumption DEF LocalsOf, InPool, HasTe, HasChunk, Nil, Creating, Freeing, PoolPcs, FreePcs, Returned
  <1>7. NameOf(t)'
    BY <1>1, <1>3, Fields DEF NameOf, LocalsOf, InPool, Nil, Creating, Freeing, PoolPcs, FreePcs, Returned, MP
  <1>8. (HasTe(t)' <=> HasTe(t)) /\ (HasTe(t) => loc'[t].te = loc[t].te)
    BY <1>1, <1>3, Fields DEF HasTe, Locals, Returned
  <1>9. TesSound'
    BY <1>1, <1>3, <1>8, TesKept DEF ListInv, RegTypes
  <1>10. LocksSound'
    BY <1>1, <1>3, Fields, LocksKept DEF ListInv, Locals, Returned
  <1> QED BY <1>3, <1>5, <1>6, <1>7, <1>9, <1>10, LocalsStep DEF ListInv

LEMMA PoolUnlinkLists ==
  ASSUME ListInv, NEW t \in Callers, PoolUnlink(t)
  PROVE  ListInv'
  <1>1. /\ loc[t].pc = "pf_unlink" /\ MayWrite(qlock) /\ Find(pool_list, loc[t].mp) # 0
        /\ UNCHANGED <<qlock, mplock, zone, ring_list, pool, owned>>
        /\ pool_list' = Drop(pool_list, Find(pool_list, loc[t].mp))
        /\ te_used' = te_used \ {pool_list[Find(pool_list, loc[t].mp)].te}
        /\ loc' = [loc EXCEPT ![t] = [loc[t] EXCEPT !.pc = "pf_chunks"]]
    BY DEF PoolUnlink, memory, lists, Go
  <1>2. Find(pool_list, loc[t].mp) \in DOMAIN pool_list
    BY <1>1, FindEntry DEF ListInv, RegTypes
  <1>3. Drop(pool_list, Find(pool_list, loc[t].mp)) \in Seq(Entry)
    BY <1>2, DropList DEF ListInv, RegTypes, TesSound
  <1>4. [loc[t] EXCEPT !.pc = "pf_chunks"] \in Locals
    BY <1>3, Fields, PcsAre DEF Locals
  <1>5. loc' \in [Callers -> Locals] /\ loc'[t] = [loc[t] EXCEPT !.pc = "pf_chunks"] /\ Others(t)
    BY <1>1, <1>4 DEF ListInv, RegTypes, Others
  <1>6. pool_list' \in Seq(Entry)
    BY <1>1, <1>2, <1>3 DEF ListInv, RegTypes
  <1>7. te_used' \in SUBSET Tes
    BY <1>1, <1>2, <1>3 DEF ListInv, RegTypes
  <1>8. RegTypes'
    BY <1>1, <1>5, <1>6, <1>7 DEF ListInv, RegTypes
  <1>9. LocalsOf(t)'
    BY <1>1, <1>2, <1>3, <1>5, Fields, RegistryAssumption DEF LocalsOf, InPool, HasTe, HasChunk, Nil, Creating, Freeing, PoolPcs, FreePcs, Locals
  <1>10. NameOf(t)'
    BY <1>1, <1>5, Fields DEF NameOf, LocalsOf, InPool, Nil, Creating, Freeing, PoolPcs, FreePcs, Locals
  <1>11. ~HasTe(t) /\ ~HasTe(t)'
    BY <1>1, <1>5, Fields DEF HasTe, Locals
  <1>12. TesSound'
    BY <1>1, <1>2, <1>3, <1>5, <1>11, TesDropped DEF ListInv, RegTypes
  <1>13. LocksSound'
    BY <1>1, <1>5, Fields, LocksKept DEF ListInv, Locals
  <1> QED BY <1>5, <1>8, <1>9, <1>10, <1>12, <1>13, LocalsStep DEF ListInv

LEMMA PoolFreeZoneLists ==
  ASSUME ListInv, NEW t \in Callers, PoolFreeZone(t)
  PROVE  ListInv'
  <1>1. /\ loc[t].pc = "pf_zone"
        /\ UNCHANGED <<qlock, mplock, te_used, ring_list, pool_list, owned>>
        /\ zone' = [zone EXCEPT ![loc[t].mp] = <<>>]
        /\ pool' = [pool EXCEPT ![loc[t].mp] = NoPool]
        /\ loc' = [loc EXCEPT ![t] = Returned]
    BY DEF PoolFreeZone, memory, lists, Leave
  <1>2. loc[t].mp \in Addrs
    BY <1>1, Fields DEF LocalsOf, InPool, PoolPcs
  <1>3. Returned \in Locals
    BY <1>2, Fields, PcsAre, NameTypes DEF Locals, Returned
  <1>4. loc' \in [Callers -> Locals] /\ loc'[t] = Returned /\ Others(t)
    BY <1>1, <1>3 DEF ListInv, RegTypes, Others
  <1>5. zone' \in [Addrs -> Seq(Words)]
    BY <1>1, <1>2, Fields, NameTypes DEF ListInv, RegTypes
  <1>6. pool' \in [Addrs -> [ring : Addrs \cup {Nil}, chunks : SUBSET Addrs]]
    BY <1>1, <1>2 DEF ListInv, RegTypes, NoPool
  <1>7. RegTypes'
    BY <1>1, <1>4, <1>5, <1>6 DEF ListInv, RegTypes
  <1>8. LocalsOf(t)'
    BY <1>1, <1>2, <1>4, Fields, RegistryAssumption DEF LocalsOf, InPool, HasTe, HasChunk, Nil, Creating, Freeing, PoolPcs, FreePcs, Returned
  <1>9. NameOf(t)'
    BY <1>1, <1>4, Fields DEF NameOf, LocalsOf, InPool, Nil, Creating, Freeing, PoolPcs, FreePcs, Returned, MP
  <1>10. (HasTe(t)' <=> HasTe(t)) /\ (HasTe(t) => loc'[t].te = loc[t].te)
    BY <1>1, <1>4, Fields DEF HasTe, Locals, Returned
  <1>11. TesSound'
    BY <1>1, <1>2, <1>4, <1>10, TesKept DEF ListInv, RegTypes
  <1>12. LocksSound'
    BY <1>1, <1>4, Fields, LocksKept DEF ListInv, Locals, Returned
  <1> QED BY <1>4, <1>7, <1>8, <1>9, <1>11, <1>12, LocalsStep DEF ListInv

LEMMA RingsReadLists ==
  ASSUME ListInv, NEW t \in Callers, RingsRead(t)
  PROVE  ListInv'
  <1>1. /\ loc[t].pc = "idle" /\ MayRead(qlock)
        /\ UNCHANGED <<mplock, zone, te_used, ring_list, pool_list, pool, owned>>
        /\ qlock' = [qlock EXCEPT !.r = qlock.r \cup {t}]
        /\ loc' = [loc EXCEPT ![t] = [Returned EXCEPT !.pos = 1, !.pc = "rings"]]
    BY DEF RingsRead, memory, lists, GoWith
  <1>2. [Returned EXCEPT !.pos = 1, !.pc = "rings"] \in Locals
    BY Fields, PcsAre, NameTypes DEF Locals, Returned
  <1>3. loc' \in [Callers -> Locals] /\ loc'[t] = [Returned EXCEPT !.pos = 1, !.pc = "rings"] /\ Others(t)
    BY <1>1, <1>2 DEF ListInv, RegTypes, Others
  <1>4. qlock' \in Lock
    BY <1>1 DEF ListInv, RegTypes, Lock, Unlocked
  <1>5. RegTypes'
    BY <1>1, <1>3, <1>4 DEF ListInv, RegTypes
  <1>6. LocalsOf(t)'
    BY <1>1, <1>3, Fields, RegistryAssumption DEF LocalsOf, InPool, HasTe, HasChunk, Nil, Creating, Freeing, PoolPcs, FreePcs, Returned
  <1>7. NameOf(t)'
    BY <1>1, <1>3, Fields DEF NameOf, LocalsOf, InPool, Nil, Creating, Freeing, PoolPcs, FreePcs, Returned, MP
  <1>8. (HasTe(t)' <=> HasTe(t)) /\ (HasTe(t) => loc'[t].te = loc[t].te)
    BY <1>1, <1>3, Fields DEF HasTe, Locals, Returned
  <1>9. TesSound'
    BY <1>1, <1>3, <1>8, TesKept DEF ListInv, RegTypes
  <1>10. loc'[t].pc = "rings"
    BY <1>1, <1>3, Fields DEF Locals, Returned
  <1>11. qlock'.w # NoOne => qlock'.r = {}
    BY <1>1, LockFacts DEF Lock, Unlocked, MayRead
  <1>12. qlock'.w = t <=> loc'[t].pc = "rc_zone"
    BY <1>1, <1>10, LockFacts DEF Lock, Unlocked, MayRead
  <1>13. \A u \in Callers \ {t} : (qlock'.w = u <=> qlock.w = u) /\ (u \in qlock.r => u \in qlock'.r)
    BY <1>1, LockFacts, RegistryAssumption DEF Lock, Unlocked, MayRead
  <1>14. mplock'.w = t <=> loc'[t].pc \in {"pc_te", "pc_zone", "pc_lock"}
    BY <1>1, <1>10, LockFacts DEF Lock, Unlocked, MayRead
  <1>15. \A u \in Callers \ {t} : mplock'.w = u <=> mplock.w = u
    BY <1>1, LockFacts, RegistryAssumption DEF Lock, Unlocked, MayRead
  <1>16. qlock.r # {} => TesOf(ring_list) \subseteq TesOf(ring_list')
    BY <1>1
  <1>17. loc'[t].pc = "rings" =>
          t \in qlock'.r /\ (loc'[t].te # Nil => loc'[t].te \in TesOf(ring_list'))
    BY <1>1, <1>3, Fields, LockFacts DEF Locals, Lock, TesOf, Entries, Returned
  <1>18. LocksSound'
    BY <1>3, <1>11, <1>12, <1>13, <1>14, <1>15, <1>16, <1>17, LocksStep DEF ListInv
  <1> QED BY <1>3, <1>5, <1>6, <1>7, <1>9, <1>18, LocalsStep DEF ListInv

LEMMA RingsNextLists ==
  ASSUME ListInv, NEW t \in Callers, RingsNext(t)
  PROVE  ListInv'
  <1>1. /\ loc[t].pc = "rings"
        /\ UNCHANGED <<mplock, zone, te_used, ring_list, pool_list, pool, owned>>
    BY DEF RingsNext, memory, lists, Leave
  <1>2. ASSUME loc[t].pos <= Len(ring_list),
               UNCHANGED <<qlock>>,
               loc' = [loc EXCEPT ![t] = [loc[t] EXCEPT !.pos = loc[t].pos + 1, !.te = ring_list[loc[t].pos].te]]
        PROVE  ListInv'
    <2>1. loc[t].pos \in DOMAIN ring_list
      BY <1>1, <1>2, Fields DEF ListInv, RegTypes, LocalsOf
    <2>2. ring_list[loc[t].pos].te \in Tes
      BY <2>1, Element DEF ListInv, RegTypes
    <2>3. loc[t].pos + 1 \in Nat
      BY Fields
    <2>4. [loc[t] EXCEPT !.pos = loc[t].pos + 1, !.te = ring_list[loc[t].pos].te] \in Locals
      BY <2>2, <2>3, Fields, PcsAre DEF Locals
    <2>5. loc' \in [Callers -> Locals] /\ loc'[t] = [loc[t] EXCEPT !.pos = loc[t].pos + 1, !.te = ring_list[loc[t].pos].te] /\ Others(t)
      BY <1>1, <1>2, <2>4 DEF ListInv, RegTypes, Others
    <2>6. RegTypes'
      BY <1>1, <1>2, <2>5 DEF ListInv, RegTypes
    <2>7. LocalsOf(t)'
      BY <1>1, <1>2, <2>1, <2>2, <2>3, <2>5, Fields, RegistryAssumption DEF LocalsOf, InPool, HasTe, HasChunk, Nil, Creating, Freeing, PoolPcs, FreePcs, Locals
    <2>8. NameOf(t)'
      BY <1>1, <1>2, <2>5, Fields DEF NameOf, LocalsOf, InPool, Nil, Creating, Freeing, PoolPcs, FreePcs, Locals
    <2>9. (HasTe(t)' <=> HasTe(t)) /\ (HasTe(t) => loc'[t].te = loc[t].te)
      BY <1>1, <1>2, <2>5, Fields DEF HasTe, Locals
    <2>10. TesSound'
      BY <1>1, <1>2, <2>1, <2>2, <2>3, <2>5, <2>9, TesKept DEF ListInv, RegTypes
    <2>11. loc'[t].pc = "rings"
      BY <1>1, <1>2, <2>5, Fields DEF Locals
    <2>12. qlock'.w # NoOne => qlock'.r = {}
      BY <1>1, <1>2, LockFacts DEF Lock, Unlocked
    <2>13. qlock'.w = t <=> loc'[t].pc = "rc_zone"
      BY <1>1, <1>2, <2>11, LockFacts DEF Lock, Unlocked
    <2>14. \A u \in Callers \ {t} : (qlock'.w = u <=> qlock.w = u) /\ (u \in qlock.r => u \in qlock'.r)
      BY <1>1, <1>2, LockFacts, RegistryAssumption DEF Lock, Unlocked
    <2>15. mplock'.w = t <=> loc'[t].pc \in {"pc_te", "pc_zone", "pc_lock"}
      BY <1>1, <1>2, <2>11, LockFacts DEF Lock, Unlocked
    <2>16. \A u \in Callers \ {t} : mplock'.w = u <=> mplock.w = u
      BY <1>1, <1>2, LockFacts, RegistryAssumption DEF Lock, Unlocked
    <2>17. qlock.r # {} => TesOf(ring_list) \subseteq TesOf(ring_list')
      BY <1>1, <1>2
    <2>18. loc'[t].pc = "rings" =>
            t \in qlock'.r /\ (loc'[t].te # Nil => loc'[t].te \in TesOf(ring_list'))
      BY <1>1, <1>2, <2>1, <2>2, <2>3, <2>5, Fields, LockFacts DEF Locals, Lock, TesOf, Entries
    <2>19. LocksSound'
      BY <2>5, <2>12, <2>13, <2>14, <2>15, <2>16, <2>17, <2>18, LocksStep DEF ListInv
    <2> QED BY <2>5, <2>6, <2>7, <2>8, <2>10, <2>19, LocalsStep DEF ListInv
  <1>3. ASSUME qlock' = [qlock EXCEPT !.r = qlock.r \ {t}],
               loc' = [loc EXCEPT ![t] = Returned]
        PROVE  ListInv'
    <2>1. Returned \in Locals
      BY Fields, PcsAre, NameTypes DEF Locals, Returned
    <2>2. loc' \in [Callers -> Locals] /\ loc'[t] = Returned /\ Others(t)
      BY <1>1, <1>3, <2>1 DEF ListInv, RegTypes, Others
    <2>3. qlock' \in Lock
      BY <1>1, <1>3 DEF ListInv, RegTypes, Lock, Unlocked
    <2>4. RegTypes'
      BY <1>1, <1>3, <2>2, <2>3 DEF ListInv, RegTypes
    <2>5. LocalsOf(t)'
      BY <1>1, <1>3, <2>2, Fields, RegistryAssumption DEF LocalsOf, InPool, HasTe, HasChunk, Nil, Creating, Freeing, PoolPcs, FreePcs, Returned
    <2>6. NameOf(t)'
      BY <1>1, <1>3, <2>2, Fields DEF NameOf, LocalsOf, InPool, Nil, Creating, Freeing, PoolPcs, FreePcs, Returned, MP
    <2>7. (HasTe(t)' <=> HasTe(t)) /\ (HasTe(t) => loc'[t].te = loc[t].te)
      BY <1>1, <1>3, <2>2, Fields DEF HasTe, Locals, Returned
    <2>8. TesSound'
      BY <1>1, <1>3, <2>2, <2>7, TesKept DEF ListInv, RegTypes
    <2>9. loc'[t].pc = "idle"
      BY <1>1, <1>3, <2>2, Fields DEF Locals, Returned
    <2>10. qlock'.w # NoOne => qlock'.r = {}
      BY <1>1, <1>3, LockFacts DEF Lock, Unlocked
    <2>11. qlock'.w = t <=> loc'[t].pc = "rc_zone"
      BY <1>1, <1>3, <2>9, LockFacts DEF Lock, Unlocked
    <2>12. \A u \in Callers \ {t} : (qlock'.w = u <=> qlock.w = u) /\ (u \in qlock.r => u \in qlock'.r)
      BY <1>1, <1>3, LockFacts, RegistryAssumption DEF Lock, Unlocked
    <2>13. mplock'.w = t <=> loc'[t].pc \in {"pc_te", "pc_zone", "pc_lock"}
      BY <1>1, <1>3, <2>9, LockFacts DEF Lock, Unlocked
    <2>14. \A u \in Callers \ {t} : mplock'.w = u <=> mplock.w = u
      BY <1>1, <1>3, LockFacts, RegistryAssumption DEF Lock, Unlocked
    <2>15. qlock.r # {} => TesOf(ring_list) \subseteq TesOf(ring_list')
      BY <1>1, <1>3
    <2>16. loc'[t].pc = "rings" =>
            t \in qlock'.r /\ (loc'[t].te # Nil => loc'[t].te \in TesOf(ring_list'))
      BY <1>1, <1>3, <2>2, Fields, LockFacts DEF Locals, Lock, TesOf, Entries, Returned
    <2>17. LocksSound'
      BY <2>2, <2>10, <2>11, <2>12, <2>13, <2>14, <2>15, <2>16, LocksStep DEF ListInv
    <2> QED BY <2>2, <2>4, <2>5, <2>6, <2>8, <2>17, LocalsStep DEF ListInv
  <1> QED BY <1>1, <1>2, <1>3 DEF RingsNext, memory, lists, Leave

LEMMA PoolsReadLists ==
  ASSUME ListInv, NEW t \in Callers, PoolsRead(t)
  PROVE  ListInv'
  <1>1. /\ loc[t].pc = "idle" /\ MayRead(mplock)
        /\ UNCHANGED <<qlock, zone, te_used, ring_list, pool_list, pool, owned>>
        /\ mplock' = [mplock EXCEPT !.r = mplock.r \cup {t}]
        /\ loc' = [loc EXCEPT ![t] = [Returned EXCEPT !.pos = 1, !.pc = "pools"]]
    BY DEF PoolsRead, memory, lists, GoWith
  <1>2. [Returned EXCEPT !.pos = 1, !.pc = "pools"] \in Locals
    BY Fields, PcsAre, NameTypes DEF Locals, Returned
  <1>3. loc' \in [Callers -> Locals] /\ loc'[t] = [Returned EXCEPT !.pos = 1, !.pc = "pools"] /\ Others(t)
    BY <1>1, <1>2 DEF ListInv, RegTypes, Others
  <1>4. mplock' \in Lock
    BY <1>1 DEF ListInv, RegTypes, Lock, Unlocked
  <1>5. RegTypes'
    BY <1>1, <1>3, <1>4 DEF ListInv, RegTypes
  <1>6. LocalsOf(t)'
    BY <1>1, <1>3, Fields, RegistryAssumption DEF LocalsOf, InPool, HasTe, HasChunk, Nil, Creating, Freeing, PoolPcs, FreePcs, Returned
  <1>7. NameOf(t)'
    BY <1>1, <1>3, Fields DEF NameOf, LocalsOf, InPool, Nil, Creating, Freeing, PoolPcs, FreePcs, Returned, MP
  <1>8. (HasTe(t)' <=> HasTe(t)) /\ (HasTe(t) => loc'[t].te = loc[t].te)
    BY <1>1, <1>3, Fields DEF HasTe, Locals, Returned
  <1>9. TesSound'
    BY <1>1, <1>3, <1>8, TesKept DEF ListInv, RegTypes
  <1>10. loc'[t].pc = "pools"
    BY <1>1, <1>3, Fields DEF Locals, Returned
  <1>11. qlock'.w # NoOne => qlock'.r = {}
    BY <1>1, LockFacts DEF Lock, Unlocked, MayRead
  <1>12. qlock'.w = t <=> loc'[t].pc = "rc_zone"
    BY <1>1, <1>10, LockFacts DEF Lock, Unlocked, MayRead
  <1>13. \A u \in Callers \ {t} : (qlock'.w = u <=> qlock.w = u) /\ (u \in qlock.r => u \in qlock'.r)
    BY <1>1, LockFacts, RegistryAssumption DEF Lock, Unlocked, MayRead
  <1>14. mplock'.w = t <=> loc'[t].pc \in {"pc_te", "pc_zone", "pc_lock"}
    BY <1>1, <1>10, LockFacts DEF Lock, Unlocked, MayRead
  <1>15. \A u \in Callers \ {t} : mplock'.w = u <=> mplock.w = u
    BY <1>1, LockFacts, RegistryAssumption DEF Lock, Unlocked, MayRead
  <1>16. qlock.r # {} => TesOf(ring_list) \subseteq TesOf(ring_list')
    BY <1>1
  <1>17. loc'[t].pc = "rings" =>
          t \in qlock'.r /\ (loc'[t].te # Nil => loc'[t].te \in TesOf(ring_list'))
    BY <1>1, <1>3, Fields, LockFacts DEF Locals, Lock, TesOf, Entries, Returned
  <1>18. LocksSound'
    BY <1>3, <1>11, <1>12, <1>13, <1>14, <1>15, <1>16, <1>17, LocksStep DEF ListInv
  <1> QED BY <1>3, <1>5, <1>6, <1>7, <1>9, <1>18, LocalsStep DEF ListInv

LEMMA PoolsNextLists ==
  ASSUME ListInv, NEW t \in Callers, PoolsNext(t)
  PROVE  ListInv'
  <1>1. /\ loc[t].pc = "pools"
        /\ UNCHANGED <<qlock, zone, te_used, ring_list, pool_list, pool, owned>>
    BY DEF PoolsNext, memory, lists, Leave
  <1>2. ASSUME loc[t].pos <= Len(pool_list),
               UNCHANGED <<mplock>>,
               loc' = [loc EXCEPT ![t] = [loc[t] EXCEPT !.pos = loc[t].pos + 1, !.te = pool_list[loc[t].pos].te]]
        PROVE  ListInv'
    <2>1. loc[t].pos \in DOMAIN pool_list
      BY <1>1, <1>2, Fields DEF ListInv, RegTypes, LocalsOf
    <2>2. pool_list[loc[t].pos].te \in Tes
      BY <2>1, Element DEF ListInv, RegTypes
    <2>3. loc[t].pos + 1 \in Nat
      BY Fields
    <2>4. [loc[t] EXCEPT !.pos = loc[t].pos + 1, !.te = pool_list[loc[t].pos].te] \in Locals
      BY <2>2, <2>3, Fields, PcsAre DEF Locals
    <2>5. loc' \in [Callers -> Locals] /\ loc'[t] = [loc[t] EXCEPT !.pos = loc[t].pos + 1, !.te = pool_list[loc[t].pos].te] /\ Others(t)
      BY <1>1, <1>2, <2>4 DEF ListInv, RegTypes, Others
    <2>6. RegTypes'
      BY <1>1, <1>2, <2>5 DEF ListInv, RegTypes
    <2>7. LocalsOf(t)'
      BY <1>1, <1>2, <2>1, <2>2, <2>3, <2>5, Fields, RegistryAssumption DEF LocalsOf, InPool, HasTe, HasChunk, Nil, Creating, Freeing, PoolPcs, FreePcs, Locals
    <2>8. NameOf(t)'
      BY <1>1, <1>2, <2>5, Fields DEF NameOf, LocalsOf, InPool, Nil, Creating, Freeing, PoolPcs, FreePcs, Locals
    <2>9. (HasTe(t)' <=> HasTe(t)) /\ (HasTe(t) => loc'[t].te = loc[t].te)
      BY <1>1, <1>2, <2>5, Fields DEF HasTe, Locals
    <2>10. TesSound'
      BY <1>1, <1>2, <2>1, <2>2, <2>3, <2>5, <2>9, TesKept DEF ListInv, RegTypes
    <2>11. LocksSound'
      BY <1>1, <1>2, <2>5, Fields, LocksKept DEF ListInv, Locals
    <2> QED BY <2>5, <2>6, <2>7, <2>8, <2>10, <2>11, LocalsStep DEF ListInv
  <1>3. ASSUME mplock' = [mplock EXCEPT !.r = mplock.r \ {t}],
               loc' = [loc EXCEPT ![t] = Returned]
        PROVE  ListInv'
    <2>1. Returned \in Locals
      BY Fields, PcsAre, NameTypes DEF Locals, Returned
    <2>2. loc' \in [Callers -> Locals] /\ loc'[t] = Returned /\ Others(t)
      BY <1>1, <1>3, <2>1 DEF ListInv, RegTypes, Others
    <2>3. mplock' \in Lock
      BY <1>1, <1>3 DEF ListInv, RegTypes, Lock, Unlocked
    <2>4. RegTypes'
      BY <1>1, <1>3, <2>2, <2>3 DEF ListInv, RegTypes
    <2>5. LocalsOf(t)'
      BY <1>1, <1>3, <2>2, Fields, RegistryAssumption DEF LocalsOf, InPool, HasTe, HasChunk, Nil, Creating, Freeing, PoolPcs, FreePcs, Returned
    <2>6. NameOf(t)'
      BY <1>1, <1>3, <2>2, Fields DEF NameOf, LocalsOf, InPool, Nil, Creating, Freeing, PoolPcs, FreePcs, Returned, MP
    <2>7. (HasTe(t)' <=> HasTe(t)) /\ (HasTe(t) => loc'[t].te = loc[t].te)
      BY <1>1, <1>3, <2>2, Fields DEF HasTe, Locals, Returned
    <2>8. TesSound'
      BY <1>1, <1>3, <2>2, <2>7, TesKept DEF ListInv, RegTypes
    <2>9. loc'[t].pc = "idle"
      BY <1>1, <1>3, <2>2, Fields DEF Locals, Returned
    <2>10. qlock'.w # NoOne => qlock'.r = {}
      BY <1>1, <1>3, LockFacts DEF Lock, Unlocked
    <2>11. qlock'.w = t <=> loc'[t].pc = "rc_zone"
      BY <1>1, <1>3, <2>9, LockFacts DEF Lock, Unlocked
    <2>12. \A u \in Callers \ {t} : (qlock'.w = u <=> qlock.w = u) /\ (u \in qlock.r => u \in qlock'.r)
      BY <1>1, <1>3, LockFacts, RegistryAssumption DEF Lock, Unlocked
    <2>13. mplock'.w = t <=> loc'[t].pc \in {"pc_te", "pc_zone", "pc_lock"}
      BY <1>1, <1>3, <2>9, LockFacts DEF Lock, Unlocked
    <2>14. \A u \in Callers \ {t} : mplock'.w = u <=> mplock.w = u
      BY <1>1, <1>3, LockFacts, RegistryAssumption DEF Lock, Unlocked
    <2>15. qlock.r # {} => TesOf(ring_list) \subseteq TesOf(ring_list')
      BY <1>1, <1>3
    <2>16. loc'[t].pc = "rings" =>
            t \in qlock'.r /\ (loc'[t].te # Nil => loc'[t].te \in TesOf(ring_list'))
      BY <1>1, <1>3, <2>2, Fields, LockFacts DEF Locals, Lock, TesOf, Entries, Returned
    <2>17. LocksSound'
      BY <2>2, <2>10, <2>11, <2>12, <2>13, <2>14, <2>15, <2>16, LocksStep DEF ListInv
    <2> QED BY <2>2, <2>4, <2>5, <2>6, <2>8, <2>17, LocalsStep DEF ListInv
  <1> QED BY <1>1, <1>2, <1>3 DEF PoolsNext, memory, lists, Leave

-----------------------------------------------------------------------------
LEMMA InitLists == RegInit => ListInv
  <1> SUFFICES ASSUME RegInit PROVE ListInv
    OBVIOUS
  <1>1. Returned \in Locals
    BY PcsAre, NameTypes DEF Returned, Locals
  <1>2. RegTypes
    BY <1>1 DEF RegInit, RegTypes, Unlocked, Lock, NoPool, NameTypes
  <1>3. \A t \in Callers : loc[t] = Returned
    BY DEF RegInit
  <1>4. \A t \in Callers : LocalsOf(t) /\ NameOf(t) /\ ~HasTe(t)
    BY <1>3 DEF LocalsOf, NameOf, Returned, InPool, HasChunk, HasTe, Creating, PoolPcs, FreePcs
  <1>5. TesSound
    <2>1. Entries(ring_list) = {} /\ Entries(pool_list) = {} /\ DOMAIN ring_list = {} /\ DOMAIN pool_list = {}
      BY DEF RegInit, Entries
    <2> QED BY <1>4, <2>1 DEF RegInit, TesSound, Single, TesOf, HeldTes
  <1>6. LocksSound
    BY <1>3, RegistryAssumption DEF RegInit, LocksSound, Unlocked, Returned
  <1> QED BY <1>2, <1>4, <1>5, <1>6 DEF ListInv

LEMMA StepLists == ListInv /\ [RegNext]_reg_vars => ListInv'
  <1> SUFFICES ASSUME ListInv, [RegNext]_reg_vars PROVE ListInv'
    OBVIOUS
  <1>1. CASE UNCHANGED reg_vars
    <2>1. RegTypes'
      BY <1>1 DEF reg_vars, ListInv, RegTypes
    <2>2. (\A t \in Callers : LocalsOf(t) /\ NameOf(t))'
      BY <1>1 DEF reg_vars, ListInv, LocalsOf, NameOf, InPool, HasChunk, HasTe
    <2>3. TesSound'
      BY <1>1 DEF reg_vars, ListInv, TesSound, HeldTes, HasTe, Single, TesOf, Entries
    <2>4. LocksSound'
      BY <1>1 DEF reg_vars, ListInv, LocksSound, TesOf, Entries
    <2> QED BY <2>1, <2>2, <2>3, <2>4 DEF ListInv
  <1>2. ASSUME NEW t \in Callers, RegStep(t) PROVE ListInv'
    BY <1>2, RingTeLists, RingLockLists, RingZoneLists, RingFreeZoneLists, RingUnlinkLists,
       RingFreeTeLists, PoolTeLists, PoolZoneLists, PoolInsertLists, PopulateLists, PoolRingLists,
       PopulatePhyLists, PhyFailLists, FreeMemchunkLists, PoolUnlinkLists, PoolFreeZoneLists,
       RingsNextLists, PoolsNextLists DEF RegStep
  <1>3. ASSUME NEW t \in Callers, RegCall(t) PROVE ListInv'
    BY <1>3, RingCreateLists, PoolCreateLists, RingFreeLists, PoolFreeLists, RingsReadLists,
       PoolsReadLists DEF RegCall
  <1> QED BY <1>1, <1>2, <1>3 DEF RegNext

LEMMA ListsAlways == RegSpec => []ListInv
  BY InitLists, StepLists, PTL DEF RegSpec

LEMMA ListsFollow == ListInv => EntriesSound /\ RingReadersSafe
  <1> SUFFICES ASSUME ListInv PROVE EntriesSound /\ RingReadersSafe
    OBVIOUS
  <1> DEFINE all == ring_list \o pool_list
             m == Len(ring_list)
             k == Len(pool_list)
  <1>1. /\ ring_list \in Seq(Entry) /\ pool_list \in Seq(Entry) /\ m \in Nat /\ k \in Nat
        /\ DOMAIN ring_list = 1 .. m /\ DOMAIN pool_list = 1 .. k
    BY DEF ListInv, RegTypes
  <1>2. /\ DOMAIN all = 1 .. m + k
        /\ \A i \in 1 .. m + k : all[i] = IF i <= m THEN ring_list[i] ELSE pool_list[i - m]
    <2>1. /\ all \in Seq(Entry) /\ Len(all) = m + k
          /\ \A i \in 1 .. m + k : all[i] = IF i <= m THEN ring_list[i] ELSE pool_list[i - m]
      BY <1>1, ConcatProperties
    <2> HIDE DEF all, m, k
    <2>2. DOMAIN all = 1 .. Len(all)
      BY <2>1
    <2> QED BY <2>1, <2>2
  <1>3. /\ \A i \in 1 .. m : ring_list[i].te \in TesOf(ring_list)
        /\ \A i \in 1 .. k : pool_list[i].te \in TesOf(pool_list)
    BY <1>1 DEF TesOf, Entries
  <1> HIDE DEF all, m, k
  <1>4. \A i \in 1 .. m + k : i > m => i - m \in 1 .. k
    BY <1>1
  <1>5. \A i \in DOMAIN all : all[i].te \in te_used
    <2> TAKE i \in DOMAIN all
    <2>1. CASE i <= m
      BY <1>1, <1>2, <1>3, <2>1 DEF ListInv, TesSound
    <2>2. CASE i > m
      BY <1>1, <1>2, <1>3, <1>4, <2>2 DEF ListInv, TesSound
    <2> QED BY <1>1, <1>2, <2>1, <2>2
  <1>6. ASSUME NEW i \in DOMAIN all, NEW j \in DOMAIN all, all[i].te = all[j].te
        PROVE  i = j
    <2>1. i \in 1 .. m + k /\ j \in 1 .. m + k
      BY <1>2
    <2>2. CASE i <= m /\ j <= m
      BY <1>1, <1>2, <1>6, <2>1, <2>2 DEF ListInv, TesSound, Single
    <2>3. CASE i > m /\ j > m
      <3>1. i - m = j - m
        BY <1>1, <1>2, <1>4, <1>6, <2>1, <2>3 DEF ListInv, TesSound, Single
      <3> QED BY <1>1, <2>1, <3>1
    <2>4. CASE i <= m /\ j > m
      BY <1>1, <1>2, <1>3, <1>4, <1>6, <2>1, <2>4 DEF ListInv, TesSound
    <2>5. CASE i > m /\ j <= m
      BY <1>1, <1>2, <1>3, <1>4, <1>6, <2>1, <2>5 DEF ListInv, TesSound
    <2> QED BY <1>1, <2>1, <2>2, <2>3, <2>4, <2>5
  <1>7. EntriesSound
    BY <1>5, <1>6 DEF EntriesSound, all
  <1>8. RingReadersSafe
    BY DEF ListInv, LocksSound, TesOf, RingReadersSafe
  <1> QED BY <1>7, <1>8
=============================================================================
