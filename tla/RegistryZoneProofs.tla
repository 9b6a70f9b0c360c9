------------------------- MODULE RegistryZoneProofs -------------------------
(***************************************************************************)
(* Proofs about the memory behind the lists of rings and mempools          *)
(* (Registry.tla): what is handed out stays whole, and nothing is leaked.  *)
(*                                                                         *)
(* The invariant says what each memzone is in use for, also while calls    *)
(* are under way (UsesSound: every memzone has one use, and no use is      *)
(* without one), under which name (NamesSound), who works on a mempool     *)
(* (UsersSound, PoolOf), and what the two lists hold.  An address can have *)
(* several entries in the list of rings, because a ring's memory is given  *)
(* back before its entry is unlinked: RingsListed counts them.             *)
(***************************************************************************)
EXTENDS RegistryProofs

-----------------------------------------------------------------------------
RingGone(t) == InPool(t) /\ loc[t].pc \in {"rf_unlink", "rf_te", "pf_zone"}

(* What a caller has found out about its mempool.                          *)
PoolOf(t) ==
  LET c == loc[t]
      p == pool[c.mp]
  IN InPool(t) =>
       /\ c.pc \in Creating \cup {"pc_lock", "pool_ring"} => p.ring = Nil
       /\ c.pc = "phy" => p.ring # Nil
       /\ c.pc \in Freeing \cup {"pc_lock", "pf_zone"} => p.chunks = {}
       /\ c.pc = "rf_zone" => c.ring = p.ring

(* A mempool has one user at a time.                                       *)
UsersSound ==
  /\ \A t, u \in Callers : t # u /\ InPool(t) => loc[t].mp # loc[u].mp
  /\ \A t \in Callers : <<"pool", loc[t].mp>> \notin owned
  /\ \A a \in Addrs : <<"pool", a>> \in owned => pool[a].ring # Nil

Live(a) == <<"pool", a>> \in owned \/ \E t \in Callers : loc[t].mp = a
RingAlive(a) ==
  Live(a) /\ pool[a].ring # Nil /\ ~\E t \in Callers : loc[t].mp = a /\ RingGone(t)

(* What the memzones are in use for: <<kind, holder, address>>.            *)
Kinds == {"own", "pool", "ring", "chunk", "new", "old"}
Use(k, h, x) ==
  \/ k = "own" /\ h = x /\ <<"ring", x>> \in owned
  \/ k = "pool" /\ h = x /\ Live(x)
  \/ k = "ring" /\ h \in Addrs /\ RingAlive(h) /\ pool[h].ring = x
  \/ k = "chunk" /\ h \in Addrs /\ Live(h) /\ x \in pool[h].chunks
  \/ k = "new" /\ h \in Callers /\ HasChunk(h) /\ loc[h].chunk = x
  \/ k = "old" /\ h \in Callers /\ loc[h].pc = "rf_zone" /\ ~InPool(h) /\ loc[h].ring = x
Uses == {r \in Kinds \X (Addrs \cup Callers) \X Addrs : Use(r[1], r[2], r[3])}

Agree(R, z) ==
  /\ \A r, s \in R : r[3] = s[3] => r = s
  /\ \A x \in Addrs : z[x] # <<>> <=> \E r \in R : r[3] = x
UsesSound == Agree(Uses, zone)

(* The names of a mempool's memzones are of one mempool.                   *)
NamedBy(t, n) ==
  /\ loc[t].pc \in {"pc_lock", "populate", "pool_ring"} => loc[t].name = MP(n)
  /\ loc[t].pc \in Creating => loc[t].name = RGMP(n)
  /\ loc[t].pc = "phy" => loc[t].name \in {MP(n), RGMP(n)}
  /\ HasChunk(t) => \E k \in Nat : zone[loc[t].chunk] = Chunk(n, k)
PoolNamed(a, n) ==
  /\ zone[a] = MP(n)
  /\ RingAlive(a) => zone[pool[a].ring] = RGMP(n)
  /\ \A b \in pool[a].chunks : \E k \in Nat : zone[b] = Chunk(n, k)
  /\ \A t \in Callers : loc[t].mp = a => NamedBy(t, n)
NamesSound == \A a \in Addrs : Live(a) => \E n \in PoolNames : PoolNamed(a, n)

(* The list of mempools has one entry for each of them.                    *)
Listed(t) ==
  InPool(t) /\ loc[t].pc \in Creating \cup {"populate", "pool_ring", "phy", "phy_fail", "fail", "pf_unlink"}
ListedAt(a) == <<"pool", a>> \in owned \/ \E t \in Callers : Listed(t) /\ loc[t].mp = a
PoolsListed ==
  /\ \A e, f \in Entries(pool_list) : e.data = f.data => e = f
  /\ {e.data : e \in Entries(pool_list)} = {a \in Addrs : ListedAt(a)}

(* The list of rings has one entry for the ring that is at an address, and *)
(* one for each call that has given back a ring there and is about to      *)
(* unlink it.                                                              *)
RingAt(x) == \E r \in Uses : r[3] = x /\ r[1] \in {"own", "ring", "old"}
Claims(x) ==
  {t \in Callers : loc[t].pc = "rf_unlink" /\ loc[t].ring = x}
    \cup (IF RingAt(x) THEN {NoOne} ELSE {})
EntriesAt(x) == {e \in Entries(ring_list) : e.data = x}
RingsListed == \A x \in Addrs : Cardinality(EntriesAt(x)) = Cardinality(Claims(x))

ZoneInv ==
  /\ (\A t \in Callers : PoolOf(t)) /\ UsersSound /\ UsesSound /\ NamesSound
  /\ PoolsListed /\ RingsListed

-----------------------------------------------------------------------------
(* A mempool that a call works on is in use by that call alone.            *)
MineFacts ==
  \A t \in Callers : InPool(t) =>
    /\ loc[t].mp \in Addrs /\ Live(loc[t].mp) /\ <<"pool", loc[t].mp>> \notin owned
    /\ \A u \in Callers : loc[u].mp = loc[t].mp => u = t
    /\ RingAlive(loc[t].mp) <=> pool[loc[t].mp].ring # Nil /\ ~RingGone(t)

LEMMA Mine == UsersSound /\ ListInv => MineFacts
  <1> SUFFICES ASSUME UsersSound, ListInv, NEW t \in Callers, InPool(t)
               PROVE  /\ loc[t].mp \in Addrs /\ Live(loc[t].mp) /\ <<"pool", loc[t].mp>> \notin owned
                      /\ \A u \in Callers : loc[u].mp = loc[t].mp => u = t
                      /\ RingAlive(loc[t].mp) <=> pool[loc[t].mp].ring # Nil /\ ~RingGone(t)
    BY DEF MineFacts
  <1>1. loc[t].mp \in Addrs
    BY Fields DEF InPool
  <1>2. \A u \in Callers : loc[u].mp = loc[t].mp => u = t
    BY DEF UsersSound
  <1>3. Live(loc[t].mp) /\ <<"pool", loc[t].mp>> \notin owned
    BY DEF Live, UsersSound
  <1> QED BY <1>1, <1>2, <1>3 DEF RingAlive

IdleFacts ==
  \A a \in Addrs : <<"pool", a>> \in owned =>
    Live(a) /\ RingAlive(a) /\ pool[a].ring # Nil /\ \A u \in Callers : loc[u].mp # a

LEMMA Idle == UsersSound /\ ListInv => IdleFacts
  BY DEF UsersSound, Live, RingAlive, IdleFacts

LEMMA NilNotAddr == Nil \notin Addrs /\ Nil \notin Tes
  BY RegistryAssumption

(* What a step of t on the mempool at mp leaves alone.                     *)
Untouched(mp) ==
  \A a \in Addrs \ {mp} : pool'[a] = pool[a] /\ (<<"pool", a>> \in owned' <=> <<"pool", a>> \in owned)

Alone(t, mp) == \A u \in Callers \ {t} : loc[u].mp # mp \/ loc[u].mp = Nil

LEMMA LiveElsewhere ==
  ASSUME NEW t \in Callers, Others(t), NEW mp, Untouched(mp),
         loc[t].mp \in {mp, Nil}, loc'[t].mp \in {mp, Nil}
  PROVE  \A a \in Addrs \ {mp} : (Live(a)' <=> Live(a)) /\ (RingAlive(a)' <=> RingAlive(a))
  <1> TAKE a \in Addrs \ {mp}
  <1>1. loc[t].mp # a /\ loc'[t].mp # a
    BY NilNotAddr
  <1>2. Live(a)' <=> Live(a)
    BY <1>1 DEF Live, Others, Untouched
  <1>3. \A u \in Callers : (loc'[u].mp = a <=> loc[u].mp = a) /\ (loc[u].mp = a => loc'[u] = loc[u])
    BY <1>1 DEF Others
  <1>4. (\E u \in Callers : loc[u].mp = a /\ RingGone(u))' <=> \E u \in Callers : loc[u].mp = a /\ RingGone(u)
    BY <1>3 DEF RingGone, InPool
  <1>5. pool'[a] = pool[a]
    BY DEF Untouched
  <1> QED BY <1>2, <1>4, <1>5 DEF RingAlive

LEMMA UsesElsewhere ==
  ASSUME NEW t \in Callers, Others(t), NEW mp, Untouched(mp),
         loc[t].mp \in {mp, Nil}, loc'[t].mp \in {mp, Nil}, NEW x \in Addrs
  PROVE  /\ \A h \in Addrs \ {mp} : /\ Use("pool", h, x)' <=> Use("pool", h, x)
                                    /\ Use("ring", h, x)' <=> Use("ring", h, x)
                                    /\ Use("chunk", h, x)' <=> Use("chunk", h, x)
         /\ \A h \in Callers \ {t} : /\ Use("new", h, x)' <=> Use("new", h, x)
                                     /\ Use("old", h, x)' <=> Use("old", h, x)
  <1>1. ASSUME NEW h \in Addrs \ {mp}
        PROVE  /\ Use("pool", h, x)' <=> Use("pool", h, x)
               /\ Use("ring", h, x)' <=> Use("ring", h, x)
               /\ Use("chunk", h, x)' <=> Use("chunk", h, x)
    <2>1. (Live(h)' <=> Live(h)) /\ (RingAlive(h)' <=> RingAlive(h))
      BY LiveElsewhere
    <2>2. pool'[h] = pool[h]
      BY DEF Untouched
    <2> QED BY <2>1, <2>2 DEF Use
  <1>2. ASSUME NEW h \in Callers \ {t}
        PROVE  /\ Use("new", h, x)' <=> Use("new", h, x)
               /\ Use("old", h, x)' <=> Use("old", h, x)
    <2>1. loc'[h] = loc[h]
      BY DEF Others
    <2> QED BY <2>1 DEF Use, HasChunk, InPool
  <1> QED BY <1>1, <1>2

(* Uses of the kinds and places that a step can touch.                     *)
LEMMA UseOf ==
  ASSUME NEW x \in Addrs, NEW h
  PROVE  /\ Use("own", h, x) <=> h = x /\ <<"ring", x>> \in owned
         /\ Use("pool", h, x) <=> h = x /\ Live(x)
         /\ Use("ring", h, x) <=> h \in Addrs /\ RingAlive(h) /\ pool[h].ring = x
         /\ Use("chunk", h, x) <=> h \in Addrs /\ Live(h) /\ x \in pool[h].chunks
         /\ Use("new", h, x) <=> h \in Callers /\ HasChunk(h) /\ loc[h].chunk = x
         /\ Use("old", h, x) <=> h \in Callers /\ loc[h].pc = "rf_zone" /\ ~InPool(h) /\ loc[h].ring = x
  BY DEF Use

Triples == Kinds \X (Addrs \cup Callers) \X Addrs

LEMMA UsesAre ==
  /\ Uses \subseteq Triples
  /\ \A k \in Kinds, h \in Addrs \cup Callers, x \in Addrs : <<k, h, x>> \in Uses <=> Use(k, h, x)
  /\ \A r \in Uses : Use(r[1], r[2], r[3]) /\ r = <<r[1], r[2], r[3]>>
                     /\ r[1] \in Kinds /\ r[2] \in Addrs \cup Callers /\ r[3] \in Addrs
  BY DEF Uses, Triples

(* The uses after a step that changes those of t and of mp: the others are *)
(* as they were, and these are those in U.                                 *)
RestIn(t, mp, U) ==
  \A r \in Triples :
    \/ r[1] \in {"pool", "ring", "chunk"} /\ (r[2] # mp \/ mp \notin Addrs)
    \/ r[1] \in {"new", "old"} /\ r[2] # t
    => (r \in U <=> r \in Uses)
MineIn(t, mp, U) ==
  \A x \in Addrs :
    /\ \A h \in Addrs \cup Callers : Use("own", h, x)' <=> <<"own", h, x>> \in U
    /\ mp \in Addrs => /\ Use("pool", mp, x)' <=> <<"pool", mp, x>> \in U
                       /\ Use("ring", mp, x)' <=> <<"ring", mp, x>> \in U
                       /\ Use("chunk", mp, x)' <=> <<"chunk", mp, x>> \in U
    /\ Use("new", t, x)' <=> <<"new", t, x>> \in U
    /\ Use("old", t, x)' <=> <<"old", t, x>> \in U
LEMMA UsesStep ==
  ASSUME NEW t \in Callers, Others(t), NEW mp \in Addrs \cup {Nil}, Untouched(mp),
         loc[t].mp \in {mp, Nil}, loc'[t].mp \in {mp, Nil},
         NEW U \in SUBSET Triples, RestIn(t, mp, U), MineIn(t, mp, U)
  PROVE  Uses' = U
  <1>1. ASSUME NEW k \in Kinds, NEW h \in Addrs \cup Callers, NEW x \in Addrs
        PROVE  Use(k, h, x)' <=> <<k, h, x>> \in U
    <2> DEFINE r == <<k, h, x>>
    <2>1. r \in Triples /\ r[1] = k /\ r[2] = h /\ r[3] = x
      BY DEF Triples
    <2>2. r \in Uses <=> Use(k, h, x)
      BY UsesAre
    <2>3. CASE k = "own"
      BY <2>3 DEF MineIn
    <2>4. CASE k \in {"pool", "ring", "chunk"} /\ h \in Addrs /\ h # mp
      <3>1. Use(k, h, x)' <=> Use(k, h, x)
        BY <2>4, UsesElsewhere
      <3>2. r \in U <=> r \in Uses
        BY <2>1, <2>4 DEF RestIn
      <3> QED BY <2>2, <3>1, <3>2
    <2>5. CASE k \in {"pool", "ring", "chunk"} /\ h = mp /\ h \in Addrs
      BY <2>5 DEF MineIn
    <2>6. CASE k \in {"pool", "ring", "chunk"} /\ h \notin Addrs
      <3>1. ~Use(k, h, x)' /\ ~Use(k, h, x)
        BY <2>6 DEF Use
      <3>2. h # mp \/ mp \notin Addrs
        BY <2>6
      <3> QED BY <2>1, <2>2, <2>6, <3>1, <3>2 DEF RestIn
    <2>7. CASE k \in {"new", "old"} /\ h \in Callers /\ h # t
      <3>1. Use(k, h, x)' <=> Use(k, h, x)
        BY <2>7, UsesElsewhere
      <3> QED BY <2>1, <2>2, <2>7, <3>1 DEF RestIn
    <2>8. CASE k \in {"new", "old"} /\ h = t
      BY <2>8 DEF MineIn
    <2>9. CASE k \in {"new", "old"} /\ h \notin Callers
      <3>1. ~Use(k, h, x)' /\ ~Use(k, h, x)
        BY <2>9 DEF Use
      <3> QED BY <2>1, <2>2, <2>9, <3>1 DEF RestIn
    <2> QED BY <2>3, <2>4, <2>5, <2>6, <2>7, <2>8, <2>9 DEF Kinds
  <1>2. \A r \in Triples : r \in Uses' <=> r \in U
    <2> TAKE r \in Triples
    <2>1. r = <<r[1], r[2], r[3]>> /\ r[1] \in Kinds /\ r[2] \in Addrs \cup Callers /\ r[3] \in Addrs
      BY DEF Triples
    <2>2. Use(r[1], r[2], r[3])' <=> r \in U
      BY <1>1, <2>1
    <2> QED BY <2>2 DEF Uses, Triples
  <1>3. Uses' \subseteq Triples
    BY DEF Uses, Triples
  <1> QED BY <1>2, <1>3

(* The memzones and their uses.                                            *)
LEMMA AgreeAdd ==
  ASSUME NEW R \in SUBSET Triples, NEW z, DOMAIN z = Addrs, Agree(R, z),
         NEW u \in Triples, z[u[3]] = <<>>, NEW name, name # <<>>
  PROVE  Agree(R \cup {u}, [z EXCEPT ![u[3]] = name])
  BY DEF Agree, Triples

LEMMA AgreeDrop ==
  ASSUME NEW R \in SUBSET Triples, NEW z, DOMAIN z = Addrs, Agree(R, z), NEW u \in R
  PROVE  Agree(R \ {u}, [z EXCEPT ![u[3]] = <<>>])
  BY DEF Agree, Triples

LEMMA AgreeSwap ==
  ASSUME NEW R \in SUBSET Triples, NEW z, Agree(R, z), NEW u \in R, NEW v \in Triples, u[3] = v[3]
  PROVE  Agree((R \ {u}) \cup {v}, z)
  BY DEF Agree, Triples

-----------------------------------------------------------------------------
(* The only memzone that a step changes is at x, and nobody else uses it.  *)
Changes(t, mp, x) ==
  /\ \A b \in Addrs \ {x} : zone'[b] = zone[b]
  /\ \A r \in Uses : r[3] = x =>
       (r[1] \in {"pool", "ring", "chunk"} => r[2] = mp) /\ (r[1] = "new" => r[2] = t)
NamedAfter(mp) == mp \in Addrs /\ Live(mp)' => \E n \in PoolNames : PoolNamed(mp, n)'

(* The names of the mempools that a step of t on mp does not touch: the    *)
(* memzone at x changes, which none of them uses.                          *)
LEMMA NamedElsewhere ==
  ASSUME ListInv, NEW t \in Callers, Others(t), NEW mp, Untouched(mp),
         loc[t].mp \in {mp, Nil}, loc'[t].mp \in {mp, Nil},
         NEW x, Changes(t, mp, x),
         NEW a \in Addrs \ {mp}, Live(a), NEW n, PoolNamed(a, n)
  PROVE  PoolNamed(a, n)'
  <1> USE DEF Changes
  <1>1. a # x
    <2>1. <<"pool", a, a>> \in Uses
      BY UsesAre, UseOf DEF Kinds
    <2> QED BY <2>1
  <1>2. /\ RingAlive(a)' <=> RingAlive(a)
        /\ pool'[a] = pool[a] /\ pool[a].ring \in Addrs \cup {Nil} /\ pool[a].chunks \subseteq Addrs
    BY LiveElsewhere DEF Untouched, ListInv, RegTypes
  <1>3. RingAlive(a) => zone'[pool[a].ring] = RGMP(n)
    <2> SUFFICES ASSUME RingAlive(a) PROVE zone'[pool[a].ring] = RGMP(n)
      OBVIOUS
    <2>1. pool[a].ring \in Addrs
      BY <1>2 DEF RingAlive
    <2>2. <<"ring", a, pool[a].ring>> \in Uses
      BY <2>1, UsesAre, UseOf DEF Kinds
    <2>3. pool[a].ring # x
      BY <2>2
    <2> QED BY <2>1, <2>3 DEF PoolNamed
  <1>4. \A b \in pool[a].chunks : \E k \in Nat : zone'[b] = Chunk(n, k)
    <2> TAKE b \in pool[a].chunks
    <2>1. b \in Addrs
      BY <1>2
    <2>2. <<"chunk", a, b>> \in Uses
      BY <2>1, UsesAre, UseOf DEF Kinds
    <2>3. b # x
      BY <2>2
    <2> QED BY <2>1, <2>3 DEF PoolNamed
  <1>5. ASSUME NEW u \in Callers, loc'[u].mp = a PROVE NamedBy(u, n)'
    <2>1. u # t /\ loc'[u] = loc[u] /\ loc[u].mp = a
      BY <1>5, NilNotAddr DEF Others
    <2>2. NamedBy(u, n)
      BY <2>1 DEF PoolNamed
    <2>3. HasChunk(u)' <=> HasChunk(u)
      BY <2>1 DEF HasChunk, InPool
    <2>4. HasChunk(u) => \E k \in Nat : zone'[loc[u].chunk] = Chunk(n, k)
      <3> SUFFICES ASSUME HasChunk(u) PROVE \E k \in Nat : zone'[loc[u].chunk] = Chunk(n, k)
        OBVIOUS
      <3>1. loc[u].chunk \in Addrs
        BY Fields DEF LocalsOf
      <3>2. <<"new", u, loc[u].chunk>> \in Uses
        BY <3>1, UsesAre, UseOf DEF Kinds
      <3>3. loc[u].chunk # x
        BY <2>1, <3>2
      <3> QED BY <2>2, <3>1, <3>3 DEF NamedBy
    <2> QED BY <2>1, <2>2, <2>3, <2>4 DEF NamedBy
  <1>6. zone'[a] = MP(n)
    BY <1>1 DEF PoolNamed
  <1> QED BY <1>2, <1>3, <1>4, <1>5, <1>6 DEF PoolNamed

LEMMA NamesStep ==
  ASSUME ListInv, NamesSound, NEW t \in Callers, Others(t), NEW mp, Untouched(mp),
         loc[t].mp \in {mp, Nil}, loc'[t].mp \in {mp, Nil},
         NEW x, Changes(t, mp, x),
         NamedAfter(mp)
  PROVE  NamesSound'
  <1> USE DEF NamedAfter
  <1> SUFFICES ASSUME NEW a \in Addrs, Live(a)' PROVE \E n \in PoolNames : PoolNamed(a, n)'
    BY DEF NamesSound
  <1>1. CASE a = mp
    BY <1>1
  <1>2. CASE a # mp
    <2>1. Live(a)
      BY <1>2, LiveElsewhere
    <2>2. PICK n \in PoolNames : PoolNamed(a, n)
      BY <2>1 DEF NamesSound
    <2> QED BY <1>2, <2>1, <2>2, NamedElsewhere
  <1> QED BY <1>1, <1>2

-----------------------------------------------------------------------------
(* The other parts after a step of t on mp.                                *)
LEMMA PoolOfStep ==
  ASSUME ListInv, UsersSound, \A u \in Callers : PoolOf(u), NEW t \in Callers, Others(t),
         NEW mp, Untouched(mp), Alone(t, mp), PoolOf(t)'
  PROVE  (\A u \in Callers : PoolOf(u))'
  <1> USE DEF Alone
  <1> SUFFICES ASSUME NEW u \in Callers \ {t} PROVE PoolOf(u)'
    OBVIOUS
  <1>1. loc'[u] = loc[u]
    BY DEF Others
  <1>2. InPool(u) => pool'[loc[u].mp] = pool[loc[u].mp]
    BY Fields DEF InPool, Untouched
  <1> QED BY <1>1, <1>2 DEF PoolOf, InPool

LEMMA ListedElsewhere ==
  ASSUME NEW t \in Callers, Others(t), NEW mp, Untouched(mp),
         loc[t].mp \in {mp, Nil}, loc'[t].mp \in {mp, Nil}
  PROVE  \A a \in Addrs \ {mp} : ListedAt(a)' <=> ListedAt(a)
  <1> TAKE a \in Addrs \ {mp}
  <1>1. loc[t].mp # a /\ loc'[t].mp # a
    BY NilNotAddr
  <1>2. \A u \in Callers : (loc'[u].mp = a <=> loc[u].mp = a) /\ (loc[u].mp = a => loc'[u] = loc[u])
    BY <1>1 DEF Others
  <1>3. (\E u \in Callers : Listed(u) /\ loc[u].mp = a)' <=> \E u \in Callers : Listed(u) /\ loc[u].mp = a
    BY <1>2 DEF Listed, InPool
  <1> QED BY <1>3 DEF ListedAt, Untouched

LEMMA PoolsListedStep ==
  ASSUME PoolsListed, NEW t \in Callers, Others(t), NEW mp, Untouched(mp),
         loc[t].mp \in {mp, Nil}, loc'[t].mp \in {mp, Nil}, pool_list' = pool_list,
         mp \in Addrs => (ListedAt(mp)' <=> ListedAt(mp))
  PROVE  PoolsListed'
  <1>1. \A a \in Addrs : ListedAt(a)' <=> ListedAt(a)
    BY ListedElsewhere
  <1>2. Entries(pool_list)' = Entries(pool_list)
    BY DEF Entries
  <1> QED BY <1>1, <1>2 DEF PoolsListed

Unlinking(t) == loc[t].pc = "rf_unlink"

LEMMA RingsListedStep ==
  ASSUME RingsListed, NEW t \in Callers, Others(t), ring_list' = ring_list,
         \A x \in Addrs : RingAt(x)' <=> RingAt(x),
         Unlinking(t)' <=> Unlinking(t), Unlinking(t) => loc'[t].ring = loc[t].ring
  PROVE  RingsListed'
  <1> SUFFICES ASSUME NEW x \in Addrs PROVE Claims(x)' = Claims(x) /\ EntriesAt(x)' = EntriesAt(x)
    BY DEF RingsListed
  <1>1. EntriesAt(x)' = EntriesAt(x)
    BY DEF EntriesAt, Entries
  <1>2. \A u \in Callers : (loc'[u].pc = "rf_unlink" /\ loc'[u].ring = x) <=> (loc[u].pc = "rf_unlink" /\ loc[u].ring = x)
    BY DEF Others, Unlinking
  <1> QED BY <1>1, <1>2 DEF Claims

LEMMA UsersStep ==
  ASSUME ListInv, UsersSound, NEW t \in Callers, Others(t), NEW mp \in Addrs \cup {Nil}, Untouched(mp),
         loc[t].mp \in {mp, Nil}, loc'[t].mp \in {mp, Nil},
         Alone(t, mp),
         <<"pool", Nil>> \notin owned',
         mp \in Addrs /\ <<"pool", mp>> \in owned' => loc'[t].mp # mp /\ pool'[mp].ring # Nil
  PROVE  UsersSound'
  <1> USE DEF Alone
  <1>1. ASSUME NEW u \in Callers, NEW v \in Callers, u # v, InPool(u)' PROVE loc'[u].mp # loc'[v].mp
    BY <1>1 DEF UsersSound, Others, InPool
  <1>2. ASSUME NEW u \in Callers PROVE <<"pool", loc'[u].mp>> \notin owned'
    <2>1. CASE u = t
      BY <2>1, Fields
    <2>2. CASE u # t
      <3>1. loc'[u] = loc[u] /\ loc[u].mp \in Addrs \cup {Nil} /\ <<"pool", loc[u].mp>> \notin owned
        BY <2>2, Fields DEF Others, UsersSound
      <3> QED BY <2>2, <3>1 DEF Untouched
    <2> QED BY <2>1, <2>2
  <1>3. ASSUME NEW a \in Addrs, <<"pool", a>> \in owned' PROVE pool'[a].ring # Nil
    BY <1>3 DEF UsersSound, Untouched
  <1> QED BY <1>1, <1>2, <1>3 DEF UsersSound

Old(t) == loc[t].pc = "rf_zone" /\ ~InPool(t)

(* A step that changes no memzone and nothing that the invariant says of   *)
(* them.                                                                   *)
LEMMA MemoryKept ==
  ASSUME ListInv, ListInv', ZoneInv, NEW t \in Callers, Others(t),
         UNCHANGED <<zone, pool, owned>>,
         loc'[t].mp = loc[t].mp,
         InPool(t) /\ pool[loc[t].mp].ring # Nil => (RingGone(t)' <=> RingGone(t)),
         HasChunk(t)' <=> HasChunk(t), HasChunk(t) => loc'[t].chunk = loc[t].chunk,
         Old(t)' <=> Old(t), Old(t) => loc'[t].ring = loc[t].ring,
         PoolOf(t)',
         InPool(t) => \A n \in PoolNames : NamedBy(t, n) => NamedBy(t, n)'
  PROVE  /\ (\A u \in Callers : PoolOf(u))' /\ UsersSound' /\ UsesSound' /\ NamesSound'
         /\ \A x \in Addrs : RingAt(x)' <=> RingAt(x)
  <1>0. PICK mp \in Addrs \cup {Nil} : mp = loc[t].mp
    BY Fields
  <1>1. Untouched(mp) /\ loc[t].mp \in {mp, Nil} /\ loc'[t].mp \in {mp, Nil}
    BY <1>0 DEF Untouched
  <1>2. Alone(t, mp)
    BY <1>0 DEF ZoneInv, UsersSound, InPool, Alone
  <1>3. InPool(t)' <=> InPool(t)
    BY DEF InPool
  <1>4. UsersSound'
    <2>1. <<"pool", Nil>> \notin owned' /\ <<"pool", mp>> \notin owned'
      BY <1>0, NilNotAddr DEF ListInv, RegTypes, ZoneInv, UsersSound
    <2> QED BY <1>1, <1>2, <2>1, UsersStep DEF ZoneInv
  <1>5. InPool(t) => (Live(mp)' <=> Live(mp)) /\ (RingAlive(mp)' <=> RingAlive(mp)) /\ mp \in Addrs
    <2>1. (UsersSound /\ ListInv => MineFacts)'
      BY Mine, PTL
    <2>2. MineFacts /\ MineFacts'
      BY <1>4, <2>1, Mine DEF ZoneInv
    <2> QED BY <1>0, <1>3, <2>2 DEF MineFacts
  <1>6. Uses' = Uses
    <2>1. Uses \in SUBSET Triples
      BY UsesAre
    <2>2. ASSUME NEW x \in Addrs
          PROVE  /\ \A h \in Addrs \cup Callers : Use("own", h, x)' <=> <<"own", h, x>> \in Uses
                 /\ mp \in Addrs => /\ Use("pool", mp, x)' <=> <<"pool", mp, x>> \in Uses
                                    /\ Use("ring", mp, x)' <=> <<"ring", mp, x>> \in Uses
                                    /\ Use("chunk", mp, x)' <=> <<"chunk", mp, x>> \in Uses
                 /\ Use("new", t, x)' <=> <<"new", t, x>> \in Uses
                 /\ Use("old", t, x)' <=> <<"old", t, x>> \in Uses
      <3>1. \A k \in Kinds, h \in Addrs \cup Callers : <<k, h, x>> \in Uses <=> Use(k, h, x)
        BY UsesAre
      <3>2. \A h \in Addrs \cup Callers : Use("own", h, x)' <=> Use("own", h, x)
        BY DEF Use
      <3>3. mp \in Addrs => /\ Use("pool", mp, x)' <=> Use("pool", mp, x)
                            /\ Use("ring", mp, x)' <=> Use("ring", mp, x)
                            /\ Use("chunk", mp, x)' <=> Use("chunk", mp, x)
        BY <1>0, <1>5, NilNotAddr DEF Use, InPool
      <3>4. (Use("new", t, x)' <=> Use("new", t, x)) /\ (Use("old", t, x)' <=> Use("old", t, x))
        BY DEF Use, Old
      <3> QED BY <3>1, <3>2, <3>3, <3>4 DEF Kinds
    <2>3. RestIn(t, mp, Uses) /\ MineIn(t, mp, Uses)
      BY <2>2 DEF RestIn, MineIn
    <2> QED BY <1>1, <2>1, <2>3, UsesStep
  <1>7. UsesSound'
    BY <1>6 DEF ZoneInv, UsesSound, Agree
  <1>8. NamesSound'
    <2>1. NamedAfter(mp)
      <3> SUFFICES ASSUME mp \in Addrs PROVE \E n \in PoolNames : PoolNamed(mp, n)'
        BY DEF NamedAfter
      <3>1. InPool(t)
        BY <1>0, NilNotAddr DEF InPool
      <3>2. PICK n \in PoolNames : PoolNamed(mp, n)
        BY <1>0, <3>1, Mine DEF ZoneInv, NamesSound, MineFacts
      <3>3. \A u \in Callers : loc'[u].mp = mp => NamedBy(u, n)'
        BY <1>0, <1>2, <3>1, <3>2, NilNotAddr DEF PoolNamed, Others, Alone
      <3>4. RingAlive(mp)' <=> RingAlive(mp)
        BY <1>5, <3>1
      <3>5. PoolNamed(mp, n)'
        BY <3>2, <3>3, <3>4 DEF PoolNamed
      <3> QED BY <3>5
    <2>2. PICK x : x = Nil
      OBVIOUS
    <2>3. Changes(t, mp, x)
      BY <2>2, UsesAre, NilNotAddr DEF Changes
    <2>5. NamesSound
      BY DEF ZoneInv
    <2> QED BY ONLY ListInv, <2>5, Others(t), <1>1, <2>1, <2>3, NamesStep
  <1>9. (\A u \in Callers : PoolOf(u))'
    BY <1>1, <1>2, PoolOfStep DEF ZoneInv
  <1>10. \A x \in Addrs : RingAt(x)' <=> RingAt(x)
    BY <1>6 DEF RingAt
  <1> QED BY <1>4, <1>7, <1>8, <1>9, <1>10

(* And no list.                                                            *)
LEMMA QuietStep ==
  ASSUME ListInv, ListInv', ZoneInv, NEW t \in Callers, Others(t),
         UNCHANGED <<zone, pool, owned, ring_list, pool_list>>,
         loc'[t].mp = loc[t].mp,
         InPool(t) /\ pool[loc[t].mp].ring # Nil => (RingGone(t)' <=> RingGone(t)),
         HasChunk(t)' <=> HasChunk(t), HasChunk(t) => loc'[t].chunk = loc[t].chunk,
         Old(t)' <=> Old(t), Old(t) => loc'[t].ring = loc[t].ring,
         Unlinking(t)' <=> Unlinking(t), Unlinking(t) => loc'[t].ring = loc[t].ring,
         Listed(t)' <=> Listed(t), PoolOf(t)',
         InPool(t) => \A n \in PoolNames : NamedBy(t, n) => NamedBy(t, n)'
  PROVE  ZoneInv'
  <1>0. PICK mp \in Addrs \cup {Nil} : mp = loc[t].mp
    BY Fields
  <1>1. Untouched(mp) /\ loc[t].mp \in {mp, Nil} /\ loc'[t].mp \in {mp, Nil}
    BY <1>0 DEF Untouched
  <1>2. /\ (\A u \in Callers : PoolOf(u))' /\ UsersSound' /\ UsesSound' /\ NamesSound'
        /\ \A x \in Addrs : RingAt(x)' <=> RingAt(x)
    BY MemoryKept
  <1>3. PoolsListed'
    <2>1. mp \in Addrs => (ListedAt(mp)' <=> ListedAt(mp))
      BY <1>0 DEF ListedAt, Others, Listed, InPool
    <2> QED BY <1>1, <2>1, PoolsListedStep DEF ZoneInv
  <1>4. RingsListed'
    BY <1>2, RingsListedStep DEF ZoneInv
  <1> QED BY <1>2, <1>3, <1>4 DEF ZoneInv

(* The parts that go through for any step of t on mp once the uses after   *)
(* it are known.                                                           *)
LEMMA ZoneStep ==
  ASSUME ListInv, ListInv', ZoneInv, NEW t \in Callers, Others(t),
         NEW mp \in Addrs \cup {Nil}, Untouched(mp),
         loc[t].mp \in {mp, Nil}, loc'[t].mp \in {mp, Nil},
         Alone(t, mp), UsersSound',
         NEW x, Changes(t, mp, x),
         NEW U, Uses' = U, Agree(U, zone'),
         NamedAfter(mp),
         PoolOf(t)', PoolsListed', RingsListed'
  PROVE  ZoneInv'
  <1>1. UsesSound'
    BY DEF UsesSound, Agree
  <1>2. NamesSound'
    BY NamesStep DEF ZoneInv
  <1>3. (\A u \in Callers : PoolOf(u))'
    BY PoolOfStep DEF ZoneInv
  <1> QED BY <1>1, <1>2, <1>3 DEF ZoneInv

-----------------------------------------------------------------------------
(* The list of rings, entry by entry: numbers of entries and of claims.    *)
LEMMA FiniteSides ==
  ASSUME ListInv, NEW x
  PROVE  IsFiniteSet(EntriesAt(x)) /\ IsFiniteSet(Claims(x))
  <1>1. IsFiniteSet(Entries(ring_list))
    <2>1. ring_list \in Seq(Entry) /\ Len(ring_list) \in Nat /\ DOMAIN ring_list = 1 .. Len(ring_list)
      BY DEF ListInv, RegTypes
    <2>2. IsFiniteSet(DOMAIN ring_list)
      BY <2>1, FS_Interval
    <2>3. ring_list \in Surjection(DOMAIN ring_list, Entries(ring_list))
      BY <2>1 DEF Surjection, Entries
    <2> QED BY <2>2, <2>3, FS_Surjection
  <1>2. IsFiniteSet(EntriesAt(x))
    BY <1>1, FS_Subset DEF EntriesAt
  <1>3. Claims(x) \subseteq Callers \cup {NoOne}
    BY DEF Claims
  <1>4. IsFiniteSet(Callers \cup {NoOne})
    BY RegistryAssumption, FS_AddElement
  <1> QED BY <1>2, <1>3, <1>4, FS_Subset

LEMMA RingsLinked ==
  ASSUME ListInv, RingsListed, NEW t \in Callers, Others(t), NEW e \in Entry,
         e.te \notin TesOf(ring_list), ring_list' = Append(ring_list, e),
         ~Unlinking(t), ~Unlinking(t)', RingAt(e.data)', ~RingAt(e.data),
         \A x \in Addrs \ {e.data} : RingAt(x)' <=> RingAt(x)
  PROVE  RingsListed'
  <1> SUFFICES ASSUME NEW x \in Addrs PROVE Cardinality(EntriesAt(x)') = Cardinality(Claims(x)')
    BY DEF RingsListed
  <1>1. Entries(ring_list)' = Entries(ring_list) \cup {e} /\ e \notin Entries(ring_list)
    <2>1. Entries(Append(ring_list, e)) = Entries(ring_list) \cup {e}
      BY AppendList DEF ListInv, RegTypes, TesSound
    <2> QED BY <2>1 DEF Entries, TesOf
  <1>2. \A u \in Callers : (loc'[u].pc = "rf_unlink" /\ loc'[u].ring = x) <=> (loc[u].pc = "rf_unlink" /\ loc[u].ring = x)
    BY DEF Others, Unlinking
  <1>3. Cardinality(EntriesAt(x)) = Cardinality(Claims(x))
    BY DEF RingsListed
  <1>4. CASE x = e.data
    <2>1. EntriesAt(x)' = EntriesAt(x) \cup {e} /\ e \notin EntriesAt(x)
      BY <1>1, <1>4 DEF EntriesAt
    <2>2. Claims(x)' = Claims(x) \cup {NoOne} /\ NoOne \notin Claims(x)
      BY <1>2, <1>4, RegistryAssumption DEF Claims
    <2>3. Cardinality(EntriesAt(x) \cup {e}) = Cardinality(EntriesAt(x)) + 1
      BY <2>1, FiniteSides, FS_AddElement
    <2>4. Cardinality(Claims(x) \cup {NoOne}) = Cardinality(Claims(x)) + 1
      BY <2>2, FiniteSides, FS_AddElement
    <2> QED BY <1>3, <2>1, <2>2, <2>3, <2>4
  <1>5. CASE x # e.data
    <2>1. EntriesAt(x)' = EntriesAt(x)
      BY <1>1, <1>5 DEF EntriesAt
    <2>2. Claims(x)' = Claims(x)
      BY <1>2, <1>5 DEF Claims
    <2> QED BY <1>3, <2>1, <2>2
  <1> QED BY <1>4, <1>5

LEMMA RingsFreed ==
  ASSUME ListInv, RingsListed, NEW t \in Callers, Others(t), ring_list' = ring_list,
         ~Unlinking(t), Unlinking(t)', NEW y \in Addrs, loc'[t].ring = y, RingAt(y), ~RingAt(y)',
         \A x \in Addrs \ {y} : RingAt(x)' <=> RingAt(x)
  PROVE  RingsListed'
  <1> SUFFICES ASSUME NEW x \in Addrs PROVE Cardinality(EntriesAt(x)') = Cardinality(Claims(x)')
    BY DEF RingsListed
  <1>1. EntriesAt(x)' = EntriesAt(x)
    BY DEF EntriesAt, Entries
  <1>2. \A u \in Callers \ {t} : (loc'[u].pc = "rf_unlink" /\ loc'[u].ring = x) <=> (loc[u].pc = "rf_unlink" /\ loc[u].ring = x)
    BY DEF Others
  <1>3. Cardinality(EntriesAt(x)) = Cardinality(Claims(x))
    BY DEF RingsListed
  <1>4. CASE x = y
    <2> DEFINE rest == Claims(x) \ {NoOne}
    <2>1. NoOne \in Claims(x) /\ t \notin Claims(x) /\ t # NoOne
      BY <1>4, RegistryAssumption DEF Claims, Unlinking
    <2>2. Claims(x)' = rest \cup {t}
      BY <1>2, <1>4, RegistryAssumption DEF Claims, Unlinking
    <2>3. IsFiniteSet(rest) /\ Cardinality(rest) = Cardinality(Claims(x)) - 1
      BY <2>1, FiniteSides, FS_RemoveElement
    <2>4. Cardinality(rest \cup {t}) = Cardinality(rest) + 1
      BY <2>1, <2>3, FS_AddElement
    <2>5. Cardinality(Claims(x)) \in Nat
      BY FiniteSides, FS_CardinalityType
    <2> HIDE DEF rest
    <2> QED BY <1>1, <1>3, <2>2, <2>3, <2>4, <2>5
  <1>5. CASE x # y
    <2>1. Claims(x)' = Claims(x)
      BY <1>2, <1>5 DEF Claims, Unlinking
    <2> QED BY <1>1, <1>3, <2>1
  <1> QED BY <1>4, <1>5

LEMMA RingsUnlinked ==
  ASSUME ListInv, RingsListed, NEW t \in Callers, Others(t),
         NEW i \in DOMAIN ring_list, ring_list[i].data = loc[t].ring, ring_list' = Drop(ring_list, i),
         Unlinking(t), ~Unlinking(t)', \A x \in Addrs : RingAt(x)' <=> RingAt(x)
  PROVE  RingsListed'
  <1> SUFFICES ASSUME NEW x \in Addrs PROVE Cardinality(EntriesAt(x)') = Cardinality(Claims(x)')
    BY DEF RingsListed
  <1>1. PICK e : e = ring_list[i]
    OBVIOUS
  <1>2. Entries(ring_list)' = Entries(ring_list) \ {e} /\ e \in Entries(ring_list) /\ e.data = loc[t].ring
    <2>1. Entries(Drop(ring_list, i)) = Entries(ring_list) \ {ring_list[i]} /\ ring_list[i] \in Entries(ring_list)
      BY DropList DEF ListInv, RegTypes, TesSound
    <2> QED BY <1>1, <2>1 DEF Entries
  <1>3. \A u \in Callers \ {t} : (loc'[u].pc = "rf_unlink" /\ loc'[u].ring = x) <=> (loc[u].pc = "rf_unlink" /\ loc[u].ring = x)
    BY DEF Others
  <1>4. Cardinality(EntriesAt(x)) = Cardinality(Claims(x))
    BY DEF RingsListed
  <1>5. CASE x = loc[t].ring
    <2>1. EntriesAt(x)' = EntriesAt(x) \ {e} /\ e \in EntriesAt(x)
      BY <1>2, <1>5 DEF EntriesAt
    <2>2. Claims(x)' = Claims(x) \ {t} /\ t \in Claims(x)
      BY <1>3, <1>5, RegistryAssumption DEF Claims, Unlinking
    <2>3. Cardinality(EntriesAt(x) \ {e}) = Cardinality(EntriesAt(x)) - 1
      BY <2>1, FiniteSides, FS_RemoveElement
    <2>4. Cardinality(Claims(x) \ {t}) = Cardinality(Claims(x)) - 1
      BY <2>2, FiniteSides, FS_RemoveElement
    <2> QED BY <1>4, <2>1, <2>2, <2>3, <2>4
  <1>6. CASE x # loc[t].ring
    <2>1. EntriesAt(x)' = EntriesAt(x)
      BY <1>2, <1>6 DEF EntriesAt
    <2>2. Claims(x)' = Claims(x)
      BY <1>3, <1>6 DEF Claims, Unlinking
    <2> QED BY <1>4, <2>1, <2>2
  <1> QED BY <1>5, <1>6

LEMMA FreePlace ==
  ASSUME ZoneInv, NEW a \in Addrs, zone[a] = <<>>
  PROVE  \A r \in Uses : r[3] # a
  BY UsesAre DEF ZoneInv, UsesSound, Agree

(* The other places of a mempool when the free one at a is taken.          *)
LEMMA NamesKept ==
  ASSUME ListInv, NEW a \in Addrs, zone[a] = <<>>, \A b \in Addrs \ {a} : zone'[b] = zone[b],
         NEW mp \in Addrs, NEW n \in PoolNames, PoolNamed(mp, n)
  PROVE  /\ zone'[mp] = MP(n)
         /\ \A b \in pool[mp].chunks : \E k \in Nat : zone'[b] = Chunk(n, k)
         /\ RingAlive(mp) => zone'[pool[mp].ring] = RGMP(n)
         /\ \A u \in Callers : loc[u].mp = mp /\ HasChunk(u) => \E k \in Nat : zone'[loc[u].chunk] = Chunk(n, k)
  <1>1. \A b \in Addrs : b # a => zone'[b] = zone[b]
    OBVIOUS
  <1>3. zone'[mp] = MP(n)
    BY <1>1, Forms DEF PoolNamed
  <1>4. ASSUME NEW b \in pool[mp].chunks PROVE \E k \in Nat : zone'[b] = Chunk(n, k)
    <2>1. b \in Addrs
      BY DEF ListInv, RegTypes
    <2>2. PICK k \in Nat : zone[b] = Chunk(n, k)
      BY DEF PoolNamed
    <2> QED BY <1>1, <2>1, <2>2, Forms
  <1>5. ASSUME RingAlive(mp) PROVE zone'[pool[mp].ring] = RGMP(n)
    <2>1. pool[mp].ring \in Addrs
      BY <1>5 DEF ListInv, RegTypes, RingAlive
    <2>2. zone[pool[mp].ring] = RGMP(n)
      BY <1>5 DEF PoolNamed
    <2> QED BY <1>1, <2>1, <2>2, Forms
  <1>6. ASSUME NEW u \in Callers, loc[u].mp = mp, HasChunk(u)
        PROVE  \E k \in Nat : zone'[loc[u].chunk] = Chunk(n, k)
    <2>1. loc[u].chunk \in Addrs
      BY <1>6, Fields DEF LocalsOf
    <2>2. PICK k \in Nat : zone[loc[u].chunk] = Chunk(n, k)
      BY <1>6 DEF PoolNamed, NamedBy
    <2> QED BY <1>1, <2>1, <2>2, Forms
  <1> QED BY <1>3, <1>4, <1>5, <1>6

LEMMA RingName ==
  ASSUME ListInv, NEW t \in Callers, loc[t].pc \in Creating
  PROVE  loc[t].name # <<>>
  <1>1. CASE InPool(t)
    <2>1. PICK n \in PoolNames : loc[t].name = RGMP(n)
      BY <1>1, Fields DEF NameOf
    <2> QED BY <2>1, Forms
  <1>2. CASE ~InPool(t)
    <2>1. PICK n \in RingNames : loc[t].name = <<"RG", n>>
      BY <1>2, Fields DEF NameOf
    <2>2. <<"RG", n>> # <<>>
      OBVIOUS
    <2> QED BY <2>1, <2>2
  <1> QED BY <1>1, <1>2

(* The places of a mempool when the memzone at y changes, which only u     *)
(* uses.                                                                   *)
OnlyUse(u, y) == \A r \in Uses : r[3] = y => r = u
SameZones(y) == \A b \in Addrs \ {y} : zone'[b] = zone[b]
LEMMA NamesApart ==
  ASSUME ListInv, NEW y, SameZones(y), NEW u, OnlyUse(u, y),
         NEW mp \in Addrs, Live(mp), NEW n \in PoolNames, PoolNamed(mp, n)
  PROVE  /\ u[1] # "pool" => zone'[mp] = MP(n)
         /\ \A b \in pool[mp].chunks : u # <<"chunk", mp, b>> => \E k \in Nat : zone'[b] = Chunk(n, k)
         /\ RingAlive(mp) /\ u[1] # "ring" => zone'[pool[mp].ring] = RGMP(n)
         /\ \A t \in Callers : loc[t].mp = mp /\ HasChunk(t) /\ u[1] # "new" => \E k \in Nat : zone'[loc[t].chunk] = Chunk(n, k)
  <1>1. u[1] # "pool" => zone'[mp] = MP(n)
    <2>1. <<"pool", mp, mp>> \in Uses
      BY UsesAre, UseOf DEF Kinds
    <2> QED BY <2>1 DEF OnlyUse, SameZones, PoolNamed
  <1>2. ASSUME NEW b \in pool[mp].chunks, u # <<"chunk", mp, b>>
        PROVE  \E k \in Nat : zone'[b] = Chunk(n, k)
    <2>1. b \in Addrs
      BY DEF ListInv, RegTypes
    <2>2. <<"chunk", mp, b>> \in Uses
      BY <2>1, UsesAre, UseOf DEF Kinds
    <2>3. b # y
      BY <1>2, <2>2 DEF OnlyUse
    <2> QED BY <2>1, <2>3 DEF SameZones, PoolNamed
  <1>3. ASSUME RingAlive(mp), u[1] # "ring" PROVE zone'[pool[mp].ring] = RGMP(n)
    <2>1. pool[mp].ring \in Addrs
      BY <1>3 DEF ListInv, RegTypes, RingAlive
    <2>2. <<"ring", mp, pool[mp].ring>> \in Uses
      BY <1>3, <2>1, UsesAre, UseOf DEF Kinds
    <2>3. pool[mp].ring # y
      BY <1>3, <2>2 DEF OnlyUse
    <2> QED BY <1>3, <2>1, <2>3 DEF SameZones, PoolNamed
  <1>4. ASSUME NEW t \in Callers, loc[t].mp = mp, HasChunk(t), u[1] # "new"
        PROVE  \E k \in Nat : zone'[loc[t].chunk] = Chunk(n, k)
    <2>1. loc[t].chunk \in Addrs
      BY <1>4, Fields DEF LocalsOf
    <2>2. <<"new", t, loc[t].chunk>> \in Uses
      <3>1. Use("new", t, loc[t].chunk)
        BY <1>4 DEF Use
      <3> QED BY <2>1, <3>1, UsesAre DEF Kinds
    <2>3. loc[t].chunk # y
      BY <1>4, <2>2 DEF OnlyUse
    <2> QED BY <1>4, <2>1, <2>3 DEF SameZones, PoolNamed, NamedBy
  <1> QED BY <1>1, <1>2, <1>3, <1>4

-----------------------------------------------------------------------------
(* The steps that neither take, hand on nor give back a memzone.           *)
LEMMA RingCreateZones ==
  ASSUME ListInv, ListInv', ZoneInv, NEW t \in Callers, NEW n \in RingNames, RingCreate(t, n)
  PROVE  ZoneInv'
  <1>1. /\ loc[t].pc = "idle"
        /\ UNCHANGED <<qlock, mplock, zone, te_used, ring_list, pool_list, pool, owned>>
        /\ loc' = [loc EXCEPT ![t] = [Returned EXCEPT !.name = <<"RG", n>>, !.pc = "rc_te"]]
    BY DEF RingCreate, memory, lists, GoWith
  <1>2. loc'[t] = [Returned EXCEPT !.name = <<"RG", n>>, !.pc = "rc_te"] /\ Others(t)
    BY <1>1 DEF ListInv, RegTypes, Others
  <1>3. /\ loc'[t].mp = loc[t].mp /\ (Listed(t)' <=> Listed(t))
        /\ InPool(t) /\ pool[loc[t].mp].ring # Nil => (RingGone(t)' <=> RingGone(t))
        /\ (HasChunk(t)' <=> HasChunk(t)) /\ (HasChunk(t) => loc'[t].chunk = loc[t].chunk)
        /\ (Old(t)' <=> Old(t)) /\ (Old(t) => loc'[t].ring = loc[t].ring)
        /\ (Unlinking(t)' <=> Unlinking(t)) /\ (Unlinking(t) => loc'[t].ring = loc[t].ring)
    BY <1>1, <1>2, Fields DEF Returned, LocalsOf, Listed, InPool, RingGone, HasChunk, Old, Unlinking, Creating, FreePcs, PoolPcs, Nil
  <1>4. PoolOf(t)'
    BY <1>1, <1>2, Fields DEF ZoneInv, PoolOf, Returned, LocalsOf, InPool, Creating, Freeing, FreePcs, PoolPcs, Nil
  <1>5. InPool(t) => \A m \in PoolNames : NamedBy(t, m) => NamedBy(t, m)'
    BY <1>1, <1>2, <1>3, Fields DEF NamedBy, Returned, LocalsOf, InPool, HasChunk, Creating, FreePcs, Nil
  <1> QED BY <1>1, <1>2, <1>3, <1>4, <1>5, QuietStep

LEMMA RingTeZones ==
  ASSUME ListInv, ListInv', ZoneInv, NEW t \in Callers, RingTe(t)
  PROVE  ZoneInv'
  <1>1. /\ loc[t].pc = "rc_te"
        /\ UNCHANGED <<qlock, mplock, zone, ring_list, pool_list, pool, owned>>
    BY DEF RingTe, memory, lists, RingFailed, Go, Leave
  <1>2. ASSUME NEW e \in FreeTe,
               te_used' = te_used \cup {e},
               loc' = [loc EXCEPT ![t] = [loc[t] EXCEPT !.te = e, !.pc = "rc_lock"]]
        PROVE  ZoneInv'
    <2>1. loc'[t] = [loc[t] EXCEPT !.te = e, !.pc = "rc_lock"] /\ Others(t)
      BY <1>1, <1>2 DEF ListInv, RegTypes, Others
    <2>2. /\ loc'[t].mp = loc[t].mp /\ (Listed(t)' <=> Listed(t))
          /\ InPool(t) /\ pool[loc[t].mp].ring # Nil => (RingGone(t)' <=> RingGone(t))
          /\ (HasChunk(t)' <=> HasChunk(t)) /\ (HasChunk(t) => loc'[t].chunk = loc[t].chunk)
          /\ (Old(t)' <=> Old(t)) /\ (Old(t) => loc'[t].ring = loc[t].ring)
          /\ (Unlinking(t)' <=> Unlinking(t)) /\ (Unlinking(t) => loc'[t].ring = loc[t].ring)
      BY <1>1, <1>2, <2>1, Fields DEF Locals, LocalsOf, Listed, InPool, RingGone, HasChunk, Old, Unlinking, Creating, FreePcs, PoolPcs, Nil
    <2>3. PoolOf(t)'
      BY <1>1, <1>2, <2>1, Fields DEF ZoneInv, PoolOf, Locals, LocalsOf, InPool, Creating, Freeing, FreePcs, PoolPcs, Nil
    <2>4. InPool(t) => \A n \in PoolNames : NamedBy(t, n) => NamedBy(t, n)'
      BY <1>1, <1>2, <2>1, <2>2, Fields DEF NamedBy, Locals, LocalsOf, InPool, HasChunk, Creating, FreePcs, Nil
    <2> QED BY <1>1, <1>2, <2>1, <2>2, <2>3, <2>4, QuietStep
  <1>3. ASSUME InPool(t),
               UNCHANGED <<te_used>>,
               loc' = [loc EXCEPT ![t] = [loc[t] EXCEPT !.pc = "phy_fail"]]
        PROVE  ZoneInv'
    <2>1. loc'[t] = [loc[t] EXCEPT !.pc = "phy_fail"] /\ Others(t)
      BY <1>1, <1>3 DEF ListInv, RegTypes, Others
    <2>2. /\ loc'[t].mp = loc[t].mp /\ (Listed(t)' <=> Listed(t))
          /\ InPool(t) /\ pool[loc[t].mp].ring # Nil => (RingGone(t)' <=> RingGone(t))
          /\ (HasChunk(t)' <=> HasChunk(t)) /\ (HasChunk(t) => loc'[t].chunk = loc[t].chunk)
          /\ (Old(t)' <=> Old(t)) /\ (Old(t) => loc'[t].ring = loc[t].ring)
          /\ (Unlinking(t)' <=> Unlinking(t)) /\ (Unlinking(t) => loc'[t].ring = loc[t].ring)
      BY <1>1, <1>3, <2>1, Fields DEF Locals, LocalsOf, Listed, InPool, RingGone, HasChunk, Old, Unlinking, Creating, FreePcs, PoolPcs, Nil
    <2>3. PoolOf(t)'
      BY <1>1, <1>3, <2>1, Fields DEF ZoneInv, PoolOf, Locals, LocalsOf, InPool, Creating, Freeing, FreePcs, PoolPcs, Nil
    <2>4. InPool(t) => \A n \in PoolNames : NamedBy(t, n) => NamedBy(t, n)'
      BY <1>1, <1>3, <2>1, <2>2, Fields DEF NamedBy, Locals, LocalsOf, InPool, HasChunk, Creating, FreePcs, Nil
    <2> QED BY <1>1, <1>3, <2>1, <2>2, <2>3, <2>4, QuietStep
  <1>4. ASSUME ~InPool(t),
               UNCHANGED <<te_used>>,
               loc' = [loc EXCEPT ![t] = Returned]
        PROVE  ZoneInv'
    <2>1. loc'[t] = Returned /\ Others(t)
      BY <1>1, <1>4 DEF ListInv, RegTypes, Others
    <2>2. /\ loc'[t].mp = loc[t].mp /\ (Listed(t)' <=> Listed(t))
          /\ InPool(t) /\ pool[loc[t].mp].ring # Nil => (RingGone(t)' <=> RingGone(t))
          /\ (HasChunk(t)' <=> HasChunk(t)) /\ (HasChunk(t) => loc'[t].chunk = loc[t].chunk)
          /\ (Old(t)' <=> Old(t)) /\ (Old(t) => loc'[t].ring = loc[t].ring)
          /\ (Unlinking(t)' <=> Unlinking(t)) /\ (Unlinking(t) => loc'[t].ring = loc[t].ring)
      BY <1>1, <1>4, <2>1, Fields DEF Returned, LocalsOf, Listed, InPool, RingGone, HasChunk, Old, Unlinking, Creating, FreePcs, PoolPcs, Nil
    <2>3. PoolOf(t)'
      BY <1>1, <1>4, <2>1, Fields DEF ZoneInv, PoolOf, Returned, LocalsOf, InPool, Creating, Freeing, FreePcs, PoolPcs, Nil
    <2>4. InPool(t) => \A n \in PoolNames : NamedBy(t, n) => NamedBy(t, n)'
      BY <1>1, <1>4, <2>1, <2>2, Fields DEF NamedBy, Returned, LocalsOf, InPool, HasChunk, Creating, FreePcs, Nil
    <2> QED BY <1>1, <1>4, <2>1, <2>2, <2>3, <2>4, QuietStep
  <1> QED BY <1>1, <1>2, <1>3, <1>4, ZenonT(40) DEF RingTe, memory, lists, RingFailed, Go, Leave

LEMMA RingLockZones ==
  ASSUME ListInv, ListInv', ZoneInv, NEW t \in Callers, RingLock(t)
  PROVE  ZoneInv'
  <1>1. /\ loc[t].pc = "rc_lock" /\ MayWrite(qlock)
        /\ UNCHANGED <<mplock, zone, te_used, ring_list, pool_list, pool, owned>>
        /\ qlock' = [qlock EXCEPT !.w = t]
        /\ loc' = [loc EXCEPT ![t] = [loc[t] EXCEPT !.pc = "rc_zone"]]
    BY DEF RingLock, memory, lists, Go
  <1>2. loc'[t] = [loc[t] EXCEPT !.pc = "rc_zone"] /\ Others(t)
    BY <1>1 DEF ListInv, RegTypes, Others
  <1>3. /\ loc'[t].mp = loc[t].mp /\ (Listed(t)' <=> Listed(t))
        /\ InPool(t) /\ pool[loc[t].mp].ring # Nil => (RingGone(t)' <=> RingGone(t))
        /\ (HasChunk(t)' <=> HasChunk(t)) /\ (HasChunk(t) => loc'[t].chunk = loc[t].chunk)
        /\ (Old(t)' <=> Old(t)) /\ (Old(t) => loc'[t].ring = loc[t].ring)
        /\ (Unlinking(t)' <=> Unlinking(t)) /\ (Unlinking(t) => loc'[t].ring = loc[t].ring)
    BY <1>1, <1>2, Fields DEF Locals, LocalsOf, Listed, InPool, RingGone, HasChunk, Old, Unlinking, Creating, FreePcs, PoolPcs, Nil
  <1>4. PoolOf(t)'
    BY <1>1, <1>2, Fields DEF ZoneInv, PoolOf, Locals, LocalsOf, InPool, Creating, Freeing, FreePcs, PoolPcs, Nil
  <1>5. InPool(t) => \A n \in PoolNames : NamedBy(t, n) => NamedBy(t, n)'
    BY <1>1, <1>2, <1>3, Fields DEF NamedBy, Locals, LocalsOf, InPool, HasChunk, Creating, FreePcs, Nil
  <1> QED BY <1>1, <1>2, <1>3, <1>4, <1>5, QuietStep

LEMMA RingFreeTeZones ==
  ASSUME ListInv, ListInv', ZoneInv, NEW t \in Callers, RingFreeTe(t)
  PROVE  ZoneInv'
  <1>1. /\ loc[t].pc = "rf_te"
        /\ UNCHANGED <<qlock, mplock, zone, ring_list, pool_list, pool, owned>>
    BY DEF RingFreeTe, memory, lists, Go, Leave, FreedTes
  <1>2. ASSUME InPool(t),
               te_used' = te_used \ {loc[t].te},
               loc' = [loc EXCEPT ![t] = [loc[t] EXCEPT !.pc = "pf_zone"]]
        PROVE  ZoneInv'
    <2>1. loc'[t] = [loc[t] EXCEPT !.pc = "pf_zone"] /\ Others(t)
      BY <1>1, <1>2 DEF ListInv, RegTypes, Others
    <2>2. /\ loc'[t].mp = loc[t].mp /\ (Listed(t)' <=> Listed(t))
          /\ InPool(t) /\ pool[loc[t].mp].ring # Nil => (RingGone(t)' <=> RingGone(t))
          /\ (HasChunk(t)' <=> HasChunk(t)) /\ (HasChunk(t) => loc'[t].chunk = loc[t].chunk)
          /\ (Old(t)' <=> Old(t)) /\ (Old(t) => loc'[t].ring = loc[t].ring)
          /\ (Unlinking(t)' <=> Unlinking(t)) /\ (Unlinking(t) => loc'[t].ring = loc[t].ring)
      BY <1>1, <1>2, <2>1, Fields DEF Locals, LocalsOf, Listed, InPool, RingGone, HasChunk, Old, Unlinking, Creating, FreePcs, PoolPcs, Nil
    <2>3. PoolOf(t)'
      BY <1>1, <1>2, <2>1, Fields DEF ZoneInv, PoolOf, Locals, LocalsOf, InPool, Creating, Freeing, FreePcs, PoolPcs, Nil
    <2>4. InPool(t) => \A n \in PoolNames : NamedBy(t, n) => NamedBy(t, n)'
      BY <1>1, <1>2, <2>1, <2>2, Fields DEF NamedBy, Locals, LocalsOf, InPool, HasChunk, Creating, FreePcs, Nil
    <2> QED BY <1>1, <1>2, <2>1, <2>2, <2>3, <2>4, QuietStep
  <1>3. ASSUME ~InPool(t),
               te_used' = te_used \ {loc[t].te},
               loc' = [loc EXCEPT ![t] = Returned]
        PROVE  ZoneInv'
    <2>1. loc'[t] = Returned /\ Others(t)
      BY <1>1, <1>3 DEF ListInv, RegTypes, Others
    <2>2. /\ loc'[t].mp = loc[t].mp /\ (Listed(t)' <=> Listed(t))
          /\ InPool(t) /\ pool[loc[t].mp].ring # Nil => (RingGone(t)' <=> RingGone(t))
          /\ (HasChunk(t)' <=> HasChunk(t)) /\ (HasChunk(t) => loc'[t].chunk = loc[t].chunk)
          /\ (Old(t)' <=> Old(t)) /\ (Old(t) => loc'[t].ring = loc[t].ring)
          /\ (Unlinking(t)' <=> Unlinking(t)) /\ (Unlinking(t) => loc'[t].ring = loc[t].ring)
      BY <1>1, <1>3, <2>1, Fields DEF Returned, LocalsOf, Listed, InPool, RingGone, HasChunk, Old, Unlinking, Creating, FreePcs, PoolPcs, Nil
    <2>3. PoolOf(t)'
      BY <1>1, <1>3, <2>1, Fields DEF ZoneInv, PoolOf, Returned, LocalsOf, InPool, Creating, Freeing, FreePcs, PoolPcs, Nil
    <2>4. InPool(t) => \A n \in PoolNames : NamedBy(t, n) => NamedBy(t, n)'
      BY <1>1, <1>3, <2>1, <2>2, Fields DEF NamedBy, Returned, LocalsOf, InPool, HasChunk, Creating, FreePcs, Nil
    <2> QED BY <1>1, <1>3, <2>1, <2>2, <2>3, <2>4, QuietStep
  <1> QED BY <1>1, <1>2, <1>3 DEF RingFreeTe, memory, lists, Go, Leave, FreedTes

LEMMA PoolCreateZones ==
  ASSUME ListInv, ListInv', ZoneInv, NEW t \in Callers, NEW n \in PoolNames, PoolCreate(t, n)
  PROVE  ZoneInv'
  <1>1. /\ loc[t].pc = "idle" /\ MayWrite(mplock)
        /\ UNCHANGED <<qlock, zone, te_used, ring_list, pool_list, pool, owned>>
        /\ mplock' = [mplock EXCEPT !.w = t]
        /\ loc' = [loc EXCEPT ![t] = [Returned EXCEPT !.name = <<"MP", n>>, !.pc = "pc_te"]]
    BY DEF PoolCreate, memory, lists, GoWith
  <1>2. loc'[t] = [Returned EXCEPT !.name = <<"MP", n>>, !.pc = "pc_te"] /\ Others(t)
    BY <1>1 DEF ListInv, RegTypes, Others
  <1>3. /\ loc'[t].mp = loc[t].mp /\ (Listed(t)' <=> Listed(t))
        /\ InPool(t) /\ pool[loc[t].mp].ring # Nil => (RingGone(t)' <=> RingGone(t))
        /\ (HasChunk(t)' <=> HasChunk(t)) /\ (HasChunk(t) => loc'[t].chunk = loc[t].chunk)
        /\ (Old(t)' <=> Old(t)) /\ (Old(t) => loc'[t].ring = loc[t].ring)
        /\ (Unlinking(t)' <=> Unlinking(t)) /\ (Unlinking(t) => loc'[t].ring = loc[t].ring)
    BY <1>1, <1>2, Fields DEF Returned, LocalsOf, Listed, InPool, RingGone, HasChunk, Old, Unlinking, Creating, FreePcs, PoolPcs, Nil
  <1>4. PoolOf(t)'
    BY <1>1, <1>2, Fields DEF ZoneInv, PoolOf, Returned, LocalsOf, InPool, Creating, Freeing, FreePcs, PoolPcs, Nil
  <1>5. InPool(t) => \A m \in PoolNames : NamedBy(t, m) => NamedBy(t, m)'
    BY <1>1, <1>2, <1>3, Fields DEF NamedBy, Returned, LocalsOf, InPool, HasChunk, Creating, FreePcs, Nil
  <1> QED BY <1>1, <1>2, <1>3, <1>4, <1>5, QuietStep

LEMMA PoolTeZones ==
  ASSUME ListInv, ListInv', ZoneInv, NEW t \in Callers, PoolTe(t)
  PROVE  ZoneInv'
  <1>1. /\ loc[t].pc = "pc_te"
        /\ UNCHANGED <<qlock, zone, ring_list, pool_list, pool, owned>>
    BY DEF PoolTe, memory, lists, PoolExit, Leave
  <1>2. ASSUME NEW e \in FreeTe,
               UNCHANGED <<mplock>>,
               te_used' = te_used \cup {e},
               loc' = [loc EXCEPT ![t] = [loc[t] EXCEPT !.te = e, !.pc = "pc_zone"]]
        PROVE  ZoneInv'
    <2>1. loc'[t] = [loc[t] EXCEPT !.te = e, !.pc = "pc_zone"] /\ Others(t)
      BY <1>1, <1>2 DEF ListInv, RegTypes, Others
    <2>2. /\ loc'[t].mp = loc[t].mp /\ (Listed(t)' <=> Listed(t))
          /\ InPool(t) /\ pool[loc[t].mp].ring # Nil => (RingGone(t)' <=> RingGone(t))
          /\ (HasChunk(t)' <=> HasChunk(t)) /\ (HasChunk(t) => loc'[t].chunk = loc[t].chunk)
          /\ (Old(t)' <=> Old(t)) /\ (Old(t) => loc'[t].ring = loc[t].ring)
          /\ (Unlinking(t)' <=> Unlinking(t)) /\ (Unlinking(t) => loc'[t].ring = loc[t].ring)
      BY <1>1, <1>2, <2>1, Fields DEF Locals, LocalsOf, Listed, InPool, RingGone, HasChunk, Old, Unlinking, Creating, FreePcs, PoolPcs, Nil
    <2>3. PoolOf(t)'
      BY <1>1, <1>2, <2>1, Fields DEF ZoneInv, PoolOf, Locals, LocalsOf, InPool, Creating, Freeing, FreePcs, PoolPcs, Nil
    <2>4. InPool(t) => \A n \in PoolNames : NamedBy(t, n) => NamedBy(t, n)'
      BY <1>1, <1>2, <2>1, <2>2, Fields DEF NamedBy, Locals, LocalsOf, InPool, HasChunk, Creating, FreePcs, Nil
    <2> QED BY <1>1, <1>2, <2>1, <2>2, <2>3, <2>4, QuietStep
  <1>3. ASSUME UNCHANGED <<te_used>>,
               mplock' = Unlocked,
               loc' = [loc EXCEPT ![t] = Returned]
        PROVE  ZoneInv'
    <2>1. loc'[t] = Returned /\ Others(t)
      BY <1>1, <1>3 DEF ListInv, RegTypes, Others
    <2>2. /\ loc'[t].mp = loc[t].mp /\ (Listed(t)' <=> Listed(t))
          /\ InPool(t) /\ pool[loc[t].mp].ring # Nil => (RingGone(t)' <=> RingGone(t))
          /\ (HasChunk(t)' <=> HasChunk(t)) /\ (HasChunk(t) => loc'[t].chunk = loc[t].chunk)
          /\ (Old(t)' <=> Old(t)) /\ (Old(t) => loc'[t].ring = loc[t].ring)
          /\ (Unlinking(t)' <=> Unlinking(t)) /\ (Unlinking(t) => loc'[t].ring = loc[t].ring)
      BY <1>1, <1>3, <2>1, Fields DEF Returned, LocalsOf, Listed, InPool, RingGone, HasChunk, Old, Unlinking, Creating, FreePcs, PoolPcs, Nil
    <2>3. PoolOf(t)'
      BY <1>1, <1>3, <2>1, Fields DEF ZoneInv, PoolOf, Returned, LocalsOf, InPool, Creating, Freeing, FreePcs, PoolPcs, Nil
    <2>4. InPool(t) => \A n \in PoolNames : NamedBy(t, n) => NamedBy(t, n)'
      BY <1>1, <1>3, <2>1, <2>2, Fields DEF NamedBy, Returned, LocalsOf, InPool, HasChunk, Creating, FreePcs, Nil
    <2> QED BY <1>1, <1>3, <2>1, <2>2, <2>3, <2>4, QuietStep
  <1> QED BY <1>1, <1>2, <1>3 DEF PoolTe, memory, lists, PoolExit, Leave

LEMMA PoolRingZones ==
  ASSUME ListInv, ListInv', ZoneInv, NEW t \in Callers, PoolRing(t)
  PROVE  ZoneInv'
  <1>1. /\ loc[t].pc = "pool_ring"
        /\ UNCHANGED <<qlock, mplock, zone, te_used, ring_list, pool_list, pool, owned>>
    BY DEF PoolRing, memory, lists, Go
  <1>2. ASSUME loc' = [loc EXCEPT ![t] = [loc[t] EXCEPT !.pc = "phy_fail"]]
        PROVE  ZoneInv'
    <2>1. loc'[t] = [loc[t] EXCEPT !.pc = "phy_fail"] /\ Others(t)
      BY <1>1, <1>2 DEF ListInv, RegTypes, Others
    <2>2. /\ loc'[t].mp = loc[t].mp /\ (Listed(t)' <=> Listed(t))
          /\ InPool(t) /\ pool[loc[t].mp].ring # Nil => (RingGone(t)' <=> RingGone(t))
          /\ (HasChunk(t)' <=> HasChunk(t)) /\ (HasChunk(t) => loc'[t].chunk = loc[t].chunk)
          /\ (Old(t)' <=> Old(t)) /\ (Old(t) => loc'[t].ring = loc[t].ring)
          /\ (Unlinking(t)' <=> Unlinking(t)) /\ (Unlinking(t) => loc'[t].ring = loc[t].ring)
      BY <1>1, <1>2, <2>1, Fields DEF Locals, LocalsOf, Listed, InPool, RingGone, HasChunk, Old, Unlinking, Creating, FreePcs, PoolPcs, Nil
    <2>3. PoolOf(t)'
      BY <1>1, <1>2, <2>1, Fields DEF ZoneInv, PoolOf, Locals, LocalsOf, InPool, Creating, Freeing, FreePcs, PoolPcs, Nil
    <2>4. InPool(t) => \A n \in PoolNames : NamedBy(t, n) => NamedBy(t, n)'
      BY <1>1, <1>2, <2>1, <2>2, Fields, Forms DEF NamedBy, Locals, LocalsOf, InPool, HasChunk, Creating, FreePcs, Nil
    <2> QED BY <1>1, <1>2, <2>1, <2>2, <2>3, <2>4, QuietStep
  <1>3. ASSUME loc' = [loc EXCEPT ![t] = [loc[t] EXCEPT !.name = <<"RG">> \o loc[t].name, !.pc = "rc_te"]]
        PROVE  ZoneInv'
    <2>1. loc'[t] = [loc[t] EXCEPT !.name = <<"RG">> \o loc[t].name, !.pc = "rc_te"] /\ Others(t)
      BY <1>1, <1>3 DEF ListInv, RegTypes, Others
    <2>2. /\ loc'[t].mp = loc[t].mp /\ (Listed(t)' <=> Listed(t))
          /\ InPool(t) /\ pool[loc[t].mp].ring # Nil => (RingGone(t)' <=> RingGone(t))
          /\ (HasChunk(t)' <=> HasChunk(t)) /\ (HasChunk(t) => loc'[t].chunk = loc[t].chunk)
          /\ (Old(t)' <=> Old(t)) /\ (Old(t) => loc'[t].ring = loc[t].ring)
          /\ (Unlinking(t)' <=> Unlinking(t)) /\ (Unlinking(t) => loc'[t].ring = loc[t].ring)
      BY <1>1, <1>3, <2>1, Fields DEF Locals, LocalsOf, Listed, InPool, RingGone, HasChunk, Old, Unlinking, Creating, FreePcs, PoolPcs, Nil
    <2>3. PoolOf(t)'
      BY <1>1, <1>3, <2>1, Fields DEF ZoneInv, PoolOf, Locals, LocalsOf, InPool, Creating, Freeing, FreePcs, PoolPcs, Nil
    <2>4. InPool(t) => \A n \in PoolNames : NamedBy(t, n) => NamedBy(t, n)'
      BY <1>1, <1>3, <2>1, <2>2, Fields, Forms DEF NamedBy, Locals, LocalsOf, InPool, HasChunk, Creating, FreePcs, Nil
    <2> QED BY <1>1, <1>3, <2>1, <2>2, <2>3, <2>4, QuietStep
  <1> QED BY <1>1, <1>2, <1>3 DEF PoolRing, memory, lists, Go

LEMMA RingsReadZones ==
  ASSUME ListInv, ListInv', ZoneInv, NEW t \in Callers, RingsRead(t)
  PROVE  ZoneInv'
  <1>1. /\ loc[t].pc = "idle" /\ MayRead(qlock)
        /\ UNCHANGED <<mplock, zone, te_used, ring_list, pool_list, pool, owned>>
        /\ qlock' = [qlock EXCEPT !.r = qlock.r \cup {t}]
        /\ loc' = [loc EXCEPT ![t] = [Returned EXCEPT !.pos = 1, !.pc = "rings"]]
    BY DEF RingsRead, memory, lists, GoWith
  <1>2. loc'[t] = [Returned EXCEPT !.pos = 1, !.pc = "rings"] /\ Others(t)
    BY <1>1 DEF ListInv, RegTypes, Others
  <1>3. /\ loc'[t].mp = loc[t].mp /\ (Listed(t)' <=> Listed(t))
        /\ InPool(t) /\ pool[loc[t].mp].ring # Nil => (RingGone(t)' <=> RingGone(t))
        /\ (HasChunk(t)' <=> HasChunk(t)) /\ (HasChunk(t) => loc'[t].chunk = loc[t].chunk)
        /\ (Old(t)' <=> Old(t)) /\ (Old(t) => loc'[t].ring = loc[t].ring)
        /\ (Unlinking(t)' <=> Unlinking(t)) /\ (Unlinking(t) => loc'[t].ring = loc[t].ring)
    BY <1>1, <1>2, Fields DEF Returned, LocalsOf, Listed, InPool, RingGone, HasChunk, Old, Unlinking, Creating, FreePcs, PoolPcs, Nil
  <1>4. PoolOf(t)'
    BY <1>1, <1>2, Fields DEF ZoneInv, PoolOf, Returned, LocalsOf, InPool, Creating, Freeing, FreePcs, PoolPcs, Nil
  <1>5. InPool(t) => \A n \in PoolNames : NamedBy(t, n) => NamedBy(t, n)'
    BY <1>1, <1>2, <1>3, Fields DEF NamedBy, Returned, LocalsOf, InPool, HasChunk, Creating, FreePcs, Nil
  <1> QED BY <1>1, <1>2, <1>3, <1>4, <1>5, QuietStep

LEMMA RingsNextZones ==
  ASSUME ListInv, ListInv', ZoneInv, NEW t \in Callers, RingsNext(t)
  PROVE  ZoneInv'
  <1>1. /\ loc[t].pc = "rings"
        /\ UNCHANGED <<mplock, zone, te_used, ring_list, pool_list, pool, owned>>
    BY DEF RingsNext, memory, lists, Leave
  <1>2. ASSUME loc[t].pos <= Len(ring_list),
               UNCHANGED <<qlock>>,
               loc' = [loc EXCEPT ![t] = [loc[t] EXCEPT !.pos = loc[t].pos + 1, !.te = ring_list[loc[t].pos].te]]
        PROVE  ZoneInv'
    <2>1. loc'[t] = [loc[t] EXCEPT !.pos = loc[t].pos + 1, !.te = ring_list[loc[t].pos].te] /\ Others(t)
      BY <1>1, <1>2 DEF ListInv, RegTypes, Others
    <2>2. /\ loc'[t].mp = loc[t].mp /\ (Listed(t)' <=> Listed(t))
          /\ InPool(t) /\ pool[loc[t].mp].ring # Nil => (RingGone(t)' <=> RingGone(t))
          /\ (HasChunk(t)' <=> HasChunk(t)) /\ (HasChunk(t) => loc'[t].chunk = loc[t].chunk)
          /\ (Old(t)' <=> Old(t)) /\ (Old(t) => loc'[t].ring = loc[t].ring)
          /\ (Unlinking(t)' <=> Unlinking(t)) /\ (Unlinking(t) => loc'[t].ring = loc[t].ring)
      BY <1>1, <1>2, <2>1, Fields DEF Locals, LocalsOf, Listed, InPool, RingGone, HasChunk, Old, Unlinking, Creating, FreePcs, PoolPcs, Nil
    <2>3. PoolOf(t)'
      BY <1>1, <1>2, <2>1, Fields DEF ZoneInv, PoolOf, Locals, LocalsOf, InPool, Creating, Freeing, FreePcs, PoolPcs, Nil
    <2>4. InPool(t) => \A n \in PoolNames : NamedBy(t, n) => NamedBy(t, n)'
      BY <1>1, <1>2, <2>1, <2>2, Fields DEF NamedBy, Locals, LocalsOf, InPool, HasChunk, Creating, FreePcs, Nil
    <2> QED BY <1>1, <1>2, <2>1, <2>2, <2>3, <2>4, QuietStep
  <1>3. ASSUME qlock' = [qlock EXCEPT !.r = qlock.r \ {t}],
               loc' = [loc EXCEPT ![t] = Returned]
        PROVE  ZoneInv'
    <2>1. loc'[t] = Returned /\ Others(t)
      BY <1>1, <1>3 DEF ListInv, RegTypes, Others
    <2>2. /\ loc'[t].mp = loc[t].mp /\ (Listed(t)' <=> Listed(t))
          /\ InPool(t) /\ pool[loc[t].mp].ring # Nil => (RingGone(t)' <=> RingGone(t))
          /\ (HasChunk(t)' <=> HasChunk(t)) /\ (HasChunk(t) => loc'[t].chunk = loc[t].chunk)
          /\ (Old(t)' <=> Old(t)) /\ (Old(t) => loc'[t].ring = loc[t].ring)
          /\ (Unlinking(t)' <=> Unlinking(t)) /\ (Unlinking(t) => loc'[t].ring = loc[t].ring)
      BY <1>1, <1>3, <2>1, Fields DEF Returned, LocalsOf, Listed, InPool, RingGone, HasChunk, Old, Unlinking, Creating, FreePcs, PoolPcs, Nil
    <2>3. PoolOf(t)'
      BY <1>1, <1>3, <2>1, Fields DEF ZoneInv, PoolOf, Returned, LocalsOf, InPool, Creating, Freeing, FreePcs, PoolPcs, Nil
    <2>4. InPool(t) => \A n \in PoolNames : NamedBy(t, n) => NamedBy(t, n)'
      BY <1>1, <1>3, <2>1, <2>2, Fields DEF NamedBy, Returned, LocalsOf, InPool, HasChunk, Creating, FreePcs, Nil
    <2> QED BY <1>1, <1>3, <2>1, <2>2, <2>3, <2>4, QuietStep
  <1> QED BY <1>1, <1>2, <1>3 DEF RingsNext, memory, lists, Leave

LEMMA PoolsReadZones ==
  ASSUME ListInv, ListInv', ZoneInv, NEW t \in Callers, PoolsRead(t)
  PROVE  ZoneInv'
  <1>1. /\ loc[t].pc = "idle" /\ MayRead(mplock)
        /\ UNCHANGED <<qlock, zone, te_used, ring_list, pool_list, pool, owned>>
        /\ mplock' = [mplock EXCEPT !.r = mplock.r \cup {t}]
        /\ loc' = [loc EXCEPT ![t] = [Returned EXCEPT !.pos = 1, !.pc = "pools"]]
    BY DEF PoolsRead, memory, lists, GoWith
  <1>2. loc'[t] = [Returned EXCEPT !.pos = 1, !.pc = "pools"] /\ Others(t)
    BY <1>1 DEF ListInv, RegTypes, Others
  <1>3. /\ loc'[t].mp = loc[t].mp /\ (Listed(t)' <=> Listed(t))
        /\ InPool(t) /\ pool[loc[t].mp].ring # Nil => (RingGone(t)' <=> RingGone(t))
        /\ (HasChunk(t)' <=> HasChunk(t)) /\ (HasChunk(t) => loc'[t].chunk = loc[t].chunk)
        /\ (Old(t)' <=> Old(t)) /\ (Old(t) => loc'[t].ring = loc[t].ring)
        /\ (Unlinking(t)' <=> Unlinking(t)) /\ (Unlinking(t) => loc'[t].ring = loc[t].ring)
    BY <1>1, <1>2, Fields DEF Returned, LocalsOf, Listed, InPool, RingGone, HasChunk, Old, Unlinking, Creating, FreePcs, PoolPcs, Nil
  <1>4. PoolOf(t)'
    BY <1>1, <1>2, Fields DEF ZoneInv, PoolOf, Returned, LocalsOf, InPool, Creating, Freeing, FreePcs, PoolPcs, Nil
  <1>5. InPool(t) => \A n \in PoolNames : NamedBy(t, n) => NamedBy(t, n)'
    BY <1>1, <1>2, <1>3, Fields DEF NamedBy, Returned, LocalsOf, InPool, HasChunk, Creating, FreePcs, Nil
  <1> QED BY <1>1, <1>2, <1>3, <1>4, <1>5, QuietStep

LEMMA PoolsNextZones ==
  ASSUME ListInv, ListInv', ZoneInv, NEW t \in Callers, PoolsNext(t)
  PROVE  ZoneInv'
  <1>1. /\ loc[t].pc = "pools"
        /\ UNCHANGED <<qlock, zone, te_used, ring_list, pool_list, pool, owned>>
    BY DEF PoolsNext, memory, lists, Leave
  <1>2. ASSUME loc[t].pos <= Len(pool_list),
               UNCHANGED <<mplock>>,
               loc' = [loc EXCEPT ![t] = [loc[t] EXCEPT !.pos = loc[t].pos + 1, !.te = pool_list[loc[t].pos].te]]
        PROVE  ZoneInv'
    <2>1. loc'[t] = [loc[t] EXCEPT !.pos = loc[t].pos + 1, !.te = pool_list[loc[t].pos].te] /\ Others(t)
      BY <1>1, <1>2 DEF ListInv, RegTypes, Others
    <2>2. /\ loc'[t].mp = loc[t].mp /\ (Listed(t)' <=> Listed(t))
          /\ InPool(t) /\ pool[loc[t].mp].ring # Nil => (RingGone(t)' <=> RingGone(t))
          /\ (HasChunk(t)' <=> HasChunk(t)) /\ (HasChunk(t) => loc'[t].chunk = loc[t].chunk)
          /\ (Old(t)' <=> Old(t)) /\ (Old(t) => loc'[t].ring = loc[t].ring)
          /\ (Unlinking(t)' <=> Unlinking(t)) /\ (Unlinking(t) => loc'[t].ring = loc[t].ring)
      BY <1>1, <1>2, <2>1, Fields DEF Locals, LocalsOf, Listed, InPool, RingGone, HasChunk, Old, Unlinking, Creating, FreePcs, PoolPcs, Nil
    <2>3. PoolOf(t)'
      BY <1>1, <1>2, <2>1, Fields DEF ZoneInv, PoolOf, Locals, LocalsOf, InPool, Creating, Freeing, FreePcs, PoolPcs, Nil
    <2>4. InPool(t) => \A n \in PoolNames : NamedBy(t, n) => NamedBy(t, n)'
      BY <1>1, <1>2, <2>1, <2>2, Fields DEF NamedBy, Locals, LocalsOf, InPool, HasChunk, Creating, FreePcs, Nil
    <2> QED BY <1>1, <1>2, <2>1, <2>2, <2>3, <2>4, QuietStep
  <1>3. ASSUME mplock' = [mplock EXCEPT !.r = mplock.r \ {t}],
               loc' = [loc EXCEPT ![t] = Returned]
        PROVE  ZoneInv'
    <2>1. loc'[t] = Returned /\ Others(t)
      BY <1>1, <1>3 DEF ListInv, RegTypes, Others
    <2>2. /\ loc'[t].mp = loc[t].mp /\ (Listed(t)' <=> Listed(t))
          /\ InPool(t) /\ pool[loc[t].mp].ring # Nil => (RingGone(t)' <=> RingGone(t))
          /\ (HasChunk(t)' <=> HasChunk(t)) /\ (HasChunk(t) => loc'[t].chunk = loc[t].chunk)
          /\ (Old(t)' <=> Old(t)) /\ (Old(t) => loc'[t].ring = loc[t].ring)
          /\ (Unlinking(t)' <=> Unlinking(t)) /\ (Unlinking(t) => loc'[t].ring = loc[t].ring)
      BY <1>1, <1>3, <2>1, Fields DEF Returned, LocalsOf, Listed, InPool, RingGone, HasChunk, Old, Unlinking, Creating, FreePcs, PoolPcs, Nil
    <2>3. PoolOf(t)'
      BY <1>1, <1>3, <2>1, Fields DEF ZoneInv, PoolOf, Returned, LocalsOf, InPool, Creating, Freeing, FreePcs, PoolPcs, Nil
    <2>4. InPool(t) => \A n \in PoolNames : NamedBy(t, n) => NamedBy(t, n)'
      BY <1>1, <1>3, <2>1, <2>2, Fields DEF NamedBy, Returned, LocalsOf, InPool, HasChunk, Creating, FreePcs, Nil
    <2> QED BY <1>1, <1>3, <2>1, <2>2, <2>3, <2>4, QuietStep
  <1> QED BY <1>1, <1>2, <1>3 DEF PoolsNext, memory, lists, Leave

-----------------------------------------------------------------------------
(* The steps that do, and those that change what is listed: for each, the  *)
(* uses of memzones after it (U), and the parts of the invariant from them. *)
LEMMA RingZoneZones ==
  ASSUME ListInv, ListInv', ZoneInv, NEW t \in Callers, RingZone(t)
  PROVE  ZoneInv'
  <1>1. /\ loc[t].pc = "rc_zone"
        /\ UNCHANGED <<mplock, pool_list>>
    BY DEF RingZone, memory, lists, Reserved, Go, Leave, NoRing, RingFailed, FreedTes
  <1>2. ASSUME NEW a \in FreeAddr,
               InPool(t),
               UNCHANGED <<te_used, owned>>,
               zone' = [zone EXCEPT ![a] = loc[t].name],
               qlock' = Unlocked,
               ring_list' = Append(ring_list, [te |-> loc[t].te, data |-> a]),
               pool' = [pool EXCEPT ![loc[t].mp].ring = a],
               loc' = [loc EXCEPT ![t] = [loc[t] EXCEPT !.pc = "phy"]]
        PROVE  ZoneInv'
    <2>10. PICK mp \in Addrs : mp = loc[t].mp
      BY <1>1, <1>2, Fields DEF InPool
    <2>11. loc'[t] = [loc[t] EXCEPT !.pc = "phy"] /\ Others(t)
      BY <1>1, <1>2 DEF ListInv, RegTypes, Others
    <2>12. loc'[t].mp = mp /\ loc[t].mp = mp /\ mp # Nil /\ loc'[t].pc = "phy" /\ loc'[t].chunk = loc[t].chunk /\ loc'[t].name = loc[t].name
      BY <2>10, <2>11, Fields, NilNotAddr DEF Locals
    <2>13. a \in Addrs /\ zone[a] = <<>>
      BY Fresh
    <2>14. pool' = [pool EXCEPT ![mp].ring = a] /\ pool'[mp].ring = a /\ pool'[mp].chunks = pool[mp].chunks
      BY <1>1, <1>2, <2>10 DEF ListInv, RegTypes
    <2>15. Untouched(mp)
      BY <1>1, <1>2, <2>14 DEF Untouched
    <2>16. Alone(t, mp)
      BY <1>1, <1>2, <2>10 DEF ZoneInv, UsersSound, InPool, Alone
    <2>17. UsersSound'
      <3>1. <<"pool", Nil>> \notin owned' /\ <<"pool", mp>> \notin owned'
        BY <1>1, <1>2, <2>10, NilNotAddr DEF ListInv, RegTypes, ZoneInv, UsersSound
      <3> QED BY <2>11, <2>12, <2>15, <2>16, <3>1, UsersStep DEF ZoneInv
    <2>18. /\ ~RingGone(t) /\ ~RingGone(t)' /\ HasChunk(t) /\ HasChunk(t)' /\ InPool(t) /\ InPool(t)'
           /\ ~Old(t) /\ ~Old(t)' /\ ~Unlinking(t) /\ ~Unlinking(t)' /\ Listed(t) /\ Listed(t)'
      BY <1>1, <1>2, <2>12 DEF RingGone, HasChunk, Old, Unlinking, Listed, InPool, Creating
    <2>19. Live(mp) /\ Live(mp)' /\ RingAlive(mp)' /\ ~RingAlive(mp)
      <3>1. (UsersSound /\ ListInv => MineFacts)'
        BY Mine, PTL
      <3>2. MineFacts /\ MineFacts'
        BY <2>17, <3>1, Mine DEF ZoneInv
      <3>3. pool[mp].ring = Nil
        BY <1>1, <1>2, <2>10 DEF ZoneInv, PoolOf, Creating
      <3> QED BY <2>12, <2>13, <2>14, <2>18, <3>2, <3>3, NilNotAddr DEF MineFacts
    <2>20. PICK U : U = Uses \cup {<<"ring", mp, a>>}
      OBVIOUS
    <2>21. <<"ring", mp, a>> \in Triples /\ U \in SUBSET Triples
      BY <2>13, <2>20, UsesAre DEF Triples, Kinds
    <2>22. Uses' = U
      <3>1. ASSUME NEW x \in Addrs
            PROVE  /\ \A h \in Addrs \cup Callers : Use("own", h, x)' <=> <<"own", h, x>> \in U
                   /\ mp \in Addrs => /\ Use("pool", mp, x)' <=> <<"pool", mp, x>> \in U
                                      /\ Use("ring", mp, x)' <=> <<"ring", mp, x>> \in U
                                      /\ Use("chunk", mp, x)' <=> <<"chunk", mp, x>> \in U
                   /\ Use("new", t, x)' <=> <<"new", t, x>> \in U
                   /\ Use("old", t, x)' <=> <<"old", t, x>> \in U
        <4>1. \A k \in Kinds, h \in Addrs \cup Callers : <<k, h, x>> \in Uses <=> Use(k, h, x)
          BY UsesAre
        <4>2. \A h \in Addrs \cup Callers : Use("own", h, x)' <=> <<"own", h, x>> \in U
          BY <1>1, <1>2, <2>20, <4>1 DEF Use, Kinds
        <4>3. Use("pool", mp, x)' <=> <<"pool", mp, x>> \in U
          BY <1>1, <1>2, <2>19, <2>20, <4>1 DEF Use, Kinds
        <4>4. Use("ring", mp, x)' <=> <<"ring", mp, x>> \in U
          BY <2>14, <2>19, <2>20, <4>1 DEF Use, Kinds
        <4>5. Use("chunk", mp, x)' <=> <<"chunk", mp, x>> \in U
          BY <2>14, <2>19, <2>20, <4>1 DEF Use, Kinds
        <4>6. Use("new", t, x)' <=> <<"new", t, x>> \in U
          BY <2>12, <2>18, <2>20, <4>1 DEF Use, Kinds
        <4>7. Use("old", t, x)' <=> <<"old", t, x>> \in U
          BY <2>18, <2>20, <4>1 DEF Use, Kinds, Old
        <4> QED BY <4>2, <4>3, <4>4, <4>5, <4>6, <4>7
      <3>2. RestIn(t, mp, U) /\ MineIn(t, mp, U)
        BY <2>20, <3>1 DEF RestIn, MineIn
      <3>3. loc[t].mp \in {mp, Nil} /\ loc'[t].mp \in {mp, Nil} /\ mp \in Addrs \cup {Nil}
        BY <2>12
      <3> QED BY <2>11, <2>15, <2>21, <3>2, <3>3, UsesStep
    <2>23. zone' = [zone EXCEPT ![a] = loc[t].name] /\ DOMAIN zone = Addrs
      BY <1>1, <1>2 DEF ListInv, RegTypes
    <2>24. PICK n \in PoolNames : PoolNamed(mp, n)
      BY <2>19 DEF ZoneInv, NamesSound
    <2>25. loc[t].name = RGMP(n)
      BY <1>1, <1>2, <2>12, <2>24 DEF PoolNamed, NamedBy, Creating
    <2>26. Agree(U, zone')
      <3>1. PICK u : u = <<"ring", mp, a>>
        OBVIOUS
      <3>2. u \in Triples /\ u[3] = a /\ Uses \in SUBSET Triples
        BY <2>21, <3>1, UsesAre
      <3>3. Agree(Uses \cup {u}, [zone EXCEPT ![u[3]] = loc[t].name])
        BY <2>13, <2>23, <2>25, <3>2, Forms, AgreeAdd DEF ZoneInv, UsesSound
      <3> QED BY <2>20, <2>23, <3>1, <3>2, <3>3
    <2>27. PoolNamed(mp, n)'
      <3>1. /\ zone'[mp] = MP(n) /\ zone'[a] = RGMP(n)
            /\ \A b \in pool[mp].chunks : \E k \in Nat : zone'[b] = Chunk(n, k)
            /\ \E k \in Nat : zone'[loc[t].chunk] = Chunk(n, k)
        <4>1. zone'[a] = RGMP(n) /\ \A b \in Addrs \ {a} : zone'[b] = zone[b]
          BY <2>13, <2>23, <2>25
        <4>2. /\ zone'[mp] = MP(n)
              /\ \A b \in pool[mp].chunks : \E k \in Nat : zone'[b] = Chunk(n, k)
              /\ \A u \in Callers : loc[u].mp = mp /\ HasChunk(u) => \E k \in Nat : zone'[loc[u].chunk] = Chunk(n, k)
          BY <2>13, <2>24, <4>1, NamesKept
        <4> QED BY <2>12, <2>18, <4>1, <4>2
      <3>2. NamedBy(t, n)'
        BY <2>12, <2>25, <3>1 DEF NamedBy, Creating
      <3>3. \A u \in Callers : loc'[u].mp = mp => u = t
        BY <2>11, <2>12, <2>16 DEF Others, Alone
      <3> QED BY <2>14, <3>1, <3>2, <3>3 DEF PoolNamed
    <2>28. PoolOf(t)'
      BY <2>12, <2>13, <2>14, NilNotAddr DEF PoolOf, Creating, Freeing
    <2>29. PoolsListed'
      <3>1. ListedAt(mp)' /\ ListedAt(mp)
        BY <2>12, <2>18 DEF ListedAt
      <3> QED BY <1>1, <1>2, <2>11, <2>12, <2>15, <3>1, PoolsListedStep DEF ZoneInv
    <2>30. \A r \in Uses : r[3] # a
      BY <2>13, FreePlace
    <2>31. RingsListed'
      <3>1. PICK e \in Entry : e = [te |-> loc[t].te, data |-> a]
        BY <1>1, <1>2, <2>13, Fields DEF Entry, LocalsOf, HasTe
      <3>2. e.data = a /\ e.te = loc[t].te /\ ring_list' = Append(ring_list, e)
        BY <1>1, <1>2, <3>1
      <3>3. e.te \notin TesOf(ring_list)
        BY <1>1, <1>2, <3>2 DEF ListInv, TesSound, HeldTes, HasTe
      <3>4. ~RingAt(a) /\ RingAt(a)' /\ \A x \in Addrs \ {a} : RingAt(x)' <=> RingAt(x)
        <4>1. ~RingAt(a)
          BY <2>30 DEF RingAt
        <4>2. \A r \in U : r \in Uses \/ r = <<"ring", mp, a>>
          BY <2>20
        <4>3. <<"ring", mp, a>> \in U /\ Uses \subseteq U
          BY <2>20
        <4>4. RingAt(a)'
          BY <2>22, <4>3 DEF RingAt
        <4>5. ASSUME NEW x \in Addrs \ {a} PROVE RingAt(x)' <=> RingAt(x)
          BY <2>22, <4>2, <4>3 DEF RingAt
        <4> QED BY <4>1, <4>4, <4>5
      <3> QED BY <2>11, <2>18, <3>2, <3>3, <3>4, RingsLinked DEF ZoneInv
    <2>32. \A b \in Addrs \ {a} : zone'[b] = zone[b]
      BY <2>23
    <2>33. loc[t].mp \in {mp, Nil} /\ loc'[t].mp \in {mp, Nil} /\ mp \in Addrs \cup {Nil}
      BY <2>12
    <2>34. Changes(t, mp, a) /\ NamedAfter(mp)
      BY <2>27, <2>30, <2>32 DEF Changes, NamedAfter
    <2> QED BY <2>11, <2>15, <2>16, <2>17, <2>22, <2>26, <2>28, <2>29, <2>31, <2>33, <2>34, ZoneStep
  <1>3. ASSUME NEW a \in FreeAddr,
               ~InPool(t),
               UNCHANGED <<te_used, pool>>,
               zone' = [zone EXCEPT ![a] = loc[t].name],
               qlock' = Unlocked,
               ring_list' = Append(ring_list, [te |-> loc[t].te, data |-> a]),
               owned' = owned \cup {<<"ring", a>>},
               loc' = [loc EXCEPT ![t] = Returned]
        PROVE  ZoneInv'
    <2>mp. PICK mp \in {Nil} : mp = Nil
      OBVIOUS
    <2>loc. loc'[t] = Returned /\ Others(t)
      BY <1>1, <1>3 DEF ListInv, RegTypes, Others
    <2>new. /\ loc[t].mp = Nil /\ loc'[t].mp = Nil /\ loc[t].mp \in {mp, Nil} /\ loc'[t].mp \in {mp, Nil} /\ mp \in Addrs \cup {Nil}
            /\ loc'[t].pc = "idle"
      BY <1>1, <1>3, <2>mp, <2>loc, Fields, NilNotAddr DEF Returned, InPool, LocalsOf, FreePcs
    <2>free. a \in Addrs /\ zone[a] = <<>>
      BY Fresh
    <2>flags. /\ ~InPool(t) /\ ~InPool(t)' /\ ~RingGone(t) /\ ~RingGone(t)' /\ ~HasChunk(t) /\ ~HasChunk(t)'
              /\ ~Old(t) /\ ~Old(t)' /\ ~Unlinking(t) /\ ~Unlinking(t)' /\ ~Listed(t) /\ ~Listed(t)'
      BY <1>1, <1>3, <2>mp, <2>new, NilNotAddr DEF RingGone, HasChunk, Old, Unlinking, Listed, InPool, Creating
    <2>rest. Untouched(mp)
      BY <1>1, <1>3, <2>mp DEF Untouched, ListInv, RegTypes
    <2>alone. Alone(t, mp)
      BY <1>1, <1>3, <2>mp, <2>new DEF ZoneInv, UsersSound, InPool, Alone
    <2>users. UsersSound'
      <3>1. <<"pool", Nil>> \notin owned'
        BY <1>1, <1>3, NilNotAddr DEF ListInv, RegTypes
      <3>2. <<"pool", mp>> \notin owned'
        BY <1>1, <1>3, <2>mp, <2>new, NilNotAddr DEF ListInv, RegTypes, ZoneInv, UsersSound
      <3> QED BY <2>loc, <2>new, <2>rest, <2>alone, <3>1, <3>2, UsersStep DEF ZoneInv
    <2>U. PICK U : U = Uses \cup {<<"own", a, a>>}
      OBVIOUS
    <2>types. U \in SUBSET Triples /\ <<"own", a, a>> \in Triples /\ Uses \in SUBSET Triples
      BY <2>U, <2>mp, <2>new, <2>free, UsesAre DEF Triples, Kinds
    <2>uses. Uses' = U
      <3>1. ASSUME NEW x \in Addrs
            PROVE  /\ \A h \in Addrs \cup Callers : Use("own", h, x)' <=> <<"own", h, x>> \in U
                   /\ mp \in Addrs => /\ Use("pool", mp, x)' <=> <<"pool", mp, x>> \in U
                                      /\ Use("ring", mp, x)' <=> <<"ring", mp, x>> \in U
                                      /\ Use("chunk", mp, x)' <=> <<"chunk", mp, x>> \in U
                   /\ Use("new", t, x)' <=> <<"new", t, x>> \in U
                   /\ Use("old", t, x)' <=> <<"old", t, x>> \in U
        <4>1. \A k \in Kinds, h \in Addrs \cup Callers : <<k, h, x>> \in Uses <=> Use(k, h, x)
          BY UsesAre
        <4>2. \A h \in Addrs \cup Callers : Use("own", h, x)' <=> <<"own", h, x>> \in U
          BY <1>1, <1>3, <2>U, <4>1, <2>free DEF Use, Kinds
        <4>3. Use("new", t, x)' <=> <<"new", t, x>> \in U
          BY <2>new, <2>flags, <2>U, <4>1 DEF Use, Kinds
        <4>4. Use("old", t, x)' <=> <<"old", t, x>> \in U
          BY <2>new, <2>flags, <2>U, <4>1 DEF Use, Kinds, Old
        <4> QED BY <4>2, <2>mp, NilNotAddr, <4>3, <4>4
      <3>2. RestIn(t, mp, U) /\ MineIn(t, mp, U)
        BY <2>U, <3>1 DEF RestIn, MineIn
      <3>3. Others(t) /\ loc[t].mp \in {mp, Nil} /\ loc'[t].mp \in {mp, Nil} /\ mp \in Addrs \cup {Nil}
        BY <2>loc, <2>new
      <3> QED BY <2>rest, <2>types, <3>2, <3>3, UsesStep
    <2>agree. Agree(U, zone')
      <3>1. PICK u : u = <<"own", a, a>>
        OBVIOUS
      <3>2. u \in Triples /\ u[3] = a
        BY <2>types, <2>free, <3>1
      <3>3. zone' = [zone EXCEPT ![a] = loc[t].name] /\ DOMAIN zone = Addrs /\ loc[t].name # <<>>
        BY <1>1, <1>3, RingName DEF Creating, ListInv, RegTypes
      <3>4. Agree(Uses \cup {u}, [zone EXCEPT ![u[3]] = loc[t].name])
        BY <2>types, <2>free, <3>2, <3>3, AgreeAdd DEF ZoneInv, UsesSound
      <3> QED BY <2>U, <3>1, <3>2, <3>3, <3>4
    <2>other. Changes(t, mp, a)
      BY <1>1, <1>3, <2>free, FreePlace DEF ListInv, RegTypes, Changes
    <2>poolof. PoolOf(t)'
      BY <1>1, <1>3, <2>mp, <2>new, <2>flags, NilNotAddr DEF PoolOf, Creating, Freeing, ZoneInv
    <2>listed. PoolsListed'
      BY <1>1, <1>3, <2>mp, <2>loc, <2>new, <2>rest, NilNotAddr, PoolsListedStep DEF ZoneInv
    <2>rings. RingsListed'
      <3>1. PICK e \in Entry : e = [te |-> loc[t].te, data |-> a]
        BY <1>1, <1>3, <2>free, Fields DEF Entry, LocalsOf, HasTe
      <3>2. e.data = a /\ e.te = loc[t].te /\ ring_list' = Append(ring_list, e)
        BY <1>1, <1>3, <3>1
      <3>3. e.te \notin TesOf(ring_list)
        BY <1>1, <1>3, <3>2 DEF ListInv, TesSound, HeldTes, HasTe
      <3>4. ~RingAt(a)
        BY <2>free, FreePlace DEF RingAt
      <3>5. <<"own", a, a>> \in U /\ Uses \subseteq U /\ \A r \in U : r \in Uses \/ r = <<"own", a, a>>
        BY <2>U
      <3>6. RingAt(a)'
        BY <2>uses, <3>5 DEF RingAt
      <3>7. ASSUME NEW x \in Addrs \ {a} PROVE RingAt(x)' <=> RingAt(x)
        BY <2>uses, <3>5 DEF RingAt
      <3> QED BY <2>loc, <2>flags, <3>2, <3>3, <3>4, <3>6, <3>7, RingsLinked DEF ZoneInv
    <2>names. NamedAfter(mp)
      BY <2>mp, NilNotAddr DEF NamedAfter
    <2> QED BY <2>loc, <2>new, <2>rest, <2>alone, <2>users, <2>uses, <2>agree, <2>other, <2>names, <2>poolof, <2>listed, <2>rings, ZoneStep
  <1>4. ASSUME InPool(t),
               UNCHANGED <<zone, ring_list, pool, owned>>,
               te_used' = te_used \ {loc[t].te},
               qlock' = Unlocked,
               loc' = [loc EXCEPT ![t] = [loc[t] EXCEPT !.pc = "phy_fail"]]
        PROVE  ZoneInv'
    <2>1. loc'[t] = [loc[t] EXCEPT !.pc = "phy_fail"] /\ Others(t)
      BY <1>1, <1>4 DEF ListInv, RegTypes, Others
    <2>2. /\ loc'[t].mp = loc[t].mp /\ (Listed(t)' <=> Listed(t))
          /\ InPool(t) /\ pool[loc[t].mp].ring # Nil => (RingGone(t)' <=> RingGone(t))
          /\ (HasChunk(t)' <=> HasChunk(t)) /\ (HasChunk(t) => loc'[t].chunk = loc[t].chunk)
          /\ (Old(t)' <=> Old(t)) /\ (Old(t) => loc'[t].ring = loc[t].ring)
          /\ (Unlinking(t)' <=> Unlinking(t)) /\ (Unlinking(t) => loc'[t].ring = loc[t].ring)
      BY <1>1, <1>4, <2>1, Fields DEF Locals, LocalsOf, Listed, InPool, RingGone, HasChunk, Old, Unlinking, Creating, FreePcs, PoolPcs, Nil
    <2>3. PoolOf(t)'
      BY <1>1, <1>4, <2>1, Fields DEF ZoneInv, PoolOf, Locals, LocalsOf, InPool, Creating, Freeing, FreePcs, PoolPcs, Nil
    <2>4. InPool(t) => \A n \in PoolNames : NamedBy(t, n) => NamedBy(t, n)'
      BY <1>1, <1>4, <2>1, <2>2, Fields DEF NamedBy, Locals, LocalsOf, InPool, HasChunk, Creating, FreePcs, Nil
    <2> QED BY <1>1, <1>4, <2>1, <2>2, <2>3, <2>4, QuietStep
  <1>5. ASSUME ~InPool(t),
               UNCHANGED <<zone, ring_list, pool, owned>>,
               te_used' = te_used \ {loc[t].te},
               qlock' = Unlocked,
               loc' = [loc EXCEPT ![t] = Returned]
        PROVE  ZoneInv'
    <2>1. loc'[t] = Returned /\ Others(t)
      BY <1>1, <1>5 DEF ListInv, RegTypes, Others
    <2>2. /\ loc'[t].mp = loc[t].mp /\ (Listed(t)' <=> Listed(t))
          /\ InPool(t) /\ pool[loc[t].mp].ring # Nil => (RingGone(t)' <=> RingGone(t))
          /\ (HasChunk(t)' <=> HasChunk(t)) /\ (HasChunk(t) => loc'[t].chunk = loc[t].chunk)
          /\ (Old(t)' <=> Old(t)) /\ (Old(t) => loc'[t].ring = loc[t].ring)
          /\ (Unlinking(t)' <=> Unlinking(t)) /\ (Unlinking(t) => loc'[t].ring = loc[t].ring)
      BY <1>1, <1>5, <2>1, Fields DEF Returned, LocalsOf, Listed, InPool, RingGone, HasChunk, Old, Unlinking, Creating, FreePcs, PoolPcs, Nil
    <2>3. PoolOf(t)'
      BY <1>1, <1>5, <2>1, Fields DEF ZoneInv, PoolOf, Returned, LocalsOf, InPool, Creating, Freeing, FreePcs, PoolPcs, Nil
    <2>4. InPool(t) => \A n \in PoolNames : NamedBy(t, n) => NamedBy(t, n)'
      BY <1>1, <1>5, <2>1, <2>2, Fields DEF NamedBy, Returned, LocalsOf, InPool, HasChunk, Creating, FreePcs, Nil
    <2> QED BY <1>1, <1>5, <2>1, <2>2, <2>3, <2>4, QuietStep
  <1> QED BY <1>1, <1>2, <1>3, <1>4, <1>5 DEF RingZone, memory, lists, Reserved, Go, Leave, NoRing, RingFailed, FreedTes

LEMMA RingFreeZones ==
  ASSUME ListInv, ListInv', ZoneInv, NEW t \in Callers, NEW a \in Addrs, RingFree(t, a)
  PROVE  ZoneInv'
  <1>1. /\ loc[t].pc = "idle" /\ <<"ring", a>> \in owned
        /\ UNCHANGED <<qlock, mplock, zone, te_used, ring_list, pool_list, pool>>
        /\ owned' = owned \ {<<"ring", a>>}
        /\ loc' = [loc EXCEPT ![t] = [Returned EXCEPT !.ring = a, !.pc = "rf_zone"]]
    BY DEF RingFree, memory, lists, GoWith
  <1>mp. PICK mp \in {Nil} : mp = Nil
    OBVIOUS
  <1>loc. loc'[t] = [Returned EXCEPT !.ring = a, !.pc = "rf_zone"] /\ Others(t)
    BY <1>1 DEF ListInv, RegTypes, Others
  <1>new. /\ loc[t].mp = Nil /\ loc'[t].mp = Nil /\ loc[t].mp \in {mp, Nil} /\ loc'[t].mp \in {mp, Nil} /\ mp \in Addrs \cup {Nil}
          /\ loc'[t].pc = "rf_zone"
          /\ loc'[t].ring = a
    <2>1. loc[t].mp = Nil
      BY <1>1, Fields DEF InPool, LocalsOf, FreePcs
    <2>2. loc'[t].mp = Nil /\ loc'[t].pc = "rf_zone" /\ loc'[t].ring = a
      BY <1>loc DEF Returned
    <2> QED BY <1>mp, <2>1, <2>2
  <1>z. PICK z : z = Nil
    OBVIOUS
  <1>was. <<"own", a, a>> \in Uses
    BY <1>1, UsesAre, UseOf DEF Kinds
  <1>flags. /\ ~InPool(t) /\ ~InPool(t)' /\ ~RingGone(t) /\ ~RingGone(t)' /\ ~HasChunk(t) /\ ~HasChunk(t)'
            /\ ~Old(t) /\ Old(t)' /\ ~Unlinking(t) /\ ~Unlinking(t)' /\ ~Listed(t) /\ ~Listed(t)'
    BY <1>1, <1>mp, <1>new, NilNotAddr DEF RingGone, HasChunk, Old, Unlinking, Listed, InPool, Creating
  <1>rest. Untouched(mp)
    BY <1>1, <1>mp DEF Untouched, ListInv, RegTypes
  <1>alone. Alone(t, mp)
    BY <1>1, <1>mp, <1>new DEF ZoneInv, UsersSound, InPool, Alone
  <1>users. UsersSound'
    <2>1. <<"pool", Nil>> \notin owned'
      BY <1>1, NilNotAddr DEF ListInv, RegTypes
    <2>2. <<"pool", mp>> \notin owned'
      BY <1>1, <1>mp, <1>new, NilNotAddr DEF ListInv, RegTypes, ZoneInv, UsersSound
    <2> QED BY <1>loc, <1>new, <1>rest, <1>alone, <2>1, <2>2, UsersStep DEF ZoneInv
  <1>U. PICK U : U = (Uses \ {<<"own", a, a>>}) \cup {<<"old", t, a>>}
    OBVIOUS
  <1>types. U \in SUBSET Triples /\ <<"old", t, a>> \in Triples /\ Uses \in SUBSET Triples
    BY <1>U, <1>mp, <1>new, UsesAre DEF Triples, Kinds
  <1>uses. Uses' = U
    <2>1. ASSUME NEW x \in Addrs
          PROVE  /\ \A h \in Addrs \cup Callers : Use("own", h, x)' <=> <<"own", h, x>> \in U
                 /\ mp \in Addrs => /\ Use("pool", mp, x)' <=> <<"pool", mp, x>> \in U
                                    /\ Use("ring", mp, x)' <=> <<"ring", mp, x>> \in U
                                    /\ Use("chunk", mp, x)' <=> <<"chunk", mp, x>> \in U
                 /\ Use("new", t, x)' <=> <<"new", t, x>> \in U
                 /\ Use("old", t, x)' <=> <<"old", t, x>> \in U
      <3>1. \A k \in Kinds, h \in Addrs \cup Callers : <<k, h, x>> \in Uses <=> Use(k, h, x)
        BY UsesAre
      <3>2. \A h \in Addrs \cup Callers : Use("own", h, x)' <=> <<"own", h, x>> \in U
        BY <1>1, <1>U, <3>1 DEF Use, Kinds
      <3>3. Use("new", t, x)' <=> <<"new", t, x>> \in U
        BY <1>new, <1>flags, <1>U, <3>1 DEF Use, Kinds
      <3>4. Use("old", t, x)' <=> <<"old", t, x>> \in U
        BY <1>new, <1>flags, <1>U, <3>1 DEF Use, Kinds, Old
      <3> QED BY <3>2, <1>mp, NilNotAddr, <3>3, <3>4
    <2>2. RestIn(t, mp, U) /\ MineIn(t, mp, U)
      BY <1>U, <2>1 DEF RestIn, MineIn
    <2>3. Others(t) /\ loc[t].mp \in {mp, Nil} /\ loc'[t].mp \in {mp, Nil} /\ mp \in Addrs \cup {Nil}
      BY <1>loc, <1>new
    <2> QED BY <1>rest, <1>types, <2>2, <2>3, UsesStep
  <1>agree. Agree(U, zone')
    <2>1. PICK u : u = <<"own", a, a>>
      OBVIOUS
    <2>2. PICK v : v = <<"old", t, a>>
      OBVIOUS
    <2>3. u \in Uses /\ v \in Triples /\ u[3] = a /\ v[3] = a
      BY <1>was, <1>types, <2>1, <2>2
    <2>4. Agree((Uses \ {u}) \cup {v}, zone)
      BY <1>types, <2>3, AgreeSwap DEF ZoneInv, UsesSound
    <2> QED BY <1>1, <1>U, <2>1, <2>2, <2>4
  <1>other. Changes(t, mp, z)
    BY <1>1, <1>z, UsesAre, NilNotAddr DEF Changes
  <1>poolof. PoolOf(t)'
    BY <1>1, <1>mp, <1>new, <1>flags, NilNotAddr DEF PoolOf, Creating, Freeing, ZoneInv
  <1>listed. PoolsListed'
    BY <1>1, <1>mp, <1>loc, <1>new, <1>rest, NilNotAddr, PoolsListedStep DEF ZoneInv
  <1>rings. RingsListed'
    <2>1. <<"old", t, a>> \in U /\ \A r \in Uses : r # <<"own", a, a>> => r \in U
      BY <1>U
    <2>2. \A r \in U : r \in Uses \/ r = <<"old", t, a>>
      BY <1>U
    <2>3. ASSUME NEW x \in Addrs, RingAt(x) PROVE RingAt(x)'
      <3>1. PICK r \in Uses : r[3] = x /\ r[1] \in {"own", "ring", "old"}
        BY <2>3 DEF RingAt
      <3>2. CASE r = <<"own", a, a>>
        BY <1>uses, <2>1, <3>1, <3>2 DEF RingAt
      <3>3. CASE r # <<"own", a, a>>
        BY <1>uses, <2>1, <3>1, <3>3 DEF RingAt
      <3> QED BY <3>2, <3>3
    <2>4. ASSUME NEW x \in Addrs, RingAt(x)' PROVE RingAt(x)
      <3>1. PICK r \in U : r[3] = x /\ r[1] \in {"own", "ring", "old"}
        BY <1>uses, <2>4 DEF RingAt
      <3>2. CASE r = <<"old", t, a>>
        BY <1>was, <3>1, <3>2 DEF RingAt
      <3>3. CASE r \in Uses
        BY <3>1, <3>3 DEF RingAt
      <3> QED BY <2>2, <3>2, <3>3
    <2> QED BY <1>1, <1>loc, <1>flags, <2>3, <2>4, RingsListedStep DEF ZoneInv
  <1>names. NamedAfter(mp)
    BY <1>mp, NilNotAddr DEF NamedAfter
  <1> QED BY <1>loc, <1>new, <1>rest, <1>alone, <1>users, <1>uses, <1>agree, <1>other, <1>names, <1>poolof, <1>listed, <1>rings, ZoneStep

LEMMA RingFreeZoneZones ==
  ASSUME ListInv, ListInv', ZoneInv, NEW t \in Callers, RingFreeZone(t)
  PROVE  ZoneInv'
  <1>1. /\ loc[t].pc = "rf_zone"
        /\ UNCHANGED <<qlock, mplock, te_used, ring_list, pool_list, pool, owned>>
        /\ zone' = [zone EXCEPT ![loc[t].ring] = <<>>]
        /\ loc' = [loc EXCEPT ![t] = [loc[t] EXCEPT !.pc = "rf_unlink"]]
    BY DEF RingFreeZone, memory, lists, Go
  <1>2. ASSUME ~InPool(t) PROVE ZoneInv'
    <2>mp. PICK mp \in {Nil} : mp = Nil
      OBVIOUS
    <2>y. PICK y \in Addrs : y = loc[t].ring
      BY <1>1, <1>2, <2>mp, Fields DEF LocalsOf, HasChunk, ListInv, RegTypes
    <2>loc. loc'[t] = [loc[t] EXCEPT !.pc = "rf_unlink"] /\ Others(t)
      BY <1>1, <1>2 DEF ListInv, RegTypes, Others
    <2>new. /\ loc[t].mp = Nil /\ loc'[t].mp = Nil /\ loc[t].mp \in {mp, Nil} /\ loc'[t].mp \in {mp, Nil} /\ mp \in Addrs \cup {Nil}
            /\ loc'[t].pc = "rf_unlink"
            /\ loc'[t].ring = y /\ loc[t].ring = y
      BY <1>1, <1>2, <2>mp, <2>loc, Fields, NilNotAddr, <2>y DEF Locals, InPool, LocalsOf, FreePcs
    <2>flags. /\ ~InPool(t) /\ ~InPool(t)' /\ ~RingGone(t) /\ ~RingGone(t)' /\ ~HasChunk(t) /\ ~HasChunk(t)'
              /\ Old(t) /\ ~Old(t)' /\ ~Unlinking(t) /\ Unlinking(t)' /\ ~Listed(t) /\ ~Listed(t)'
      BY <1>1, <1>2, <2>mp, <2>new, NilNotAddr DEF RingGone, HasChunk, Old, Unlinking, Listed, InPool, Creating
    <2>rest. Untouched(mp)
      BY <1>1, <1>2, <2>mp DEF Untouched, ListInv, RegTypes
    <2>alone. Alone(t, mp)
      BY <1>1, <1>2, <2>mp, <2>new DEF ZoneInv, UsersSound, InPool, Alone
    <2>users. UsersSound'
      <3>1. <<"pool", Nil>> \notin owned'
        BY <1>1, <1>2, NilNotAddr DEF ListInv, RegTypes
      <3>2. <<"pool", mp>> \notin owned'
        BY <1>1, <1>2, <2>mp, <2>new, NilNotAddr DEF ListInv, RegTypes, ZoneInv, UsersSound
      <3> QED BY <2>loc, <2>new, <2>rest, <2>alone, <3>1, <3>2, UsersStep DEF ZoneInv
    <2>was. <<"old", t, y>> \in Uses
      BY <1>1, <1>2, <2>new, UsesAre, UseOf DEF Kinds
    <2>only. \A r \in Uses : r[3] = y => r = <<"old", t, y>>
      BY <2>was DEF ZoneInv, UsesSound, Agree
    <2>U. PICK U : U = Uses \ {<<"old", t, y>>}
      OBVIOUS
    <2>types. U \in SUBSET Triples /\ Uses \in SUBSET Triples
      BY <2>U, <2>mp, <2>new, UsesAre DEF Triples, Kinds
    <2>uses. Uses' = U
      <3>1. ASSUME NEW x \in Addrs
            PROVE  /\ \A h \in Addrs \cup Callers : Use("own", h, x)' <=> <<"own", h, x>> \in U
                   /\ mp \in Addrs => /\ Use("pool", mp, x)' <=> <<"pool", mp, x>> \in U
                                      /\ Use("ring", mp, x)' <=> <<"ring", mp, x>> \in U
                                      /\ Use("chunk", mp, x)' <=> <<"chunk", mp, x>> \in U
                   /\ Use("new", t, x)' <=> <<"new", t, x>> \in U
                   /\ Use("old", t, x)' <=> <<"old", t, x>> \in U
        <4>1. \A k \in Kinds, h \in Addrs \cup Callers : <<k, h, x>> \in Uses <=> Use(k, h, x)
          BY UsesAre
        <4>2. \A h \in Addrs \cup Callers : Use("own", h, x)' <=> <<"own", h, x>> \in U
          BY <1>1, <1>2, <2>U, <4>1 DEF Use, Kinds
        <4>3. Use("new", t, x)' <=> <<"new", t, x>> \in U
          BY <2>new, <2>flags, <2>U, <4>1 DEF Use, Kinds
        <4>4. Use("old", t, x)' <=> <<"old", t, x>> \in U
          BY <2>new, <2>flags, <2>U, <4>1 DEF Use, Kinds, Old
        <4> QED BY <4>2, <2>mp, NilNotAddr, <4>3, <4>4
      <3>2. RestIn(t, mp, U) /\ MineIn(t, mp, U)
        BY <2>U, <3>1 DEF RestIn, MineIn
      <3>3. Others(t) /\ loc[t].mp \in {mp, Nil} /\ loc'[t].mp \in {mp, Nil} /\ mp \in Addrs \cup {Nil}
        BY <2>loc, <2>new
      <3> QED BY <2>rest, <2>types, <3>2, <3>3, UsesStep
    <2>agree. Agree(U, zone')
      <3>1. PICK u : u = <<"old", t, y>>
        OBVIOUS
      <3>2. u \in Uses /\ u[3] = y
        BY <2>was, <3>1
      <3>3. zone' = [zone EXCEPT ![y] = <<>>] /\ DOMAIN zone = Addrs
        BY <1>1, <1>2, <2>mp, <2>y, <2>new DEF ListInv, RegTypes
      <3>4. Agree(Uses \ {u}, [zone EXCEPT ![u[3]] = <<>>])
        BY <2>types, <3>2, <3>3, AgreeDrop DEF ZoneInv, UsesSound
      <3> QED BY <2>U, <3>1, <3>2, <3>3, <3>4
    <2>other. Changes(t, mp, y)
      BY <1>1, <1>2, <2>mp, <2>new, <2>y, <2>only DEF ListInv, RegTypes, Changes
    <2>poolof. PoolOf(t)'
      BY <1>1, <1>2, <2>mp, <2>new, <2>flags, NilNotAddr DEF PoolOf, Creating, Freeing, ZoneInv
    <2>listed. PoolsListed'
      BY <1>1, <1>2, <2>mp, <2>loc, <2>new, <2>rest, NilNotAddr, PoolsListedStep DEF ZoneInv
    <2>rings. RingsListed'
      <3>1. RingAt(y) /\ ~RingAt(y)'
        BY <2>was, <2>only, <2>U, <2>uses DEF RingAt
      <3>2. \A r \in U : r \in Uses
        BY <2>U
      <3>3. \A r \in Uses : r # <<"old", t, y>> => r \in U
        BY <2>U
      <3>4. ASSUME NEW x \in Addrs \ {y} PROVE RingAt(x)' <=> RingAt(x)
        BY <2>uses, <3>2, <3>3 DEF RingAt
      <3> QED BY <1>1, <1>2, <2>loc, <2>new, <2>flags, <3>1, <3>4, RingsFreed DEF ZoneInv
    <2>names. NamedAfter(mp)
      BY <2>mp, NilNotAddr DEF NamedAfter
    <2> QED BY <2>loc, <2>new, <2>rest, <2>alone, <2>users, <2>uses, <2>agree, <2>other, <2>names, <2>poolof, <2>listed, <2>rings, ZoneStep
  <1>3. ASSUME InPool(t) PROVE ZoneInv'
    <2>mp. PICK mp \in Addrs : mp = loc[t].mp
      BY <1>1, <1>3, Fields DEF InPool, LocalsOf, PoolPcs
    <2>y. PICK y \in Addrs : y = loc[t].ring
      BY <1>1, <1>3, <2>mp, Fields DEF LocalsOf, HasChunk, ListInv, RegTypes
    <2>loc. loc'[t] = [loc[t] EXCEPT !.pc = "rf_unlink"] /\ Others(t)
      BY <1>1, <1>3 DEF ListInv, RegTypes, Others
    <2>new. /\ loc[t].mp = mp /\ loc'[t].mp = mp /\ loc[t].mp \in {mp, Nil} /\ loc'[t].mp \in {mp, Nil} /\ mp \in Addrs \cup {Nil}
            /\ loc'[t].pc = "rf_unlink"
            /\ loc'[t].ring = y /\ loc[t].ring = y
      BY <2>mp, <2>loc, Fields, NilNotAddr, <2>y DEF Locals, InPool, LocalsOf, FreePcs
    <2>flags. /\ InPool(t) /\ InPool(t)' /\ ~RingGone(t) /\ RingGone(t)' /\ ~HasChunk(t) /\ ~HasChunk(t)'
              /\ ~Old(t) /\ ~Old(t)' /\ ~Unlinking(t) /\ Unlinking(t)' /\ ~Listed(t) /\ ~Listed(t)'
      BY <1>1, <1>3, <2>mp, <2>new, NilNotAddr DEF RingGone, HasChunk, Old, Unlinking, Listed, InPool, Creating
    <2>pool. pool'[mp] = pool[mp]
      BY <1>1, <1>3, <2>mp, <2>new, NilNotAddr DEF ListInv, RegTypes, NoPool
    <2>rest. Untouched(mp)
      BY <1>1, <1>3, <2>mp DEF Untouched, ListInv, RegTypes
    <2>alone. Alone(t, mp)
      BY <1>1, <1>3, <2>mp, <2>new DEF ZoneInv, UsersSound, InPool, Alone
    <2>users. UsersSound'
      <3>1. <<"pool", Nil>> \notin owned'
        BY <1>1, <1>3, NilNotAddr DEF ListInv, RegTypes
      <3>2. <<"pool", mp>> \notin owned'
        BY <1>1, <1>3, <2>mp, <2>new, NilNotAddr DEF ListInv, RegTypes, ZoneInv, UsersSound
      <3> QED BY <2>loc, <2>new, <2>rest, <2>alone, <3>1, <3>2, UsersStep DEF ZoneInv
    <2>live. Live(mp) /\ Live(mp)' /\ RingAlive(mp) /\ ~RingAlive(mp)' /\ pool[mp].ring = y
      <3>1. (UsersSound /\ ListInv => MineFacts)' /\ (UsersSound /\ ListInv => IdleFacts)'
        BY Mine, Idle, PTL
      <3>2. MineFacts /\ MineFacts' /\ IdleFacts /\ IdleFacts'
        BY <2>users, <3>1, Mine, Idle DEF ZoneInv
      <3>3. pool[mp].ring = y
        BY <1>1, <1>3, <2>mp, <2>y DEF ZoneInv, PoolOf
      <3> QED BY <1>1, <1>3, <2>mp, <2>new, <2>pool, <2>flags, <3>2, <3>3, <2>y, NilNotAddr DEF MineFacts, IdleFacts
    <2>was. <<"ring", mp, y>> \in Uses
      <3>1. Use("ring", mp, y)
        BY <2>live DEF Use
      <3> QED BY <3>1, UsesAre DEF Kinds
    <2>only. \A r \in Uses : r[3] = y => r = <<"ring", mp, y>>
      BY <2>was DEF ZoneInv, UsesSound, Agree
    <2>U. PICK U : U = Uses \ {<<"ring", mp, y>>}
      OBVIOUS
    <2>types. U \in SUBSET Triples /\ Uses \in SUBSET Triples
      BY <2>U, <2>mp, <2>new, UsesAre DEF Triples, Kinds
    <2>uses. Uses' = U
      <3>1. ASSUME NEW x \in Addrs
            PROVE  /\ \A h \in Addrs \cup Callers : Use("own", h, x)' <=> <<"own", h, x>> \in U
                   /\ mp \in Addrs => /\ Use("pool", mp, x)' <=> <<"pool", mp, x>> \in U
                                      /\ Use("ring", mp, x)' <=> <<"ring", mp, x>> \in U
                                      /\ Use("chunk", mp, x)' <=> <<"chunk", mp, x>> \in U
                   /\ Use("new", t, x)' <=> <<"new", t, x>> \in U
                   /\ Use("old", t, x)' <=> <<"old", t, x>> \in U
        <4>1. \A k \in Kinds, h \in Addrs \cup Callers : <<k, h, x>> \in Uses <=> Use(k, h, x)
          BY UsesAre
        <4>2. \A h \in Addrs \cup Callers : Use("own", h, x)' <=> <<"own", h, x>> \in U
          BY <1>1, <1>3, <2>U, <4>1 DEF Use, Kinds
        <4>3. Use("pool", mp, x)' <=> <<"pool", mp, x>> \in U
          BY <2>live, <2>pool, <2>U, <4>1 DEF Use, Kinds
        <4>4. Use("ring", mp, x)' <=> <<"ring", mp, x>> \in U
          BY <2>live, <2>pool, <2>U, <4>1 DEF Use, Kinds
        <4>5. Use("chunk", mp, x)' <=> <<"chunk", mp, x>> \in U
          BY <2>live, <2>pool, <2>U, <4>1 DEF Use, Kinds
        <4>6. Use("new", t, x)' <=> <<"new", t, x>> \in U
          BY <2>new, <2>flags, <2>U, <4>1 DEF Use, Kinds
        <4>7. Use("old", t, x)' <=> <<"old", t, x>> \in U
          BY <2>new, <2>flags, <2>U, <4>1 DEF Use, Kinds, Old
        <4> QED BY <4>2, <4>3, <4>4, <4>5, <4>6, <4>7
      <3>2. RestIn(t, mp, U) /\ MineIn(t, mp, U)
        BY <2>U, <3>1 DEF RestIn, MineIn
      <3>3. Others(t) /\ loc[t].mp \in {mp, Nil} /\ loc'[t].mp \in {mp, Nil} /\ mp \in Addrs \cup {Nil}
        BY <2>loc, <2>new
      <3> QED BY <2>rest, <2>types, <3>2, <3>3, UsesStep
    <2>agree. Agree(U, zone')
      <3>1. PICK u : u = <<"ring", mp, y>>
        OBVIOUS
      <3>2. u \in Uses /\ u[3] = y
        BY <2>was, <3>1
      <3>3. zone' = [zone EXCEPT ![y] = <<>>] /\ DOMAIN zone = Addrs
        BY <1>1, <1>3, <2>mp, <2>y, <2>new DEF ListInv, RegTypes
      <3>4. Agree(Uses \ {u}, [zone EXCEPT ![u[3]] = <<>>])
        BY <2>types, <3>2, <3>3, AgreeDrop DEF ZoneInv, UsesSound
      <3> QED BY <2>U, <3>1, <3>2, <3>3, <3>4
    <2>other. Changes(t, mp, y)
      BY <1>1, <1>3, <2>mp, <2>new, <2>y, <2>only DEF ListInv, RegTypes, Changes
    <2>names. NamedAfter(mp)
      <3>1. PICK n \in PoolNames : PoolNamed(mp, n)
        BY <2>live DEF ZoneInv, NamesSound
      <3>2. PICK u : u = <<"ring", mp, y>>
        OBVIOUS
      <3>3. SameZones(y) /\ OnlyUse(u, y)
        BY <1>1, <1>3, <2>other, <2>only, <3>2 DEF SameZones, OnlyUse, Changes
      <3>4. zone'[mp] = MP(n) /\ \A b \in pool[mp].chunks : \E k \in Nat : zone'[b] = Chunk(n, k)
        BY <2>live, <2>new, <2>flags, <3>1, <3>2, <3>3, NamesApart
      <3>5. NamedBy(t, n)'
        BY <1>1, <1>3, <2>new, <2>flags, <3>1, <3>4 DEF NamedBy, Creating, PoolNamed
      <3>6. \A v \in Callers : loc'[v].mp = mp => v = t
        BY <2>mp, <2>loc, <2>new, <2>alone, NilNotAddr DEF Others, Alone
      <3>7. RingAlive(mp)' => zone'[pool'[mp].ring] = RGMP(n)
        BY <2>pool, <2>live, <3>4
      <3>8. \A b \in pool'[mp].chunks : \E k \in Nat : zone'[b] = Chunk(n, k)
        BY <2>pool, <3>4
      <3>9. PoolNamed(mp, n)'
        BY <3>4, <3>5, <3>6, <3>7, <3>8 DEF PoolNamed
      <3> QED BY <3>9 DEF NamedAfter
    <2>poolof. PoolOf(t)'
      BY <1>1, <1>3, <2>mp, <2>new, <2>flags, <2>pool, NilNotAddr DEF PoolOf, Creating, Freeing, ZoneInv
    <2>listed. PoolsListed'
      <3>1. ~ListedAt(mp) /\ ~ListedAt(mp)'
        BY <1>1, <1>3, <2>mp, <2>loc, <2>new, <2>flags, <2>alone, <2>live DEF ListedAt, Others, Alone, Listed, InPool, ZoneInv, UsersSound
      <3> QED BY <1>1, <1>3, <2>loc, <2>new, <2>rest, <3>1, PoolsListedStep DEF ZoneInv
    <2>rings. RingsListed'
      <3>1. RingAt(y) /\ ~RingAt(y)'
        BY <2>was, <2>only, <2>U, <2>uses DEF RingAt
      <3>2. \A r \in U : r \in Uses
        BY <2>U
      <3>3. \A r \in Uses : r # <<"ring", mp, y>> => r \in U
        BY <2>U
      <3>4. ASSUME NEW x \in Addrs \ {y} PROVE RingAt(x)' <=> RingAt(x)
        BY <2>uses, <3>2, <3>3 DEF RingAt
      <3> QED BY <1>1, <1>3, <2>loc, <2>new, <2>flags, <3>1, <3>4, RingsFreed DEF ZoneInv
    <2> QED BY <2>loc, <2>new, <2>rest, <2>alone, <2>users, <2>uses, <2>agree, <2>other, <2>names, <2>poolof, <2>listed, <2>rings, ZoneStep
  <1> QED BY <1>2, <1>3

LEMMA RingUnlinkZones ==
  ASSUME ListInv, ListInv', ZoneInv, NEW t \in Callers, RingUnlink(t)
  PROVE  ZoneInv'
  <1>1. /\ loc[t].pc = "rf_unlink" /\ MayWrite(qlock) /\ Find(ring_list, loc[t].ring) # 0
        /\ UNCHANGED <<qlock, mplock, zone, te_used, pool_list, pool, owned>>
        /\ ring_list' = Drop(ring_list, Find(ring_list, loc[t].ring))
        /\ loc' = [loc EXCEPT ![t] = [loc[t] EXCEPT !.te = ring_list[Find(ring_list, loc[t].ring)].te, !.pc = "rf_te"]]
    BY DEF RingUnlink, memory, lists
  <1>loc. loc'[t] = [loc[t] EXCEPT !.te = ring_list[Find(ring_list, loc[t].ring)].te, !.pc = "rf_te"] /\ Others(t)
    BY <1>1 DEF ListInv, RegTypes, Others
  <1>new. loc'[t].mp = loc[t].mp /\ loc'[t].pc = "rf_te"
    BY <1>loc, Fields DEF Locals
  <1>flags. /\ loc'[t].mp = loc[t].mp /\ loc'[t].pc = "rf_te"
            /\ InPool(t) /\ pool[loc[t].mp].ring # Nil => (RingGone(t)' <=> RingGone(t))
            /\ ~HasChunk(t)' /\ ~HasChunk(t) /\ ~Old(t)' /\ ~Old(t)
    BY <1>1, <1>new, Fields DEF LocalsOf, InPool, RingGone, HasChunk, Old, Creating, PoolPcs, Nil
  <1>poolof. PoolOf(t)'
    BY <1>1, <1>flags, Fields DEF ZoneInv, PoolOf, LocalsOf, InPool, Creating, Freeing, PoolPcs, Nil
  <1>name. InPool(t) => \A n \in PoolNames : NamedBy(t, n) => NamedBy(t, n)'
    BY <1>1, <1>loc, <1>flags, Fields DEF NamedBy, Locals, HasChunk, Creating
  <1>kept. /\ (\A u \in Callers : PoolOf(u))' /\ UsersSound' /\ UsesSound' /\ NamesSound'
           /\ \A x \in Addrs : RingAt(x)' <=> RingAt(x)
    BY <1>1, <1>loc, <1>flags, <1>poolof, <1>name, MemoryKept
  <1>mp. PICK mp \in Addrs \cup {Nil} : mp = loc[t].mp
    BY Fields
  <1>rest. Untouched(mp) /\ loc[t].mp \in {mp, Nil} /\ loc'[t].mp \in {mp, Nil}
    BY <1>1, <1>mp, <1>flags DEF Untouched
  <1>rings. RingsListed'
    <2>1. PICK i \in DOMAIN ring_list : i = Find(ring_list, loc[t].ring) /\ ring_list[i].data = loc[t].ring
      BY <1>1, FindEntry DEF ListInv, RegTypes
    <2>2. Unlinking(t) /\ ~Unlinking(t)' /\ ring_list' = Drop(ring_list, i)
      BY <1>1, <1>flags, <2>1 DEF Unlinking
    <2> QED BY <1>loc, <1>kept, <2>1, <2>2, RingsUnlinked DEF ZoneInv
  <1>listed. PoolsListed'
    <2>1. mp \in Addrs => (ListedAt(mp)' <=> ListedAt(mp))
      BY <1>1, <1>mp, <1>loc, <1>flags DEF ListedAt, Others, Listed, InPool, Creating
    <2> QED BY <1>1, <1>loc, <1>rest, <2>1, PoolsListedStep DEF ZoneInv
  <1> QED BY <1>kept, <1>rings, <1>listed DEF ZoneInv

LEMMA PoolZoneZones ==
  ASSUME ListInv, ListInv', ZoneInv, NEW t \in Callers, PoolZone(t)
  PROVE  ZoneInv'
  <1>1. /\ loc[t].pc = "pc_zone"
        /\ UNCHANGED <<qlock, ring_list, pool_list, owned>>
    BY DEF PoolZone, memory, lists, PoolExit, Leave, Reserved, FreedTes
  <1>2. ASSUME NEW a \in FreeAddr,
               UNCHANGED <<mplock, te_used>>,
               zone' = [zone EXCEPT ![a] = loc[t].name],
               pool' = [pool EXCEPT ![a] = NoPool],
               loc' = [loc EXCEPT ![t] = [loc[t] EXCEPT !.mp = a, !.pc = "pc_lock"]]
        PROVE  ZoneInv'
    <2>mp. PICK mp \in Addrs : mp = a
      BY <1>1, <1>2, Fields, Fresh DEF InPool, LocalsOf, PoolPcs
    <2>free. mp \in Addrs /\ zone[mp] = <<>>
      BY <2>mp, Fresh
    <2>nm. PICK n \in PoolNames : loc[t].name = MP(n)
      BY <1>1, <1>2, Fields DEF NameOf
    <2>dead. ~Live(mp)
      <3>1. \A r \in Uses : r[3] # mp
        BY <2>free, FreePlace
      <3>2. <<"pool", mp, mp>> \notin Uses
        BY <3>1
      <3>3. ~Use("pool", mp, mp)
        BY <3>2, UsesAre DEF Kinds
      <3> QED BY <3>3 DEF Use
    <2>loc. loc'[t] = [loc[t] EXCEPT !.mp = a, !.pc = "pc_lock"] /\ Others(t)
      BY <1>1, <1>2 DEF ListInv, RegTypes, Others
    <2>new. /\ loc[t].mp = Nil /\ loc'[t].mp = mp /\ loc[t].mp \in {mp, Nil} /\ loc'[t].mp \in {mp, Nil} /\ mp \in Addrs \cup {Nil}
            /\ loc'[t].pc = "pc_lock"
            /\ loc'[t].name = loc[t].name
      <3>1. loc[t].mp = Nil
        BY <1>1, Fields DEF InPool, LocalsOf, FreePcs
      <3>2. loc'[t].mp = a /\ loc'[t].pc = "pc_lock" /\ loc'[t].name = loc[t].name
        BY <2>loc, Fields DEF Locals
      <3> QED BY <2>mp, <3>1, <3>2
    <2>flags. /\ ~InPool(t) /\ InPool(t)' /\ ~RingGone(t) /\ ~RingGone(t)' /\ ~HasChunk(t) /\ ~HasChunk(t)'
              /\ ~Old(t) /\ ~Old(t)' /\ ~Unlinking(t) /\ ~Unlinking(t)' /\ ~Listed(t) /\ ~Listed(t)'
      BY <1>1, <1>2, <2>mp, <2>new, NilNotAddr DEF RingGone, HasChunk, Old, Unlinking, Listed, InPool, Creating
    <2>pool. pool'[mp] = NoPool /\ pool'[mp].ring = Nil /\ pool'[mp].chunks = {}
      BY <1>1, <1>2, <2>mp, <2>new, NilNotAddr DEF ListInv, RegTypes, NoPool
    <2>rest. Untouched(mp)
      BY <1>1, <1>2, <2>mp DEF Untouched, ListInv, RegTypes
    <2>alone. Alone(t, mp)
      BY <1>1, <1>2, <2>mp, <2>new, <2>dead DEF ZoneInv, UsersSound, InPool, Alone, Live
    <2>users. UsersSound'
      <3>1. <<"pool", Nil>> \notin owned'
        BY <1>1, <1>2, NilNotAddr DEF ListInv, RegTypes
      <3>2. <<"pool", mp>> \notin owned'
        BY <1>1, <1>2, <2>dead DEF Live
      <3> QED BY <2>loc, <2>new, <2>rest, <2>alone, <3>1, <3>2, UsersStep DEF ZoneInv
    <2>live. ~Live(mp) /\ Live(mp)' /\ ~RingAlive(mp) /\ ~RingAlive(mp)'
      <3>1. (UsersSound /\ ListInv => MineFacts)' /\ (UsersSound /\ ListInv => IdleFacts)'
        BY Mine, Idle, PTL
      <3>2. MineFacts /\ MineFacts' /\ IdleFacts /\ IdleFacts'
        BY <2>users, <3>1, Mine, Idle DEF ZoneInv
      <3>3. ~RingAlive(mp)
        BY <2>dead DEF RingAlive
      <3> QED BY <1>1, <1>2, <2>mp, <2>new, <2>pool, <2>flags, <3>2, <3>3, <2>dead, NilNotAddr DEF MineFacts, IdleFacts
    <2>U. PICK U : U = Uses \cup {<<"pool", mp, mp>>}
      OBVIOUS
    <2>types. U \in SUBSET Triples /\ <<"pool", mp, mp>> \in Triples /\ Uses \in SUBSET Triples
      BY <2>U, <2>mp, <2>new, UsesAre DEF Triples, Kinds
    <2>uses. Uses' = U
      <3>1. ASSUME NEW x \in Addrs
            PROVE  /\ \A h \in Addrs \cup Callers : Use("own", h, x)' <=> <<"own", h, x>> \in U
                   /\ mp \in Addrs => /\ Use("pool", mp, x)' <=> <<"pool", mp, x>> \in U
                                      /\ Use("ring", mp, x)' <=> <<"ring", mp, x>> \in U
                                      /\ Use("chunk", mp, x)' <=> <<"chunk", mp, x>> \in U
                   /\ Use("new", t, x)' <=> <<"new", t, x>> \in U
                   /\ Use("old", t, x)' <=> <<"old", t, x>> \in U
        <4>1. \A k \in Kinds, h \in Addrs \cup Callers : <<k, h, x>> \in Uses <=> Use(k, h, x)
          BY UsesAre
        <4>2. \A h \in Addrs \cup Callers : Use("own", h, x)' <=> <<"own", h, x>> \in U
          BY <1>1, <1>2, <2>U, <4>1 DEF Use, Kinds
        <4>3. Use("pool", mp, x)' <=> <<"pool", mp, x>> \in U
          BY <2>live, <2>pool, <2>U, <4>1 DEF Use, Kinds
        <4>4. Use("ring", mp, x)' <=> <<"ring", mp, x>> \in U
          BY <2>live, <2>pool, <2>U, <4>1 DEF Use, Kinds
        <4>5. Use("chunk", mp, x)' <=> <<"chunk", mp, x>> \in U
          BY <2>live, <2>pool, <2>U, <4>1 DEF Use, Kinds
        <4>6. Use("new", t, x)' <=> <<"new", t, x>> \in U
          BY <2>new, <2>flags, <2>U, <4>1 DEF Use, Kinds
        <4>7. Use("old", t, x)' <=> <<"old", t, x>> \in U
          BY <2>new, <2>flags, <2>U, <4>1 DEF Use, Kinds, Old
        <4> QED BY <4>2, <4>3, <4>4, <4>5, <4>6, <4>7
      <3>2. RestIn(t, mp, U) /\ MineIn(t, mp, U)
        BY <2>U, <3>1 DEF RestIn, MineIn
      <3>3. Others(t) /\ loc[t].mp \in {mp, Nil} /\ loc'[t].mp \in {mp, Nil} /\ mp \in Addrs \cup {Nil}
        BY <2>loc, <2>new
      <3> QED BY <2>rest, <2>types, <3>2, <3>3, UsesStep
    <2>agree. Agree(U, zone')
      <3>1. PICK u : u = <<"pool", mp, mp>>
        OBVIOUS
      <3>2. u \in Triples /\ u[3] = mp
        BY <2>types, <3>1
      <3>3. zone' = [zone EXCEPT ![mp] = loc[t].name] /\ DOMAIN zone = Addrs /\ loc[t].name # <<>>
        BY <1>1, <1>2, <2>mp, <2>nm, Forms DEF ListInv, RegTypes
      <3>4. Agree(Uses \cup {u}, [zone EXCEPT ![u[3]] = loc[t].name])
        BY <2>types, <2>free, <3>2, <3>3, AgreeAdd DEF ZoneInv, UsesSound
      <3> QED BY <2>U, <3>1, <3>2, <3>3, <3>4
    <2>other. Changes(t, mp, mp)
      BY <1>1, <1>2, <2>mp, <2>free, FreePlace DEF ListInv, RegTypes, Changes
    <2>names. NamedAfter(mp)
      <3>1. zone'[mp] = MP(n)
        BY <1>1, <1>2, <2>mp, <2>nm DEF ListInv, RegTypes
      <3>2. NamedBy(t, n)'
        BY <2>new, <2>flags, <2>nm DEF NamedBy, Creating
      <3>3. \A v \in Callers : loc'[v].mp = mp => v = t
        BY <2>mp, <2>loc, <2>new, <2>alone, NilNotAddr DEF Others, Alone
      <3>4. PoolNamed(mp, n)'
        BY <2>pool, <2>live, <3>1, <3>2, <3>3 DEF PoolNamed
      <3> QED BY <3>4 DEF NamedAfter
    <2>poolof. PoolOf(t)'
      BY <1>1, <1>2, <2>mp, <2>new, <2>flags, <2>pool, NilNotAddr DEF PoolOf, Creating, Freeing, ZoneInv
    <2>listed. PoolsListed'
      <3>1. ~ListedAt(mp) /\ ~ListedAt(mp)'
        BY <1>1, <1>2, <2>dead, <2>mp, <2>loc, <2>new, <2>flags, <2>alone, NilNotAddr DEF ListedAt, Live, Others, Alone
      <3> QED BY <1>1, <1>2, <2>loc, <2>new, <2>rest, <3>1, PoolsListedStep DEF ZoneInv
    <2>rings. RingsListed'
      <3>1. \A r : r[1] \in {"own", "ring", "old"} => (r \in U <=> r \in Uses)
        BY <2>U
      <3>2. \A x \in Addrs : RingAt(x)' <=> RingAt(x)
        BY <2>uses, <3>1 DEF RingAt
      <3> QED BY <1>1, <1>2, <2>loc, <2>flags, <3>2, RingsListedStep DEF ZoneInv
    <2> QED BY <2>loc, <2>new, <2>rest, <2>alone, <2>users, <2>uses, <2>agree, <2>other, <2>names, <2>poolof, <2>listed, <2>rings, ZoneStep
  <1>3. ASSUME UNCHANGED <<zone, pool>>,
               mplock' = Unlocked,
               te_used' = te_used \ {loc[t].te},
               loc' = [loc EXCEPT ![t] = Returned]
        PROVE  ZoneInv'
    <2>1. loc'[t] = Returned /\ Others(t)
      BY <1>1, <1>3 DEF ListInv, RegTypes, Others
    <2>2. /\ loc'[t].mp = loc[t].mp /\ (Listed(t)' <=> Listed(t))
          /\ InPool(t) /\ pool[loc[t].mp].ring # Nil => (RingGone(t)' <=> RingGone(t))
          /\ (HasChunk(t)' <=> HasChunk(t)) /\ (HasChunk(t) => loc'[t].chunk = loc[t].chunk)
          /\ (Old(t)' <=> Old(t)) /\ (Old(t) => loc'[t].ring = loc[t].ring)
          /\ (Unlinking(t)' <=> Unlinking(t)) /\ (Unlinking(t) => loc'[t].ring = loc[t].ring)
      BY <1>1, <1>3, <2>1, Fields DEF Returned, LocalsOf, Listed, InPool, RingGone, HasChunk, Old, Unlinking, Creating, FreePcs, PoolPcs, Nil
    <2>3. PoolOf(t)'
      BY <1>1, <1>3, <2>1, Fields DEF ZoneInv, PoolOf, Returned, LocalsOf, InPool, Creating, Freeing, FreePcs, PoolPcs, Nil
    <2>4. InPool(t) => \A n \in PoolNames : NamedBy(t, n) => NamedBy(t, n)'
      BY <1>1, <1>3, <2>1, <2>2, Fields DEF NamedBy, Returned, LocalsOf, InPool, HasChunk, Creating, FreePcs, Nil
    <2> QED BY <1>1, <1>3, <2>1, <2>2, <2>3, <2>4, QuietStep
  <1> QED
    <2>1. ASSUME NEW a \in FreeAddr, Reserved(loc[t].name, a),
                 pool' = [pool EXCEPT ![a] = NoPool],
                 loc' = [loc EXCEPT ![t].mp = a, ![t].pc = "pc_lock"],
                 UNCHANGED <<mplock, te_used>>
          PROVE  ZoneInv'
      <3>1. zone' = [zone EXCEPT ![a] = loc[t].name]
        BY <2>1 DEF Reserved
      <3> QED BY <1>2, <2>1, <3>1
    <2>2. CASE PoolExit(t) /\ te_used' = FreedTes(t) /\ UNCHANGED <<zone, pool>>
      BY <1>3, <2>2 DEF PoolExit, Leave, FreedTes
    <2> QED BY <2>1, <2>2 DEF PoolZone

LEMMA PoolInsertZones ==
  ASSUME ListInv, ListInv', ZoneInv, NEW t \in Callers, PoolInsert(t)
  PROVE  ZoneInv'
  <1>1. /\ loc[t].pc = "pc_lock" /\ MayWrite(qlock)
        /\ UNCHANGED <<qlock, zone, te_used, ring_list, pool, owned>>
        /\ mplock' = Unlocked
        /\ pool_list' = Append(pool_list, [te |-> loc[t].te, data |-> loc[t].mp])
        /\ loc' = [loc EXCEPT ![t] = [loc[t] EXCEPT !.pc = "populate"]]
    BY DEF PoolInsert, memory, lists, Go
  <1>loc. loc'[t] = [loc[t] EXCEPT !.pc = "populate"] /\ Others(t)
    BY <1>1 DEF ListInv, RegTypes, Others
  <1>new. loc'[t].mp = loc[t].mp /\ loc'[t].pc = "populate"
    BY <1>loc, Fields DEF Locals
  <1>flags. /\ loc'[t].mp = loc[t].mp /\ loc'[t].pc = "populate"
            /\ InPool(t) /\ pool[loc[t].mp].ring # Nil => (RingGone(t)' <=> RingGone(t))
            /\ ~HasChunk(t)' /\ ~HasChunk(t) /\ ~Old(t)' /\ ~Old(t)
    BY <1>1, <1>new, Fields DEF LocalsOf, InPool, RingGone, HasChunk, Old, Creating, PoolPcs, Nil
  <1>poolof. PoolOf(t)'
    BY <1>1, <1>flags, Fields DEF ZoneInv, PoolOf, LocalsOf, InPool, Creating, Freeing, PoolPcs, Nil
  <1>name. InPool(t) => \A n \in PoolNames : NamedBy(t, n) => NamedBy(t, n)'
    BY <1>1, <1>loc, <1>flags, Fields DEF NamedBy, Locals, HasChunk, Creating
  <1>kept. /\ (\A u \in Callers : PoolOf(u))' /\ UsersSound' /\ UsesSound' /\ NamesSound'
           /\ \A x \in Addrs : RingAt(x)' <=> RingAt(x)
    BY <1>1, <1>loc, <1>flags, <1>poolof, <1>name, MemoryKept
  <1>mp. PICK mp \in Addrs \cup {Nil} : mp = loc[t].mp
    BY Fields
  <1>rest. Untouched(mp) /\ loc[t].mp \in {mp, Nil} /\ loc'[t].mp \in {mp, Nil}
    BY <1>1, <1>mp, <1>flags DEF Untouched
  <1>rings. RingsListed'
    <2>1. ~Unlinking(t) /\ ~Unlinking(t)'
      BY <1>1, <1>flags DEF Unlinking
    <2> QED BY <1>1, <1>loc, <1>kept, <2>1, RingsListedStep DEF ZoneInv
  <1>listed. PoolsListed'
    <2>1. PICK e \in Entry : e = [te |-> loc[t].te, data |-> loc[t].mp]
      BY <1>1, Fields DEF LocalsOf, InPool, HasTe, Entry, PoolPcs
    <2>2. e.data = mp /\ e.te = loc[t].te /\ mp \in Addrs /\ pool_list' = Append(pool_list, e)
      BY <1>1, <1>mp, <2>1 DEF Entry
    <2>3. e.te \notin TesOf(pool_list)
      BY <1>1, <2>2 DEF ListInv, TesSound, HeldTes, HasTe
    <2>4. Entries(pool_list)' = Entries(pool_list) \cup {e}
      <3>1. Entries(Append(pool_list, e)) = Entries(pool_list) \cup {e}
        BY <2>3, AppendList DEF ListInv, RegTypes, TesSound
      <3> QED BY <2>2, <3>1 DEF Entries
    <2>5. InPool(t) /\ ~Listed(t) /\ Listed(t)'
      BY <1>1, <1>mp, <1>flags, <2>2, NilNotAddr DEF Listed, InPool, Creating
    <2>6. ListedAt(mp)' /\ ~ListedAt(mp)
      <3>1. \A u \in Callers : loc[u].mp = mp => u = t
        BY <1>mp, <2>5 DEF ZoneInv, UsersSound
      <3>2. <<"pool", mp>> \notin owned
        BY <1>mp DEF ZoneInv, UsersSound
      <3> QED BY <1>mp, <1>flags, <2>5, <3>1, <3>2 DEF ListedAt
    <2>7. \A x \in Addrs \ {mp} : ListedAt(x)' <=> ListedAt(x)
      BY <1>loc, <1>rest, ListedElsewhere
    <2>8. \A f \in Entries(pool_list) : f.data # mp
      BY <2>6 DEF ZoneInv, PoolsListed
    <2> QED BY <2>2, <2>4, <2>6, <2>7, <2>8 DEF ZoneInv, PoolsListed
  <1> QED BY <1>kept, <1>rings, <1>listed DEF ZoneInv

LEMMA PopulateZones ==
  ASSUME ListInv, ListInv', ZoneInv, NEW t \in Callers, Populate(t)
  PROVE  ZoneInv'
  <1>1. /\ loc[t].pc = "populate"
        /\ UNCHANGED <<qlock, mplock, te_used, ring_list, pool_list, pool, owned>>
    BY DEF Populate, memory, lists, Reserved, Go
  <1>2. ASSUME NEW a \in FreeAddr,
               pool[loc[t].mp].ring = Nil,
               zone' = [zone EXCEPT ![a] = loc[t].name \o <<Cardinality(pool[loc[t].mp].chunks)>>],
               loc' = [loc EXCEPT ![t] = [loc[t] EXCEPT !.chunk = a, !.pc = "pool_ring"]]
        PROVE  ZoneInv'
    <2>mp. PICK mp \in Addrs : mp = loc[t].mp
      BY <1>1, <1>2, Fields DEF InPool, LocalsOf, PoolPcs
    <2>free. a \in Addrs /\ zone[a] = <<>>
      BY Fresh
    <2>loc. loc'[t] = [loc[t] EXCEPT !.chunk = a, !.pc = "pool_ring"] /\ Others(t)
      BY <1>1, <1>2 DEF ListInv, RegTypes, Others
    <2>new. /\ loc[t].mp = mp /\ loc'[t].mp = mp /\ loc[t].mp \in {mp, Nil} /\ loc'[t].mp \in {mp, Nil} /\ mp \in Addrs \cup {Nil}
            /\ loc'[t].pc = "pool_ring"
            /\ loc'[t].name = loc[t].name /\ loc'[t].chunk = a
      BY <2>mp, <2>loc, Fields, NilNotAddr, <2>free DEF Locals, InPool, LocalsOf, FreePcs
    <2>flags. /\ InPool(t) /\ InPool(t)' /\ ~RingGone(t) /\ ~RingGone(t)' /\ ~HasChunk(t) /\ HasChunk(t)'
              /\ ~Old(t) /\ ~Old(t)' /\ ~Unlinking(t) /\ ~Unlinking(t)' /\ Listed(t) /\ Listed(t)'
      BY <1>1, <1>2, <2>mp, <2>new, NilNotAddr DEF RingGone, HasChunk, Old, Unlinking, Listed, InPool, Creating
    <2>pool. pool'[mp] = pool[mp]
      BY <1>1, <1>2, <2>mp, <2>new, NilNotAddr DEF ListInv, RegTypes, NoPool
    <2>rest. Untouched(mp)
      BY <1>1, <1>2, <2>mp DEF Untouched, ListInv, RegTypes
    <2>alone. Alone(t, mp)
      BY <1>1, <1>2, <2>mp, <2>new DEF ZoneInv, UsersSound, InPool, Alone
    <2>users. UsersSound'
      <3>1. <<"pool", Nil>> \notin owned'
        BY <1>1, <1>2, NilNotAddr DEF ListInv, RegTypes
      <3>2. <<"pool", mp>> \notin owned'
        BY <1>1, <1>2, <2>mp, <2>new, NilNotAddr DEF ListInv, RegTypes, ZoneInv, UsersSound
      <3> QED BY <2>loc, <2>new, <2>rest, <2>alone, <3>1, <3>2, UsersStep DEF ZoneInv
    <2>live. Live(mp) /\ Live(mp)' /\ (RingAlive(mp)' <=> RingAlive(mp))
      <3>1. (UsersSound /\ ListInv => MineFacts)' /\ (UsersSound /\ ListInv => IdleFacts)'
        BY Mine, Idle, PTL
      <3>2. MineFacts /\ MineFacts' /\ IdleFacts /\ IdleFacts'
        BY <2>users, <3>1, Mine, Idle DEF ZoneInv
      <3> QED BY <1>1, <1>2, <2>mp, <2>new, <2>pool, <2>flags, <3>2, NilNotAddr DEF MineFacts, IdleFacts
    <2>nm. PICK n \in PoolNames : PoolNamed(mp, n)
      BY <2>live DEF ZoneInv, NamesSound
    <2>k. PICK k \in Nat : k = Cardinality(pool[mp].chunks)
      <3>1. pool[mp].chunks \subseteq Addrs
        BY <2>mp DEF ListInv, RegTypes
      <3>2. IsFiniteSet(pool[mp].chunks)
        BY <3>1, RegistryAssumption, FS_Subset
      <3> QED BY <3>2, FS_CardinalityType
    <2>str. /\ loc[t].name = MP(n) /\ Chunk(n, k) # <<>>
            /\ loc[t].name \o <<Cardinality(pool[loc[t].mp].chunks)>> = Chunk(n, k)
      <3>1. loc[t].name = MP(n)
        BY <1>1, <1>2, <2>new, <2>nm DEF PoolNamed, NamedBy
      <3> QED BY <2>mp, <2>k, <3>1, Forms
    <2>only. \A r \in Uses : r[3] # a
      BY <2>free, FreePlace
    <2>U. PICK U : U = Uses \cup {<<"new", t, a>>}
      OBVIOUS
    <2>types. U \in SUBSET Triples /\ <<"new", t, a>> \in Triples /\ Uses \in SUBSET Triples
      BY <2>U, <2>mp, <2>new, <2>free, UsesAre DEF Triples, Kinds
    <2>uses. Uses' = U
      <3>1. ASSUME NEW x \in Addrs
            PROVE  /\ \A h \in Addrs \cup Callers : Use("own", h, x)' <=> <<"own", h, x>> \in U
                   /\ mp \in Addrs => /\ Use("pool", mp, x)' <=> <<"pool", mp, x>> \in U
                                      /\ Use("ring", mp, x)' <=> <<"ring", mp, x>> \in U
                                      /\ Use("chunk", mp, x)' <=> <<"chunk", mp, x>> \in U
                   /\ Use("new", t, x)' <=> <<"new", t, x>> \in U
                   /\ Use("old", t, x)' <=> <<"old", t, x>> \in U
        <4>1. \A kd \in Kinds, h \in Addrs \cup Callers : <<kd, h, x>> \in Uses <=> Use(kd, h, x)
          BY UsesAre
        <4>2. \A h \in Addrs \cup Callers : Use("own", h, x)' <=> <<"own", h, x>> \in U
          BY <1>1, <1>2, <2>U, <4>1 DEF Use, Kinds
        <4>3. Use("pool", mp, x)' <=> <<"pool", mp, x>> \in U
          BY <2>live, <2>pool, <2>U, <4>1 DEF Use, Kinds
        <4>4. Use("ring", mp, x)' <=> <<"ring", mp, x>> \in U
          BY <2>live, <2>pool, <2>U, <4>1 DEF Use, Kinds
        <4>5. Use("chunk", mp, x)' <=> <<"chunk", mp, x>> \in U
          BY <2>live, <2>pool, <2>U, <4>1 DEF Use, Kinds
        <4>6. Use("new", t, x)' <=> <<"new", t, x>> \in U
          BY <2>new, <2>flags, <2>U, <4>1 DEF Use, Kinds
        <4>7. Use("old", t, x)' <=> <<"old", t, x>> \in U
          BY <2>new, <2>flags, <2>U, <4>1 DEF Use, Kinds, Old
        <4> QED BY <4>2, <4>3, <4>4, <4>5, <4>6, <4>7
      <3>2. RestIn(t, mp, U) /\ MineIn(t, mp, U)
        BY <2>U, <3>1 DEF RestIn, MineIn
      <3>3. Others(t) /\ loc[t].mp \in {mp, Nil} /\ loc'[t].mp \in {mp, Nil} /\ mp \in Addrs \cup {Nil}
        BY <2>loc, <2>new
      <3> QED BY <2>rest, <2>types, <3>2, <3>3, UsesStep
    <2>agree. Agree(U, zone')
      <3>1. PICK u : u = <<"new", t, a>>
        OBVIOUS
      <3>2. u \in Triples /\ u[3] = a
        BY <2>types, <3>1
      <3>3. zone' = [zone EXCEPT ![a] = Chunk(n, k)] /\ DOMAIN zone = Addrs /\ Chunk(n, k) # <<>>
        BY <1>1, <1>2, <2>free, <2>str DEF ListInv, RegTypes
      <3>4. Agree(Uses \cup {u}, [zone EXCEPT ![u[3]] = Chunk(n, k)])
        BY <2>types, <2>free, <3>2, <3>3, AgreeAdd DEF ZoneInv, UsesSound
      <3> QED BY <2>U, <3>1, <3>2, <3>3, <3>4
    <2>other. Changes(t, mp, a)
      BY <1>1, <1>2, <2>free, FreePlace DEF ListInv, RegTypes, Changes
    <2>at. zone'[a] = Chunk(n, k)
      BY <1>1, <1>2, <2>free, <2>str DEF ListInv, RegTypes
    <2>names. NamedAfter(mp)
      <3>2. PICK u : u = <<"new", t, a>>
        OBVIOUS
      <3>3. SameZones(a) /\ OnlyUse(u, a)
        BY <1>1, <1>2, <2>other, <2>only, <3>2 DEF SameZones, OnlyUse, Changes
      <3>4. /\ zone'[mp] = MP(n) /\ \A b \in pool[mp].chunks : \E j \in Nat : zone'[b] = Chunk(n, j)
            /\ RingAlive(mp) => zone'[pool[mp].ring] = RGMP(n)
        BY <2>live, <2>new, <2>flags, <2>nm, <3>2, <3>3, NamesApart
      <3>5. NamedBy(t, n)'
        BY <1>1, <1>2, <2>new, <2>flags, <2>nm, <3>4, <2>str, <2>at DEF NamedBy, Creating, PoolNamed
      <3>6. \A v \in Callers : loc'[v].mp = mp => v = t
        BY <2>mp, <2>loc, <2>new, <2>alone, NilNotAddr DEF Others, Alone
      <3>7. RingAlive(mp)' => zone'[pool'[mp].ring] = RGMP(n)
        BY <2>pool, <2>live, <3>4
      <3>8. \A b \in pool'[mp].chunks : \E j \in Nat : zone'[b] = Chunk(n, j)
        BY <2>pool, <3>4
      <3>9. PoolNamed(mp, n)'
        BY <3>4, <3>5, <3>6, <3>7, <3>8 DEF PoolNamed
      <3> QED BY <3>9 DEF NamedAfter
    <2>poolof. PoolOf(t)'
      BY <1>1, <1>2, <2>mp, <2>new, <2>flags, <2>pool, NilNotAddr DEF PoolOf, Creating, Freeing, ZoneInv
    <2>listed. PoolsListed'
      <3>1. ListedAt(mp) /\ ListedAt(mp)'
        BY <2>mp, <2>new, <2>flags DEF ListedAt
      <3> QED BY <1>1, <1>2, <2>loc, <2>new, <2>rest, <3>1, PoolsListedStep DEF ZoneInv
    <2>rings. RingsListed'
      <3>1. \A r : r[1] \in {"own", "ring", "old"} => (r \in U <=> r \in Uses)
        BY <2>U
      <3>2. \A x \in Addrs : RingAt(x)' <=> RingAt(x)
        BY <2>uses, <3>1 DEF RingAt
      <3> QED BY <1>1, <1>2, <2>loc, <2>flags, <3>2, RingsListedStep DEF ZoneInv
    <2> QED BY <2>loc, <2>new, <2>rest, <2>alone, <2>users, <2>uses, <2>agree, <2>other, <2>names, <2>poolof, <2>listed, <2>rings, ZoneStep
  <1>3. ASSUME NEW a \in FreeAddr,
               pool[loc[t].mp].ring # Nil,
               zone' = [zone EXCEPT ![a] = loc[t].name \o <<Cardinality(pool[loc[t].mp].chunks)>>],
               loc' = [loc EXCEPT ![t] = [loc[t] EXCEPT !.chunk = a, !.pc = "phy"]]
        PROVE  ZoneInv'
    <2>mp. PICK mp \in Addrs : mp = loc[t].mp
      BY <1>1, <1>3, Fields DEF InPool, LocalsOf, PoolPcs
    <2>free. a \in Addrs /\ zone[a] = <<>>
      BY Fresh
    <2>loc. loc'[t] = [loc[t] EXCEPT !.chunk = a, !.pc = "phy"] /\ Others(t)
      BY <1>1, <1>3 DEF ListInv, RegTypes, Others
    <2>new. /\ loc[t].mp = mp /\ loc'[t].mp = mp /\ loc[t].mp \in {mp, Nil} /\ loc'[t].mp \in {mp, Nil} /\ mp \in Addrs \cup {Nil}
            /\ loc'[t].pc = "phy"
            /\ loc'[t].name = loc[t].name /\ loc'[t].chunk = a
      BY <2>mp, <2>loc, Fields, NilNotAddr, <2>free DEF Locals, InPool, LocalsOf, FreePcs
    <2>flags. /\ InPool(t) /\ InPool(t)' /\ ~RingGone(t) /\ ~RingGone(t)' /\ ~HasChunk(t) /\ HasChunk(t)'
              /\ ~Old(t) /\ ~Old(t)' /\ ~Unlinking(t) /\ ~Unlinking(t)' /\ Listed(t) /\ Listed(t)'
      BY <1>1, <1>3, <2>mp, <2>new, NilNotAddr DEF RingGone, HasChunk, Old, Unlinking, Listed, InPool, Creating
    <2>pool. pool'[mp] = pool[mp]
      BY <1>1, <1>3, <2>mp, <2>new, NilNotAddr DEF ListInv, RegTypes, NoPool
    <2>rest. Untouched(mp)
      BY <1>1, <1>3, <2>mp DEF Untouched, ListInv, RegTypes
    <2>alone. Alone(t, mp)
      BY <1>1, <1>3, <2>mp, <2>new DEF ZoneInv, UsersSound, InPool, Alone
    <2>users. UsersSound'
      <3>1. <<"pool", Nil>> \notin owned'
        BY <1>1, <1>3, NilNotAddr DEF ListInv, RegTypes
      <3>2. <<"pool", mp>> \notin owned'
        BY <1>1, <1>3, <2>mp, <2>new, NilNotAddr DEF ListInv, RegTypes, ZoneInv, UsersSound
      <3> QED BY <2>loc, <2>new, <2>rest, <2>alone, <3>1, <3>2, UsersStep DEF ZoneInv
    <2>live. Live(mp) /\ Live(mp)' /\ (RingAlive(mp)' <=> RingAlive(mp))
      <3>1. (UsersSound /\ ListInv => MineFacts)' /\ (UsersSound /\ ListInv => IdleFacts)'
        BY Mine, Idle, PTL
      <3>2. MineFacts /\ MineFacts' /\ IdleFacts /\ IdleFacts'
        BY <2>users, <3>1, Mine, Idle DEF ZoneInv
      <3> QED BY <2>mp, <2>new, <2>pool, <2>flags, <3>2 DEF MineFacts
    <2>nm. PICK n \in PoolNames : PoolNamed(mp, n)
      BY <2>live DEF ZoneInv, NamesSound
    <2>k. PICK k \in Nat : k = Cardinality(pool[mp].chunks)
      <3>1. pool[mp].chunks \subseteq Addrs
        BY <2>mp DEF ListInv, RegTypes
      <3>2. IsFiniteSet(pool[mp].chunks)
        BY <3>1, RegistryAssumption, FS_Subset
      <3> QED BY <3>2, FS_CardinalityType
    <2>str. /\ loc[t].name = MP(n) /\ Chunk(n, k) # <<>>
            /\ loc[t].name \o <<Cardinality(pool[loc[t].mp].chunks)>> = Chunk(n, k)
      <3>1. loc[t].name = MP(n)
        BY <1>1, <1>3, <2>new, <2>nm DEF PoolNamed, NamedBy
      <3> QED BY <2>mp, <2>k, <3>1, Forms
    <2>only. \A r \in Uses : r[3] # a
      BY <2>free, FreePlace
    <2>U. PICK U : U = Uses \cup {<<"new", t, a>>}
      OBVIOUS
    <2>types. U \in SUBSET Triples /\ <<"new", t, a>> \in Triples /\ Uses \in SUBSET Triples
      BY <2>U, <2>mp, <2>new, <2>free, UsesAre DEF Triples, Kinds
    <2>uses. Uses' = U
      <3>1. ASSUME NEW x \in Addrs
            PROVE  /\ \A h \in Addrs \cup Callers : Use("own", h, x)' <=> <<"own", h, x>> \in U
                   /\ mp \in Addrs => /\ Use("pool", mp, x)' <=> <<"pool", mp, x>> \in U
                                      /\ Use("ring", mp, x)' <=> <<"ring", mp, x>> \in U
                                      /\ Use("chunk", mp, x)' <=> <<"chunk", mp, x>> \in U
                   /\ Use("new", t, x)' <=> <<"new", t, x>> \in U
                   /\ Use("old", t, x)' <=> <<"old", t, x>> \in U
        <4>1. \A kd \in Kinds, h \in Addrs \cup Callers : <<kd, h, x>> \in Uses <=> Use(kd, h, x)
          BY UsesAre
        <4>2. \A h \in Addrs \cup Callers : Use("own", h, x)' <=> <<"own", h, x>> \in U
          BY <1>1, <1>3, <2>U, <4>1 DEF Use, Kinds
        <4>3. Use("pool", mp, x)' <=> <<"pool", mp, x>> \in U
          BY <2>live, <2>pool, <2>U, <4>1 DEF Use, Kinds
        <4>4. Use("ring", mp, x)' <=> <<"ring", mp, x>> \in U
          BY <2>live, <2>pool, <2>U, <4>1 DEF Use, Kinds
        <4>5. Use("chunk", mp, x)' <=> <<"chunk", mp, x>> \in U
          BY <2>live, <2>pool, <2>U, <4>1 DEF Use, Kinds
        <4>6. Use("new", t, x)' <=> <<"new", t, x>> \in U
          BY <2>new, <2>flags, <2>U, <4>1 DEF Use, Kinds
        <4>7. Use("old", t, x)' <=> <<"old", t, x>> \in U
          BY <2>new, <2>flags, <2>U, <4>1 DEF Use, Kinds, Old
        <4> QED BY <4>2, <4>3, <4>4, <4>5, <4>6, <4>7
      <3>2. RestIn(t, mp, U) /\ MineIn(t, mp, U)
        BY <2>U, <3>1 DEF RestIn, MineIn
      <3>3. Others(t) /\ loc[t].mp \in {mp, Nil} /\ loc'[t].mp \in {mp, Nil} /\ mp \in Addrs \cup {Nil}
        BY <2>loc, <2>new
      <3> QED BY <2>rest, <2>types, <3>2, <3>3, UsesStep
    <2>agree. Agree(U, zone')
      <3>1. PICK u : u = <<"new", t, a>>
        OBVIOUS
      <3>2. u \in Triples /\ u[3] = a
        BY <2>types, <3>1
      <3>3. zone' = [zone EXCEPT ![a] = Chunk(n, k)] /\ DOMAIN zone = Addrs /\ Chunk(n, k) # <<>>
        BY <1>1, <1>3, <2>free, <2>str DEF ListInv, RegTypes
      <3>4. Agree(Uses \cup {u}, [zone EXCEPT ![u[3]] = Chunk(n, k)])
        BY <2>types, <2>free, <3>2, <3>3, AgreeAdd DEF ZoneInv, UsesSound
      <3> QED BY <2>U, <3>1, <3>2, <3>3, <3>4
    <2>other. Changes(t, mp, a)
      BY <1>1, <1>3, <2>free, FreePlace DEF ListInv, RegTypes, Changes
    <2>at. zone'[a] = Chunk(n, k)
      BY <1>1, <1>3, <2>free, <2>str DEF ListInv, RegTypes
    <2>names. NamedAfter(mp)
      <3>2. PICK u : u = <<"new", t, a>>
        OBVIOUS
      <3>3. SameZones(a) /\ OnlyUse(u, a)
        BY <1>1, <1>3, <2>other, <2>only, <3>2 DEF SameZones, OnlyUse, Changes
      <3>4. /\ zone'[mp] = MP(n) /\ \A b \in pool[mp].chunks : \E j \in Nat : zone'[b] = Chunk(n, j)
            /\ RingAlive(mp) => zone'[pool[mp].ring] = RGMP(n)
        BY <2>live, <2>new, <2>flags, <2>nm, <3>2, <3>3, NamesApart
      <3>5. NamedBy(t, n)'
        BY <1>1, <1>3, <2>new, <2>flags, <2>nm, <3>4, <2>str, <2>at DEF NamedBy, Creating, PoolNamed
      <3>6. \A v \in Callers : loc'[v].mp = mp => v = t
        BY <2>mp, <2>loc, <2>new, <2>alone, NilNotAddr DEF Others, Alone
      <3>7. RingAlive(mp)' => zone'[pool'[mp].ring] = RGMP(n)
        BY <2>pool, <2>live, <3>4
      <3>8. \A b \in pool'[mp].chunks : \E j \in Nat : zone'[b] = Chunk(n, j)
        BY <2>pool, <3>4
      <3>9. PoolNamed(mp, n)'
        BY <3>4, <3>5, <3>6, <3>7, <3>8 DEF PoolNamed
      <3> QED BY <3>9 DEF NamedAfter
    <2>poolof. PoolOf(t)'
      BY <1>1, <1>3, <2>mp, <2>new, <2>flags, <2>pool, NilNotAddr DEF PoolOf, Creating, Freeing, ZoneInv
    <2>listed. PoolsListed'
      <3>1. ListedAt(mp) /\ ListedAt(mp)'
        BY <2>mp, <2>new, <2>flags DEF ListedAt
      <3> QED BY <1>1, <1>3, <2>loc, <2>new, <2>rest, <3>1, PoolsListedStep DEF ZoneInv
    <2>rings. RingsListed'
      <3>1. \A r : r[1] \in {"own", "ring", "old"} => (r \in U <=> r \in Uses)
        BY <2>U
      <3>2. \A x \in Addrs : RingAt(x)' <=> RingAt(x)
        BY <2>uses, <3>1 DEF RingAt
      <3> QED BY <1>1, <1>3, <2>loc, <2>flags, <3>2, RingsListedStep DEF ZoneInv
    <2> QED BY <2>loc, <2>new, <2>rest, <2>alone, <2>users, <2>uses, <2>agree, <2>other, <2>names, <2>poolof, <2>listed, <2>rings, ZoneStep
  <1>4. ASSUME UNCHANGED <<zone>>,
               loc' = [loc EXCEPT ![t] = [loc[t] EXCEPT !.pc = "fail"]]
        PROVE  ZoneInv'
    <2>1. loc'[t] = [loc[t] EXCEPT !.pc = "fail"] /\ Others(t)
      BY <1>1, <1>4 DEF ListInv, RegTypes, Others
    <2>2. /\ loc'[t].mp = loc[t].mp /\ (Listed(t)' <=> Listed(t))
          /\ InPool(t) /\ pool[loc[t].mp].ring # Nil => (RingGone(t)' <=> RingGone(t))
          /\ (HasChunk(t)' <=> HasChunk(t)) /\ (HasChunk(t) => loc'[t].chunk = loc[t].chunk)
          /\ (Old(t)' <=> Old(t)) /\ (Old(t) => loc'[t].ring = loc[t].ring)
          /\ (Unlinking(t)' <=> Unlinking(t)) /\ (Unlinking(t) => loc'[t].ring = loc[t].ring)
      BY <1>1, <1>4, <2>1, Fields DEF Locals, LocalsOf, Listed, InPool, RingGone, HasChunk, Old, Unlinking, Creating, FreePcs, PoolPcs, Nil
    <2>3. PoolOf(t)'
      BY <1>1, <1>4, <2>1, Fields DEF ZoneInv, PoolOf, Locals, LocalsOf, InPool, Creating, Freeing, FreePcs, PoolPcs, Nil
    <2>4. InPool(t) => \A n \in PoolNames : NamedBy(t, n) => NamedBy(t, n)'
      BY <1>1, <1>4, <2>1, <2>2, Fields DEF NamedBy, Locals, LocalsOf, InPool, HasChunk, Creating, FreePcs, Nil
    <2> QED BY <1>1, <1>4, <2>1, <2>2, <2>3, <2>4, QuietStep
  <1> QED
    <2> DEFINE name == loc[t].name \o <<Cardinality(pool[loc[t].mp].chunks)>>
    <2>1. CASE Go(t, "fail") /\ UNCHANGED zone
      BY <1>4, <2>1 DEF Go
    <2>2. ASSUME NEW a \in FreeAddr, Reserved(name, a),
                 loc' = [loc EXCEPT ![t].chunk = a,
                           ![t].pc = IF pool[loc[t].mp].ring = Nil THEN "pool_ring" ELSE "phy"]
          PROVE  ZoneInv'
      <3>1. zone' = [zone EXCEPT ![a] = name]
        BY <2>2 DEF Reserved
      <3>2. CASE pool[loc[t].mp].ring = Nil
        BY <1>2, <2>2, <3>1, <3>2
      <3>3. CASE pool[loc[t].mp].ring # Nil
        BY <1>3, <2>2, <3>1, <3>3
      <3> QED BY <3>2, <3>3
    <2> QED BY <2>1, <2>2 DEF Populate

LEMMA PopulatePhyZones ==
  ASSUME ListInv, ListInv', ZoneInv, NEW t \in Callers, PopulatePhy(t)
  PROVE  ZoneInv'
  <1>1. /\ loc[t].pc = "phy"
        /\ UNCHANGED <<qlock, mplock, zone, te_used, ring_list, pool_list>>
    BY DEF PopulatePhy, memory, lists, Go, Leave, GoWith
  <1>2. ASSUME UNCHANGED <<pool, owned>>,
               loc' = [loc EXCEPT ![t] = [loc[t] EXCEPT !.pc = "phy_fail"]]
        PROVE  ZoneInv'
    <2>1. loc'[t] = [loc[t] EXCEPT !.pc = "phy_fail"] /\ Others(t)
      BY <1>1, <1>2 DEF ListInv, RegTypes, Others
    <2>2. /\ loc'[t].mp = loc[t].mp /\ (Listed(t)' <=> Listed(t))
          /\ InPool(t) /\ pool[loc[t].mp].ring # Nil => (RingGone(t)' <=> RingGone(t))
          /\ (HasChunk(t)' <=> HasChunk(t)) /\ (HasChunk(t) => loc'[t].chunk = loc[t].chunk)
          /\ (Old(t)' <=> Old(t)) /\ (Old(t) => loc'[t].ring = loc[t].ring)
          /\ (Unlinking(t)' <=> Unlinking(t)) /\ (Unlinking(t) => loc'[t].ring = loc[t].ring)
      BY <1>1, <1>2, <2>1, Fields DEF Locals, LocalsOf, Listed, InPool, RingGone, HasChunk, Old, Unlinking, Creating, FreePcs, PoolPcs, Nil
    <2>3. PoolOf(t)'
      BY <1>1, <1>2, <2>1, Fields DEF ZoneInv, PoolOf, Locals, LocalsOf, InPool, Creating, Freeing, FreePcs, PoolPcs, Nil
    <2>4. InPool(t) => \A n \in PoolNames : NamedBy(t, n) => NamedBy(t, n)'
      BY <1>1, <1>2, <2>1, <2>2, Fields DEF NamedBy, Locals, LocalsOf, InPool, HasChunk, Creating, FreePcs, Nil
    <2> QED BY <1>1, <1>2, <2>1, <2>2, <2>3, <2>4, QuietStep
  <1>3. ASSUME pool' = [pool EXCEPT ![loc[t].mp].chunks = pool[loc[t].mp].chunks \cup {loc[t].chunk}],
               owned' = owned \cup {<<"pool", loc[t].mp>>},
               loc' = [loc EXCEPT ![t] = Returned]
        PROVE  ZoneInv'
    <2>mp. PICK mp \in Addrs : mp = loc[t].mp
      BY <1>1, <1>3, Fields DEF InPool, LocalsOf, PoolPcs
    <2>y. PICK y \in Addrs : y = loc[t].chunk
      BY <1>1, <1>3, <2>mp, Fields DEF LocalsOf, HasChunk, ListInv, RegTypes
    <2>loc. loc'[t] = Returned /\ Others(t)
      BY <1>1, <1>3 DEF ListInv, RegTypes, Others
    <2>new. /\ loc[t].mp = mp /\ loc'[t].mp = Nil /\ loc[t].mp \in {mp, Nil} /\ loc'[t].mp \in {mp, Nil} /\ mp \in Addrs \cup {Nil}
            /\ loc'[t].pc = "idle"
            /\ loc[t].chunk = y
      BY <2>mp, <2>loc, Fields, NilNotAddr, <2>y DEF Returned, InPool, LocalsOf, FreePcs
    <2>z. PICK z : z = Nil
      OBVIOUS
    <2>flags. /\ InPool(t) /\ ~InPool(t)' /\ ~RingGone(t) /\ ~RingGone(t)' /\ HasChunk(t) /\ ~HasChunk(t)'
              /\ ~Old(t) /\ ~Old(t)' /\ ~Unlinking(t) /\ ~Unlinking(t)' /\ Listed(t) /\ ~Listed(t)'
      BY <1>1, <1>3, <2>mp, <2>new, NilNotAddr DEF RingGone, HasChunk, Old, Unlinking, Listed, InPool, Creating
    <2>pool. pool'[mp].ring = pool[mp].ring /\ pool'[mp].chunks = pool[mp].chunks \cup {y} /\ pool[mp].ring # Nil
      BY <1>1, <1>3, <2>mp, <2>new, <2>y, NilNotAddr DEF ListInv, RegTypes, NoPool, ZoneInv, PoolOf, InPool
    <2>rest. Untouched(mp)
      BY <1>1, <1>3, <2>mp DEF Untouched, ListInv, RegTypes
    <2>alone. Alone(t, mp)
      BY <1>1, <1>3, <2>mp, <2>new DEF ZoneInv, UsersSound, InPool, Alone
    <2>users. UsersSound'
      <3>1. <<"pool", Nil>> \notin owned'
        BY <1>1, <1>3, NilNotAddr DEF ListInv, RegTypes
      <3>2. loc'[t].mp # mp /\ pool'[mp].ring # Nil
        BY <2>mp, <2>new, <2>pool, NilNotAddr
      <3> QED BY <2>loc, <2>new, <2>rest, <2>alone, <3>1, <3>2, UsersStep DEF ZoneInv
    <2>live. Live(mp) /\ Live(mp)' /\ RingAlive(mp) /\ RingAlive(mp)'
      <3>1. (UsersSound /\ ListInv => MineFacts)' /\ (UsersSound /\ ListInv => IdleFacts)'
        BY Mine, Idle, PTL
      <3>2. MineFacts /\ MineFacts' /\ IdleFacts /\ IdleFacts'
        BY <2>users, <3>1, Mine, Idle DEF ZoneInv
      <3> QED BY <1>1, <1>3, <2>mp, <2>new, <2>pool, <2>flags, <3>2, NilNotAddr DEF MineFacts, IdleFacts
    <2>was. <<"new", t, y>> \in Uses
      <3>1. Use("new", t, y)
        BY <2>new, <2>flags DEF Use
      <3> QED BY <3>1, UsesAre DEF Kinds
    <2>only. \A r \in Uses : r[3] # z
      BY <2>z, UsesAre, NilNotAddr
    <2>U. PICK U : U = (Uses \ {<<"new", t, y>>}) \cup {<<"chunk", mp, y>>}
      OBVIOUS
    <2>types. U \in SUBSET Triples /\ <<"chunk", mp, y>> \in Triples /\ Uses \in SUBSET Triples
      BY <2>U, <2>mp, <2>new, UsesAre DEF Triples, Kinds
    <2>uses. Uses' = U
      <3>1. ASSUME NEW x \in Addrs
            PROVE  /\ \A h \in Addrs \cup Callers : Use("own", h, x)' <=> <<"own", h, x>> \in U
                   /\ mp \in Addrs => /\ Use("pool", mp, x)' <=> <<"pool", mp, x>> \in U
                                      /\ Use("ring", mp, x)' <=> <<"ring", mp, x>> \in U
                                      /\ Use("chunk", mp, x)' <=> <<"chunk", mp, x>> \in U
                   /\ Use("new", t, x)' <=> <<"new", t, x>> \in U
                   /\ Use("old", t, x)' <=> <<"old", t, x>> \in U
        <4>1. \A k \in Kinds, h \in Addrs \cup Callers : <<k, h, x>> \in Uses <=> Use(k, h, x)
          BY UsesAre
        <4>2. \A h \in Addrs \cup Callers : Use("own", h, x)' <=> <<"own", h, x>> \in U
          BY <1>1, <1>3, <2>U, <4>1 DEF Use, Kinds
        <4>3. Use("pool", mp, x)' <=> <<"pool", mp, x>> \in U
          BY <2>live, <2>pool, <2>U, <4>1 DEF Use, Kinds
        <4>4. Use("ring", mp, x)' <=> <<"ring", mp, x>> \in U
          BY <2>live, <2>pool, <2>U, <4>1 DEF Use, Kinds
        <4>5. Use("chunk", mp, x)' <=> <<"chunk", mp, x>> \in U
          BY <2>live, <2>pool, <2>U, <4>1 DEF Use, Kinds
        <4>6. Use("new", t, x)' <=> <<"new", t, x>> \in U
          BY <2>new, <2>flags, <2>U, <4>1 DEF Use, Kinds
        <4>7. Use("old", t, x)' <=> <<"old", t, x>> \in U
          BY <2>new, <2>flags, <2>U, <4>1 DEF Use, Kinds, Old
        <4> QED BY <4>2, <4>3, <4>4, <4>5, <4>6, <4>7
      <3>2. RestIn(t, mp, U) /\ MineIn(t, mp, U)
        BY <2>U, <3>1 DEF RestIn, MineIn
      <3>3. Others(t) /\ loc[t].mp \in {mp, Nil} /\ loc'[t].mp \in {mp, Nil} /\ mp \in Addrs \cup {Nil}
        BY <2>loc, <2>new
      <3> QED BY <2>rest, <2>types, <3>2, <3>3, UsesStep
    <2>agree. Agree(U, zone')
      <3>1. PICK u : u = <<"new", t, y>>
        OBVIOUS
      <3>2. PICK v : v = <<"chunk", mp, y>>
        OBVIOUS
      <3>3. u \in Uses /\ v \in Triples /\ u[3] = y /\ v[3] = y
        BY <2>was, <2>types, <3>1, <3>2
      <3>4. Agree((Uses \ {u}) \cup {v}, zone)
        BY <2>types, <3>3, AgreeSwap DEF ZoneInv, UsesSound
      <3> QED BY <1>1, <1>3, <2>U, <3>1, <3>2, <3>4
    <2>other. Changes(t, mp, z)
      BY <1>1, <1>3, <2>z, UsesAre, NilNotAddr DEF Changes
    <2>names. NamedAfter(mp)
      <3>1. PICK n \in PoolNames : PoolNamed(mp, n)
        BY <2>live DEF ZoneInv, NamesSound
      <3>2. PICK u : u = <<"own", mp, z>>
        OBVIOUS
      <3>3. SameZones(z) /\ OnlyUse(u, z)
        BY <1>1, <1>3, <2>other, <2>only, <3>2 DEF SameZones, OnlyUse, Changes
      <3>4. /\ zone'[mp] = MP(n) /\ \A b \in pool[mp].chunks : \E k \in Nat : zone'[b] = Chunk(n, k)
            /\ RingAlive(mp) => zone'[pool[mp].ring] = RGMP(n)
            /\ \E k \in Nat : zone'[y] = Chunk(n, k)
        BY <2>live, <2>new, <2>flags, <3>1, <3>2, <3>3, NamesApart
      <3>5. NamedBy(t, n)'
        BY <1>1, <1>3, <2>new, <2>flags, <3>1, <3>4 DEF NamedBy, Creating, PoolNamed
      <3>6. \A v \in Callers : loc'[v].mp = mp => v = t
        BY <2>mp, <2>loc, <2>new, <2>alone, NilNotAddr DEF Others, Alone
      <3>7. RingAlive(mp)' => zone'[pool'[mp].ring] = RGMP(n)
        BY <2>pool, <2>live, <3>4
      <3>8. \A b \in pool'[mp].chunks : \E k \in Nat : zone'[b] = Chunk(n, k)
        BY <2>pool, <3>4
      <3>9. PoolNamed(mp, n)'
        BY <3>4, <3>5, <3>6, <3>7, <3>8 DEF PoolNamed
      <3> QED BY <3>9 DEF NamedAfter
    <2>poolof. PoolOf(t)'
      BY <1>1, <1>3, <2>mp, <2>new, <2>flags, <2>pool, NilNotAddr DEF PoolOf, Creating, Freeing, ZoneInv
    <2>listed. PoolsListed'
      <3>1. ListedAt(mp) /\ ListedAt(mp)'
        BY <1>1, <1>3, <2>mp, <2>new, <2>flags DEF ListedAt
      <3> QED BY <1>1, <1>3, <2>loc, <2>new, <2>rest, <3>1, PoolsListedStep DEF ZoneInv
    <2>rings. RingsListed'
      <3>1. \A r : r[1] \in {"own", "ring", "old"} => (r \in U <=> r \in Uses)
        BY <2>U
      <3>2. \A x \in Addrs : RingAt(x)' <=> RingAt(x)
        BY <2>uses, <3>1 DEF RingAt
      <3> QED BY <1>1, <1>3, <2>loc, <2>flags, <3>2, RingsListedStep DEF ZoneInv
    <2> QED BY <2>loc, <2>new, <2>rest, <2>alone, <2>users, <2>uses, <2>agree, <2>other, <2>names, <2>poolof, <2>listed, <2>rings, ZoneStep
  <1>4. ASSUME UNCHANGED <<owned>>,
               pool' = [pool EXCEPT ![loc[t].mp].chunks = pool[loc[t].mp].chunks \cup {loc[t].chunk}],
               loc' = [loc EXCEPT ![t] = [loc[t] EXCEPT !.chunk = Nil, !.name = PoolName(t), !.pc = "populate"]]
        PROVE  ZoneInv'
    <2>mp. PICK mp \in Addrs : mp = loc[t].mp
      BY <1>1, <1>4, Fields DEF InPool, LocalsOf, PoolPcs
    <2>y. PICK y \in Addrs : y = loc[t].chunk
      BY <1>1, <1>4, <2>mp, Fields DEF LocalsOf, HasChunk, ListInv, RegTypes
    <2>loc. loc'[t] = [loc[t] EXCEPT !.chunk = Nil, !.name = PoolName(t), !.pc = "populate"] /\ Others(t)
      BY <1>1, <1>4 DEF ListInv, RegTypes, Others
    <2>new. /\ loc[t].mp = mp /\ loc'[t].mp = mp /\ loc[t].mp \in {mp, Nil} /\ loc'[t].mp \in {mp, Nil} /\ mp \in Addrs \cup {Nil}
            /\ loc'[t].pc = "populate"
            /\ loc[t].chunk = y /\ loc'[t].name = PoolName(t)
      BY <2>mp, <2>loc, Fields, NilNotAddr, <2>y DEF Locals, InPool, LocalsOf, FreePcs
    <2>z. PICK z : z = Nil
      OBVIOUS
    <2>flags. /\ InPool(t) /\ InPool(t)' /\ ~RingGone(t) /\ ~RingGone(t)' /\ HasChunk(t) /\ ~HasChunk(t)'
              /\ ~Old(t) /\ ~Old(t)' /\ ~Unlinking(t) /\ ~Unlinking(t)' /\ Listed(t) /\ Listed(t)'
      BY <1>1, <1>4, <2>mp, <2>new, NilNotAddr DEF RingGone, HasChunk, Old, Unlinking, Listed, InPool, Creating
    <2>pool. pool'[mp].ring = pool[mp].ring /\ pool'[mp].chunks = pool[mp].chunks \cup {y} /\ pool[mp].ring # Nil
      BY <1>1, <1>4, <2>mp, <2>new, <2>y, NilNotAddr DEF ListInv, RegTypes, NoPool, ZoneInv, PoolOf, InPool
    <2>rest. Untouched(mp)
      BY <1>1, <1>4, <2>mp DEF Untouched, ListInv, RegTypes
    <2>alone. Alone(t, mp)
      BY <1>1, <1>4, <2>mp, <2>new DEF ZoneInv, UsersSound, InPool, Alone
    <2>users. UsersSound'
      <3>1. <<"pool", Nil>> \notin owned'
        BY <1>1, <1>4, NilNotAddr DEF ListInv, RegTypes
      <3>2. <<"pool", mp>> \notin owned'
        BY <1>1, <1>4, <2>mp, <2>new, NilNotAddr DEF ListInv, RegTypes, ZoneInv, UsersSound
      <3> QED BY <2>loc, <2>new, <2>rest, <2>alone, <3>1, <3>2, UsersStep DEF ZoneInv
    <2>live. Live(mp) /\ Live(mp)' /\ RingAlive(mp) /\ RingAlive(mp)'
      <3>1. (UsersSound /\ ListInv => MineFacts)' /\ (UsersSound /\ ListInv => IdleFacts)'
        BY Mine, Idle, PTL
      <3>2. MineFacts /\ MineFacts' /\ IdleFacts /\ IdleFacts'
        BY <2>users, <3>1, Mine, Idle DEF ZoneInv
      <3> QED BY <2>mp, <2>new, <2>pool, <2>flags, <3>2 DEF MineFacts
    <2>was. <<"new", t, y>> \in Uses
      <3>1. Use("new", t, y)
        BY <2>new, <2>flags DEF Use
      <3> QED BY <3>1, UsesAre DEF Kinds
    <2>only. \A r \in Uses : r[3] # z
      BY <2>z, UsesAre, NilNotAddr
    <2>U. PICK U : U = (Uses \ {<<"new", t, y>>}) \cup {<<"chunk", mp, y>>}
      OBVIOUS
    <2>types. U \in SUBSET Triples /\ <<"chunk", mp, y>> \in Triples /\ Uses \in SUBSET Triples
      BY <2>U, <2>mp, <2>new, UsesAre DEF Triples, Kinds
    <2>uses. Uses' = U
      <3>1. ASSUME NEW x \in Addrs
            PROVE  /\ \A h \in Addrs \cup Callers : Use("own", h, x)' <=> <<"own", h, x>> \in U
                   /\ mp \in Addrs => /\ Use("pool", mp, x)' <=> <<"pool", mp, x>> \in U
                                      /\ Use("ring", mp, x)' <=> <<"ring", mp, x>> \in U
                                      /\ Use("chunk", mp, x)' <=> <<"chunk", mp, x>> \in U
                   /\ Use("new", t, x)' <=> <<"new", t, x>> \in U
                   /\ Use("old", t, x)' <=> <<"old", t, x>> \in U
        <4>1. \A k \in Kinds, h \in Addrs \cup Callers : <<k, h, x>> \in Uses <=> Use(k, h, x)
          BY UsesAre
        <4>2. \A h \in Addrs \cup Callers : Use("own", h, x)' <=> <<"own", h, x>> \in U
          BY <1>1, <1>4, <2>U, <4>1 DEF Use, Kinds
        <4>3. Use("pool", mp, x)' <=> <<"pool", mp, x>> \in U
          BY <2>live, <2>pool, <2>U, <4>1 DEF Use, Kinds
        <4>4. Use("ring", mp, x)' <=> <<"ring", mp, x>> \in U
          BY <2>live, <2>pool, <2>U, <4>1 DEF Use, Kinds
        <4>5. Use("chunk", mp, x)' <=> <<"chunk", mp, x>> \in U
          BY <2>live, <2>pool, <2>U, <4>1 DEF Use, Kinds
        <4>6. Use("new", t, x)' <=> <<"new", t, x>> \in U
          BY <2>new, <2>flags, <2>U, <4>1 DEF Use, Kinds
        <4>7. Use("old", t, x)' <=> <<"old", t, x>> \in U
          BY <2>new, <2>flags, <2>U, <4>1 DEF Use, Kinds, Old
        <4> QED BY <4>2, <4>3, <4>4, <4>5, <4>6, <4>7
      <3>2. RestIn(t, mp, U) /\ MineIn(t, mp, U)
        BY <2>U, <3>1 DEF RestIn, MineIn
      <3>3. Others(t) /\ loc[t].mp \in {mp, Nil} /\ loc'[t].mp \in {mp, Nil} /\ mp \in Addrs \cup {Nil}
        BY <2>loc, <2>new
      <3> QED BY <2>rest, <2>types, <3>2, <3>3, UsesStep
    <2>agree. Agree(U, zone')
      <3>1. PICK u : u = <<"new", t, y>>
        OBVIOUS
      <3>2. PICK v : v = <<"chunk", mp, y>>
        OBVIOUS
      <3>3. u \in Uses /\ v \in Triples /\ u[3] = y /\ v[3] = y
        BY <2>was, <2>types, <3>1, <3>2
      <3>4. Agree((Uses \ {u}) \cup {v}, zone)
        BY <2>types, <3>3, AgreeSwap DEF ZoneInv, UsesSound
      <3> QED BY <1>1, <1>4, <2>U, <3>1, <3>2, <3>4
    <2>other. Changes(t, mp, z)
      BY <1>1, <1>4, <2>z, UsesAre, NilNotAddr DEF Changes
    <2>names. NamedAfter(mp)
      <3>1. PICK n \in PoolNames : PoolNamed(mp, n)
        BY <2>live DEF ZoneInv, NamesSound
      <3>2. PICK u : u = <<"own", mp, z>>
        OBVIOUS
      <3>3. SameZones(z) /\ OnlyUse(u, z)
        BY <1>1, <1>4, <2>other, <2>only, <3>2 DEF SameZones, OnlyUse, Changes
      <3>4. /\ zone'[mp] = MP(n) /\ \A b \in pool[mp].chunks : \E k \in Nat : zone'[b] = Chunk(n, k)
            /\ RingAlive(mp) => zone'[pool[mp].ring] = RGMP(n)
            /\ \E k \in Nat : zone'[y] = Chunk(n, k)
        BY <2>live, <2>new, <2>flags, <3>1, <3>2, <3>3, NamesApart
      <3>5. NamedBy(t, n)'
        BY <1>1, <1>4, <2>new, <2>flags, <3>1, <3>4, Forms DEF NamedBy, Creating, PoolNamed, PoolName
      <3>6. \A v \in Callers : loc'[v].mp = mp => v = t
        BY <2>mp, <2>loc, <2>new, <2>alone, NilNotAddr DEF Others, Alone
      <3>7. RingAlive(mp)' => zone'[pool'[mp].ring] = RGMP(n)
        BY <2>pool, <2>live, <3>4
      <3>8. \A b \in pool'[mp].chunks : \E k \in Nat : zone'[b] = Chunk(n, k)
        BY <2>pool, <3>4
      <3>9. PoolNamed(mp, n)'
        BY <3>4, <3>5, <3>6, <3>7, <3>8 DEF PoolNamed
      <3> QED BY <3>9 DEF NamedAfter
    <2>poolof. PoolOf(t)'
      BY <1>1, <1>4, <2>mp, <2>new, <2>flags, <2>pool, NilNotAddr DEF PoolOf, Creating, Freeing, ZoneInv
    <2>listed. PoolsListed'
      <3>1. ListedAt(mp) /\ ListedAt(mp)'
        BY <1>1, <1>4, <2>mp, <2>new, <2>flags DEF ListedAt
      <3> QED BY <1>1, <1>4, <2>loc, <2>new, <2>rest, <3>1, PoolsListedStep DEF ZoneInv
    <2>rings. RingsListed'
      <3>1. \A r : r[1] \in {"own", "ring", "old"} => (r \in U <=> r \in Uses)
        BY <2>U
      <3>2. \A x \in Addrs : RingAt(x)' <=> RingAt(x)
        BY <2>uses, <3>1 DEF RingAt
      <3> QED BY <1>1, <1>4, <2>loc, <2>flags, <3>2, RingsListedStep DEF ZoneInv
    <2> QED BY <2>loc, <2>new, <2>rest, <2>alone, <2>users, <2>uses, <2>agree, <2>other, <2>names, <2>poolof, <2>listed, <2>rings, ZoneStep
  <1> QED BY <1>1, <1>2, <1>3, <1>4 DEF PopulatePhy, memory, lists, Go, Leave, GoWith

LEMMA PhyFailZones ==
  ASSUME ListInv, ListInv', ZoneInv, NEW t \in Callers, PhyFail(t)
  PROVE  ZoneInv'
  <1>1. /\ loc[t].pc = "phy_fail"
        /\ UNCHANGED <<qlock, mplock, te_used, ring_list, pool_list, pool, owned>>
        /\ zone' = [zone EXCEPT ![loc[t].chunk] = <<>>]
        /\ loc' = [loc EXCEPT ![t] = [loc[t] EXCEPT !.pc = "fail"]]
    BY DEF PhyFail, memory, lists, Go
  <1>mp. PICK mp \in Addrs : mp = loc[t].mp
    BY <1>1, Fields DEF InPool, LocalsOf, PoolPcs
  <1>y. PICK y \in Addrs : y = loc[t].chunk
    BY <1>1, <1>mp, Fields DEF LocalsOf, HasChunk, ListInv, RegTypes
  <1>loc. loc'[t] = [loc[t] EXCEPT !.pc = "fail"] /\ Others(t)
    BY <1>1 DEF ListInv, RegTypes, Others
  <1>new. /\ loc[t].mp = mp /\ loc'[t].mp = mp /\ loc[t].mp \in {mp, Nil} /\ loc'[t].mp \in {mp, Nil} /\ mp \in Addrs \cup {Nil}
          /\ loc'[t].pc = "fail"
          /\ loc[t].chunk = y
    BY <1>mp, <1>loc, Fields, NilNotAddr, <1>y DEF Locals, InPool, LocalsOf, FreePcs
  <1>flags. /\ InPool(t) /\ InPool(t)' /\ ~RingGone(t) /\ ~RingGone(t)' /\ HasChunk(t) /\ ~HasChunk(t)'
            /\ ~Old(t) /\ ~Old(t)' /\ ~Unlinking(t) /\ ~Unlinking(t)' /\ Listed(t) /\ Listed(t)'
    BY <1>1, <1>mp, <1>new, NilNotAddr DEF RingGone, HasChunk, Old, Unlinking, Listed, InPool, Creating
  <1>pool. pool'[mp] = pool[mp]
    BY <1>1, <1>mp, <1>new, NilNotAddr DEF ListInv, RegTypes, NoPool
  <1>rest. Untouched(mp)
    BY <1>1, <1>mp DEF Untouched, ListInv, RegTypes
  <1>alone. Alone(t, mp)
    BY <1>1, <1>mp, <1>new DEF ZoneInv, UsersSound, InPool, Alone
  <1>users. UsersSound'
    <2>1. <<"pool", Nil>> \notin owned'
      BY <1>1, NilNotAddr DEF ListInv, RegTypes
    <2>2. <<"pool", mp>> \notin owned'
      BY <1>1, <1>mp, <1>new, NilNotAddr DEF ListInv, RegTypes, ZoneInv, UsersSound
    <2> QED BY <1>loc, <1>new, <1>rest, <1>alone, <2>1, <2>2, UsersStep DEF ZoneInv
  <1>live. Live(mp) /\ Live(mp)' /\ (RingAlive(mp)' <=> RingAlive(mp))
    <2>1. (UsersSound /\ ListInv => MineFacts)' /\ (UsersSound /\ ListInv => IdleFacts)'
      BY Mine, Idle, PTL
    <2>2. MineFacts /\ MineFacts' /\ IdleFacts /\ IdleFacts'
      BY <1>users, <2>1, Mine, Idle DEF ZoneInv
    <2> QED BY <1>mp, <1>new, <1>pool, <1>flags, <2>2 DEF MineFacts
  <1>was. <<"new", t, y>> \in Uses
    <2>1. Use("new", t, y)
      BY <1>new, <1>flags DEF Use
    <2> QED BY <2>1, UsesAre DEF Kinds
  <1>only. \A r \in Uses : r[3] = y => r = <<"new", t, y>>
    BY <1>was DEF ZoneInv, UsesSound, Agree
  <1>U. PICK U : U = Uses \ {<<"new", t, y>>}
    OBVIOUS
  <1>types. U \in SUBSET Triples /\ Uses \in SUBSET Triples
    BY <1>U, <1>mp, <1>new, UsesAre DEF Triples, Kinds
  <1>uses. Uses' = U
    <2>1. ASSUME NEW x \in Addrs
          PROVE  /\ \A h \in Addrs \cup Callers : Use("own", h, x)' <=> <<"own", h, x>> \in U
                 /\ mp \in Addrs => /\ Use("pool", mp, x)' <=> <<"pool", mp, x>> \in U
                                    /\ Use("ring", mp, x)' <=> <<"ring", mp, x>> \in U
                                    /\ Use("chunk", mp, x)' <=> <<"chunk", mp, x>> \in U
                 /\ Use("new", t, x)' <=> <<"new", t, x>> \in U
                 /\ Use("old", t, x)' <=> <<"old", t, x>> \in U
      <3>1. \A k \in Kinds, h \in Addrs \cup Callers : <<k, h, x>> \in Uses <=> Use(k, h, x)
        BY UsesAre
      <3>2. \A h \in Addrs \cup Callers : Use("own", h, x)' <=> <<"own", h, x>> \in U
        BY <1>1, <1>U, <3>1 DEF Use, Kinds
      <3>3. Use("pool", mp, x)' <=> <<"pool", mp, x>> \in U
        BY <1>live, <1>pool, <1>U, <3>1 DEF Use, Kinds
      <3>4. Use("ring", mp, x)' <=> <<"ring", mp, x>> \in U
        BY <1>live, <1>pool, <1>U, <3>1 DEF Use, Kinds
      <3>5. Use("chunk", mp, x)' <=> <<"chunk", mp, x>> \in U
        BY <1>live, <1>pool, <1>U, <3>1 DEF Use, Kinds
      <3>6. Use("new", t, x)' <=> <<"new", t, x>> \in U
        BY <1>new, <1>flags, <1>U, <3>1 DEF Use, Kinds
      <3>7. Use("old", t, x)' <=> <<"old", t, x>> \in U
        BY <1>new, <1>flags, <1>U, <3>1 DEF Use, Kinds, Old
      <3> QED BY <3>2, <3>3, <3>4, <3>5, <3>6, <3>7
    <2>2. RestIn(t, mp, U) /\ MineIn(t, mp, U)
      BY <1>U, <2>1 DEF RestIn, MineIn
    <2>3. Others(t) /\ loc[t].mp \in {mp, Nil} /\ loc'[t].mp \in {mp, Nil} /\ mp \in Addrs \cup {Nil}
      BY <1>loc, <1>new
    <2> QED BY <1>rest, <1>types, <2>2, <2>3, UsesStep
  <1>agree. Agree(U, zone')
    <2>1. PICK u : u = <<"new", t, y>>
      OBVIOUS
    <2>2. u \in Uses /\ u[3] = y
      BY <1>was, <2>1
    <2>3. zone' = [zone EXCEPT ![y] = <<>>] /\ DOMAIN zone = Addrs
      BY <1>1, <1>mp, <1>y, <1>new DEF ListInv, RegTypes
    <2>4. Agree(Uses \ {u}, [zone EXCEPT ![u[3]] = <<>>])
      BY <1>types, <2>2, <2>3, AgreeDrop DEF ZoneInv, UsesSound
    <2> QED BY <1>U, <2>1, <2>2, <2>3, <2>4
  <1>other. Changes(t, mp, y)
    BY <1>1, <1>mp, <1>new, <1>y, <1>only DEF ListInv, RegTypes, Changes
  <1>names. NamedAfter(mp)
    <2>1. PICK n \in PoolNames : PoolNamed(mp, n)
      BY <1>live DEF ZoneInv, NamesSound
    <2>2. PICK u : u = <<"new", t, y>>
      OBVIOUS
    <2>3. SameZones(y) /\ OnlyUse(u, y)
      BY <1>1, <1>other, <1>only, <2>2 DEF SameZones, OnlyUse, Changes
    <2>4. /\ zone'[mp] = MP(n) /\ \A b \in pool[mp].chunks : \E k \in Nat : zone'[b] = Chunk(n, k)
          /\ RingAlive(mp) => zone'[pool[mp].ring] = RGMP(n)
      BY <1>live, <1>new, <1>flags, <2>1, <2>2, <2>3, NamesApart
    <2>5. NamedBy(t, n)'
      BY <1>1, <1>new, <1>flags, <2>1, <2>4 DEF NamedBy, Creating, PoolNamed
    <2>6. \A v \in Callers : loc'[v].mp = mp => v = t
      BY <1>mp, <1>loc, <1>new, <1>alone, NilNotAddr DEF Others, Alone
    <2>7. RingAlive(mp)' => zone'[pool'[mp].ring] = RGMP(n)
      BY <1>pool, <1>live, <2>4
    <2>8. \A b \in pool'[mp].chunks : \E k \in Nat : zone'[b] = Chunk(n, k)
      BY <1>pool, <2>4
    <2>9. PoolNamed(mp, n)'
      BY <2>4, <2>5, <2>6, <2>7, <2>8 DEF PoolNamed
    <2> QED BY <2>9 DEF NamedAfter
  <1>poolof. PoolOf(t)'
    BY <1>1, <1>mp, <1>new, <1>flags, <1>pool, NilNotAddr DEF PoolOf, Creating, Freeing, ZoneInv
  <1>listed. PoolsListed'
    <2>1. ListedAt(mp) /\ ListedAt(mp)'
      BY <1>mp, <1>new, <1>flags DEF ListedAt
    <2> QED BY <1>1, <1>loc, <1>new, <1>rest, <2>1, PoolsListedStep DEF ZoneInv
  <1>rings. RingsListed'
    <2>1. \A r : r[1] \in {"own", "ring", "old"} => (r \in U <=> r \in Uses)
      BY <1>U
    <2>2. \A x \in Addrs : RingAt(x)' <=> RingAt(x)
      BY <1>uses, <2>1 DEF RingAt
    <2> QED BY <1>1, <1>loc, <1>flags, <2>2, RingsListedStep DEF ZoneInv
  <1> QED BY <1>loc, <1>new, <1>rest, <1>alone, <1>users, <1>uses, <1>agree, <1>other, <1>names, <1>poolof, <1>listed, <1>rings, ZoneStep

LEMMA FreeMemchunkZones ==
  ASSUME ListInv, ListInv', ZoneInv, NEW t \in Callers, FreeMemchunk(t)
  PROVE  ZoneInv'
  <1>1. /\ loc[t].pc \in {"fail", "pf_chunks"}
        /\ UNCHANGED <<qlock, mplock, te_used, ring_list, pool_list, owned>>
    BY DEF FreeMemchunk, memory, lists, Go, GoWith
  <1>2. ASSUME NEW a \in pool[loc[t].mp].chunks,
               zone' = [zone EXCEPT ![a] = <<>>],
               pool' = [pool EXCEPT ![loc[t].mp].chunks = pool[loc[t].mp].chunks \ {a}],
               loc' = [loc EXCEPT ![t] = loc[t]]
        PROVE  ZoneInv'
    <2>mp. PICK mp \in Addrs : mp = loc[t].mp
      BY <1>1, <1>2, Fields DEF InPool, LocalsOf, PoolPcs
    <2>y. PICK y \in Addrs : y = a
      BY <1>1, <1>2, <2>mp, Fields DEF LocalsOf, HasChunk, ListInv, RegTypes
    <2>loc. loc'[t] = loc[t] /\ Others(t)
      BY <1>1, <1>2 DEF ListInv, RegTypes, Others
    <2>new. /\ loc[t].mp = mp /\ loc'[t].mp = mp /\ loc[t].mp \in {mp, Nil} /\ loc'[t].mp \in {mp, Nil} /\ mp \in Addrs \cup {Nil}
            /\ loc'[t] = loc[t] /\ y \in pool[mp].chunks
      BY <1>1, <1>2, <2>mp, <2>loc, Fields, NilNotAddr, <2>y DEF Locals, InPool, LocalsOf, FreePcs
    <2>flags. /\ InPool(t) /\ InPool(t)' /\ ~RingGone(t) /\ ~RingGone(t)' /\ ~HasChunk(t) /\ ~HasChunk(t)'
              /\ ~Old(t) /\ ~Old(t)' /\ ~Unlinking(t) /\ ~Unlinking(t)'
      BY <1>1, <1>2, <2>mp, <2>new, NilNotAddr DEF RingGone, HasChunk, Old, Unlinking, Listed, InPool, Creating
    <2>pool. pool'[mp].ring = pool[mp].ring /\ pool'[mp].chunks = pool[mp].chunks \ {y}
      BY <1>1, <1>2, <2>mp, <2>new, <2>y, NilNotAddr DEF ListInv, RegTypes, NoPool
    <2>rest. Untouched(mp)
      BY <1>1, <1>2, <2>mp DEF Untouched, ListInv, RegTypes
    <2>alone. Alone(t, mp)
      BY <1>1, <1>2, <2>mp, <2>new DEF ZoneInv, UsersSound, InPool, Alone
    <2>users. UsersSound'
      <3>1. <<"pool", Nil>> \notin owned'
        BY <1>1, <1>2, NilNotAddr DEF ListInv, RegTypes
      <3>2. <<"pool", mp>> \notin owned'
        BY <1>1, <1>2, <2>mp, <2>new, NilNotAddr DEF ListInv, RegTypes, ZoneInv, UsersSound
      <3> QED BY <2>loc, <2>new, <2>rest, <2>alone, <3>1, <3>2, UsersStep DEF ZoneInv
    <2>live. Live(mp) /\ Live(mp)' /\ (RingAlive(mp)' <=> RingAlive(mp))
      <3>1. (UsersSound /\ ListInv => MineFacts)' /\ (UsersSound /\ ListInv => IdleFacts)'
        BY Mine, Idle, PTL
      <3>2. MineFacts /\ MineFacts' /\ IdleFacts /\ IdleFacts'
        BY <2>users, <3>1, Mine, Idle DEF ZoneInv
      <3> QED BY <2>mp, <2>new, <2>pool, <2>flags, <3>2 DEF MineFacts
    <2>was. <<"chunk", mp, y>> \in Uses
      <3>1. Use("chunk", mp, y)
        BY <2>new, <2>live DEF Use
      <3> QED BY <3>1, UsesAre DEF Kinds
    <2>only. \A r \in Uses : r[3] = y => r = <<"chunk", mp, y>>
      BY <2>was DEF ZoneInv, UsesSound, Agree
    <2>U. PICK U : U = Uses \ {<<"chunk", mp, y>>}
      OBVIOUS
    <2>types. U \in SUBSET Triples /\ Uses \in SUBSET Triples
      BY <2>U, <2>mp, <2>new, UsesAre DEF Triples, Kinds
    <2>uses. Uses' = U
      <3>1. ASSUME NEW x \in Addrs
            PROVE  /\ \A h \in Addrs \cup Callers : Use("own", h, x)' <=> <<"own", h, x>> \in U
                   /\ mp \in Addrs => /\ Use("pool", mp, x)' <=> <<"pool", mp, x>> \in U
                                      /\ Use("ring", mp, x)' <=> <<"ring", mp, x>> \in U
                                      /\ Use("chunk", mp, x)' <=> <<"chunk", mp, x>> \in U
                   /\ Use("new", t, x)' <=> <<"new", t, x>> \in U
                   /\ Use("old", t, x)' <=> <<"old", t, x>> \in U
        <4>1. \A k \in Kinds, h \in Addrs \cup Callers : <<k, h, x>> \in Uses <=> Use(k, h, x)
          BY UsesAre
        <4>2. \A h \in Addrs \cup Callers : Use("own", h, x)' <=> <<"own", h, x>> \in U
          BY <1>1, <1>2, <2>U, <4>1 DEF Use, Kinds
        <4>3. Use("pool", mp, x)' <=> <<"pool", mp, x>> \in U
          BY <2>live, <2>pool, <2>U, <4>1 DEF Use, Kinds
        <4>4. Use("ring", mp, x)' <=> <<"ring", mp, x>> \in U
          BY <2>live, <2>pool, <2>U, <4>1 DEF Use, Kinds
        <4>5. Use("chunk", mp, x)' <=> <<"chunk", mp, x>> \in U
          BY <2>live, <2>pool, <2>U, <4>1 DEF Use, Kinds
        <4>6. Use("new", t, x)' <=> <<"new", t, x>> \in U
          BY <2>new, <2>flags, <2>U, <4>1 DEF Use, Kinds
        <4>7. Use("old", t, x)' <=> <<"old", t, x>> \in U
          BY <2>new, <2>flags, <2>U, <4>1 DEF Use, Kinds, Old
        <4> QED BY <4>2, <4>3, <4>4, <4>5, <4>6, <4>7
      <3>2. RestIn(t, mp, U) /\ MineIn(t, mp, U)
        BY <2>U, <3>1 DEF RestIn, MineIn
      <3>3. Others(t) /\ loc[t].mp \in {mp, Nil} /\ loc'[t].mp \in {mp, Nil} /\ mp \in Addrs \cup {Nil}
        BY <2>loc, <2>new
      <3> QED BY <2>rest, <2>types, <3>2, <3>3, UsesStep
    <2>agree. Agree(U, zone')
      <3>1. PICK u : u = <<"chunk", mp, y>>
        OBVIOUS
      <3>2. u \in Uses /\ u[3] = y
        BY <2>was, <3>1
      <3>3. zone' = [zone EXCEPT ![y] = <<>>] /\ DOMAIN zone = Addrs
        BY <1>1, <1>2, <2>mp, <2>y, <2>new DEF ListInv, RegTypes
      <3>4. Agree(Uses \ {u}, [zone EXCEPT ![u[3]] = <<>>])
        BY <2>types, <3>2, <3>3, AgreeDrop DEF ZoneInv, UsesSound
      <3> QED BY <2>U, <3>1, <3>2, <3>3, <3>4
    <2>other. Changes(t, mp, y)
      BY <1>1, <1>2, <2>mp, <2>new, <2>y, <2>only DEF ListInv, RegTypes, Changes
    <2>names. NamedAfter(mp)
      <3>1. PICK n \in PoolNames : PoolNamed(mp, n)
        BY <2>live DEF ZoneInv, NamesSound
      <3>2. PICK u : u = <<"chunk", mp, y>>
        OBVIOUS
      <3>3. SameZones(y) /\ OnlyUse(u, y)
        BY <1>1, <1>2, <2>other, <2>only, <3>2 DEF SameZones, OnlyUse, Changes
      <3>4. /\ zone'[mp] = MP(n) /\ \A b \in pool[mp].chunks \ {y} : \E k \in Nat : zone'[b] = Chunk(n, k)
            /\ RingAlive(mp) => zone'[pool[mp].ring] = RGMP(n)
        BY <2>live, <2>new, <2>flags, <3>1, <3>2, <3>3, NamesApart
      <3>5. NamedBy(t, n)'
        BY <1>1, <1>2, <2>new, <2>flags, <3>1, <3>4 DEF NamedBy, Creating, PoolNamed
      <3>6. \A v \in Callers : loc'[v].mp = mp => v = t
        BY <2>mp, <2>loc, <2>new, <2>alone, NilNotAddr DEF Others, Alone
      <3>7. RingAlive(mp)' => zone'[pool'[mp].ring] = RGMP(n)
        BY <2>pool, <2>live, <3>4
      <3>8. \A b \in pool'[mp].chunks : \E k \in Nat : zone'[b] = Chunk(n, k)
        BY <2>pool, <3>4
      <3>9. PoolNamed(mp, n)'
        BY <3>4, <3>5, <3>6, <3>7, <3>8 DEF PoolNamed
      <3> QED BY <3>9 DEF NamedAfter
    <2>poolof. PoolOf(t)'
      BY <1>1, <1>2, <2>mp, <2>new, <2>flags, <2>pool, NilNotAddr DEF PoolOf, Creating, Freeing, ZoneInv
    <2>listed. PoolsListed'
      <3>1. ListedAt(mp)' <=> ListedAt(mp)
        BY <1>1, <1>2, <2>loc, <2>new DEF ListedAt, Listed, InPool, Others
      <3> QED BY <1>1, <1>2, <2>loc, <2>new, <2>rest, <3>1, PoolsListedStep DEF ZoneInv
    <2>rings. RingsListed'
      <3>1. \A r : r[1] \in {"own", "ring", "old"} => (r \in U <=> r \in Uses)
        BY <2>U
      <3>2. \A x \in Addrs : RingAt(x)' <=> RingAt(x)
        BY <2>uses, <3>1 DEF RingAt
      <3> QED BY <1>1, <1>2, <2>loc, <2>flags, <3>2, RingsListedStep DEF ZoneInv
    <2> QED BY <2>loc, <2>new, <2>rest, <2>alone, <2>users, <2>uses, <2>agree, <2>other, <2>names, <2>poolof, <2>listed, <2>rings, ZoneStep
  <1>3. ASSUME pool[loc[t].mp].chunks = {} /\ loc[t].pc = "fail",
               UNCHANGED <<zone, pool>>,
               loc' = [loc EXCEPT ![t] = [loc[t] EXCEPT !.pc = "pf_unlink"]]
        PROVE  ZoneInv'
    <2>1. loc'[t] = [loc[t] EXCEPT !.pc = "pf_unlink"] /\ Others(t)
      BY <1>1, <1>3 DEF ListInv, RegTypes, Others
    <2>2. /\ loc'[t].mp = loc[t].mp /\ (Listed(t)' <=> Listed(t))
          /\ InPool(t) /\ pool[loc[t].mp].ring # Nil => (RingGone(t)' <=> RingGone(t))
          /\ (HasChunk(t)' <=> HasChunk(t)) /\ (HasChunk(t) => loc'[t].chunk = loc[t].chunk)
          /\ (Old(t)' <=> Old(t)) /\ (Old(t) => loc'[t].ring = loc[t].ring)
          /\ (Unlinking(t)' <=> Unlinking(t)) /\ (Unlinking(t) => loc'[t].ring = loc[t].ring)
      BY <1>1, <1>3, <2>1, Fields DEF Locals, LocalsOf, Listed, InPool, RingGone, HasChunk, Old, Unlinking, Creating, FreePcs, PoolPcs, Nil
    <2>3. PoolOf(t)'
      BY <1>1, <1>3, <2>1, Fields DEF ZoneInv, PoolOf, Locals, LocalsOf, InPool, Creating, Freeing, FreePcs, PoolPcs, Nil
    <2>4. InPool(t) => \A n \in PoolNames : NamedBy(t, n) => NamedBy(t, n)'
      BY <1>1, <1>3, <2>1, <2>2, Fields DEF NamedBy, Locals, LocalsOf, InPool, HasChunk, Creating, FreePcs, Nil
    <2> QED BY <1>1, <1>3, <2>1, <2>2, <2>3, <2>4, QuietStep
  <1>4. ASSUME pool[loc[t].mp].chunks = {} /\ loc[t].pc = "pf_chunks" /\ pool[loc[t].mp].ring = Nil,
               UNCHANGED <<zone, pool>>,
               loc' = [loc EXCEPT ![t] = [loc[t] EXCEPT !.pc = "pf_zone"]]
        PROVE  ZoneInv'
    <2>1. loc'[t] = [loc[t] EXCEPT !.pc = "pf_zone"] /\ Others(t)
      BY <1>1, <1>4 DEF ListInv, RegTypes, Others
    <2>2. /\ loc'[t].mp = loc[t].mp /\ (Listed(t)' <=> Listed(t))
          /\ InPool(t) /\ pool[loc[t].mp].ring # Nil => (RingGone(t)' <=> RingGone(t))
          /\ (HasChunk(t)' <=> HasChunk(t)) /\ (HasChunk(t) => loc'[t].chunk = loc[t].chunk)
          /\ (Old(t)' <=> Old(t)) /\ (Old(t) => loc'[t].ring = loc[t].ring)
          /\ (Unlinking(t)' <=> Unlinking(t)) /\ (Unlinking(t) => loc'[t].ring = loc[t].ring)
      BY <1>1, <1>4, <2>1, Fields DEF Locals, LocalsOf, Listed, InPool, RingGone, HasChunk, Old, Unlinking, Creating, FreePcs, PoolPcs, Nil
    <2>3. PoolOf(t)'
      BY <1>1, <1>4, <2>1, Fields DEF ZoneInv, PoolOf, Locals, LocalsOf, InPool, Creating, Freeing, FreePcs, PoolPcs, Nil
    <2>4. InPool(t) => \A n \in PoolNames : NamedBy(t, n) => NamedBy(t, n)'
      BY <1>1, <1>4, <2>1, <2>2, Fields DEF NamedBy, Locals, LocalsOf, InPool, HasChunk, Creating, FreePcs, Nil
    <2> QED BY <1>1, <1>4, <2>1, <2>2, <2>3, <2>4, QuietStep
  <1>5. ASSUME pool[loc[t].mp].chunks = {} /\ loc[t].pc = "pf_chunks" /\ pool[loc[t].mp].ring # Nil,
               UNCHANGED <<zone, pool>>,
               loc' = [loc EXCEPT ![t] = [loc[t] EXCEPT !.ring = pool[loc[t].mp].ring, !.pc = "rf_zone"]]
        PROVE  ZoneInv'
    <2>1. loc'[t] = [loc[t] EXCEPT !.ring = pool[loc[t].mp].ring, !.pc = "rf_zone"] /\ Others(t)
      BY <1>1, <1>5 DEF ListInv, RegTypes, Others
    <2>2. /\ loc'[t].mp = loc[t].mp /\ (Listed(t)' <=> Listed(t))
          /\ InPool(t) /\ pool[loc[t].mp].ring # Nil => (RingGone(t)' <=> RingGone(t))
          /\ (HasChunk(t)' <=> HasChunk(t)) /\ (HasChunk(t) => loc'[t].chunk = loc[t].chunk)
          /\ (Old(t)' <=> Old(t)) /\ (Old(t) => loc'[t].ring = loc[t].ring)
          /\ (Unlinking(t)' <=> Unlinking(t)) /\ (Unlinking(t) => loc'[t].ring = loc[t].ring)
      BY <1>1, <1>5, <2>1, Fields DEF Locals, LocalsOf, Listed, InPool, RingGone, HasChunk, Old, Unlinking, Creating, FreePcs, PoolPcs, Nil
    <2>3. PoolOf(t)'
      BY <1>1, <1>5, <2>1, Fields DEF ZoneInv, PoolOf, Locals, LocalsOf, InPool, Creating, Freeing, FreePcs, PoolPcs, Nil
    <2>4. InPool(t) => \A n \in PoolNames : NamedBy(t, n) => NamedBy(t, n)'
      BY <1>1, <1>5, <2>1, <2>2, Fields DEF NamedBy, Locals, LocalsOf, InPool, HasChunk, Creating, FreePcs, Nil
    <2> QED BY <1>1, <1>5, <2>1, <2>2, <2>3, <2>4, QuietStep
  <1> QED
    <2>1. loc = [loc EXCEPT ![t] = loc[t]]
      BY DEF ListInv, RegTypes
    <2>2. CASE loc[t].pc = "fail"
      BY <1>1, <1>2, <1>3, <2>1, <2>2 DEF FreeMemchunk, Go
    <2>3. CASE loc[t].pc = "pf_chunks"
      BY <1>1, <1>2, <1>4, <1>5, <2>1, <2>3 DEF FreeMemchunk, Go, GoWith
    <2> QED BY <1>1, <2>2, <2>3

LEMMA PoolFreeZones ==
  ASSUME ListInv, ListInv', ZoneInv, NEW t \in Callers, NEW a \in Addrs, PoolFree(t, a)
  PROVE  ZoneInv'
  <1>1. /\ loc[t].pc = "idle" /\ <<"pool", a>> \in owned
        /\ UNCHANGED <<qlock, mplock, zone, te_used, ring_list, pool_list, pool>>
        /\ owned' = owned \ {<<"pool", a>>}
        /\ loc' = [loc EXCEPT ![t] = [Returned EXCEPT !.mp = a, !.pc = "pf_unlink"]]
    BY DEF PoolFree, memory, lists, GoWith
  <1>mp. PICK mp \in Addrs : mp = a
    BY <1>1, Fields DEF InPool, LocalsOf, PoolPcs
  <1>loc. loc'[t] = [Returned EXCEPT !.mp = a, !.pc = "pf_unlink"] /\ Others(t)
    BY <1>1 DEF ListInv, RegTypes, Others
  <1>new. /\ loc[t].mp = Nil /\ loc'[t].mp = mp /\ loc[t].mp \in {mp, Nil} /\ loc'[t].mp \in {mp, Nil} /\ mp \in Addrs \cup {Nil}
          /\ loc'[t].pc = "pf_unlink"
    BY <1>1, <1>mp, <1>loc, Fields, NilNotAddr DEF Returned, InPool, LocalsOf, FreePcs
  <1>z. PICK z : z = Nil
    OBVIOUS
  <1>flags. /\ ~InPool(t) /\ InPool(t)' /\ ~RingGone(t) /\ ~RingGone(t)' /\ ~HasChunk(t) /\ ~HasChunk(t)'
            /\ ~Old(t) /\ ~Old(t)' /\ ~Unlinking(t) /\ ~Unlinking(t)' /\ ~Listed(t) /\ Listed(t)'
    BY <1>1, <1>mp, <1>new, NilNotAddr DEF RingGone, HasChunk, Old, Unlinking, Listed, InPool, Creating
  <1>pool. pool'[mp] = pool[mp]
    BY <1>1, <1>mp, <1>new, NilNotAddr DEF ListInv, RegTypes, NoPool
  <1>rest. Untouched(mp)
    BY <1>1, <1>mp DEF Untouched, ListInv, RegTypes
  <1>alone. Alone(t, mp)
    BY <1>1, <1>mp, <1>new DEF ZoneInv, UsersSound, InPool, Alone
  <1>users. UsersSound'
    <2>1. <<"pool", Nil>> \notin owned'
      BY <1>1, NilNotAddr DEF ListInv, RegTypes
    <2>2. <<"pool", mp>> \notin owned'
      BY <1>1, <1>mp
    <2> QED BY <1>loc, <1>new, <1>rest, <1>alone, <2>1, <2>2, UsersStep DEF ZoneInv
  <1>live. Live(mp) /\ Live(mp)' /\ RingAlive(mp) /\ RingAlive(mp)'
    <2>1. (UsersSound /\ ListInv => MineFacts)' /\ (UsersSound /\ ListInv => IdleFacts)'
      BY Mine, Idle, PTL
    <2>2. MineFacts /\ MineFacts' /\ IdleFacts /\ IdleFacts'
      BY <1>users, <2>1, Mine, Idle DEF ZoneInv
    <2> QED BY <1>1, <1>mp, <1>new, <1>pool, <1>flags, <2>2, NilNotAddr DEF MineFacts, IdleFacts
  <1>only. \A r \in Uses : r[3] # z
    BY <1>z, UsesAre, NilNotAddr
  <1>U. PICK U : U = Uses
    OBVIOUS
  <1>types. U \in SUBSET Triples /\ Uses \in SUBSET Triples
    BY <1>U, <1>mp, <1>new, UsesAre DEF Triples, Kinds
  <1>uses. Uses' = U
    <2>1. ASSUME NEW x \in Addrs
          PROVE  /\ \A h \in Addrs \cup Callers : Use("own", h, x)' <=> <<"own", h, x>> \in U
                 /\ mp \in Addrs => /\ Use("pool", mp, x)' <=> <<"pool", mp, x>> \in U
                                    /\ Use("ring", mp, x)' <=> <<"ring", mp, x>> \in U
                                    /\ Use("chunk", mp, x)' <=> <<"chunk", mp, x>> \in U
                 /\ Use("new", t, x)' <=> <<"new", t, x>> \in U
                 /\ Use("old", t, x)' <=> <<"old", t, x>> \in U
      <3>1. \A k \in Kinds, h \in Addrs \cup Callers : <<k, h, x>> \in Uses <=> Use(k, h, x)
        BY UsesAre
      <3>2. \A h \in Addrs \cup Callers : Use("own", h, x)' <=> <<"own", h, x>> \in U
        BY <1>1, <1>U, <3>1 DEF Use, Kinds
      <3>3. Use("pool", mp, x)' <=> <<"pool", mp, x>> \in U
        BY <1>live, <1>pool, <1>U, <3>1 DEF Use, Kinds
      <3>4. Use("ring", mp, x)' <=> <<"ring", mp, x>> \in U
        BY <1>live, <1>pool, <1>U, <3>1 DEF Use, Kinds
      <3>5. Use("chunk", mp, x)' <=> <<"chunk", mp, x>> \in U
        BY <1>live, <1>pool, <1>U, <3>1 DEF Use, Kinds
      <3>6. Use("new", t, x)' <=> <<"new", t, x>> \in U
        BY <1>new, <1>flags, <1>U, <3>1 DEF Use, Kinds
      <3>7. Use("old", t, x)' <=> <<"old", t, x>> \in U
        BY <1>new, <1>flags, <1>U, <3>1 DEF Use, Kinds, Old
      <3> QED BY <3>2, <3>3, <3>4, <3>5, <3>6, <3>7
    <2>2. RestIn(t, mp, U) /\ MineIn(t, mp, U)
      BY <1>U, <2>1 DEF RestIn, MineIn
    <2>3. Others(t) /\ loc[t].mp \in {mp, Nil} /\ loc'[t].mp \in {mp, Nil} /\ mp \in Addrs \cup {Nil}
      BY <1>loc, <1>new
    <2> QED BY <1>rest, <1>types, <2>2, <2>3, UsesStep
  <1>agree. Agree(U, zone')
    BY <1>1, <1>U DEF ZoneInv, UsesSound
  <1>other. Changes(t, mp, z)
    BY <1>1, <1>z, UsesAre, NilNotAddr DEF Changes
  <1>names. NamedAfter(mp)
    <2>1. PICK n \in PoolNames : PoolNamed(mp, n)
      BY <1>live DEF ZoneInv, NamesSound
    <2>2. PICK u : u = <<"own", mp, z>>
      OBVIOUS
    <2>3. SameZones(z) /\ OnlyUse(u, z)
      BY <1>1, <1>other, <1>only, <2>2 DEF SameZones, OnlyUse, Changes
    <2>4. /\ zone'[mp] = MP(n) /\ \A b \in pool[mp].chunks : \E k \in Nat : zone'[b] = Chunk(n, k)
          /\ RingAlive(mp) => zone'[pool[mp].ring] = RGMP(n)
      BY <1>live, <1>new, <1>flags, <2>1, <2>2, <2>3, NamesApart
    <2>5. NamedBy(t, n)'
      BY <1>1, <1>new, <1>flags, <2>1, <2>4 DEF NamedBy, Creating, PoolNamed
    <2>6. \A v \in Callers : loc'[v].mp = mp => v = t
      BY <1>mp, <1>loc, <1>new, <1>alone, NilNotAddr DEF Others, Alone
    <2>7. RingAlive(mp)' => zone'[pool'[mp].ring] = RGMP(n)
      BY <1>pool, <1>live, <2>4
    <2>8. \A b \in pool'[mp].chunks : \E k \in Nat : zone'[b] = Chunk(n, k)
      BY <1>pool, <2>4
    <2>9. PoolNamed(mp, n)'
      BY <2>4, <2>5, <2>6, <2>7, <2>8 DEF PoolNamed
    <2> QED BY <2>9 DEF NamedAfter
  <1>poolof. PoolOf(t)'
    BY <1>1, <1>mp, <1>new, <1>flags, <1>pool, NilNotAddr DEF PoolOf, Creating, Freeing, ZoneInv
  <1>listed. PoolsListed'
    <2>1. ListedAt(mp) /\ ListedAt(mp)'
      BY <1>1, <1>mp, <1>new, <1>flags DEF ListedAt
    <2> QED BY <1>1, <1>loc, <1>new, <1>rest, <2>1, PoolsListedStep DEF ZoneInv
  <1>rings. RingsListed'
    <2>1. \A r : r[1] \in {"own", "ring", "old"} => (r \in U <=> r \in Uses)
      BY <1>U
    <2>2. \A x \in Addrs : RingAt(x)' <=> RingAt(x)
      BY <1>uses, <2>1 DEF RingAt
    <2> QED BY <1>1, <1>loc, <1>flags, <2>2, RingsListedStep DEF ZoneInv
  <1> QED BY <1>loc, <1>new, <1>rest, <1>alone, <1>users, <1>uses, <1>agree, <1>other, <1>names, <1>poolof, <1>listed, <1>rings, ZoneStep

LEMMA PoolUnlinkZones ==
  ASSUME ListInv, ListInv', ZoneInv, NEW t \in Callers, PoolUnlink(t)
  PROVE  ZoneInv'
  <1>1. /\ loc[t].pc = "pf_unlink" /\ MayWrite(qlock) /\ Find(pool_list, loc[t].mp) # 0
        /\ UNCHANGED <<qlock, mplock, zone, ring_list, pool, owned>>
        /\ pool_list' = Drop(pool_list, Find(pool_list, loc[t].mp))
        /\ te_used' = te_used \ {pool_list[Find(pool_list, loc[t].mp)].te}
        /\ loc' = [loc EXCEPT ![t] = [loc[t] EXCEPT !.pc = "pf_chunks"]]
    BY DEF PoolUnlink, memory, lists, Go
  <1>loc. loc'[t] = [loc[t] EXCEPT !.pc = "pf_chunks"] /\ Others(t)
    BY <1>1 DEF ListInv, RegTypes, Others
  <1>new. loc'[t].mp = loc[t].mp /\ loc'[t].pc = "pf_chunks"
    BY <1>loc, Fields DEF Locals
  <1>flags. /\ loc'[t].mp = loc[t].mp /\ loc'[t].pc = "pf_chunks"
            /\ InPool(t) /\ pool[loc[t].mp].ring # Nil => (RingGone(t)' <=> RingGone(t))
            /\ ~HasChunk(t)' /\ ~HasChunk(t) /\ ~Old(t)' /\ ~Old(t)
    BY <1>1, <1>new, Fields DEF LocalsOf, InPool, RingGone, HasChunk, Old, Creating, PoolPcs, Nil
  <1>poolof. PoolOf(t)'
    BY <1>1, <1>flags, Fields DEF ZoneInv, PoolOf, LocalsOf, InPool, Creating, Freeing, PoolPcs, Nil
  <1>name. InPool(t) => \A n \in PoolNames : NamedBy(t, n) => NamedBy(t, n)'
    BY <1>1, <1>loc, <1>flags, Fields DEF NamedBy, Locals, HasChunk, Creating
  <1>kept. /\ (\A u \in Callers : PoolOf(u))' /\ UsersSound' /\ UsesSound' /\ NamesSound'
           /\ \A x \in Addrs : RingAt(x)' <=> RingAt(x)
    BY <1>1, <1>loc, <1>flags, <1>poolof, <1>name, MemoryKept
  <1>mp. PICK mp \in Addrs \cup {Nil} : mp = loc[t].mp
    BY Fields
  <1>rest. Untouched(mp) /\ loc[t].mp \in {mp, Nil} /\ loc'[t].mp \in {mp, Nil}
    BY <1>1, <1>mp, <1>flags DEF Untouched
  <1>rings. RingsListed'
    <2>1. ~Unlinking(t) /\ ~Unlinking(t)'
      BY <1>1, <1>flags DEF Unlinking
    <2> QED BY <1>1, <1>loc, <1>kept, <2>1, RingsListedStep DEF ZoneInv
  <1>listed. PoolsListed'
    <2>1. PICK i \in DOMAIN pool_list : i = Find(pool_list, loc[t].mp) /\ pool_list[i].data = loc[t].mp
      BY <1>1, FindEntry DEF ListInv, RegTypes
    <2>2. PICK e : e = pool_list[i]
      OBVIOUS
    <2>3. Entries(pool_list)' = Entries(pool_list) \ {e} /\ e \in Entries(pool_list) /\ e.data = mp /\ e \in Entry
      <3>1. /\ Entries(Drop(pool_list, i)) = Entries(pool_list) \ {pool_list[i]} /\ pool_list[i] \in Entries(pool_list)
            /\ pool_list[i] \in Entry
        BY DropList DEF ListInv, RegTypes, TesSound
      <3> QED BY <1>1, <1>mp, <2>1, <2>2, <3>1 DEF Entries
    <2>4. mp \in Addrs
      BY <2>3 DEF Entry
    <2>5. InPool(t) /\ ~Listed(t)'
      BY <1>1, <1>mp, <1>flags, <2>4, NilNotAddr DEF Listed, InPool, Creating
    <2>6. ~ListedAt(mp)'
      <3>1. \A u \in Callers : loc'[u].mp = mp => u = t
        BY <1>mp, <1>loc, <1>flags, <2>5 DEF ZoneInv, UsersSound, Others
      <3>2. <<"pool", mp>> \notin owned'
        BY <1>1, <1>mp DEF ZoneInv, UsersSound
      <3> QED BY <1>mp, <1>flags, <2>5, <3>1, <3>2 DEF ListedAt
    <2>7. \A x \in Addrs \ {mp} : ListedAt(x)' <=> ListedAt(x)
      BY <1>loc, <1>rest, ListedElsewhere
    <2>8. \A f \in Entries(pool_list) : f.data = mp => f = e
      BY <2>3 DEF ZoneInv, PoolsListed
    <2> QED BY <2>3, <2>4, <2>6, <2>7, <2>8 DEF ZoneInv, PoolsListed
  <1> QED BY <1>kept, <1>rings, <1>listed DEF ZoneInv

LEMMA PoolFreeZoneZones ==
  ASSUME ListInv, ListInv', ZoneInv, NEW t \in Callers, PoolFreeZone(t)
  PROVE  ZoneInv'
  <1>1. /\ loc[t].pc = "pf_zone"
        /\ UNCHANGED <<qlock, mplock, te_used, ring_list, pool_list, owned>>
        /\ zone' = [zone EXCEPT ![loc[t].mp] = <<>>]
        /\ pool' = [pool EXCEPT ![loc[t].mp] = NoPool]
        /\ loc' = [loc EXCEPT ![t] = Returned]
    BY DEF PoolFreeZone, memory, lists, Leave
  <1>mp. PICK mp \in Addrs : mp = loc[t].mp
    BY <1>1, Fields DEF InPool, LocalsOf, PoolPcs
  <1>loc. loc'[t] = Returned /\ Others(t)
    BY <1>1 DEF ListInv, RegTypes, Others
  <1>new. /\ loc[t].mp = mp /\ loc'[t].mp = Nil /\ loc[t].mp \in {mp, Nil} /\ loc'[t].mp \in {mp, Nil} /\ mp \in Addrs \cup {Nil}
          /\ loc'[t].pc = "idle"
    BY <1>mp, <1>loc, Fields, NilNotAddr DEF Returned, InPool, LocalsOf, FreePcs
  <1>flags. /\ InPool(t) /\ ~InPool(t)' /\ RingGone(t) /\ ~RingGone(t)' /\ ~HasChunk(t) /\ ~HasChunk(t)'
            /\ ~Old(t) /\ ~Old(t)' /\ ~Unlinking(t) /\ ~Unlinking(t)' /\ ~Listed(t) /\ ~Listed(t)'
    BY <1>1, <1>mp, <1>new, NilNotAddr DEF RingGone, HasChunk, Old, Unlinking, Listed, InPool, Creating
  <1>pool. pool'[mp] = NoPool /\ pool[mp].chunks = {}
    BY <1>1, <1>mp, <1>new, NilNotAddr DEF ListInv, RegTypes, NoPool, ZoneInv, PoolOf, InPool
  <1>rest. Untouched(mp)
    BY <1>1, <1>mp DEF Untouched, ListInv, RegTypes
  <1>alone. Alone(t, mp)
    BY <1>1, <1>mp, <1>new DEF ZoneInv, UsersSound, InPool, Alone
  <1>users. UsersSound'
    <2>1. <<"pool", Nil>> \notin owned'
      BY <1>1, NilNotAddr DEF ListInv, RegTypes
    <2>2. <<"pool", mp>> \notin owned'
      BY <1>1, <1>mp, <1>new, NilNotAddr DEF ListInv, RegTypes, ZoneInv, UsersSound
    <2> QED BY <1>loc, <1>new, <1>rest, <1>alone, <2>1, <2>2, UsersStep DEF ZoneInv
  <1>live. Live(mp) /\ ~Live(mp)' /\ ~RingAlive(mp) /\ ~RingAlive(mp)'
    <2>1. (UsersSound /\ ListInv => MineFacts)' /\ (UsersSound /\ ListInv => IdleFacts)'
      BY Mine, Idle, PTL
    <2>2. MineFacts /\ MineFacts' /\ IdleFacts /\ IdleFacts'
      BY <1>users, <2>1, Mine, Idle DEF ZoneInv
    <2>3. ~Live(mp)' /\ ~RingAlive(mp)'
      <3>1. \A u \in Callers : loc'[u].mp # mp
        BY <1>mp, <1>loc, <1>new, <1>alone, NilNotAddr DEF Others, Alone
      <3>2. <<"pool", mp>> \notin owned'
        BY <1>1, <1>mp, <1>new DEF ZoneInv, UsersSound
      <3> QED BY <3>1, <3>2 DEF Live, RingAlive
    <2> QED BY <1>1, <1>mp, <1>new, <1>pool, <1>flags, <2>2, <2>3, NilNotAddr DEF MineFacts, IdleFacts
  <1>was. <<"pool", mp, mp>> \in Uses
    <2>1. Use("pool", mp, mp)
      BY <1>live DEF Use
    <2> QED BY <2>1, UsesAre DEF Kinds
  <1>only. \A r \in Uses : r[3] = mp => r = <<"pool", mp, mp>>
    BY <1>was DEF ZoneInv, UsesSound, Agree
  <1>U. PICK U : U = Uses \ {<<"pool", mp, mp>>}
    OBVIOUS
  <1>types. U \in SUBSET Triples /\ Uses \in SUBSET Triples
    BY <1>U, <1>mp, <1>new, UsesAre DEF Triples, Kinds
  <1>uses. Uses' = U
    <2>1. ASSUME NEW x \in Addrs
          PROVE  /\ \A h \in Addrs \cup Callers : Use("own", h, x)' <=> <<"own", h, x>> \in U
                 /\ mp \in Addrs => /\ Use("pool", mp, x)' <=> <<"pool", mp, x>> \in U
                                    /\ Use("ring", mp, x)' <=> <<"ring", mp, x>> \in U
                                    /\ Use("chunk", mp, x)' <=> <<"chunk", mp, x>> \in U
                 /\ Use("new", t, x)' <=> <<"new", t, x>> \in U
                 /\ Use("old", t, x)' <=> <<"old", t, x>> \in U
      <3>1. \A k \in Kinds, h \in Addrs \cup Callers : <<k, h, x>> \in Uses <=> Use(k, h, x)
        BY UsesAre
      <3>2. \A h \in Addrs \cup Callers : Use("own", h, x)' <=> <<"own", h, x>> \in U
        BY <1>1, <1>U, <3>1 DEF Use, Kinds
      <3>3. Use("pool", mp, x)' <=> <<"pool", mp, x>> \in U
        BY <1>live, <1>pool, <1>U, <3>1 DEF Use, Kinds
      <3>4. Use("ring", mp, x)' <=> <<"ring", mp, x>> \in U
        BY <1>live, <1>pool, <1>U, <3>1 DEF Use, Kinds
      <3>5. Use("chunk", mp, x)' <=> <<"chunk", mp, x>> \in U
        BY <1>live, <1>pool, <1>U, <3>1 DEF Use, Kinds
      <3>6. Use("new", t, x)' <=> <<"new", t, x>> \in U
        BY <1>new, <1>flags, <1>U, <3>1 DEF Use, Kinds
      <3>7. Use("old", t, x)' <=> <<"old", t, x>> \in U
        BY <1>new, <1>flags, <1>U, <3>1 DEF Use, Kinds, Old
      <3> QED BY <3>2, <3>3, <3>4, <3>5, <3>6, <3>7
    <2>2. RestIn(t, mp, U) /\ MineIn(t, mp, U)
      BY <1>U, <2>1 DEF RestIn, MineIn
    <2>3. Others(t) /\ loc[t].mp \in {mp, Nil} /\ loc'[t].mp \in {mp, Nil} /\ mp \in Addrs \cup {Nil}
      BY <1>loc, <1>new
    <2> QED BY <1>rest, <1>types, <2>2, <2>3, UsesStep
  <1>agree. Agree(U, zone')
    <2>1. PICK u : u = <<"pool", mp, mp>>
      OBVIOUS
    <2>2. u \in Uses /\ u[3] = mp
      BY <1>was, <2>1
    <2>3. zone' = [zone EXCEPT ![mp] = <<>>] /\ DOMAIN zone = Addrs
      BY <1>1, <1>mp, <1>new DEF ListInv, RegTypes
    <2>4. Agree(Uses \ {u}, [zone EXCEPT ![u[3]] = <<>>])
      BY <1>types, <2>2, <2>3, AgreeDrop DEF ZoneInv, UsesSound
    <2> QED BY <1>U, <2>1, <2>2, <2>3, <2>4
  <1>other. Changes(t, mp, mp)
    BY <1>1, <1>mp, <1>new, <1>only DEF ListInv, RegTypes, Changes
  <1>poolof. PoolOf(t)'
    BY <1>1, <1>mp, <1>new, <1>flags, <1>pool, NilNotAddr DEF PoolOf, Creating, Freeing, ZoneInv
  <1>listed. PoolsListed'
    <2>1. ~ListedAt(mp) /\ ~ListedAt(mp)'
      BY <1>1, <1>mp, <1>loc, <1>new, <1>flags, <1>alone, NilNotAddr DEF ListedAt, Others, Alone, ZoneInv, UsersSound
    <2> QED BY <1>1, <1>loc, <1>new, <1>rest, <2>1, PoolsListedStep DEF ZoneInv
  <1>rings. RingsListed'
    <2>1. \A r : r[1] \in {"own", "ring", "old"} => (r \in U <=> r \in Uses)
      BY <1>U
    <2>2. \A x \in Addrs : RingAt(x)' <=> RingAt(x)
      BY <1>uses, <2>1 DEF RingAt
    <2> QED BY <1>1, <1>loc, <1>flags, <2>2, RingsListedStep DEF ZoneInv
  <1>names. NamedAfter(mp)
    BY <1>live DEF NamedAfter
  <1> QED BY <1>loc, <1>new, <1>rest, <1>alone, <1>users, <1>uses, <1>agree, <1>other, <1>names, <1>poolof, <1>listed, <1>rings, ZoneStep
-----------------------------------------------------------------------------
LEMMA InitZones == RegInit => ZoneInv
  <1> SUFFICES ASSUME RegInit PROVE ZoneInv
    OBVIOUS
  <1>1. \A t \in Callers : loc[t] = Returned /\ ~InPool(t) /\ loc[t].mp = Nil /\ loc[t].pc = "idle"
    BY DEF RegInit, Returned, InPool
  <1>2. \A a \in Addrs : ~Live(a) /\ ~RingAlive(a) /\ ~ListedAt(a)
    BY <1>1, NilNotAddr DEF RegInit, Live, RingAlive, ListedAt
  <1>3. (\A t \in Callers : PoolOf(t)) /\ UsersSound
    BY <1>1 DEF RegInit, PoolOf, UsersSound
  <1>4. Uses = {}
    <2>1. ASSUME NEW r \in Uses PROVE FALSE
      <3>1. Use(r[1], r[2], r[3]) /\ r[3] \in Addrs
        BY UsesAre
      <3> QED BY <1>1, <1>2, <3>1 DEF RegInit, Use, HasChunk, Creating
    <2> QED BY <2>1
  <1>5. UsesSound
    BY <1>4 DEF RegInit, UsesSound, Agree
  <1>6. NamesSound
    BY <1>2 DEF NamesSound
  <1>7. Entries(ring_list) = {} /\ Entries(pool_list) = {}
    BY DEF RegInit, Entries
  <1>8. PoolsListed
    BY <1>2, <1>7 DEF PoolsListed
  <1>9. \A x \in Addrs : EntriesAt(x) = {} /\ Claims(x) = {}
    BY <1>1, <1>4, <1>7 DEF EntriesAt, Claims, RingAt
  <1>10. RingsListed
    BY <1>9 DEF RingsListed
  <1> QED BY <1>3, <1>5, <1>6, <1>8, <1>10 DEF ZoneInv

LEMMA StepZones == ListInv /\ ListInv' /\ ZoneInv /\ [RegNext]_reg_vars => ZoneInv'
  <1> SUFFICES ASSUME ListInv, ListInv', ZoneInv, [RegNext]_reg_vars PROVE ZoneInv'
    OBVIOUS
  <1>1. CASE UNCHANGED reg_vars
    <2>1. (\A t \in Callers : PoolOf(t))' /\ UsersSound'
      BY <1>1 DEF reg_vars, ZoneInv, PoolOf, UsersSound, InPool
    <2>2. \A a : (Live(a)' <=> Live(a)) /\ (RingAlive(a)' <=> RingAlive(a)) /\ (ListedAt(a)' <=> ListedAt(a))
      BY <1>1 DEF reg_vars, Live, RingAlive, RingGone, InPool, ListedAt, Listed
    <2>3. \A k, h, x : Use(k, h, x)' <=> Use(k, h, x)
      BY <1>1, <2>2 DEF reg_vars, Use, HasChunk, InPool
    <2>4. Uses' = Uses
      BY <2>3 DEF Uses
    <2>5. UsesSound'
      BY <1>1, <2>4 DEF reg_vars, ZoneInv, UsesSound, Agree
    <2>6. NamesSound'
      BY <1>1, <2>2 DEF reg_vars, ZoneInv, NamesSound, PoolNamed, NamedBy, HasChunk, InPool
    <2>7. PoolsListed'
      BY <1>1, <2>2 DEF reg_vars, ZoneInv, PoolsListed, Entries
    <2>8. RingsListed'
      BY <1>1, <2>4 DEF reg_vars, ZoneInv, RingsListed, EntriesAt, Entries, Claims, RingAt
    <2> QED BY <2>1, <2>5, <2>6, <2>7, <2>8 DEF ZoneInv
  <1>2. ASSUME NEW t \in Callers, RegStep(t) PROVE ZoneInv'
    BY <1>2, RingTeZones, RingLockZones, RingZoneZones, RingFreeZoneZones, RingUnlinkZones,
       RingFreeTeZones, PoolTeZones, PoolZoneZones, PoolInsertZones, PopulateZones, PoolRingZones,
       PopulatePhyZones, PhyFailZones, FreeMemchunkZones, PoolUnlinkZones, PoolFreeZoneZones,
       RingsNextZones, PoolsNextZones DEF RegStep
  <1>3. ASSUME NEW t \in Callers, RegCall(t) PROVE ZoneInv'
    BY <1>3, RingCreateZones, PoolCreateZones, RingFreeZones, PoolFreeZones, RingsReadZones,
       PoolsReadZones DEF RegCall
  <1> QED BY <1>1, <1>2, <1>3 DEF RegNext

LEMMA ZonesAlways == RegSpec => [](ListInv /\ ZoneInv)
  BY InitLists, InitZones, StepLists, StepZones, PTL DEF RegSpec

LEMMA RingsAre ==
  ASSUME ListInv, ZoneInv, NEW x \in Addrs, RingAt(x)
  PROVE  \E e \in Entries(ring_list) : e.data = x
  <1>1. Claims(x) # {} /\ Cardinality(EntriesAt(x)) = Cardinality(Claims(x))
    BY DEF Claims, ZoneInv, RingsListed
  <1>2. EntriesAt(x) # {}
    BY <1>1, FiniteSides, FS_EmptySet
  <1> QED BY <1>2 DEF EntriesAt

LEMMA PoolsFollow == ListInv /\ ZoneInv => PoolsIntact
  <1> SUFFICES ASSUME ListInv, ZoneInv, NEW a \in Pools
               PROVE  /\ zone[a] # <<>> /\ zone[a][1] = "MP"
                      /\ zone[pool[a].ring] = <<"RG">> \o zone[a]
                      /\ \A b \in pool[a].chunks : Len(zone[b]) = 3 /\ <<zone[b][1], zone[b][2]>> = zone[a]
                      /\ \E e \in Entries(ring_list) : e.data = pool[a].ring
    BY DEF PoolsIntact
  <1>1. a \in Addrs /\ <<"pool", a>> \in owned
    BY DEF Pools
  <1>2. Live(a) /\ RingAlive(a) /\ pool[a].ring # Nil
    BY <1>1, Idle DEF IdleFacts, ZoneInv
  <1>3. PICK n \in PoolNames : PoolNamed(a, n)
    BY <1>1, <1>2 DEF ZoneInv, NamesSound
  <1>4. zone[a] = MP(n) /\ zone[pool[a].ring] = RGMP(n) /\ \A b \in pool[a].chunks : \E k \in Nat : zone[b] = Chunk(n, k)
    BY <1>2, <1>3 DEF PoolNamed
  <1>5. zone[a] # <<>> /\ zone[a][1] = "MP" /\ zone[pool[a].ring] = <<"RG">> \o zone[a]
    BY <1>4, Forms
  <1>6. ASSUME NEW b \in pool[a].chunks
        PROVE  Len(zone[b]) = 3 /\ <<zone[b][1], zone[b][2]>> = zone[a]
    <2>1. PICK k \in Nat : zone[b] = Chunk(n, k)
      BY <1>4
    <2>2. Len(<<"MP", n, k>>) = 3 /\ <<"MP", n, k>>[1] = "MP" /\ <<"MP", n, k>>[2] = n
      OBVIOUS
    <2> QED BY <1>4, <2>1, <2>2 DEF Chunk, MP
  <1>7. \E e \in Entries(ring_list) : e.data = pool[a].ring
    <2>1. pool[a].ring \in Addrs
      BY <1>1, <1>2 DEF ListInv, RegTypes
    <2>2. Use("ring", a, pool[a].ring)
      BY <1>1, <1>2 DEF Use
    <2>3. <<"ring", a, pool[a].ring>> \in Uses
      BY <1>1, <2>1, <2>2, UsesAre DEF Kinds
    <2>4. RingAt(pool[a].ring)
      BY <2>3 DEF RingAt
    <2> QED BY <2>1, <2>4, RingsAre
  <1> QED BY <1>5, <1>6, <1>7

LEMMA NothingFollows == ListInv /\ ZoneInv => NothingLeaked
  <1> SUFFICES ASSUME ListInv, ZoneInv, Quiet
               PROVE  /\ qlock.w = NoOne /\ mplock.w = NoOne
                      /\ {a \in Addrs : zone[a] # <<>>} = Pools \cup Rings \cup Chunks
                      /\ te_used = {e.te : e \in Entries(ring_list) \cup Entries(pool_list)}
                      /\ {e.data : e \in Entries(ring_list)} = Rings
                      /\ {e.data : e \in Entries(pool_list)} = Pools
    BY DEF NothingLeaked
  <1>1. \A t \in Callers : /\ ~InPool(t) /\ loc[t].mp = Nil /\ loc[t].pc \in {"idle", "rings", "pools"}
                           /\ ~HasTe(t) /\ ~HasChunk(t) /\ ~Listed(t) /\ ~Unlinking(t)
    BY Fields DEF Quiet, LocalsOf, InPool, FreePcs, HasTe, HasChunk, Listed, Unlinking, Creating
  <1>2. qlock.w = NoOne /\ mplock.w = NoOne
    BY <1>1 DEF ListInv, RegTypes, Lock, LocksSound
  <1>3. \A a \in Addrs : (Live(a) <=> a \in Pools) /\ (ListedAt(a) <=> a \in Pools)
    BY <1>1, NilNotAddr DEF Live, ListedAt, Pools
  <1>4. \A a \in Addrs : RingAlive(a) <=> a \in Pools
    BY <1>3, Idle DEF RingAlive, IdleFacts, ZoneInv, Pools
  <1>5. Pools \subseteq Addrs /\ \A a \in Pools : pool[a].ring \in Addrs /\ pool[a].chunks \subseteq Addrs
    BY Idle DEF Pools, ListInv, RegTypes, ZoneInv, IdleFacts
  <1>6. Rings \subseteq Addrs /\ Chunks \subseteq Addrs
    BY <1>5 DEF Rings, PoolRings, Chunks
  <1>7. \A x \in Addrs : RingAt(x) <=> x \in Rings
    <2>1. ASSUME NEW x \in Addrs, RingAt(x) PROVE x \in Rings
      <3>1. PICK r \in Uses : r[3] = x /\ r[1] \in {"own", "ring", "old"}
        BY <2>1 DEF RingAt
      <3>2. Use(r[1], r[2], x)
        BY <3>1, UsesAre
      <3> QED BY <1>1, <1>4, <3>1, <3>2 DEF Use, Rings, PoolRings
    <2>2. ASSUME NEW x \in Addrs, <<"ring", x>> \in owned PROVE RingAt(x)
      <3>1. Use("own", x, x)
        BY <2>2 DEF Use
      <3>2. <<"own", x, x>> \in Uses
        BY <3>1, UsesAre DEF Kinds
      <3> QED BY <3>2 DEF RingAt
    <2>3. ASSUME NEW x \in Addrs, NEW a \in Pools, x = pool[a].ring PROVE RingAt(x)
      <3>1. Use("ring", a, x)
        BY <1>4, <1>5, <2>3 DEF Use
      <3>2. <<"ring", a, x>> \in Uses
        BY <1>5, <3>1, UsesAre DEF Kinds
      <3> QED BY <3>2 DEF RingAt
    <2> QED BY <2>1, <2>2, <2>3 DEF Rings, PoolRings
  <1>8. \A x \in Addrs : (\E r \in Uses : r[3] = x) <=> x \in Pools \cup Rings \cup Chunks
    <2>1. ASSUME NEW x \in Addrs, NEW r \in Uses, r[3] = x PROVE x \in Pools \cup Rings \cup Chunks
      <3>1. Use(r[1], r[2], x)
        BY <2>1, UsesAre
      <3>2. CASE r[1] \in {"own", "ring", "old"}
        BY <1>7, <2>1, <3>2 DEF RingAt
      <3>3. CASE r[1] \notin {"own", "ring", "old"}
        BY <1>1, <1>3, <3>1, <3>3 DEF Use, Chunks
      <3> QED BY <3>2, <3>3
    <2>2. ASSUME NEW x \in Addrs, x \in Rings PROVE \E r \in Uses : r[3] = x
      BY <1>7, <2>2 DEF RingAt
    <2>3. ASSUME NEW x \in Pools PROVE \E r \in Uses : r[3] = x
      <3>1. Use("pool", x, x)
        BY <1>3, <1>5 DEF Use
      <3>2. <<"pool", x, x>> \in Uses
        BY <1>5, <3>1, UsesAre DEF Kinds
      <3> QED BY <3>2
    <2>4. ASSUME NEW x \in Chunks PROVE \E r \in Uses : r[3] = x
      <3>1. PICK a \in Pools : x \in pool[a].chunks
        BY DEF Chunks
      <3>2. Use("chunk", a, x)
        BY <1>3, <1>5, <3>1 DEF Use
      <3>3. <<"chunk", a, x>> \in Uses
        BY <1>5, <1>6, <3>2, UsesAre DEF Kinds
      <3> QED BY <3>3
    <2> QED BY <2>1, <2>2, <2>3, <2>4
  <1>9. {a \in Addrs : zone[a] # <<>>} = Pools \cup Rings \cup Chunks
    BY <1>5, <1>6, <1>8 DEF ZoneInv, UsesSound, Agree
  <1>10. te_used = {e.te : e \in Entries(ring_list) \cup Entries(pool_list)}
    BY <1>1 DEF ListInv, TesSound, TesOf, HeldTes
  <1>11. {e.data : e \in Entries(ring_list)} = Rings
    <2>1. ASSUME NEW x \in Rings PROVE \E e \in Entries(ring_list) : e.data = x
      BY <1>6, <1>7, RingsAre
    <2>2. ASSUME NEW e \in Entries(ring_list) PROVE e.data \in Rings
      <3>1. PICK x \in Addrs : x = e.data
        <4>1. PICK i \in DOMAIN ring_list : e = ring_list[i]
          BY DEF Entries
        <4>2. ring_list \in Seq(Entry)
          BY DEF ListInv, RegTypes
        <4>3. e \in Entry
          BY <4>1, <4>2
        <4> QED BY <4>3 DEF Entry
      <3>2. EntriesAt(x) # {} /\ Cardinality(EntriesAt(x)) = Cardinality(Claims(x))
        BY <3>1 DEF EntriesAt, ZoneInv, RingsListed
      <3>3. Claims(x) # {}
        BY <3>2, FiniteSides, FS_EmptySet
      <3>4. RingAt(x)
        BY <1>1, <3>3 DEF Claims, Unlinking
      <3> QED BY <1>7, <3>1, <3>4
    <2> QED BY <2>1, <2>2
  <1>12. {e.data : e \in Entries(pool_list)} = Pools
    BY <1>3, <1>5 DEF ZoneInv, PoolsListed
  <1> QED BY <1>2, <1>9, <1>10, <1>11, <1>12

(* The counts of RingsListed: who is about to unlink an entry, and nobody  *)
(* else where the memory is free.                                          *)
LEMMA EntriesFollow == ListInv /\ ZoneInv => EntriesAnswered
  <1> SUFFICES ASSUME ListInv, ZoneInv, NEW a \in Addrs
               PROVE  LET entries == Cardinality({e \in Entries(ring_list) : e.data = a})
                          stale == Cardinality({t \in Callers : loc[t].pc = "rf_unlink" /\ loc[t].ring = a})
                      IN entries - stale \in IF zone[a] = <<>> THEN {0} ELSE {0, 1}
    BY DEF EntriesAnswered
  <1> DEFINE freers == {t \in Callers : loc[t].pc = "rf_unlink" /\ loc[t].ring = a}
  <1>1. IsFiniteSet(freers) /\ NoOne \notin freers
    BY FS_Subset, RegistryAssumption
  <1>2. Cardinality(freers) \in Nat
    BY <1>1, FS_CardinalityType
  <1>3. Cardinality(EntriesAt(a)) = Cardinality(Claims(a))
    BY DEF ZoneInv, RingsListed
  <1>4. CASE RingAt(a)
    <2>1. Claims(a) = freers \cup {NoOne}
      BY <1>4 DEF Claims
    <2>2. Cardinality(Claims(a)) = Cardinality(freers) + 1
      BY <1>1, <2>1, FS_AddElement
    <2>3. zone[a] # <<>>
      BY <1>4 DEF RingAt, ZoneInv, UsesSound, Agree
    <2> QED BY <1>2, <1>3, <2>2, <2>3 DEF EntriesAt
  <1>5. CASE ~RingAt(a)
    <2>1. Claims(a) = freers
      BY <1>5 DEF Claims
    <2> QED BY <1>2, <1>3, <2>1 DEF EntriesAt
  <1> QED BY <1>4, <1>5

(* The lists of rings and mempools, for any callers: no entry is in two    *)
(* places or freed while it is linked; an entry of a ring whose memory was *)
(* given back is one that rte_ring_free has still to unlink; and           *)
(* rte_ring_lookup and rte_ring_list_dump never stand on an entry that     *)
(* rte_ring_free unlinked.                                                 *)
THEOREM ListsStaySound == RegSpec => []ListsSound
  <1>1. ListInv /\ ZoneInv => ListsSound
    BY ListsFollow, EntriesFollow DEF ListsSound
  <1> QED BY ZonesAlways, ListsAlways, <1>1, PTL

(* A mempool that rte_mempool_create returned keeps its ring and its       *)
(* chunks until rte_mempool_free is called for it, for any callers and any *)
(* number of places: each is a memzone under the mempool's own name, and   *)
(* the ring is in the list, although rte_ring_free gives the memory of     *)
(* another ring back, for reuse, before it unlinks that ring.              *)
THEOREM PoolsStayIntact == RegSpec => []PoolsIntact
  BY ZonesAlways, PoolsFollow, PTL

(* Whenever no creation and no free is under way, every memzone and every  *)
(* list entry belongs to a ring or a mempool that somebody can still free, *)
(* and no lock is held by a writer: the error paths of rte_ring_create,    *)
(* rte_mempool_create_empty and rte_mempool_populate_default, taken at any *)
(* allocation and beside any other calls, give everything back.            *)
THEOREM NothingIsLeaked == RegSpec => []NothingLeaked
  BY ZonesAlways, NothingFollows, PTL
=============================================================================
