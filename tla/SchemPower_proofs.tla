------------------------- MODULE SchemPower_proofs --------------------------
(***************************************************************************)
(* What is left when a write stops in the middle, for every image size,    *)
(* table length and order in which sectors reach the medium: never a GPT   *)
(* made of an old header and a new table, or of a new one and an old one.  *)
(***************************************************************************)
EXTENDS SchemSave_proofs

\* No image the program starts on has a table this code refuses.
OwnTables ==
  \A d \in InitDisks : \A l \in Lbas :
    LET h == HdrIn(d.sectors[l])
    IN  h.kind = "hdr" => part_cnt(h) <= gpt_max_part_cnt

Small(h) == h.kind = "hdr" => part_cnt(h) \in 0 .. gpt_max_part_cnt

-----------------------------------------------------------------------------
(* The headers a write stores describe the GPT in memory, or one that a     *)
(* header of the image described already: that is erased, or made whole    *)
(* again.                                                                  *)

HdrOf(v, G) ==
  LET h == HdrIn(v) IN h.kind = "hdr" => Described(h) \in G /\ Small(h)

HdrPuts(s, G) == \A k \in 1 .. Len(s) : HdrOf(s[k].val, G)

\* What is in a sector, with the signature and without.
LEMMA HdrKinds ==
  ASSUME NEW v, NEW G
  PROVE  /\ v.kind # "erased" => HdrIn(v) = v
         /\ v.kind \notin {"hdr", "erased"} => HdrOf(v, G) /\ Small(HdrIn(v))
         /\ HdrIn(Erased(v)) = v
         /\ v.kind = "hdr" /\ HdrOf(v, G) => HdrOf(Erased(v), G)
         /\ v.kind = "hdr" /\ Described(v) \in G /\ Small(v) => HdrOf(v, G)
         /\ v.kind = "erased" /\ v.hdr.kind = "hdr" /\ HdrOf(v, G) => HdrOf(v.hdr, G)
  BY DEF HdrOf, HdrIn, Erased, Small

LEMMA HdrConcat ==
  ASSUME NEW s, NEW t, IsSeq(s), IsSeq(t), NEW G, HdrPuts(s, G), HdrPuts(t, G)
  PROVE  HdrPuts(s \o t, G)
<1> DEFINE u == s \o t
<1>1. /\ Len(s) \in Nat /\ Len(t) \in Nat /\ Len(u) = Len(s) + Len(t)
      /\ \A k \in 1 .. Len(s) : u[k] = s[k]
      /\ \A k \in Len(s) + 1 .. Len(u) : k - Len(s) \in 1 .. Len(t) /\ u[k] = t[k - Len(s)]
  BY SeqConcat, SeqFacts
<1> HIDE DEF u
<1>2. \A k \in 1 .. Len(u) : k \in 1 .. Len(s) \/ k \in Len(s) + 1 .. Len(u)
  BY <1>1
<1>3. HdrPuts(u, G)
  BY <1>1, <1>2 DEF HdrPuts
<1> QED
  BY <1>3 DEF u

LEMMA HeaderDescribes ==
  ASSUME NEW g, GptFits(g), NEW G, g \in G,
         NEW my, NEW alt \in Lbas \ {0}, NEW tl \in Nat \ {0},
         \A i \in Slots : tl + i \in Lbas
  PROVE  HdrOf(GptHdr(my, alt, tl, g), G)
<1> DEFINE h == GptHdr(my, alt, tl, g)
<1>1. HeaderFits(GptHdr(my, alt, tl, g), my, alt, tl, g)
  BY ONLY \A i \in Slots : tl + i \in Lbas, GptFits(g), alt \in Lbas \ {0},
          tl \in Nat \ {0}, Header
<1> HIDE DEF h
<1>2. /\ h.kind = "hdr" /\ h.id = g.id /\ h.first = g.first /\ h.last = g.last
      /\ part_cnt(h) \in 0 .. gpt_max_part_cnt
      /\ DOMAIN g.tab = DOMAIN h.entries
      /\ \A i \in DOMAIN h.entries : h.entries[i] = Ent(g.tab[i])
  BY <1>1 DEF HeaderFits, h
<1>3. ASSUME NEW v PROVE PartOf(Ent(v)) = v
  BY DEF PartOf, Ent
<1>4. g = GptSchem(g.id, g.first, g.last, g.tab) /\ g.tab = [i \in DOMAIN g.tab |-> g.tab[i]]
  BY DEF GptFits, IsGpt
<1>5. [i \in DOMAIN h.entries |-> PartOf(h.entries[i])] = g.tab
  <2>1. \A i \in DOMAIN h.entries : PartOf(h.entries[i]) = g.tab[i]
    BY <1>2, <1>3
  <2> QED
    BY <1>2, <1>4, <2>1
<1>6. Described(h) = g
  BY <1>2, <1>4, <1>5 DEF Described
<1> QED
  BY <1>2, <1>6, HdrKinds DEF Small, h

LEMMA HdrHeader ==
  ASSUME NEW d, NEW l, NEW h, NEW G, h.kind = "hdr", HdrOf(h, G),
         WellFormedSec(d[l]), HdrOf(d[l], G)
  PROVE  IsSeq(gpt_hdr_puts(d, l, h)) /\ HdrPuts(gpt_hdr_puts(d, l, h), G)
<1> DEFINE old == HdrIn(d[l])
           r == IF d[l].kind = "erased" THEN <<Put(l, old)>> ELSE <<>>
           a == IF old = h THEN <<>> ELSE <<Put(l, Junk), Put(l, h)>>
<1>1. gpt_hdr_puts(d, l, h) = r \o a
  BY DEF gpt_hdr_puts
<1>2. IsSeq(<<>>) /\ HdrPuts(<<>>, G)
  BY SeqNone DEF HdrPuts
<1>3. IsSeq(r) /\ HdrPuts(r, G)
  <2>1. CASE d[l].kind = "erased"
    <3> DEFINE p == Put(l, old)
               b == <<p>>
    <3>1. old = d[l].hdr /\ old.kind = "hdr"
      BY <2>1, Sectors DEF WellFormedHdr
    <3>2. HdrOf(old, G)
      <4>1. HdrOf(d[l].hdr, G)
        BY <2>1, <3>1, HdrKinds
      <4> QED
        BY <3>1, <4>1
    <3>3. p.val = old
      BY DEF Put
    <3>4. IsSeq(b) /\ Len(b) = 1 /\ b[1] = p
      BY SeqShort
    <3>5. r = b
      BY <2>1
    <3> HIDE DEF r, b, p, old
    <3>6. HdrPuts(b, G)
      BY <3>2, <3>3, <3>4 DEF HdrPuts
    <3> QED
      BY <3>4, <3>5, <3>6
  <2>2. CASE d[l].kind # "erased"
    BY <1>2, <2>2
  <2> QED
    BY <2>1, <2>2
<1>4. IsSeq(a) /\ HdrPuts(a, G)
  <2> DEFINE p == Put(l, Junk)
             q == Put(l, h)
             b == <<p, q>>
  <2>1. p.val = Junk /\ q.val = h /\ Junk.kind = "junk"
    BY DEF Put, Junk
  <2>2. HdrOf(Junk, G)
    BY <2>1, HdrKinds
  <2>3. a = b \/ a = <<>>
    BY DEF a
  <2> HIDE DEF a, p, q
  <2>4. IsSeq(b) /\ Len(b) = 2 /\ b[1] = p /\ b[2] = q
    BY SeqShort
  <2> HIDE DEF b
  <2>5. \A k \in 1 .. Len(b) : b[k] = p \/ b[k] = q
    BY <2>4
  <2>6. HdrPuts(b, G)
    BY <2>1, <2>2, <2>5 DEF HdrPuts
  <2> QED
    BY <1>2, <2>3, <2>4, <2>6
<1> HIDE DEF r, a
<1>5. IsSeq(r \o a) /\ HdrPuts(r \o a, G)
  BY <1>3, <1>4, HdrConcat, SeqConcat
<1> QED
  BY <1>1, <1>5

LEMMA HdrPair ==
  ASSUME NEW n, NEW g, GptFits(g), NEW G, g \in G, NEW d,
         NEW l \in Metadata(n), NEW alt \in Lbas \ {0}, NEW tl \in Nat \ {0},
         \A i \in Slots : tl + i \in Metadata(n),
         WellFormedSec(d[l]), HdrOf(d[l], G)
  PROVE  LET s == gpt_pair_puts(d, l, tl, GptHdr(l, alt, tl, g))
         IN  IsSeq(s) /\ HdrPuts(s, G)
<1> DEFINE h == GptHdr(l, alt, tl, g)
           c == part_cnt(h)
           t == TablePuts(tl, h)
           a == gpt_hdr_puts(d, l, h)
<1>1. \A i \in Slots : tl + i \in Lbas
  BY DEF Metadata
<1>2. h.kind = "hdr" /\ WellFormedSec(h) /\ HdrOf(h, G)
  <2> HIDE DEF h
  <2>1. HdrOf(GptHdr(l, alt, tl, g), G)
    BY ONLY <1>1, GptFits(g), g \in G, alt \in Lbas \ {0}, tl \in Nat \ {0},
            HeaderDescribes
  <2>2. HeaderFits(GptHdr(l, alt, tl, g), l, alt, tl, g)
    BY ONLY <1>1, GptFits(g), alt \in Lbas \ {0}, tl \in Nat \ {0}, Header
  <2> QED
    BY <2>1, <2>2 DEF h, HeaderFits
<1>3. IsSeq(t) /\ HdrPuts(t, G)
  <2>1. TableStores(TablePuts(tl, GptHdr(l, alt, tl, g)), n, tl, g)
    BY ONLY \A i \in Slots : tl + i \in Metadata(n), GptFits(g),
            alt \in Lbas \ {0}, tl \in Nat \ {0}, Table
  <2>2. HeaderFits(GptHdr(l, alt, tl, g), l, alt, tl, g)
    BY ONLY <1>1, GptFits(g), alt \in Lbas \ {0}, tl \in Nat \ {0}, Header
  <2>3. t = [k \in 1 .. c |-> Put(tl + k - 1, h.entries[k - 1])]
    BY DEF TablePuts
  <2>4. /\ IsSeq(t)
        /\ c \in Nat
        /\ h.entries = [i \in 0 .. c - 1 |-> Ent(g.tab[i])]
    BY <2>1, <2>2, GptCntAssumption DEF TableStores, HeaderFits
  <2> HIDE DEF h, c, t
  <2>5. DOMAIN t = 1 .. c /\ DOMAIN t = 1 .. Len(t)
    BY <2>3, <2>4, SeqFacts
  <2>6. ASSUME NEW k \in 1 .. Len(t) PROVE HdrOf(t[k].val, G)
    <3>1. k \in 1 .. c /\ k - 1 \in 0 .. c - 1
      BY <2>4, <2>5
    <3>2. t[k].val = Ent(g.tab[k - 1])
      BY <2>3, <2>4, <3>1 DEF Put
    <3>3. Ent(g.tab[k - 1]).kind = "ent"
      BY DEF Ent
    <3> QED
      BY <3>2, <3>3, HdrKinds
  <2> QED
    BY <2>4, <2>6 DEF HdrPuts
<1>4. IsSeq(a) /\ HdrPuts(a, G)
  BY <1>2, HdrHeader
<1>5. gpt_pair_puts(d, l, tl, h) = a \o t
  BY DEF gpt_pair_puts
<1> HIDE DEF a, t
<1>6. IsSeq(a \o t) /\ HdrPuts(a \o t, G)
  BY <1>3, <1>4, HdrConcat, SeqConcat
<1> QED
  BY <1>5, <1>6

LEMMA HdrGpt ==
  ASSUME NEW n, InSize(n), NEW g, GptFits(g), NEW G, g \in G, NEW d, WellFormed(d),
         HdrOf(d[hdr_lba_prim], G), HdrOf(d[hdr_lba_sec(n)], G)
  PROVE  IsSeq(gpt_save_puts(d, n, g)) /\ HdrPuts(gpt_save_puts(d, n, g), G)
<1> DEFINE p == hdr_lba_prim
           q == hdr_lba_sec(n)
           tp == table_lba_prim
           tq == table_lba_sec(n)
           prim == gpt_pair_puts(d, p, tp, GptHdr(p, q, tp, g))
           sec == gpt_pair_puts(d, q, tq, GptHdr(q, p, tq, g))
<1>1. gpt_save_puts(d, n, g) = sec \o prim
  BY DEF gpt_save_puts
<1>2. /\ p \in Metadata(n) /\ q \in Metadata(n)
      /\ p \in Lbas \ {0} /\ q \in Lbas \ {0} /\ tp \in Nat \ {0} /\ tq \in Nat \ {0}
      /\ \A i \in Slots : tp + i \in Metadata(n)
      /\ \A i \in Slots : tq + i \in Metadata(n)
  <2>1. 0 \in Slots /\ gpt_max_part_cnt \in Nat \ {0}
    BY GptCntAssumption DEF Slots
  <2>2. tq + 0 > 2 + gpt_max_part_cnt
    BY <2>1, GptPlaces DEF Slots
  <2> QED
    BY <2>1, <2>2, GptPlaces DEF Metadata, Slots
<1>5. /\ WellFormedSec(d[p]) /\ HdrOf(d[p], G)
      /\ WellFormedSec(d[q]) /\ HdrOf(d[q], G)
  BY <1>2 DEF WellFormed
<1> HIDE DEF p, q, tp, tq
<1>3. IsSeq(prim) /\ HdrPuts(prim, G)
  BY ONLY <1>2, <1>5, GptFits(g), g \in G, HdrPair
<1>4. IsSeq(sec) /\ HdrPuts(sec, G)
  BY ONLY <1>2, <1>5, GptFits(g), g \in G, HdrPair
<1> HIDE DEF prim, sec
<1> QED
  BY <1>1, <1>3, <1>4, HdrConcat, SeqConcat

\* Stores that leave no new header behind.
LEMMA HdrNone ==
  ASSUME NEW n, InSize(n), NEW d, WellFormed(d), NEW G,
         HdrOf(d[hdr_lba_prim], G), HdrOf(d[hdr_lba_sec(n)], G)
  PROVE  /\ IsSeq(<<>>) /\ HdrPuts(<<>>, G)
         /\ IsSeq(gpt_remove_puts(d, n)) /\ HdrPuts(gpt_remove_puts(d, n), G)
         /\ \A m \in MbrSchemes :
              IsSeq(mbr_save_puts(d, m)) /\ HdrPuts(mbr_save_puts(d, m), G)
<1>1. IsSeq(<<>>) /\ HdrPuts(<<>>, G)
  BY SeqNone DEF HdrPuts
<1>2. ASSUME NEW l, HdrOf(d[l], G) PROVE IsSeq(Erase(d, l)) /\ HdrPuts(Erase(d, l), G)
  <2> DEFINE p == Put(l, Wiped(d[l]))
             b == <<p>>
  <2>1. HdrOf(p.val, G)
    <3>1. p.val = Wiped(d[l])
      BY DEF Put
    <3>2. HdrOf(Junk, G)
      BY HdrKinds DEF Junk
    <3>3. CASE d[l].kind = "hdr"
      BY <1>2, <3>1, <3>3, WipedIs, HdrKinds
    <3>4. CASE d[l].kind # "hdr"
      BY <1>2, <3>1, <3>2, <3>4, WipedIs
    <3> QED
      BY <3>3, <3>4
  <2>2. Erase(d, l) = b
    BY DEF Erase
  <2> HIDE DEF p
  <2>3. IsSeq(b) /\ Len(b) = 1 /\ b[1] = p
    BY SeqShort
  <2> HIDE DEF b
  <2>4. HdrPuts(b, G)
    BY <2>1, <2>3 DEF HdrPuts
  <2> QED
    BY <2>2, <2>3, <2>4
<1>3. gpt_remove_puts(d, n) = Erase(d, hdr_lba_prim) \o Erase(d, hdr_lba_sec(n))
  BY EraseTwo
<1>4. IsSeq(gpt_remove_puts(d, n)) /\ HdrPuts(gpt_remove_puts(d, n), G)
  BY <1>2, <1>3, HdrConcat, SeqConcat
<1>5. ASSUME NEW m \in MbrSchemes
      PROVE  IsSeq(mbr_save_puts(d, m)) /\ HdrPuts(mbr_save_puts(d, m), G)
  <2> DEFINE s == mbr_save_puts(d, m)
             U(k) == MbrSchem([i \in 0 .. mbr_max_part_cnt - 1 |->
                                 IF i < k THEN m.types[i] ELSE d[0].types[i]])
  <2>1. IsSeq(s)
    <3>1. WellFormedSec(d[0])
      BY GptPlaces DEF WellFormed, Metadata
    <3> QED
      BY <3>1, MbrPuts
  <2>2. \A k : HdrOf(U(k), G)
    <3>1. \A k : U(k).kind = "mbr"
      BY DEF MbrSchem
    <3> QED
      BY <3>1, HdrKinds
  <2>3. HdrOf(m, G)
    <3>1. m.kind = "mbr"
      BY DEF MbrSchem, MbrSchemes
    <3> QED
      BY <3>1, HdrKinds
  <2>4. CASE d[0].kind = "mbr"
    <3>1. s = [k \in 1 .. mbr_max_part_cnt |-> Put(0, U(k))]
      BY <2>4 DEF mbr_save_puts
    <3> HIDE DEF s, U
    <3>2. DOMAIN s = 1 .. mbr_max_part_cnt /\ DOMAIN s = 1 .. Len(s)
      BY <2>1, <3>1, SeqFacts
    <3>3. \A k \in 1 .. Len(s) : s[k].val = U(k)
      BY <3>1, <3>2 DEF Put
    <3> QED
      BY <2>1, <2>2, <3>3 DEF HdrPuts, s
  <2>5. CASE d[0].kind # "mbr"
    <3> DEFINE p == Put(0, m)
    <3>1. s = <<p>> /\ p.val = m
      BY <2>5 DEF mbr_save_puts, Put
    <3> HIDE DEF s, p
    <3>2. Len(<<p>>) = 1 /\ <<p>>[1] = p
      BY SeqShort
    <3>3. HdrPuts(s, G)
      BY <2>3, <3>1, <3>2 DEF HdrPuts
    <3> QED
      BY <2>1, <3>3 DEF s
  <2> QED
    BY <2>4, <2>5
<1> QED
  BY <1>1, <1>4, <1>5

LEMMA HdrSave ==
  ASSUME NEW n, InSize(n), NEW d, WellFormed(d), NEW m \in MbrSchemes \cup {NoScheme},
         NEW g, g # NoScheme => GptFits(g), NEW G, g \in G,
         HdrOf(d[hdr_lba_prim], G), HdrOf(d[hdr_lba_sec(n)], G)
  PROVE  HdrPuts(SavePuts(d, n, m, g), G)
<1> DEFINE a == IF in_img.gpt /\ g = NoScheme THEN gpt_remove_puts(d, n) ELSE <<>>
           b == IF m # NoScheme THEN mbr_save_puts(d, m) ELSE <<>>
           c == IF g # NoScheme THEN gpt_save_puts(d, n, g) ELSE <<>>
<1>1. SavePuts(d, n, m, g) = (a \o b) \o c
  BY DEF SavePuts
<1>2. IsSeq(a) /\ HdrPuts(a, G)
  BY HdrNone
<1>3. IsSeq(b) /\ HdrPuts(b, G)
  BY HdrNone
<1>4. IsSeq(c) /\ HdrPuts(c, G)
  BY HdrNone, HdrGpt
<1> HIDE DEF a, b, c
<1>5. IsSeq(a \o b) /\ HdrPuts(a \o b, G)
  BY <1>2, <1>3, HdrConcat, SeqConcat
<1> DEFINE ab == a \o b
<1> HIDE DEF ab
<1>6. HdrPuts(ab \o c, G)
  BY <1>4, <1>5, HdrConcat DEF ab
<1> QED
  BY <1>1, <1>6 DEF ab

-----------------------------------------------------------------------------
(* What a load can find is what a header describes.                        *)

LEMMA LoadDescribed ==
  ASSUME NEW n, InSize(n), NEW d, WellFormed(d), \A l \in Lbas : Small(HdrIn(d[l]))
  PROVE  \/ gpt_load(d, n) = NoScheme
         \/ \E l \in {hdr_lba_prim, hdr_lba_sec(n)} :
              d[l].kind = "hdr" /\ gpt_load(d, n) = Described(d[l])
<1>1. ASSUME NEW l \in Lbas
      PROVE  /\ gpt_pair_load(d, l) # "fatal"
             /\ gpt_pair_load(d, l) = "ok" =>
                  /\ d[l].kind = "hdr" /\ d[l].alt_lba \in Lbas
                  /\ gpt_to_schem(d, l) = Described(d[l])
  <2> DEFINE h == d[l]
             c == part_cnt(h)
  <2>1. gpt_pair_load(d, l) # "fatal"
    <3>1. h.kind = "hdr" => part_cnt(h) \in 0 .. gpt_max_part_cnt
      BY <1>1, HdrKinds DEF Small
    <3> QED
      BY <3>1, GptCntAssumption DEF gpt_pair_load
  <2>2. ASSUME gpt_pair_load(d, l) = "ok"
        PROVE  h.kind = "hdr" /\ h.alt_lba \in Lbas /\ gpt_to_schem(d, l) = Described(h)
    <3>1. h.kind = "hdr" /\ TableAt(d, h.table_lba, c) = h.entries
      BY <2>2, PairLoads
    <3>2. h.alt_lba \in Lbas /\ DOMAIN h.entries = 0 .. c - 1
      <4>1. WellFormedHdr(h)
        BY <1>1, <3>1, Sectors DEF WellFormed
      <4> QED
        BY <4>1 DEF WellFormedHdr
    <3>3. \A i \in DOMAIN h.entries : h.entries[i] = d[h.table_lba + i]
      BY <3>1, <3>2 DEF TableAt
    <3>4. gpt_to_schem(d, l) = Described(h)
      BY <3>1, <3>3 DEF gpt_to_schem, Described
    <3> QED
      BY <3>1, <3>2, <3>4
  <2> QED
    BY <2>1, <2>2
<1>2. hdr_lba_prim \in Lbas /\ hdr_lba_sec(n) \in Lbas
  BY GptPlaces DEF Metadata
<1> QED
  BY <1>1, <1>2 DEF gpt_load

-----------------------------------------------------------------------------
(* The invariant: what each sector of the medium may hold.                 *)

HdrPlaces == {hdr_lba_prim, hdr_lba_sec(secs)}

MixInv ==
  /\ \A l \in Lbas : \A v \in stable[l] : Small(HdrIn(v))
  /\ pc \in {"saving", "sync"} =>
       \A l \in HdrPlaces : \A v \in stable[l] : HdrOf(v, before.headers \cup {gpt})
  /\ pc = "saving" => HdrPuts(todo, before.headers \cup {gpt})

\* A step that leaves the medium as it is.
LEMMA MixKept ==
  ASSUME MixInv, UNCHANGED <<disk, stable>>, pc' \notin {"saving", "sync"}
  PROVE  MixInv'
  BY DEF MixInv

LEMMA MixInit == OwnTables /\ Init => MixInv
<1> SUFFICES ASSUME OwnTables, Init PROVE MixInv
  OBVIOUS
<1>1. PICK d \in InitDisks : disk = d.sectors /\ secs = d.size
  BY DEF Init
<1>2. ASSUME NEW l \in Lbas PROVE Small(HdrIn(disk[l]))
  <2> DEFINE h == HdrIn(disk[l])
  <2>1. WellFormedSec(disk[l])
    BY <1>1, InitDisksAssumption
  <2>2. h.kind = "hdr" => WellFormedHdr(h)
    BY <2>1 DEF WellFormedSec, HdrIn
  <2>3. h.kind = "hdr" => part_cnt(h) <= gpt_max_part_cnt
    BY <1>1 DEF OwnTables
  <2> HIDE DEF h
  <2> QED
    BY <2>2, <2>3, GptCntAssumption DEF Small, WellFormedHdr, h
<1> QED
  BY <1>2 DEF Init, MixInv

LEMMA MixWrite == ASSUME SaveInv, MixInv, Write PROVE MixInv'
<1> DEFINE G == before'.headers \cup {gpt}
<1>1. /\ pc' = "saving" /\ todo' = SavePuts(disk, secs, mbr, gpt)
      /\ before' = MediumState
      /\ disk' = disk /\ secs' = secs /\ stable' = stable /\ gpt' = gpt
  BY DEF Write, img, ctx
<1>2. InSize(secs) /\ WellFormed(disk)
  BY SizeFits DEF SaveInv
<1>3. hdr_lba_prim \in Lbas /\ hdr_lba_sec(secs) \in Lbas
  BY <1>2, GptPlaces DEF Metadata
<1>4. \A l \in HdrPlaces : \A v \in stable[l] : HdrOf(v, G)
  <2>1. \A l \in Lbas : \A v \in stable[l] : Small(HdrIn(v))
    BY DEF MixInv
  <2>2. before'.headers
          = {Described(HdrIn(v)) :
               v \in stable[hdr_lba_prim] \cup stable[hdr_lba_sec(secs)]}
    BY <1>1 DEF MediumState
  <2>3. \A l \in HdrPlaces : \A v \in stable[l] : l \in Lbas /\ Described(HdrIn(v)) \in G
    BY <1>3, <2>2 DEF HdrPlaces
  <2> HIDE DEF G
  <2> QED
    BY <2>1, <2>3 DEF HdrOf
<1>5. \A l \in HdrPlaces : HdrOf(disk[l], G)
  <2>1. \A l \in HdrPlaces : disk[l] \in stable[l]
    BY <1>3 DEF HdrPlaces, SaveInv, ImageFits
  <2> HIDE DEF G
  <2> QED
    BY <1>4, <2>1
<1>6. HdrPuts(todo', G)
  <2>1. gpt \in G
    OBVIOUS
  <2> HIDE DEF G
  <2> QED
    BY <1>1, <1>2, <1>5, <2>1, HdrSave DEF SaveInv, SchemesFit, HdrPlaces
<1>7. before'.headers \cup {gpt'} = G /\ HdrPlaces' = HdrPlaces
  BY <1>1 DEF HdrPlaces
<1> HIDE DEF G
<1> QED
  BY <1>1, <1>4, <1>6, <1>7 DEF MixInv

LEMMA MixStore == ASSUME SaveInv, MixInv, Store PROVE MixInv'
<1> DEFINE p == Head(todo)
<1>1. /\ pc = "saving" /\ pc' = pc /\ todo # <<>> /\ todo' = Tail(todo)
      /\ disk' = [disk EXCEPT ![p.lba] = p.val]
      /\ stable' = IF "power" \in Faults
                   THEN [stable EXCEPT ![p.lba] = @ \cup {p.val}]
                   ELSE [stable EXCEPT ![p.lba] = {p.val}]
      /\ secs' = secs /\ gpt' = gpt /\ before' = before
  BY DEF Store, ctx
<1>2. DOMAIN disk = Lbas /\ DOMAIN stable = Lbas /\ IsSeq(todo)
  BY DEF SaveInv, ImageFits, RunFits
<1>3. /\ p = todo[1] /\ Len(todo) \in Nat \ {0} /\ Len(todo') = Len(todo) - 1
      /\ \A k \in 1 .. Len(todo') : k + 1 \in 1 .. Len(todo) /\ todo'[k] = todo[k + 1]
  BY <1>1, <1>2, SeqFacts
<1>4. HdrOf(p.val, before.headers \cup {gpt}) /\ HdrPuts(todo', before.headers \cup {gpt})
  <2> DEFINE G == before.headers \cup {gpt}
  <2>1. HdrPuts(todo, G)
    BY <1>1 DEF MixInv
  <2> HIDE DEF p, G
  <2>2. 1 \in 1 .. Len(todo) /\ \A k \in 1 .. Len(todo) : HdrOf(todo[k].val, G)
    BY <1>3, <2>1 DEF HdrPuts
  <2>3. HdrOf(p.val, G) /\ HdrPuts(todo', G)
    BY <1>3, <2>2 DEF HdrPuts
  <2> QED
    BY <2>3 DEF G
<1> HIDE DEF p
<1>5. \A l \in Lbas : \A v \in stable'[l] : v \in stable[l] \/ v = p.val
  BY <1>1, <1>2
<1>6. HdrPlaces \subseteq Lbas /\ HdrPlaces' = HdrPlaces
  BY <1>1, SizeFits, GptPlaces DEF HdrPlaces, SaveInv, Metadata
<1>7. \A l \in Lbas : \A v \in stable'[l] : Small(HdrIn(v))
  BY <1>4, <1>5 DEF MixInv, HdrOf, Small
<1>8. \A l \in HdrPlaces : \A v \in stable'[l] : HdrOf(v, before.headers \cup {gpt})
  BY <1>1, <1>4, <1>5, <1>6 DEF MixInv
<1> QED
  BY <1>1, <1>4, <1>6, <1>7, <1>8 DEF MixInv

LEMMA MixNext == SaveInv /\ MixInv /\ [Next]_vars => MixInv'
<1> SUFFICES ASSUME SaveInv, MixInv, [Next]_vars PROVE MixInv'
  OBVIOUS
<1>1. \A l \in Lbas : disk[l] \in stable[l]
  BY DEF SaveInv, ImageFits
<1>2. ASSUME NEW n \in Sizes, Start(n) \/ StartFails(n) PROVE MixInv'
  BY <1>2, MixKept DEF Start, StartFails, Extend, run
<1>3. CASE Command
  <2>1. UNCHANGED <<disk, stable>> /\ pc' \notin {"saving", "sync"}
    BY <1>3 DEF Command, NewMbr, NewGpt, EditGpt, EditMbr, EnterMbr, ResetMbr,
                ReturnFromNested, Quit, Exit, img, run
  <2> QED
    BY <2>1, MixKept
<1>4. CASE Stored
  <2>1. /\ pc = "saving" /\ pc' = "sync" /\ before' = before /\ gpt' = gpt
        /\ disk' = disk /\ secs' = secs /\ stable' = stable
    BY <1>4 DEF Stored, img, ctx
  <2> QED
    BY <2>1 DEF MixInv, HdrPlaces
<1>5. CASE Sync
  <2>1. pc' = "cmd" /\ disk' = disk /\ stable' = [l \in Lbas |-> {disk[l]}]
    BY <1>5 DEF Sync
  <2> QED
    BY <1>1, <2>1 DEF MixInv
<1>6. CASE WriteFails \/ Kill
  BY <1>6, MixKept DEF WriteFails, Kill, Exit, img
<1>7. CASE PowerLoss
  <2>1. PICK d \in OnMedium : /\ \A l \in Lbas : d[l] \in stable[l]
                              /\ disk' = [l \in Lbas |-> d[l]]
                              /\ stable' = [l \in Lbas |-> {d[l]}]
    BY <1>7 DEF PowerLoss
  <2>2. pc' = "off"
    BY <1>7 DEF PowerLoss, Exit
  <2> QED
    BY <2>1, <2>2 DEF MixInv
<1>8. CASE Writeback
  <2>1. pc' = "off" /\ disk' = disk /\ stable' = [l \in Lbas |-> {disk[l]}]
    BY <1>8 DEF Writeback, run
  <2> QED
    BY <1>1, <2>1 DEF MixInv
<1>9. ASSUME NEW l \in Lbas, Rot(l) PROVE MixInv'
  <2>1. /\ pc' = "off" /\ disk' = [disk EXCEPT ![l] = Junk]
        /\ stable' = [stable EXCEPT ![l] = {Junk}]
        /\ DOMAIN disk = Lbas /\ DOMAIN stable = Lbas
    BY <1>9 DEF Rot, run, SaveInv, ImageFits
  <2>2. Small(HdrIn(Junk))
    BY DEF Small, HdrIn, Junk
  <2> QED
    BY <2>1, <2>2 DEF MixInv
<1>10. CASE UNCHANGED vars
  BY <1>10 DEF vars, MixInv, HdrPlaces
<1> QED
  BY <1>2, <1>3, <1>4, <1>5, <1>6, <1>7, <1>8, <1>9, <1>10, MixWrite, MixStore
     DEF Next, Save

-----------------------------------------------------------------------------
(* What follows.                                                           *)

\* A write that stops leaves every sector with something it was given.
LEMMA Stops ==
  ASSUME SaveInv, Next, pc' = "off", pc \in {"saving", "sync"}
  PROVE  secs' = secs /\ \A l \in Lbas : disk'[l] \in stable[l]
<1>1. WriteFails \/ Kill \/ PowerLoss
  BY DEF Next, Start, StartFails, Command, NewMbr, NewGpt, EditGpt, EditMbr, EnterMbr,
         ResetMbr, ReturnFromNested, Quit, Save, Write, Store, Stored, Sync, Writeback, Rot
<1>2. CASE WriteFails \/ Kill
  BY <1>2 DEF WriteFails, Kill, img, SaveInv, ImageFits
<1>3. CASE PowerLoss
  BY <1>3 DEF PowerLoss
<1> QED
  BY <1>1, <1>2, <1>3

LEMMA MixtureNever ==
  ASSUME SaveInv, MixInv, Next, pc' = "off", pc \in {"saving", "sync"}
  PROVE  Found' \in before.headers \cup {gpt, NoScheme}
<1>1. secs' = secs /\ \A l \in Lbas : disk'[l] \in stable[l]
  BY Stops
<1>2. InSize(secs)
  BY SizeFits DEF SaveInv
<1>3. WellFormed(disk') /\ \A l \in Lbas : Small(HdrIn(disk'[l]))
  BY <1>1 DEF SaveInv, ImageFits, MixInv, WellFormed
<1>4. hdr_lba_prim \in Lbas /\ hdr_lba_sec(secs) \in Lbas
  BY <1>2, GptPlaces DEF Metadata
<1>5. \/ gpt_load(disk', secs) = NoScheme
      \/ \E l \in HdrPlaces : /\ disk'[l].kind = "hdr"
                              /\ gpt_load(disk', secs) = Described(disk'[l])
  BY <1>2, <1>3, LoadDescribed DEF HdrPlaces
<1>6. \A l \in HdrPlaces : disk'[l].kind = "hdr" => Described(disk'[l]) \in before.headers \cup {gpt}
  <2>1. \A l \in HdrPlaces : HdrOf(disk'[l], before.headers \cup {gpt})
    BY <1>1, <1>4 DEF MixInv, HdrPlaces
  <2>2. \A l \in HdrPlaces : disk'[l].kind = "hdr" => HdrIn(disk'[l]) = disk'[l]
    BY DEF HdrIn
  <2> QED
    BY <2>1, <2>2 DEF HdrOf
<1> QED
  BY <1>1, <1>5, <1>6 DEF Found

\* A write that stops, at any store and with any of its sectors and of those of
\* earlier writes on the medium, leaves a GPT some header described before, the
\* one being written, or none (gpt_table_is_valid compares the checksum of what
\* the table holds).
THEOREM NothingMixed == ASSUME OwnTables PROVE Spec => NoMixture
<1>1. Init => SaveInv /\ MixInv
  BY SaveInit, MixInit
<1>2. SaveInv /\ MixInv /\ [Next]_vars => (SaveInv /\ MixInv)'
  BY SaveNext, MixNext
<1>3. SaveInv /\ MixInv /\ [Next]_vars =>
        [pc' = "off" /\ pc \in {"saving", "sync"} =>
           Found' \in before.headers \cup {gpt, NoScheme}]_vars
  BY MixtureNever
<1> QED
  BY <1>1, <1>2, <1>3, PTL DEF Spec, NoMixture
=============================================================================
