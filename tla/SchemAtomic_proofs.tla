------------------------- MODULE SchemAtomic_proofs -------------------------
(***************************************************************************)
(* A write that stops after any store leaves one whole copy: that SchemCtx *)
(* implements GptStore, and that a write of a GPT is atomic for whoever    *)
(* starts the program again, for every image size and table length.        *)
(***************************************************************************)
EXTENDS SchemSave_proofs

-----------------------------------------------------------------------------
(* Headers placed as this code, and the UEFI specification, place them.    *)

\* The table of the copy whose header is at l.
TableLba(l) == IF l = hdr_lba_prim THEN table_lba_prim ELSE l - gpt_max_part_cnt

StandardHdr(h, l) ==
  /\ part_cnt(h) <= gpt_max_part_cnt
  /\ h = GptHdr(l, IF l = hdr_lba_prim THEN h.alt_lba ELSE hdr_lba_prim,
                TableLba(l), Described(h))

\* A header that does not name its own place is never valid, and can be anything.
Standard(v, l) ==
  v.kind \in {"hdr", "erased"} /\ HdrIn(v).my_lba = l => StandardHdr(HdrIn(v), l)

\* The images to start from hold GPTs that other programs could have written.
StandardImages == \A d \in InitDisks : \A l \in Lbas : Standard(d.sectors[l], l)

OwnSec(v, l) ==
  /\ Standard(v, l)
  /\ v.kind \in {"hdr", "erased"} => HdrIn(v).id \in AllIds

OwnInv ==
  /\ \A l \in Lbas : \A v \in stable[l] : OwnSec(v, l)
  /\ gpt # NoScheme => gpt.id \in AllIds

-----------------------------------------------------------------------------
(* The stores a write has left: their order, and what each of them does to *)
(* the copy it goes to.                                                    *)

SecTable(n) == {table_lba_sec(n) + i : i \in Slots}

\* The places a write goes to, one after the other.
Phase(l, n, g) ==
  IF g = NoScheme
  THEN IF l = hdr_lba_prim THEN 0 ELSE IF l = hdr_lba_sec(n) THEN 1 ELSE 2
  ELSE IF l = 0 THEN 0 ELSE IF l = hdr_lba_sec(n) THEN 1
       ELSE IF l \in SecTable(n) THEN 2 ELSE IF l = hdr_lba_prim THEN 3 ELSE 4

InOrder(s, n, g) ==
  \A j, k \in 1 .. Len(s) : j < k => Phase(s[j].lba, n, g) <= Phase(s[k].lba, n, g)

\* Stores to the header at l that becomes h: an erased one is made whole
\* first, a different one is invalid for a while, and h comes last.
HdrPlan(s, d, l, h) ==
  \A k \in 1 .. Len(s) : s[k].lba = l =>
    \/ /\ d[l].kind = "erased" /\ s[k].val = HdrIn(d[l])
       /\ \A j \in 1 .. k - 1 : s[j].lba # l
    \/ s[k].val = Junk /\ HdrIn(d[l]) # h
    \/ s[k].val = h /\ \A j \in k + 1 .. Len(s) : s[j].lba # l

\* Stores to the table at tl that becomes that of g.
TablePlan(s, tl, g) ==
  \A k \in 1 .. Len(s) : \A i \in Slots :
    s[k].lba = tl + i => i \in DOMAIN g.tab /\ s[k].val = Ent(g.tab[i])

\* The store that erases what is at l.
ErasePlan(s, d, l) ==
  \A k \in 1 .. Len(s) : s[k].lba = l =>
    /\ s[k].val = Wiped(d[l])
    /\ \A j \in k + 1 .. Len(s) : s[j].lba # l

PrimHdr(n, g) == GptHdr(hdr_lba_prim, hdr_lba_sec(n), table_lba_prim, g)
SecHdr(n, g)  == GptHdr(hdr_lba_sec(n), hdr_lba_prim, table_lba_sec(n), g)

GptPlan(s, d, n, g) ==
  /\ HdrPlan(s, d, hdr_lba_prim, PrimHdr(n, g))
  /\ HdrPlan(s, d, hdr_lba_sec(n), SecHdr(n, g))
  /\ TablePlan(s, table_lba_prim, g) /\ TablePlan(s, table_lba_sec(n), g)

RemovePlan(s, d, n) ==
  ErasePlan(s, d, hdr_lba_prim) /\ ErasePlan(s, d, hdr_lba_sec(n))

\* The places a write of g, or the removal of what is there, goes to.
Goal(n, g) ==
  {0, hdr_lba_prim, hdr_lba_sec(n)} \cup
    (IF g = NoScheme THEN {} ELSE {table_lba_prim + i : i \in Slots} \cup SecTable(n))

InGoal(p, n, g) == p.lba \in Goal(n, g) /\ (p.lba = 0 => p.val.kind = "mbr")

Plan(s, d, n, g) ==
  /\ InOrder(s, n, g)
  /\ \A k \in 1 .. Len(s) : InGoal(s[k], n, g)
  /\ IF g = NoScheme THEN RemovePlan(s, d, n) ELSE GptPlan(s, d, n, g)

PlanInv == pc = "saving" => Plan(todo, disk, secs, gpt)

-----------------------------------------------------------------------------
(* One copy, on any disk.                                                  *)

CopyIn(d, l) ==
  IF gpt_pair_load(d, l) = "ok" THEN gpt_to_schem(d, l) ELSE NoScheme

RemovedIn(d, l) ==
  LET e == [d EXCEPT ![l] = HdrIn(@)] IN
  IF d[l].kind = "erased" /\ gpt_pair_load(e, l) = "ok"
  THEN {gpt_to_schem(e, l)} ELSE {}

\* The table of the copy at l is the one h describes.
Whole(d, h, l) ==
  h.my_lba = l /\ \A i \in DOMAIN h.entries : d[TableLba(l) + i] = h.entries[i]

\* The two places of a header on an image of n sectors.
Place(l, n) == l = hdr_lba_prim \/ l = hdr_lba_sec(n)

LEMMA PlacesOfCopy ==
  ASSUME NEW n, InSize(n), NEW l, Place(l, n)
  PROVE  /\ l \in Lbas /\ l \in Nat /\ l # 0 /\ TableLba(l) \in Nat
         /\ \A i \in Slots : /\ TableLba(l) + i \in Lbas
                             /\ TableLba(l) + i # l /\ TableLba(l) + i # 0
         /\ TableLba(hdr_lba_prim) = table_lba_prim
         /\ TableLba(hdr_lba_sec(n)) = table_lba_sec(n)
<1>1. /\ hdr_lba_prim = 1 /\ table_lba_prim = 2 /\ hdr_lba_sec(n) = n - 1
      /\ table_lba_sec(n) = n - 1 - gpt_max_part_cnt
      /\ gpt_max_part_cnt \in Nat \ {0} /\ n \in Nat /\ MaxSize \in Nat
      /\ n >= 2 * gpt_max_part_cnt + 4 /\ n <= MaxSize /\ Lbas = 0 .. MaxSize - 1
  BY GptCntAssumption, Places DEF hdr_lba_prim, table_lba_prim, hdr_lba_sec, table_lba_sec, InSize
<1>2. \/ l = 1 /\ TableLba(l) = 2
      \/ l = n - 1 /\ l # 1 /\ TableLba(l) = l - gpt_max_part_cnt
  BY <1>1 DEF Place, TableLba
<1> QED
  BY <1>1, <1>2 DEF Slots, TableLba

\* What a header in its place says of its copy.
LEMMA StandardFacts ==
  ASSUME NEW l, NEW h, WellFormedHdr(h), StandardHdr(h, l)
  PROVE  /\ h.my_lba = l /\ h.table_lba = TableLba(l)
         /\ part_cnt(h) \in 0 .. gpt_max_part_cnt
         /\ DOMAIN h.entries = 0 .. part_cnt(h) - 1 /\ DOMAIN h.entries \subseteq Slots
         /\ Described(h) # NoScheme
<1>1. h.my_lba = l /\ h.table_lba = TableLba(l)
  BY DEF StandardHdr, GptHdr
<1>2. part_cnt(h) \in Nat /\ part_cnt(h) <= gpt_max_part_cnt
      /\ DOMAIN h.entries = 0 .. part_cnt(h) - 1
  BY DEF StandardHdr, WellFormedHdr
<1>3. Described(h) # NoScheme
  BY DEF Described, WellFormedHdr, GptSchem, NoScheme
<1> QED
  BY <1>1, <1>2, <1>3, GptCntAssumption DEF Slots

\* A pair is valid when its header is there, in its place, with its table.
LEMMA PairWhole ==
  ASSUME NEW n, NEW d, NEW l, WellFormedHdr(d[l]),
         d[l].my_lba = l => StandardHdr(d[l], l)
  PROVE  /\ gpt_pair_load(d, l) = "ok" <=> Whole(d, d[l], l)
         /\ gpt_pair_load(d, l) = "ok" => gpt_to_schem(d, l) = Described(d[l])
<1> DEFINE h == d[l]
<1>1. h.kind = "hdr"
  BY DEF WellFormedHdr
<1>2. CASE h.my_lba # l
  BY <1>2, PairLoads DEF Whole
<1>3. CASE h.my_lba = l
  <2>1. /\ h.table_lba = TableLba(l) /\ part_cnt(h) \in 0 .. gpt_max_part_cnt
        /\ DOMAIN h.entries = 0 .. part_cnt(h) - 1
    BY <1>3, StandardFacts
  <2>2. h.entries = [i \in 0 .. part_cnt(h) - 1 |-> h.entries[i]]
    <3>1. h.entries = Entries(Described(h))
      BY <1>3 DEF StandardHdr, GptHdr
    <3> HIDE DEF h
    <3>2. h.entries = [i \in DOMAIN h.entries |-> h.entries[i]]
      BY <3>1 DEF Entries
    <3> QED
      BY <2>1, <3>2
  <2>3. TableAt(d, TableLba(l), part_cnt(h)) = h.entries <=> Whole(d, h, l)
    BY <1>3, <2>1, <2>2 DEF TableAt, Whole
  <2>4. ~(part_cnt(h) > gpt_max_part_cnt)
    BY <2>1, GptCntAssumption
  <2>5. gpt_pair_load(d, l) = "ok" <=> Whole(d, h, l)
    BY <1>1, <1>3, <2>1, <2>3, <2>4, PairLoads
  <2>6. ASSUME Whole(d, h, l) PROVE gpt_to_schem(d, l) = Described(h)
    <3>1. \A i \in DOMAIN h.entries : d[h.table_lba + i] = h.entries[i]
      BY <2>1, <2>6 DEF Whole
    <3> QED
      BY <1>1, <3>1 DEF gpt_to_schem, Described
  <2> QED
    BY <2>5, <2>6
<1> QED
  BY <1>2, <1>3

\* A header whose own place this is describes a standard copy.
OwnHdr(h, l, n) == WellFormedHdr(h) /\ (h.my_lba = l => StandardHdr(h, l))

\* A disk with a sector at l that a copy can have.
OwnCopy(d, l, n) ==
  Place(l, n) /\ DOMAIN d = Lbas /\ WellFormedSec(d[l]) /\ Standard(d[l], l)

LEMMA OwnHeaders ==
  ASSUME NEW n, NEW l, NEW v, WellFormedSec(v), Standard(v, l)
  PROVE  /\ v.kind = "hdr" => OwnHdr(v, l, n) /\ HdrIn(v) = v
         /\ v.kind = "erased" => OwnHdr(v.hdr, l, n) /\ HdrIn(v) = v.hdr /\ v.hdr.kind = "hdr"
  BY Sectors DEF Standard, OwnHdr, WellFormedHdr

LEMMA WholeKept ==
  ASSUME NEW n, InSize(n), NEW l, NEW h, OwnHdr(h, l, n), NEW d, NEW e,
         \A i \in Slots : e[TableLba(l) + i] = d[TableLba(l) + i]
  PROVE  Whole(e, h, l) <=> Whole(d, h, l)
<1>1. h.my_lba = l => DOMAIN h.entries \subseteq Slots
  BY StandardFacts DEF OwnHdr
<1> QED
  BY <1>1 DEF Whole

\* What a copy holds, and what is left of one that was removed.
LEMMA CopyIs ==
  ASSUME NEW n, InSize(n), NEW l, NEW d, OwnCopy(d, l, n)
  PROVE  /\ CopyIn(d, l) = IF d[l].kind = "hdr" /\ Whole(d, d[l], l)
                           THEN Described(d[l]) ELSE NoScheme
         /\ RemovedIn(d, l) = IF d[l].kind = "erased" /\ Whole(d, d[l].hdr, l)
                              THEN {Described(d[l].hdr)} ELSE {}
<1>1. /\ Place(l, n) /\ DOMAIN d = Lbas /\ l \in Lbas
      /\ d[l].kind = "hdr" => OwnHdr(d[l], l, n)
      /\ d[l].kind = "erased" => OwnHdr(d[l].hdr, l, n) /\ HdrIn(d[l]) = d[l].hdr
  BY OwnHeaders, PlacesOfCopy DEF OwnCopy
<1>2. CopyIn(d, l) = IF d[l].kind = "hdr" /\ Whole(d, d[l], l)
                     THEN Described(d[l]) ELSE NoScheme
  <2>1. CASE d[l].kind = "hdr"
    BY <1>1, <2>1, PairWhole DEF CopyIn, OwnHdr
  <2>2. CASE d[l].kind # "hdr"
    BY <2>2, PairLoads DEF CopyIn
  <2> QED
    BY <2>1, <2>2
<1>3. ASSUME d[l].kind = "erased"
      PROVE  RemovedIn(d, l) = IF Whole(d, d[l].hdr, l) THEN {Described(d[l].hdr)} ELSE {}
  <2> DEFINE e == [d EXCEPT ![l] = HdrIn(@)]
             h == d[l].hdr
  <2>1. e[l] = h /\ OwnHdr(h, l, n)
    BY <1>1, <1>3
  <2>2. \A i \in Slots : e[TableLba(l) + i] = d[TableLba(l) + i]
    BY <1>1, PlacesOfCopy
  <2>3. RemovedIn(d, l) = IF gpt_pair_load(e, l) = "ok" THEN {gpt_to_schem(e, l)} ELSE {}
    BY <1>3 DEF RemovedIn
  <2> HIDE DEF e, h
  <2>4. Whole(e, h, l) <=> Whole(d, h, l)
    BY <2>1, <2>2, WholeKept
  <2>5. /\ gpt_pair_load(e, l) = "ok" <=> Whole(e, h, l)
        /\ gpt_pair_load(e, l) = "ok" => gpt_to_schem(e, l) = Described(h)
    BY <2>1, PairWhole DEF OwnHdr
  <2>6. RemovedIn(d, l) = IF Whole(d, h, l) THEN {Described(h)} ELSE {}
    BY <2>3, <2>4, <2>5
  <2> QED
    BY <2>6 DEF h
<1>4. d[l].kind # "erased" => RemovedIn(d, l) = {}
  BY DEF RemovedIn
<1> QED
  BY <1>2, <1>3, <1>4

\* Stores elsewhere do not change it.
LEMMA CopyKept ==
  ASSUME NEW n, InSize(n), NEW l, NEW d, OwnCopy(d, l, n), NEW e, DOMAIN e = Lbas,
         e[l] = d[l], \A i \in Slots : e[TableLba(l) + i] = d[TableLba(l) + i]
  PROVE  CopyIn(e, l) = CopyIn(d, l) /\ RemovedIn(e, l) = RemovedIn(d, l)
<1>1. OwnCopy(e, l, n)
  BY DEF OwnCopy
<1>2. /\ d[l].kind = "hdr" => (Whole(e, d[l], l) <=> Whole(d, d[l], l))
      /\ d[l].kind = "erased" => (Whole(e, d[l].hdr, l) <=> Whole(d, d[l].hdr, l))
  BY OwnHeaders, WholeKept DEF OwnCopy
<1> QED
  BY <1>1, <1>2, CopyIs

\* A whole copy of g has the header and the table of g.
LEMMA CopyHas ==
  ASSUME NEW n, InSize(n), NEW l, NEW d, OwnCopy(d, l, n), CopyIn(d, l) # NoScheme
  PROVE  LET g == CopyIn(d, l)
         IN  /\ d[l] = GptHdr(l, IF l = hdr_lba_prim THEN d[l].alt_lba ELSE hdr_lba_prim,
                              TableLba(l), g)
             /\ d[l].kind = "hdr" /\ g = Described(d[l])
             /\ \A i \in DOMAIN g.tab : d[TableLba(l) + i] = Ent(g.tab[i])
<1> DEFINE h == d[l]
           g == Described(h)
<1>1. /\ CopyIn(d, l) = g /\ h.kind = "hdr" /\ Whole(d, h, l) /\ OwnHdr(h, l, n)
  BY CopyIs, OwnHeaders DEF OwnCopy
<1>2. h.my_lba = l /\ StandardHdr(h, l)
  BY <1>1 DEF Whole, OwnHdr
<1>3. h = GptHdr(l, IF l = hdr_lba_prim THEN h.alt_lba ELSE hdr_lba_prim, TableLba(l), g)
  BY <1>2 DEF StandardHdr
<1>4. h.entries = Entries(g)
  BY <1>2 DEF StandardHdr, GptHdr
<1>5. \A i \in DOMAIN h.entries : d[TableLba(l) + i] = h.entries[i]
  BY <1>1 DEF Whole
<1> HIDE DEF h, g
<1>6. DOMAIN g.tab = DOMAIN h.entries /\ \A i \in DOMAIN g.tab : h.entries[i] = Ent(g.tab[i])
  BY <1>4 DEF Entries
<1>7. \A i \in DOMAIN g.tab : d[TableLba(l) + i] = Ent(g.tab[i])
  BY <1>5, <1>6
<1> QED
  BY <1>1, <1>3, <1>7 DEF h, g

\* The header of a copy of g in its place on an image of n sectors.
TargetHdr(h, l, n, g) ==
  /\ GptFits(g) /\ Place(l, n)
  /\ \E alt \in Lbas \ {0} : /\ l # hdr_lba_prim => alt = hdr_lba_prim
                             /\ h = GptHdr(l, alt, TableLba(l), g)

LEMMA TargetFacts ==
  ASSUME NEW n, InSize(n), NEW l, NEW g, NEW h, TargetHdr(h, l, n, g)
  PROVE  /\ h.kind = "hdr" /\ h.id = g.id /\ h.my_lba = l
         /\ WellFormedHdr(h) /\ WellFormedSec(h) /\ Standard(h, l)
         /\ Described(h) = g
<1>1. PICK alt \in Lbas \ {0} : /\ l # hdr_lba_prim => alt = hdr_lba_prim
                                /\ h = GptHdr(l, alt, TableLba(l), g)
  BY DEF TargetHdr
<1>2. GptFits(g) /\ Place(l, n)
  BY DEF TargetHdr
<1>3. TableLba(l) \in Nat \ {0} /\ \A i \in Slots : TableLba(l) + i \in Lbas
  <2>1. 0 \in Slots
    BY GptCntAssumption DEF Slots
  <2> QED
    BY <1>2, <2>1, PlacesOfCopy
<1>4. HeaderFits(GptHdr(l, alt, TableLba(l), g), l, alt, TableLba(l), g)
  BY ONLY <1>2, <1>3, alt \in Lbas \ {0}, Header
<1>5. /\ h.kind = "hdr" /\ h.my_lba = l /\ h.alt_lba = alt /\ h.table_lba = TableLba(l)
      /\ h.id = g.id /\ h.first = g.first /\ h.last = g.last /\ WellFormedSec(h)
      /\ part_cnt(h) \in 0 .. gpt_max_part_cnt
      /\ DOMAIN g.tab = DOMAIN h.entries
      /\ \A i \in DOMAIN h.entries : h.entries[i] = Ent(g.tab[i])
  BY <1>1, <1>4 DEF HeaderFits
<1>6. Described(h) = g
  <2>1. \A v : PartOf(Ent(v)) = v
    BY DEF PartOf, Ent
  <2>2. g = GptSchem(g.id, g.first, g.last, g.tab) /\ g.tab = [i \in DOMAIN g.tab |-> g.tab[i]]
    BY <1>2 DEF GptFits, IsGpt
  <2>3. \A i \in DOMAIN h.entries : PartOf(h.entries[i]) = g.tab[i]
    BY <1>5, <2>1
  <2>4. [i \in DOMAIN h.entries |-> PartOf(h.entries[i])] = g.tab
    BY <1>5, <2>2, <2>3
  <2> QED
    BY <1>5, <2>2, <2>4 DEF Described
<1>7. StandardHdr(h, l)
  <2>1. part_cnt(h) <= gpt_max_part_cnt
    BY <1>5, GptCntAssumption
  <2>2. h = GptHdr(l, IF l = hdr_lba_prim THEN h.alt_lba ELSE hdr_lba_prim, TableLba(l), g)
    BY <1>1, <1>5
  <2> QED
    BY <1>6, <2>1, <2>2 DEF StandardHdr
<1>8. HdrIn(h) = h /\ WellFormedHdr(h)
  BY <1>5, Sectors
<1> QED
  BY <1>5, <1>6, <1>7, <1>8 DEF Standard

\* Under the header of g there is g, or nothing yet.
LEMMA CopyOfTarget ==
  ASSUME NEW n, InSize(n), NEW l, NEW g, NEW d, DOMAIN d = Lbas, TargetHdr(d[l], l, n, g)
  PROVE  OwnCopy(d, l, n) /\ CopyIn(d, l) \in {g, NoScheme} /\ RemovedIn(d, l) = {}
<1>1. OwnCopy(d, l, n)
  BY TargetFacts DEF OwnCopy, TargetHdr
<1> QED
  BY <1>1, CopyIs, TargetFacts

\* The header of g is stored over any other.
LEMMA HeaderStored ==
  ASSUME NEW n, InSize(n), NEW l, NEW d, OwnCopy(d, l, n), NEW v,
         WellFormedSec(v), Standard(v, l)
  PROVE  LET e == [d EXCEPT ![l] = v]
         IN  /\ OwnCopy(e, l, n)
             /\ v = Junk => CopyIn(e, l) = NoScheme /\ RemovedIn(e, l) = {}
             /\ d[l].kind = "erased" /\ v = HdrIn(d[l]) =>
                  /\ CopyIn(d, l) = NoScheme /\ RemovedIn(e, l) = {}
                  /\ CopyIn(e, l) \in {NoScheme} \cup RemovedIn(d, l)
             /\ d[l].kind = "hdr" /\ v = Erased(d[l]) =>
                  /\ CopyIn(e, l) = NoScheme /\ RemovedIn(d, l) = {}
                  /\ RemovedIn(e, l) = IF CopyIn(d, l) = NoScheme THEN {} ELSE {CopyIn(d, l)}
<1> DEFINE e == [d EXCEPT ![l] = v]
<1>1. Place(l, n) /\ DOMAIN d = Lbas /\ l \in Lbas /\ DOMAIN e = Lbas /\ e[l] = v
  BY PlacesOfCopy DEF OwnCopy
<1>2. \A i \in Slots : e[TableLba(l) + i] = d[TableLba(l) + i]
  BY <1>1, PlacesOfCopy
<1> HIDE DEF e
<1>3. OwnCopy(e, l, n)
  BY <1>1 DEF OwnCopy
<1>4. /\ CopyIn(e, l) = IF v.kind = "hdr" /\ Whole(e, v, l) THEN Described(v) ELSE NoScheme
      /\ RemovedIn(e, l) = IF v.kind = "erased" /\ Whole(e, v.hdr, l)
                           THEN {Described(v.hdr)} ELSE {}
      /\ CopyIn(d, l) = IF d[l].kind = "hdr" /\ Whole(d, d[l], l)
                        THEN Described(d[l]) ELSE NoScheme
      /\ RemovedIn(d, l) = IF d[l].kind = "erased" /\ Whole(d, d[l].hdr, l)
                           THEN {Described(d[l].hdr)} ELSE {}
  BY <1>1, <1>3, CopyIs
<1>5. v = Junk => CopyIn(e, l) = NoScheme /\ RemovedIn(e, l) = {}
  BY <1>4 DEF Junk
<1>6. ASSUME d[l].kind = "erased", v = HdrIn(d[l])
      PROVE  /\ CopyIn(d, l) = NoScheme /\ RemovedIn(e, l) = {}
             /\ CopyIn(e, l) \in {NoScheme} \cup RemovedIn(d, l)
  <2>1. v = d[l].hdr /\ v.kind = "hdr" /\ OwnHdr(v, l, n)
    BY <1>6, OwnHeaders DEF OwnCopy
  <2>2. Whole(e, v, l) <=> Whole(d, v, l)
    BY <1>2, <2>1, WholeKept
  <2> QED
    BY <1>4, <1>6, <2>1, <2>2
<1>7. ASSUME d[l].kind = "hdr", v = Erased(d[l])
      PROVE  /\ CopyIn(e, l) = NoScheme /\ RemovedIn(d, l) = {}
             /\ RemovedIn(e, l) = IF CopyIn(d, l) = NoScheme THEN {} ELSE {CopyIn(d, l)}
  <2>1. v.kind = "erased" /\ v.hdr = d[l] /\ OwnHdr(d[l], l, n)
    BY <1>7, OwnHeaders DEF Erased, OwnCopy
  <2>2. Whole(e, d[l], l) <=> Whole(d, d[l], l)
    BY <1>2, <2>1, WholeKept
  <2>3. Described(d[l]) # NoScheme
    BY <2>1 DEF Described, OwnHdr, WellFormedHdr, GptSchem, NoScheme
  <2> QED
    BY <1>4, <1>7, <2>1, <2>2, <2>3
<1> QED
  BY <1>3, <1>5, <1>6, <1>7 DEF e

\* What a load finds: the main copy, or else the backup.
LEMMA LoadIsCopies ==
  ASSUME NEW n, InSize(n), NEW d, WellFormed(d), \A l \in Lbas : Standard(d[l], l)
  PROVE  gpt_load(d, n) = IF CopyIn(d, hdr_lba_prim) # NoScheme
                          THEN CopyIn(d, hdr_lba_prim) ELSE CopyIn(d, hdr_lba_sec(n))
<1>1. ASSUME NEW l \in Lbas
      PROVE  /\ gpt_pair_load(d, l) # "fatal"
             /\ gpt_to_schem(d, l) # NoScheme
             /\ d[l].kind = "hdr" => d[l].alt_lba \in Lbas
  <2>1. d[l].kind = "hdr" => OwnHdr(d[l], l, n)
    BY <1>1, OwnHeaders DEF WellFormed
  <2>2. d[l].kind = "hdr" /\ d[l].my_lba = l => ~(part_cnt(d[l]) > gpt_max_part_cnt)
    BY <2>1, GptCntAssumption DEF OwnHdr, StandardHdr, WellFormedHdr
  <2>3. gpt_pair_load(d, l) # "fatal"
    BY <2>2 DEF gpt_pair_load
  <2> QED
    BY <2>1, <2>3 DEF OwnHdr, WellFormedHdr, gpt_to_schem, GptSchem, NoScheme
<1>2. Place(hdr_lba_prim, n) /\ Place(hdr_lba_sec(n), n)
  BY DEF Place
<1>3. hdr_lba_prim \in Lbas /\ hdr_lba_sec(n) \in Lbas
  BY <1>2, PlacesOfCopy
<1>4. gpt_pair_load(d, hdr_lba_prim) = "ok" => d[hdr_lba_prim].alt_lba \in Lbas
  BY <1>1, <1>3, PairLoads
<1> QED
  BY <1>1, <1>3, <1>4 DEF gpt_load, CopyIn

-----------------------------------------------------------------------------
(* The stores of a write follow the plan.                                  *)

\* A piece of a write, with stores to the places lo to hi of the order.
Piece(s, d, n, g, lo, hi) ==
  /\ IsSeq(s) /\ Plan(s, d, n, g)
  /\ \A k \in 1 .. Len(s) : lo <= Phase(s[k].lba, n, g) /\ Phase(s[k].lba, n, g) <= hi

LEMMA PhaseInt == ASSUME NEW l, NEW n, NEW g PROVE Phase(l, n, g) \in 0 .. 4
  BY DEF Phase

\* Where there is no store, there is nothing to plan.
LEMMA NoPlan ==
  ASSUME NEW s, NEW d, NEW l, Untouched(s, l)
  PROVE  ErasePlan(s, d, l) /\ \A h : HdrPlan(s, d, l, h)
  BY DEF Untouched, ErasePlan, HdrPlan

LEMMA PlanConcat ==
  ASSUME NEW s, NEW t, IsSeq(s), IsSeq(t), NEW d, NEW l
  PROVE  /\ \A h : HdrPlan(s, d, l, h) /\ Untouched(t, l) => HdrPlan(s \o t, d, l, h)
         /\ \A h : Untouched(s, l) /\ HdrPlan(t, d, l, h) => HdrPlan(s \o t, d, l, h)
         /\ ErasePlan(s, d, l) /\ Untouched(t, l) => ErasePlan(s \o t, d, l)
         /\ Untouched(s, l) /\ ErasePlan(t, d, l) => ErasePlan(s \o t, d, l)
         /\ \A g : TablePlan(s, l, g) /\ TablePlan(t, l, g) => TablePlan(s \o t, l, g)
<1> DEFINE u == s \o t
<1>1. /\ Len(s) \in Nat /\ Len(t) \in Nat /\ Len(u) = Len(s) + Len(t)
      /\ \A k \in 1 .. Len(s) : u[k] = s[k]
      /\ \A k \in Len(s) + 1 .. Len(u) : k - Len(s) \in 1 .. Len(t) /\ u[k] = t[k - Len(s)]
      /\ \A k \in 1 .. Len(u) : k \in 1 .. Len(s) \/ k \in Len(s) + 1 .. Len(u)
  BY SeqConcat, SeqFacts
<1> HIDE DEF u
<1>2. ASSUME Untouched(t, l), NEW k \in 1 .. Len(u), u[k].lba = l
      PROVE  /\ k \in 1 .. Len(s) /\ u[k] = s[k] /\ s[k].lba = l
             /\ \A j \in 1 .. k - 1 : j \in 1 .. Len(s) /\ u[j] = s[j]
             /\ \A j \in k + 1 .. Len(u) : \/ j \in k + 1 .. Len(s) /\ u[j] = s[j]
                                           \/ u[j].lba # l
  <2>1. \A j \in Len(s) + 1 .. Len(u) : u[j].lba # l
    BY <1>1, <1>2 DEF Untouched
  <2>2. k \in 1 .. Len(s)
    BY <1>1, <1>2, <2>1
  <2>3. \A j \in k + 1 .. Len(u) : j \in k + 1 .. Len(s) \/ j \in Len(s) + 1 .. Len(u)
    BY <1>1, <2>2
  <2> QED
    BY <1>1, <1>2, <2>1, <2>2, <2>3
<1>3. ASSUME Untouched(s, l), NEW k \in 1 .. Len(u), u[k].lba = l
      PROVE  LET i == k - Len(s)
             IN  /\ i \in 1 .. Len(t) /\ u[k] = t[i] /\ t[i].lba = l
                 /\ \A j \in 1 .. k - 1 : \/ u[j].lba # l
                                          \/ j - Len(s) \in 1 .. i - 1 /\ u[j] = t[j - Len(s)]
                 /\ \A j \in k + 1 .. Len(u) : /\ j - Len(s) \in i + 1 .. Len(t)
                                               /\ u[j] = t[j - Len(s)]
  <2>1. \A j \in 1 .. Len(s) : u[j].lba # l
    BY <1>1, <1>3 DEF Untouched
  <2>2. k \in Len(s) + 1 .. Len(u)
    BY <1>1, <1>3, <2>1
  <2>3. \A j \in 1 .. k - 1 :
          \/ j \in 1 .. Len(s)
          \/ j \in Len(s) + 1 .. Len(u) /\ j - Len(s) \in 1 .. (k - Len(s)) - 1
    BY <1>1, <2>2
  <2>4. \A j \in k + 1 .. Len(u) : j \in Len(s) + 1 .. Len(u) /\ j - Len(s) \in (k - Len(s)) + 1 .. Len(t)
    BY <1>1, <2>2
  <2> QED
    BY <1>1, <1>3, <2>1, <2>2, <2>3, <2>4
<1>4. ASSUME NEW h, HdrPlan(s, d, l, h), Untouched(t, l) PROVE HdrPlan(u, d, l, h)
  BY <1>2, <1>4 DEF HdrPlan
<1>5. ASSUME NEW h, Untouched(s, l), HdrPlan(t, d, l, h) PROVE HdrPlan(u, d, l, h)
  <2> SUFFICES ASSUME NEW k \in 1 .. Len(u), u[k].lba = l
               PROVE  \/ /\ d[l].kind = "erased" /\ u[k].val = HdrIn(d[l])
                         /\ \A j \in 1 .. k - 1 : u[j].lba # l
                      \/ u[k].val = Junk /\ HdrIn(d[l]) # h
                      \/ u[k].val = h /\ \A j \in k + 1 .. Len(u) : u[j].lba # l
    BY DEF HdrPlan
  <2> DEFINE i == k - Len(s)
  <2>1. /\ i \in 1 .. Len(t) /\ u[k] = t[i] /\ t[i].lba = l
        /\ \A j \in 1 .. k - 1 : \/ u[j].lba # l
                                 \/ j - Len(s) \in 1 .. i - 1 /\ u[j] = t[j - Len(s)]
        /\ \A j \in k + 1 .. Len(u) : /\ j - Len(s) \in i + 1 .. Len(t)
                                      /\ u[j] = t[j - Len(s)]
    BY <1>3, <1>5
  <2> HIDE DEF i
  <2>2. \/ /\ d[l].kind = "erased" /\ t[i].val = HdrIn(d[l])
           /\ \A j \in 1 .. i - 1 : t[j].lba # l
        \/ t[i].val = Junk /\ HdrIn(d[l]) # h
        \/ t[i].val = h /\ \A j \in i + 1 .. Len(t) : t[j].lba # l
    BY <1>5, <2>1 DEF HdrPlan
  <2> QED
    BY <2>1, <2>2
<1>6. ASSUME ErasePlan(s, d, l), Untouched(t, l) PROVE ErasePlan(u, d, l)
  BY <1>2, <1>6 DEF ErasePlan
<1>7. ASSUME Untouched(s, l), ErasePlan(t, d, l) PROVE ErasePlan(u, d, l)
  BY <1>3, <1>7 DEF ErasePlan
<1>8. ASSUME NEW g, TablePlan(s, l, g), TablePlan(t, l, g) PROVE TablePlan(u, l, g)
  <2> SUFFICES ASSUME NEW k \in 1 .. Len(u), NEW i \in Slots, u[k].lba = l + i
               PROVE  i \in DOMAIN g.tab /\ u[k].val = Ent(g.tab[i])
    BY DEF TablePlan
  <2>1. CASE k \in 1 .. Len(s)
    BY <1>1, <1>8, <2>1 DEF TablePlan
  <2>2. CASE k \in Len(s) + 1 .. Len(u)
    BY <1>1, <1>8, <2>2 DEF TablePlan
  <2> QED
    BY <1>1, <2>1, <2>2
<1> QED
  BY <1>4, <1>5, <1>6, <1>7, <1>8 DEF u

\* Pieces of a write, put together in the order of their places.
LEMMA PieceConcat ==
  ASSUME NEW n, InSize(n), NEW s, NEW t, NEW d, NEW g, NEW lo \in Int, NEW mid \in Int,
         NEW hi \in Int, lo <= mid + 1, mid <= hi,
         Piece(s, d, n, g, lo, mid), Piece(t, d, n, g, mid + 1, hi)
  PROVE  Piece(s \o t, d, n, g, lo, hi)
<1> DEFINE u == s \o t
           P(x) == Phase(x, n, g)
<1>1. IsSeq(s) /\ IsSeq(t) /\ Plan(s, d, n, g) /\ Plan(t, d, n, g)
  BY DEF Piece
<1>2. /\ Len(s) \in Nat /\ Len(t) \in Nat /\ Len(u) = Len(s) + Len(t) /\ IsSeq(u)
      /\ \A k \in 1 .. Len(s) : u[k] = s[k]
      /\ \A k \in Len(s) + 1 .. Len(u) : k - Len(s) \in 1 .. Len(t) /\ u[k] = t[k - Len(s)]
      /\ \A k \in 1 .. Len(u) : k \in 1 .. Len(s) \/ k \in Len(s) + 1 .. Len(u)
  BY <1>1, SeqConcat, SeqFacts
<1>3. /\ \A x : P(x) \in Int
      /\ \A k \in 1 .. Len(s) : lo <= P(s[k].lba) /\ P(s[k].lba) <= mid
      /\ \A k \in 1 .. Len(t) : mid + 1 <= P(t[k].lba) /\ P(t[k].lba) <= hi
  BY PhaseInt DEF Piece
<1> HIDE DEF u, P
<1>4. \A x : Untouched(s, x) \/ Untouched(t, x)
  BY <1>3 DEF Untouched
<1>5. \A k \in 1 .. Len(u) : lo <= P(u[k].lba) /\ P(u[k].lba) <= hi
  <2>1. \A k \in 1 .. Len(s) : lo <= P(s[k].lba) /\ P(s[k].lba) <= hi
    BY <1>3
  <2>2. \A k \in 1 .. Len(t) : lo <= P(t[k].lba) /\ P(t[k].lba) <= hi
    BY <1>3
  <2> QED
    BY <1>2, <2>1, <2>2
<1>6. InOrder(u, n, g)
  <2> SUFFICES ASSUME NEW j \in 1 .. Len(u), NEW k \in 1 .. Len(u), j < k
               PROVE  P(u[j].lba) <= P(u[k].lba)
    BY DEF InOrder, P
  <2>1. CASE k \in 1 .. Len(s)
    <3>1. j \in 1 .. Len(s)
      BY <1>2, <2>1
    <3> QED
      BY <1>1, <1>2, <2>1, <3>1 DEF Plan, InOrder, P
  <2>2. CASE j \in Len(s) + 1 .. Len(u)
    <3>1. k \in Len(s) + 1 .. Len(u) /\ j - Len(s) < k - Len(s)
      BY <1>2, <2>2
    <3>2. P(t[j - Len(s)].lba) <= P(t[k - Len(s)].lba)
      BY <1>1, <1>2, <2>2, <3>1 DEF Plan, InOrder, P
    <3> QED
      BY <1>2, <2>2, <3>1, <3>2
  <2>3. CASE j \in 1 .. Len(s) /\ k \in Len(s) + 1 .. Len(u)
    <3>1. P(u[j].lba) <= mid /\ mid + 1 <= P(u[k].lba)
      BY <1>2, <1>3, <2>3
    <3> QED
      BY <1>3, <3>1
  <2> QED
    BY <1>2, <2>1, <2>2, <2>3
<1>7. \A k \in 1 .. Len(u) : InGoal(u[k], n, g)
  BY <1>1, <1>2 DEF Plan
<1>8. /\ \A l, h : HdrPlan(s, d, l, h) /\ HdrPlan(t, d, l, h) => HdrPlan(u, d, l, h)
      /\ \A l : ErasePlan(s, d, l) /\ ErasePlan(t, d, l) => ErasePlan(u, d, l)
      /\ \A tl : TablePlan(s, tl, g) /\ TablePlan(t, tl, g) => TablePlan(u, tl, g)
  BY <1>1, <1>4, PlanConcat DEF u
<1>9. Plan(u, d, n, g)
  BY <1>1, <1>6, <1>7, <1>8 DEF Plan, GptPlan, RemovePlan
<1> QED
  BY <1>2, <1>5, <1>9 DEF Piece, P, u

\* The places of a GPT in their order.
LEMMA Phases ==
  ASSUME NEW n, InSize(n), NEW g, g # NoScheme
  PROVE  /\ Phase(0, n, g) = 0
         /\ Phase(hdr_lba_sec(n), n, g) = 1 /\ Phase(hdr_lba_prim, n, g) = 3
         /\ \A i \in Slots : /\ Phase(table_lba_sec(n) + i, n, g) = 2
                             /\ Phase(table_lba_prim + i, n, g) = 4
         /\ Phase(0, n, NoScheme) = 2
         /\ Phase(hdr_lba_prim, n, NoScheme) = 0 /\ Phase(hdr_lba_sec(n), n, NoScheme) = 1
<1>1. /\ gpt_max_part_cnt \in Nat \ {0} /\ n \in Nat /\ n >= 2 * gpt_max_part_cnt + 4
      /\ hdr_lba_prim = 1 /\ table_lba_prim = 2 /\ hdr_lba_sec(n) = n - 1
      /\ table_lba_sec(n) = n - 1 - gpt_max_part_cnt
  BY GptCntAssumption DEF InSize, hdr_lba_prim, table_lba_prim, hdr_lba_sec, table_lba_sec
<1>2. SecTable(n) = {n - 1 - gpt_max_part_cnt + i : i \in Slots}
  BY <1>1 DEF SecTable
<1>3. /\ 0 \notin SecTable(n) /\ 1 \notin SecTable(n) /\ n - 1 \notin SecTable(n)
      /\ \A i \in Slots : 2 + i \notin SecTable(n)
  BY <1>1, <1>2 DEF Slots
<1>4. \A i \in Slots : /\ n - 1 - gpt_max_part_cnt + i \in SecTable(n)
                       /\ n - 1 - gpt_max_part_cnt + i # n - 1
                       /\ n - 1 - gpt_max_part_cnt + i # 0
  BY <1>1, <1>2 DEF Slots
<1>5. \A i \in Slots : 2 + i # n - 1 /\ 2 + i # 1 /\ 2 + i # 0
  BY <1>1 DEF Slots
<1> QED
  BY <1>1, <1>3, <1>4, <1>5 DEF Phase

\* No store at all.
LEMMA PieceNone ==
  ASSUME NEW d, NEW n, NEW g, NEW lo, NEW hi
  PROVE  Piece(<<>>, d, n, g, lo, hi)
<1>1. \A k \in 1 .. Len(<<>>) : FALSE
  BY SeqNone
<1> QED
  BY <1>1, SeqNone DEF Piece, Plan, InOrder, GptPlan, RemovePlan, HdrPlan, ErasePlan, TablePlan

\* Stores to a single place.
LEMMA PieceOne ==
  ASSUME NEW n, InSize(n), NEW s, IsSeq(s), NEW d, NEW g, NEW c,
         \A k \in 1 .. Len(s) : InGoal(s[k], n, g) /\ Phase(s[k].lba, n, g) = c,
         IF g = NoScheme THEN RemovePlan(s, d, n) ELSE GptPlan(s, d, n, g)
  PROVE  Piece(s, d, n, g, c, c)
<1>1. \A k \in 1 .. Len(s) : c \in Int
  BY PhaseInt
<1>2. InOrder(s, n, g)
  BY <1>1 DEF InOrder
<1> QED
  BY <1>1, <1>2 DEF Piece, Plan

\* The places a write goes to are different ones.
LEMMA Apart ==
  ASSUME NEW n, InSize(n)
  PROVE  /\ hdr_lba_prim # 0 /\ hdr_lba_sec(n) # 0 /\ hdr_lba_prim # hdr_lba_sec(n)
         /\ \A i, j \in Slots :
              /\ table_lba_prim + i \notin {0, hdr_lba_prim, hdr_lba_sec(n)}
              /\ table_lba_sec(n) + i \notin {0, hdr_lba_prim, hdr_lba_sec(n)}
              /\ table_lba_prim + i # table_lba_sec(n) + j
         /\ \A i, j \in Slots : table_lba_prim + i = table_lba_prim + j => i = j
         /\ \A i, j \in Slots : table_lba_sec(n) + i = table_lba_sec(n) + j => i = j
<1>1. /\ gpt_max_part_cnt \in Nat \ {0} /\ n \in Nat /\ n >= 2 * gpt_max_part_cnt + 4
      /\ hdr_lba_prim = 1 /\ table_lba_prim = 2 /\ hdr_lba_sec(n) = n - 1
      /\ table_lba_sec(n) = n - 1 - gpt_max_part_cnt
  BY GptCntAssumption DEF InSize, hdr_lba_prim, table_lba_prim, hdr_lba_sec, table_lba_sec
<1> QED
  BY <1>1 DEF Slots

\* Stores to sector 0 leave the copies of a GPT alone.
LEMMA PieceMbr ==
  ASSUME NEW n, InSize(n), NEW d, WellFormed(d), NEW m \in MbrSchemes, NEW g
  PROVE  Piece(mbr_save_puts(d, m), d, n, g, Phase(0, n, g), Phase(0, n, g))
<1> DEFINE s == mbr_save_puts(d, m)
           U(k) == MbrSchem([i \in 0 .. mbr_max_part_cnt - 1 |->
                               IF i < k THEN m.types[i] ELSE d[0].types[i]])
<1>1. IsSeq(s) /\ \A l : l # 0 => Untouched(s, l)
  <2>1. WellFormedSec(d[0])
    BY GptPlaces DEF WellFormed, Metadata
  <2> QED
    BY <2>1, MbrPuts
<1>2. \A k \in 1 .. Len(s) : s[k].lba = 0
  BY <1>1 DEF Untouched
<1>3. \A k \in 1 .. Len(s) : s[k].val.kind = "mbr"
  <2>1. m.kind = "mbr" /\ \A k : U(k).kind = "mbr"
    BY DEF MbrSchem, MbrSchemes
  <2>2. CASE d[0].kind = "mbr"
    <3>1. s = [k \in 1 .. mbr_max_part_cnt |-> Put(0, U(k))]
      BY <2>2 DEF mbr_save_puts
    <3> HIDE DEF s, U
    <3>2. DOMAIN s = 1 .. mbr_max_part_cnt /\ DOMAIN s = 1 .. Len(s)
      BY <1>1, <3>1, SeqFacts
    <3>3. \A k \in 1 .. Len(s) : s[k].val = U(k)
      BY <3>1, <3>2 DEF Put
    <3> QED
      BY <2>1, <3>3
  <2>3. CASE d[0].kind # "mbr"
    <3> DEFINE p == Put(0, m)
    <3>1. s = <<p>> /\ p.val = m
      BY <2>3 DEF mbr_save_puts, Put
    <3> HIDE DEF s, p
    <3>2. Len(<<p>>) = 1 /\ <<p>>[1] = p
      BY SeqShort
    <3> QED
      BY <2>1, <3>1, <3>2
  <2> QED
    BY <2>2, <2>3
<1> HIDE DEF s
<1>4. HdrPlan(s, d, hdr_lba_prim, PrimHdr(n, g)) /\ HdrPlan(s, d, hdr_lba_sec(n), SecHdr(n, g))
      /\ ErasePlan(s, d, hdr_lba_prim) /\ ErasePlan(s, d, hdr_lba_sec(n))
  BY <1>1, Apart, NoPlan
<1>5. TablePlan(s, table_lba_prim, g) /\ TablePlan(s, table_lba_sec(n), g)
  BY <1>2, Apart DEF TablePlan
<1>6. \A k \in 1 .. Len(s) : InGoal(s[k], n, g)
  BY <1>2, <1>3 DEF InGoal, Goal
<1>7. IF g = NoScheme THEN RemovePlan(s, d, n) ELSE GptPlan(s, d, n, g)
  BY <1>4, <1>5 DEF RemovePlan, GptPlan
<1>8. Piece(s, d, n, g, Phase(0, n, g), Phase(0, n, g))
  BY <1>1, <1>2, <1>6, <1>7, PieceOne
<1> QED
  BY <1>8 DEF s

\* gpt_hdr_write.
LEMMA HdrStores ==
  ASSUME NEW d, NEW l, NEW h
  PROVE  LET s == gpt_hdr_puts(d, l, h)
         IN  /\ IsSeq(s) /\ HdrPlan(s, d, l, h)
             /\ \A k \in 1 .. Len(s) : s[k].lba = l
<1> DEFINE old == HdrIn(d[l])
           p == Put(l, old)
           q == Put(l, Junk)
           w == Put(l, h)
           r == IF d[l].kind = "erased" THEN <<p>> ELSE <<>>
           a == IF old = h THEN <<>> ELSE <<q, w>>
           s == r \o a
<1>1. gpt_hdr_puts(d, l, h) = s
  BY DEF gpt_hdr_puts
<1>2. /\ p.lba = l /\ p.val = old /\ q.lba = l /\ q.val = Junk /\ w.lba = l /\ w.val = h
  BY DEF Put
<1> HIDE DEF p, q, w, old
<1>3. /\ IsSeq(r) /\ Len(r) \in {0, 1}
      /\ Len(r) = 1 => d[l].kind = "erased" /\ r[1] = p
  BY SeqShort, SeqNone
<1>4. /\ IsSeq(a) /\ Len(a) \in {0, 2}
      /\ Len(a) = 2 => old # h /\ a[1] = q /\ a[2] = w
  <2>1. old = h => a = <<>>
    OBVIOUS
  <2> DEFINE b == <<q, w>>
  <2>2. old # h => a = b
    OBVIOUS
  <2>5. IsSeq(b) /\ Len(b) = 2 /\ b[1] = q /\ b[2] = w
    BY SeqShort
  <2> HIDE DEF a, b
  <2>3. old = h => IsSeq(a) /\ Len(a) = 0
    BY <2>1, SeqNone
  <2>4. old # h => IsSeq(a) /\ Len(a) = 2 /\ a[1] = q /\ a[2] = w
    BY <2>2, <2>5
  <2> QED
    BY <2>3, <2>4
<1> HIDE DEF r, a
<1>5. /\ IsSeq(s) /\ Len(s) = Len(r) + Len(a)
      /\ \A k \in 1 .. Len(r) + Len(a) : s[k] = IF k <= Len(r) THEN r[k] ELSE a[k - Len(r)]
  BY <1>3, <1>4, SeqConcat
<1> HIDE DEF s
<1>6. ASSUME NEW k \in 1 .. Len(s)
      PROVE  \/ k = 1 /\ d[l].kind = "erased" /\ s[k] = p
             \/ s[k] = q /\ old # h
             \/ s[k] = w /\ k = Len(s)
  <2>1. CASE k <= Len(r)
    BY <1>3, <1>4, <1>5, <2>1
  <2>2. CASE ~(k <= Len(r))
    <3>1. Len(a) = 2 /\ s[k] = a[k - Len(r)] /\ k - Len(r) \in {1, 2}
      BY <1>3, <1>4, <1>5, <2>2
    <3> QED
      BY <1>3, <1>4, <1>5, <2>2, <3>1
  <2> QED
    BY <2>1, <2>2
<1>7. Len(s) \in Nat
  BY <1>3, <1>4, <1>5
<1>8. HdrPlan(s, d, l, h)
  <2> SUFFICES ASSUME NEW k \in 1 .. Len(s)
               PROVE  \/ /\ d[l].kind = "erased" /\ s[k].val = HdrIn(d[l])
                         /\ \A j \in 1 .. k - 1 : s[j].lba # l
                      \/ s[k].val = Junk /\ HdrIn(d[l]) # h
                      \/ s[k].val = h /\ \A j \in k + 1 .. Len(s) : s[j].lba # l
    BY DEF HdrPlan
  <2>1. k = 1 => \A j \in 1 .. k - 1 : FALSE
    OBVIOUS
  <2>2. k = Len(s) => \A j \in k + 1 .. Len(s) : FALSE
    BY <1>7
  <2> QED
    BY <1>2, <1>6, <2>1, <2>2 DEF old
<1> QED
  BY <1>1, <1>2, <1>5, <1>6, <1>8

\* Stores to the header or the table of one copy.
LEMMA PieceHdr ==
  ASSUME NEW n, InSize(n), NEW d, NEW g, g # NoScheme, NEW l, NEW h,
         \/ l = hdr_lba_prim /\ h = PrimHdr(n, g)
         \/ l = hdr_lba_sec(n) /\ h = SecHdr(n, g)
  PROVE  Piece(gpt_hdr_puts(d, l, h), d, n, g, Phase(l, n, g), Phase(l, n, g))
<1> DEFINE s == gpt_hdr_puts(d, l, h)
<1>1. IsSeq(s) /\ HdrPlan(s, d, l, h) /\ \A k \in 1 .. Len(s) : s[k].lba = l
  BY HdrStores
<1> HIDE DEF s
<1>2. l # 0 /\ l \in Goal(n, g)
  BY Apart DEF Goal
<1>3. \A k \in 1 .. Len(s) : InGoal(s[k], n, g) /\ Phase(s[k].lba, n, g) = Phase(l, n, g)
  BY <1>1, <1>2 DEF InGoal
<1>4. \A x : x # l => Untouched(s, x)
  BY <1>1 DEF Untouched
<1>5. HdrPlan(s, d, hdr_lba_prim, PrimHdr(n, g)) /\ HdrPlan(s, d, hdr_lba_sec(n), SecHdr(n, g))
  <2>1. \A x, y : x # l => HdrPlan(s, d, x, y)
    BY <1>4, NoPlan
  <2> QED
    BY <1>1, <2>1, Apart
<1>6. TablePlan(s, table_lba_prim, g) /\ TablePlan(s, table_lba_sec(n), g)
  <2>1. \A i \in Slots : table_lba_prim + i # l /\ table_lba_sec(n) + i # l
    BY Apart
  <2> QED
    BY <1>1, <2>1 DEF TablePlan
<1>7. Piece(s, d, n, g, Phase(l, n, g), Phase(l, n, g))
  BY <1>1, <1>3, <1>5, <1>6, PieceOne DEF GptPlan
<1> QED
  BY <1>7 DEF s

LEMMA PieceTable ==
  ASSUME NEW n, InSize(n), NEW d, NEW g, g # NoScheme, NEW h, NEW tl,
         tl = table_lba_prim \/ tl = table_lba_sec(n), tl \in Nat,
         part_cnt(h) \in 0 .. gpt_max_part_cnt, DOMAIN g.tab = 0 .. part_cnt(h) - 1,
         \A i \in DOMAIN g.tab : h.entries[i] = Ent(g.tab[i]),
         IsSeq(TablePuts(tl, h))
  PROVE  Piece(TablePuts(tl, h), d, n, g, Phase(tl, n, g), Phase(tl, n, g))
<1> DEFINE s == TablePuts(tl, h)
           c == part_cnt(h)
<1>1. s = [k \in 1 .. c |-> Put(tl + k - 1, h.entries[k - 1])]
  BY DEF TablePuts
<1> HIDE DEF s, c
<1>2. Len(s) = c /\ c \in Nat /\ c <= gpt_max_part_cnt /\ gpt_max_part_cnt \in Nat \ {0}
  <2>1. DOMAIN s = 1 .. c /\ DOMAIN s = 1 .. Len(s) /\ Len(s) \in Nat
    BY <1>1, SeqFacts DEF s
  <2> QED
    BY <2>1, GptCntAssumption DEF c
<1>3. ASSUME NEW k \in 1 .. Len(s)
      PROVE  /\ k - 1 \in Slots /\ k - 1 \in DOMAIN g.tab
             /\ s[k].lba = tl + (k - 1) /\ s[k].val = Ent(g.tab[k - 1])
  <2>1. k - 1 \in 0 .. c - 1 /\ k - 1 \in Slots /\ tl + k - 1 = tl + (k - 1) /\ k \in 1 .. c
    BY <1>2 DEF Slots
  <2>2. h.entries[k - 1] = Ent(g.tab[k - 1]) /\ k - 1 \in DOMAIN g.tab
    BY <2>1 DEF c
  <2>3. s[k] = Put(tl + k - 1, h.entries[k - 1])
    BY <1>1, <2>1
  <2> QED
    BY <2>1, <2>2, <2>3 DEF Put
<1>4. \A i \in Slots : tl + i \in Goal(n, g) /\ tl + i # 0 /\ Phase(tl + i, n, g) = Phase(tl, n, g)
  <2>1. 0 \in Slots /\ tl + 0 = tl
    BY GptCntAssumption DEF Slots
  <2>2. \A i \in Slots : tl + i \in Goal(n, g) /\ tl + i # 0
    BY Apart DEF Goal, SecTable
  <2>3. \A i \in Slots : Phase(tl + i, n, g) = Phase(tl + 0, n, g)
    <3>1. CASE tl = table_lba_prim
      <4>1. \A i \in Slots : Phase(tl + i, n, g) = 4
        BY <3>1, Phases
      <4> QED
        BY <2>1, <4>1
    <3>2. CASE tl = table_lba_sec(n)
      <4>1. \A i \in Slots : Phase(tl + i, n, g) = 2
        BY <3>2, Phases
      <4> QED
        BY <2>1, <4>1
    <3> QED
      BY <3>1, <3>2
  <2> QED
    BY <2>1, <2>2, <2>3
<1>5. \A k \in 1 .. Len(s) : InGoal(s[k], n, g) /\ Phase(s[k].lba, n, g) = Phase(tl, n, g)
  BY <1>3, <1>4 DEF InGoal
<1>6. \A i \in Slots : tl + i # hdr_lba_prim /\ tl + i # hdr_lba_sec(n)
  BY Apart
<1>7. HdrPlan(s, d, hdr_lba_prim, PrimHdr(n, g)) /\ HdrPlan(s, d, hdr_lba_sec(n), SecHdr(n, g))
  <2>1. Untouched(s, hdr_lba_prim) /\ Untouched(s, hdr_lba_sec(n))
    BY <1>3, <1>6 DEF Untouched
  <2> QED
    BY <2>1, NoPlan
<1>8. ASSUME NEW x, x = table_lba_prim \/ x = table_lba_sec(n) PROVE TablePlan(s, x, g)
  <2> SUFFICES ASSUME NEW k \in 1 .. Len(s), NEW i \in Slots, s[k].lba = x + i
               PROVE  i = k - 1
    BY <1>3 DEF TablePlan
  <2>1. k - 1 \in Slots /\ tl + (k - 1) = x + i
    BY <1>3
  <2> QED
    BY <1>8, <2>1, Apart
<1>9. Piece(s, d, n, g, Phase(tl, n, g), Phase(tl, n, g))
  <2>1. IsSeq(s)
    BY DEF s
  <2> QED
    BY <1>5, <1>7, <1>8, <2>1, PieceOne DEF GptPlan
<1> QED
  BY <1>9 DEF s

LEMMA PieceErase ==
  ASSUME NEW n, InSize(n), NEW d, NEW l, Place(l, n)
  PROVE  Piece(Erase(d, l), d, n, NoScheme, Phase(l, n, NoScheme), Phase(l, n, NoScheme))
<1> DEFINE p == Put(l, Wiped(d[l]))
           b == <<p>>
           s == Erase(d, l)
<1>1. p.lba = l /\ p.val = Wiped(d[l])
  BY DEF Put
<1>2. IsSeq(b) /\ Len(b) = 1 /\ b[1] = p
  BY SeqShort
<1>3. s = b
  BY DEF Erase
<1> HIDE DEF p, b, s
<1>4. IsSeq(s) /\ Len(s) = 1 /\ \A k \in 1 .. Len(s) : k = 1 /\ s[k] = p
  <2>1. \A k \in 1 .. 1 : k = 1
    OBVIOUS
  <2> QED
    BY <1>2, <1>3, <2>1
<1>5. l # 0 /\ l \in Goal(n, NoScheme)
  BY Apart DEF Place, Goal
<1>6. \A k \in 1 .. Len(s) : /\ InGoal(s[k], n, NoScheme)
                             /\ Phase(s[k].lba, n, NoScheme) = Phase(l, n, NoScheme)
  BY <1>1, <1>4, <1>5 DEF InGoal
<1>7. ErasePlan(s, d, l)
  BY <1>1, <1>4 DEF ErasePlan
<1>8. RemovePlan(s, d, n)
  <2>1. \A x : x # l => Untouched(s, x)
    BY <1>1, <1>4 DEF Untouched
  <2>2. \A x : x # l => ErasePlan(s, d, x)
    BY <2>1, NoPlan
  <2> QED
    BY <1>7, <2>2 DEF RemovePlan
<1>9. Piece(s, d, n, NoScheme, Phase(l, n, NoScheme), Phase(l, n, NoScheme))
  BY <1>4, <1>6, <1>8, PieceOne
<1> QED
  BY <1>9 DEF s

\* gpt_pair_save.
LEMMA PiecePair ==
  ASSUME NEW n, InSize(n), NEW g, GptFits(g), g # NoScheme, NEW d
  PROVE  /\ Piece(gpt_pair_puts(d, hdr_lba_sec(n), table_lba_sec(n), SecHdr(n, g)),
                  d, n, g, 1, 2)
         /\ Piece(gpt_pair_puts(d, hdr_lba_prim, table_lba_prim, PrimHdr(n, g)),
                  d, n, g, 3, 4)
<1>1. ASSUME NEW l, NEW alt, NEW tl, NEW h, h = GptHdr(l, alt, tl, g), NEW f \in Int,
             \/ /\ l = hdr_lba_prim /\ alt = hdr_lba_sec(n) /\ tl = table_lba_prim /\ f = 3
             \/ /\ l = hdr_lba_sec(n) /\ alt = hdr_lba_prim /\ tl = table_lba_sec(n) /\ f = 1
      PROVE  Piece(gpt_pair_puts(d, l, tl, h), d, n, g, f, f + 1)
  <2>1. /\ l \in Lbas \ {0} /\ alt \in Lbas \ {0} /\ tl \in Nat \ {0}
        /\ \A i \in Slots : tl + i \in Metadata(n) /\ tl + i \in Lbas
    <3>1. 0 \in Slots /\ tl + 0 = tl
      BY <1>1, GptPlaces, GptCntAssumption DEF Slots
    <3>2. \A i \in Slots : tl + i \in Metadata(n) /\ tl + i # 0
      BY <1>1, GptPlaces, Apart DEF Slots
    <3> QED
      BY <1>1, <3>1, <3>2, GptPlaces, Apart DEF Metadata
  <2>2. HeaderFits(GptHdr(l, alt, tl, g), l, alt, tl, g)
    BY ONLY <2>1, GptFits(g), Header
  <2>3. TableStores(TablePuts(tl, GptHdr(l, alt, tl, g)), n, tl, g)
    BY ONLY <2>1, GptFits(g), Table
  <2>4. Piece(TablePuts(tl, h), d, n, g, Phase(tl, n, g), Phase(tl, n, g))
    <3>1. /\ part_cnt(h) \in 0 .. gpt_max_part_cnt /\ DOMAIN g.tab = 0 .. part_cnt(h) - 1
          /\ \A i \in DOMAIN g.tab : h.entries[i] = Ent(g.tab[i])
      BY <1>1, <2>2 DEF HeaderFits
    <3>2. IsSeq(TablePuts(tl, h))
      BY <1>1, <2>3 DEF TableStores
    <3> QED
      BY <1>1, <2>1, <3>1, <3>2, PieceTable
  <2>5. Piece(gpt_hdr_puts(d, l, h), d, n, g, Phase(l, n, g), Phase(l, n, g))
    BY <1>1, PieceHdr DEF PrimHdr, SecHdr
  <2>6. Phase(l, n, g) = f /\ Phase(tl, n, g) = f + 1
    <3>1. 0 \in Slots /\ tl + 0 = tl
      BY <2>1, GptCntAssumption DEF Slots
    <3>2. CASE f = 3
      <4>1. \A i \in Slots : Phase(table_lba_prim + i, n, g) = 4
        BY Phases
      <4>2. Phase(tl + 0, n, g) = 4
        BY <1>1, <3>1, <3>2, <4>1
      <4> QED
        BY <1>1, <3>1, <3>2, <4>2, Phases
    <3>3. CASE f = 1
      <4>1. \A i \in Slots : Phase(table_lba_sec(n) + i, n, g) = 2
        BY Phases
      <4>2. Phase(tl + 0, n, g) = 2
        BY <1>1, <3>1, <3>3, <4>1
      <4> QED
        BY <1>1, <3>1, <3>3, <4>2, Phases
    <3> QED
      BY <1>1, <3>2, <3>3
  <2>7. Piece(gpt_hdr_puts(d, l, h) \o TablePuts(tl, h), d, n, g, f, f + 1)
    BY <2>4, <2>5, <2>6, PieceConcat
  <2> QED
    BY <2>7 DEF gpt_pair_puts
<1>2. Piece(gpt_pair_puts(d, hdr_lba_sec(n), table_lba_sec(n), SecHdr(n, g)), d, n, g, 1, 1 + 1)
  BY <1>1 DEF SecHdr
<1>3. Piece(gpt_pair_puts(d, hdr_lba_prim, table_lba_prim, PrimHdr(n, g)), d, n, g, 3, 3 + 1)
  BY <1>1 DEF PrimHdr
<1> QED
  BY <1>2, <1>3

LEMMA PlanBegins ==
  ASSUME NEW n, InSize(n), NEW d, WellFormed(d),
         NEW m \in MbrSchemes \cup {NoScheme}, NEW g, g # NoScheme => GptFits(g)
  PROVE  Plan(SavePuts(d, n, m, g), d, n, g)
<1> DEFINE a == IF in_img.gpt /\ g = NoScheme THEN gpt_remove_puts(d, n) ELSE <<>>
           b == IF m # NoScheme THEN mbr_save_puts(d, m) ELSE <<>>
           c == IF g # NoScheme THEN gpt_save_puts(d, n, g) ELSE <<>>
           f == Phase(0, n, g)
<1>1. SavePuts(d, n, m, g) = (a \o b) \o c
  BY DEF SavePuts
<1>2. Piece(b, d, n, g, f, f)
  <2>1. CASE m = NoScheme
    BY <2>1, PieceNone
  <2>2. CASE m # NoScheme
    <3>1. Piece(mbr_save_puts(d, m), d, n, g, f, f)
      BY <2>2, PieceMbr
    <3> QED
      BY <2>2, <3>1
  <2> QED
    BY <2>1, <2>2
<1>3. ASSUME g # NoScheme PROVE Piece((a \o b) \o c, d, n, g, 0, 4)
  <2>1. f = 0
    BY <1>3, Phases
  <2>2. Piece(a, d, n, g, 0, -1)
    BY <1>3, PieceNone
  <2>3. Piece(c, d, n, g, 1, 4)
    <3> DEFINE sec == gpt_pair_puts(d, hdr_lba_sec(n), table_lba_sec(n), SecHdr(n, g))
               prim == gpt_pair_puts(d, hdr_lba_prim, table_lba_prim, PrimHdr(n, g))
    <3>1. gpt_save_puts(d, n, g) = sec \o prim
      BY DEF gpt_save_puts, SecHdr, PrimHdr
    <3>2. Piece(sec, d, n, g, 1, 2) /\ Piece(prim, d, n, g, 2 + 1, 4)
      BY <1>3, PiecePair
    <3> HIDE DEF sec, prim
    <3>3. Piece(sec \o prim, d, n, g, 1, 4)
      BY <3>2, PieceConcat
    <3> QED
      BY <1>3, <3>1, <3>3
  <2> HIDE DEF a, b, c, f
  <2>4. Piece(a \o b, d, n, g, 0, 0)
    <3>1. Piece(b, d, n, g, -1 + 1, 0)
      BY <1>2, <2>1
    <3> QED
      BY <2>2, <3>1, PieceConcat
  <2>5. Piece(c, d, n, g, 0 + 1, 4)
    BY <2>3
  <2> QED
    BY <2>4, <2>5, PieceConcat
<1>4. ASSUME g = NoScheme PROVE Piece((a \o b) \o c, d, n, g, 0, 2)
  <2>1. f = 2
    <3>1. EmptyMbr # NoScheme
      BY SchemeKinds
    <3> QED
      BY <1>4, <3>1, Phases
  <2>2. Piece(a, d, n, g, 0, 1)
    <3>1. CASE in_img.gpt
      <4> DEFINE p == Erase(d, hdr_lba_prim)
                 q == Erase(d, hdr_lba_sec(n))
      <4>1. gpt_remove_puts(d, n) = p \o q
        BY EraseTwo
      <4>2. Phase(hdr_lba_prim, n, NoScheme) = 0 /\ Phase(hdr_lba_sec(n), n, NoScheme) = 1
        <5>1. EmptyMbr # NoScheme
          BY SchemeKinds
        <5> QED
          BY <5>1, Phases
      <4>3. Piece(p, d, n, g, 0, 0) /\ Piece(q, d, n, g, 0 + 1, 1)
        BY <1>4, <4>2, PieceErase DEF Place
      <4> HIDE DEF p, q
      <4>4. Piece(p \o q, d, n, g, 0, 1)
        BY <4>3, PieceConcat
      <4> QED
        BY <1>4, <3>1, <4>1, <4>4
    <3>2. CASE ~in_img.gpt
      BY <3>2, PieceNone
    <3> QED
      BY <3>1, <3>2
  <2>3. Piece(c, d, n, g, 3, 2)
    BY <1>4, PieceNone
  <2> HIDE DEF a, b, c, f
  <2>4. Piece(a \o b, d, n, g, 0, 2)
    <3>1. Piece(b, d, n, g, 1 + 1, 2)
      BY <1>2, <2>1
    <3> QED
      BY <2>2, <3>1, PieceConcat
  <2>5. Piece(c, d, n, g, 2 + 1, 2)
    BY <2>3
  <2> QED
    BY <2>4, <2>5, PieceConcat
<1> HIDE DEF a, b, c
<1>5. Plan((a \o b) \o c, d, n, g)
  BY <1>3, <1>4 DEF Piece
<1> QED
  BY <1>1, <1>5

-----------------------------------------------------------------------------
(* What is left of a write after its first store follows the plan too.     *)

LEMMA HdrAdvances ==
  ASSUME NEW d, NEW s, IsSeq(s), s # <<>>, Head(s).lba \in DOMAIN d,
         NEW l \in DOMAIN d, WellFormedSec(d[l])
  PROVE  LET e == [d EXCEPT ![Head(s).lba] = Head(s).val]
         IN  /\ \A h : h.kind = "hdr" /\ HdrPlan(s, d, l, h) => HdrPlan(Tail(s), e, l, h)
             /\ ErasePlan(s, d, l) => ErasePlan(Tail(s), e, l)
<1> DEFINE t == Tail(s)
           p == Head(s)
           e == [d EXCEPT ![p.lba] = p.val]
<1>1. /\ Len(s) \in Nat \ {0} /\ Len(t) = Len(s) - 1 /\ p = s[1]
      /\ \A k \in 1 .. Len(t) : k + 1 \in 1 .. Len(s) /\ t[k] = s[k + 1]
  BY SeqFacts
<1>2. e[l] = IF p.lba = l THEN p.val ELSE d[l]
  OBVIOUS
<1> HIDE DEF t, p, e
<1>3. \A k \in 1 .. Len(t) :
        /\ \A j \in 1 .. k - 1 : j + 1 \in 1 .. (k + 1) - 1 /\ t[j] = s[j + 1]
        /\ \A j \in k + 1 .. Len(t) : j + 1 \in (k + 1) + 1 .. Len(s) /\ t[j] = s[j + 1]
  BY <1>1
<1>4. ASSUME NEW h, h.kind = "hdr", HdrPlan(s, d, l, h) PROVE HdrPlan(t, e, l, h)
  <2> SUFFICES ASSUME NEW k \in 1 .. Len(t), t[k].lba = l
               PROVE  \/ /\ e[l].kind = "erased" /\ t[k].val = HdrIn(e[l])
                         /\ \A j \in 1 .. k - 1 : t[j].lba # l
                      \/ t[k].val = Junk /\ HdrIn(e[l]) # h
                      \/ t[k].val = h /\ \A j \in k + 1 .. Len(t) : t[j].lba # l
    BY DEF HdrPlan
  <2> DEFINE i == k + 1
  <2>1. /\ i \in 1 .. Len(s) /\ t[k] = s[i] /\ s[i].lba = l
        /\ 1 \in 1 .. i - 1 /\ 1 \in 1 .. Len(s) /\ i \in 1 + 1 .. Len(s)
        /\ \A j \in 1 .. k - 1 : j + 1 \in 1 .. i - 1 /\ t[j] = s[j + 1]
        /\ \A j \in k + 1 .. Len(t) : j + 1 \in i + 1 .. Len(s) /\ t[j] = s[j + 1]
    <3>1. i \in 1 .. Len(s) /\ t[k] = s[i] /\ k \in Nat \ {0}
      BY <1>1
    <3>2. /\ \A j \in 1 .. k - 1 : j + 1 \in 1 .. i - 1 /\ t[j] = s[j + 1]
          /\ \A j \in k + 1 .. Len(t) : j + 1 \in i + 1 .. Len(s) /\ t[j] = s[j + 1]
      BY <1>3
    <3>3. 1 \in 1 .. i - 1 /\ 1 \in 1 .. Len(s) /\ i \in 1 + 1 .. Len(s)
      BY <1>1, <3>1
    <3> QED
      BY <3>1, <3>2, <3>3
  <2> HIDE DEF i
  <2>2. \/ /\ d[l].kind = "erased" /\ s[i].val = HdrIn(d[l])
           /\ \A j \in 1 .. i - 1 : s[j].lba # l
        \/ s[i].val = Junk /\ HdrIn(d[l]) # h
        \/ s[i].val = h /\ \A j \in i + 1 .. Len(s) : s[j].lba # l
    BY <1>4, <2>1 DEF HdrPlan
  <2>3. CASE d[l].kind = "erased" /\ s[i].val = HdrIn(d[l]) /\ \A j \in 1 .. i - 1 : s[j].lba # l
    <3>1. e[l] = d[l]
      BY <1>1, <1>2, <2>1, <2>3
    <3>2. \A j \in 1 .. k - 1 : t[j].lba # l
      BY <2>1, <2>3
    <3> QED
      BY <2>1, <2>3, <3>1, <3>2
  <2>4. CASE s[i].val = Junk /\ HdrIn(d[l]) # h
    <3>1. HdrIn(e[l]) # h
      <4>1. CASE p.lba # l
        BY <1>2, <2>4, <4>1
      <4>2. CASE p.lba = l
        <5>1. \/ d[l].kind = "erased" /\ p.val = HdrIn(d[l])
              \/ p.val = Junk
              \/ \A j \in 1 + 1 .. Len(s) : s[j].lba # l
          BY <1>1, <1>4, <2>1, <4>2 DEF HdrPlan
        <5>2. d[l].kind = "erased" /\ p.val = HdrIn(d[l]) => HdrIn(p.val) = p.val
          BY Sectors DEF WellFormedHdr
        <5>3. HdrIn(Junk) = Junk /\ Junk # h
          BY <1>4 DEF HdrIn, Junk
        <5> QED
          BY <1>2, <2>1, <2>4, <4>2, <5>1, <5>2, <5>3
      <4> QED
        BY <4>1, <4>2
    <3> QED
      BY <2>1, <2>4, <3>1
  <2>5. CASE s[i].val = h /\ \A j \in i + 1 .. Len(s) : s[j].lba # l
    BY <2>1, <2>5
  <2> QED
    BY <2>2, <2>3, <2>4, <2>5
<1>5. ASSUME ErasePlan(s, d, l) PROVE ErasePlan(t, e, l)
  <2> SUFFICES ASSUME NEW k \in 1 .. Len(t), t[k].lba = l
               PROVE  /\ t[k].val = Wiped(e[l])
                      /\ \A j \in k + 1 .. Len(t) : t[j].lba # l
    BY DEF ErasePlan
  <2> DEFINE i == k + 1
  <2>1. /\ i \in 1 .. Len(s) /\ t[k] = s[i] /\ s[i].lba = l
        /\ 1 \in 1 .. Len(s) /\ i \in 1 + 1 .. Len(s)
        /\ \A j \in k + 1 .. Len(t) : j + 1 \in i + 1 .. Len(s) /\ t[j] = s[j + 1]
    BY <1>1, <1>3
  <2> HIDE DEF i
  <2>2. /\ s[i].val = Wiped(d[l])
        /\ \A j \in i + 1 .. Len(s) : s[j].lba # l
    BY <1>5, <2>1 DEF ErasePlan
  <2>3. p.lba # l
    BY <1>1, <1>5, <2>1 DEF ErasePlan
  <2> QED
    BY <1>2, <2>1, <2>2, <2>3
<1> QED
  BY <1>4, <1>5 DEF t, p, e

LEMMA PlanAdvances ==
  ASSUME NEW n, InSize(n), NEW d, DOMAIN d = Lbas, WellFormed(d), NEW g,
         NEW s, IsSeq(s), SafePuts(s, n), s # <<>>, Plan(s, d, n, g)
  PROVE  LET e == [d EXCEPT ![Head(s).lba] = Head(s).val] IN Plan(Tail(s), e, n, g)
<1> DEFINE t == Tail(s)
           p == Head(s)
           e == [d EXCEPT ![p.lba] = p.val]
<1>1. /\ Len(s) \in Nat \ {0} /\ Len(t) = Len(s) - 1 /\ p = s[1]
      /\ \A k \in 1 .. Len(t) : k + 1 \in 1 .. Len(s) /\ t[k] = s[k + 1]
  BY SeqFacts
<1>2. p.lba \in DOMAIN d
  BY <1>1 DEF SafePuts, SafePut, Metadata
<1>3. /\ hdr_lba_prim \in DOMAIN d /\ WellFormedSec(d[hdr_lba_prim])
      /\ hdr_lba_sec(n) \in DOMAIN d /\ WellFormedSec(d[hdr_lba_sec(n)])
  BY PlacesOfCopy DEF WellFormed, Place
<1>4. PrimHdr(n, g).kind = "hdr" /\ SecHdr(n, g).kind = "hdr"
  BY DEF PrimHdr, SecHdr, GptHdr
<1>5. /\ \A h : h.kind = "hdr" /\ HdrPlan(s, d, hdr_lba_prim, h) => HdrPlan(t, e, hdr_lba_prim, h)
      /\ ErasePlan(s, d, hdr_lba_prim) => ErasePlan(t, e, hdr_lba_prim)
  BY <1>2, <1>3, HdrAdvances
<1>6. /\ \A h : h.kind = "hdr" /\ HdrPlan(s, d, hdr_lba_sec(n), h)
                  => HdrPlan(t, e, hdr_lba_sec(n), h)
      /\ ErasePlan(s, d, hdr_lba_sec(n)) => ErasePlan(t, e, hdr_lba_sec(n))
  BY <1>2, <1>3, HdrAdvances
<1> HIDE DEF t, p, e
<1>7. ASSUME NEW tl, TablePlan(s, tl, g) PROVE TablePlan(t, tl, g)
  BY <1>1, <1>7 DEF TablePlan
<1>8. InOrder(t, n, g)
  <2>1. InOrder(s, n, g)
    BY DEF Plan
  <2> SUFFICES ASSUME NEW j \in 1 .. Len(t), NEW k \in 1 .. Len(t), j < k
               PROVE  Phase(t[j].lba, n, g) <= Phase(t[k].lba, n, g)
    BY DEF InOrder
  <2>2. /\ j + 1 \in 1 .. Len(s) /\ k + 1 \in 1 .. Len(s) /\ j + 1 < k + 1
        /\ t[j] = s[j + 1] /\ t[k] = s[k + 1]
    BY <1>1
  <2>3. Phase(s[j + 1].lba, n, g) <= Phase(s[k + 1].lba, n, g)
    BY ONLY <2>1, <2>2 DEF InOrder
  <2> QED
    BY <2>2, <2>3
<1>9. \A k \in 1 .. Len(t) : InGoal(t[k], n, g)
  BY <1>1 DEF Plan
<1>10. IF g = NoScheme THEN RemovePlan(t, e, n) ELSE GptPlan(t, e, n, g)
  BY <1>4, <1>5, <1>6, <1>7 DEF Plan, RemovePlan, GptPlan
<1>11. Plan(t, e, n, g)
  BY <1>8, <1>9, <1>10 DEF Plan
<1> QED
  BY <1>11 DEF t, p, e

\* No store is left for a place that comes before that of the first.
LEMMA OrderHead ==
  ASSUME NEW n, NEW g, NEW s, IsSeq(s), s # <<>>, InOrder(s, n, g),
         NEW l, Phase(l, n, g) < Phase(Head(s).lba, n, g)
  PROVE  Untouched(s, l)
<1>1. Len(s) \in Nat \ {0} /\ Head(s) = s[1] /\ \A k \in 1 .. Len(s) : k = 1 \/ 1 < k
  BY SeqFacts
<1>2. \A x : Phase(x, n, g) \in Int
  BY PhaseInt
<1>3. \A k \in 1 .. Len(s) : Phase(s[1].lba, n, g) <= Phase(s[k].lba, n, g)
  BY <1>1, <1>2 DEF InOrder
<1>4. ASSUME NEW k \in 1 .. Len(s), s[k].lba = l PROVE FALSE
  <2>1. Phase(s[1].lba, n, g) <= Phase(l, n, g)
    BY <1>3, <1>4
  <2> QED
    BY <1>1, <1>2, <2>1
<1> QED
  BY <1>4 DEF Untouched

-----------------------------------------------------------------------------
(* One store of a write.                                                   *)

Midway(s, d, n, m, g, had) ==
  /\ InSize(n) /\ DOMAIN d = Lbas /\ WellFormed(d) /\ \A l \in Lbas : OwnSec(d[l], l)
  /\ IsSeq(s) /\ s # <<>> /\ SafePuts(s, n) /\ Plan(s, d, n, g)
  /\ WriteEnds(s, d, n, m, g, had) /\ had \in BOOLEAN
  /\ g # NoScheme => GptFits(g) /\ g.id \in AllIds

After(d, p) == [d EXCEPT ![p.lba] = p.val]

LEMMA FirstStore ==
  ASSUME NEW s, NEW d, NEW n, NEW m, NEW g, NEW had, Midway(s, d, n, m, g, had)
  PROVE  LET p == Head(s)
             e == After(d, p)
         IN  /\ 1 \in 1 .. Len(s) /\ p = s[1]
             /\ p.lba \in Lbas /\ WellFormedSec(p.val) /\ InGoal(p, n, g)
             /\ DOMAIN e = Lbas /\ e[p.lba] = p.val
             /\ \A l \in Lbas : l # p.lba => e[l] = d[l]
<1> DEFINE p == Head(s)
<1>1. IsSeq(s) /\ s # <<>> /\ SafePuts(s, n) /\ Plan(s, d, n, g) /\ DOMAIN d = Lbas
  BY DEF Midway
<1>2. 1 \in 1 .. Len(s) /\ p = s[1]
  BY <1>1, SeqFacts
<1>3. p.lba \in Lbas /\ WellFormedSec(p.val) /\ InGoal(p, n, g)
  BY <1>1, <1>2 DEF SafePuts, SafePut, Metadata, Plan
<1> HIDE DEF p
<1>4. /\ DOMAIN After(d, p) = Lbas /\ After(d, p)[p.lba] = p.val
      /\ \A l \in Lbas : l # p.lba => After(d, p)[l] = d[l]
  BY <1>1, <1>3 DEF After
<1> QED
  BY <1>2, <1>3, <1>4 DEF p

\* What the first store does, by the place it goes to.
LEMMA FirstPlan ==
  ASSUME NEW s, NEW d, NEW n, NEW m, NEW g, NEW had, Midway(s, d, n, m, g, had)
  PROVE  LET p == Head(s)
         IN  /\ p.lba = 0 => p.val.kind = "mbr"
             /\ \A l, h : HdrPlan(s, d, l, h) /\ p.lba = l =>
                  \/ d[l].kind = "erased" /\ p.val = HdrIn(d[l])
                  \/ p.val = Junk /\ HdrIn(d[l]) # h
                  \/ p.val = h
             /\ \A l : ErasePlan(s, d, l) /\ p.lba = l => p.val = Wiped(d[l])
             /\ \A tl : \A i \in Slots : TablePlan(s, tl, g) /\ p.lba = tl + i
                                           => i \in DOMAIN g.tab /\ p.val = Ent(g.tab[i])
<1>1. 1 \in 1 .. Len(s) /\ Head(s) = s[1] /\ InGoal(Head(s), n, g)
  BY FirstStore
<1> QED
  BY <1>1 DEF HdrPlan, ErasePlan, TablePlan, InGoal

\* Where the first store goes.
LEMMA FirstPlace ==
  ASSUME NEW s, NEW d, NEW n, NEW m, NEW g, NEW had, Midway(s, d, n, m, g, had)
  PROVE  LET p == Head(s)
         IN  \/ p.lba = 0 \/ p.lba = hdr_lba_prim \/ p.lba = hdr_lba_sec(n)
             \/ g # NoScheme /\ \E i \in Slots : p.lba = table_lba_prim + i
             \/ g # NoScheme /\ \E i \in Slots : p.lba = table_lba_sec(n) + i
<1>1. Head(s).lba \in Goal(n, g)
  BY FirstStore DEF InGoal
<1> QED
  BY <1>1 DEF Goal, SecTable

\* The header of the GPT that is written.
LEMMA TargetHeaders ==
  ASSUME NEW n, InSize(n), NEW g, GptFits(g)
  PROVE  /\ TargetHdr(PrimHdr(n, g), hdr_lba_prim, n, g)
         /\ TargetHdr(SecHdr(n, g), hdr_lba_sec(n), n, g)
<1>1. /\ Place(hdr_lba_prim, n) /\ Place(hdr_lba_sec(n), n)
      /\ hdr_lba_prim \in Lbas \ {0} /\ hdr_lba_sec(n) \in Lbas \ {0}
      /\ hdr_lba_prim # hdr_lba_sec(n)
      /\ TableLba(hdr_lba_prim) = table_lba_prim
      /\ TableLba(hdr_lba_sec(n)) = table_lba_sec(n)
  BY PlacesOfCopy, Apart DEF Place
<1> QED
  BY <1>1 DEF TargetHdr, PrimHdr, SecHdr

\* Every sector stays one that a GPT of its own place can have.
LEMMA StoredOwn ==
  ASSUME NEW s, NEW d, NEW n, NEW m, NEW g, NEW had, Midway(s, d, n, m, g, had)
  PROVE  OwnSec(Head(s).val, Head(s).lba)
<1> DEFINE p == Head(s)
<1> SUFFICES OwnSec(p.val, p.lba)
  OBVIOUS
<1>1. /\ p.lba \in Lbas /\ OwnSec(d[p.lba], p.lba) /\ WellFormedSec(d[p.lba])
      /\ InSize(n) /\ Plan(s, d, n, g)
      /\ g # NoScheme => GptFits(g) /\ g.id \in AllIds
  BY FirstStore DEF Midway, WellFormed
<1> HIDE DEF p
<1>2. p.val.kind \notin {"hdr", "erased"} => OwnSec(p.val, p.lba)
  BY DEF OwnSec, Standard
<1>3. p.val = HdrIn(d[p.lba]) => OwnSec(p.val, p.lba)
  <2>1. HdrIn(HdrIn(d[p.lba])) = HdrIn(d[p.lba])
    BY <1>1, Sectors DEF WellFormedHdr
  <2>2. HdrIn(d[p.lba]).kind \in {"hdr", "erased"} => d[p.lba].kind \in {"hdr", "erased"}
    BY DEF HdrIn
  <2> QED
    BY <1>1, <2>1, <2>2 DEF OwnSec, Standard
<1>4. p.val = Wiped(d[p.lba]) => OwnSec(p.val, p.lba)
  <2> SUFFICES ASSUME p.val = Wiped(d[p.lba]) PROVE OwnSec(p.val, p.lba)
    OBVIOUS
  <2>1. CASE d[p.lba].kind = "hdr"
    <3>1. p.val = Erased(d[p.lba]) /\ HdrIn(Erased(d[p.lba])) = d[p.lba]
      BY <2>1, WipedIs DEF HdrIn, Erased
    <3>2. HdrIn(d[p.lba]) = d[p.lba]
      BY <2>1 DEF HdrIn
    <3> QED
      BY <1>1, <2>1, <3>1, <3>2 DEF OwnSec, Standard
  <2>2. CASE d[p.lba].kind # "hdr"
    <3>1. p.val = d[p.lba] \/ p.val = Junk
      BY <2>2, WipedIs
    <3>2. Junk.kind = "junk"
      BY DEF Junk
    <3> QED
      BY <1>1, <1>2, <3>1, <3>2
  <2> QED
    BY <2>1, <2>2
<1>5. ASSUME NEW h, g # NoScheme, TargetHdr(h, p.lba, n, g), p.val = h
      PROVE  OwnSec(p.val, p.lba)
  <2>1. Standard(h, p.lba) /\ h.id = g.id /\ h.kind = "hdr"
    BY <1>1, <1>5, TargetFacts
  <2> QED
    BY <1>1, <1>5, <2>1 DEF OwnSec, HdrIn
<1>6. CASE p.lba = 0
  BY <1>2, <1>6, FirstPlan DEF p
<1>7. CASE g = NoScheme /\ p.lba # 0
  <2>1. ErasePlan(s, d, hdr_lba_prim) /\ ErasePlan(s, d, hdr_lba_sec(n))
    BY <1>1, <1>7 DEF Plan, RemovePlan
  <2>2. p.lba = hdr_lba_prim \/ p.lba = hdr_lba_sec(n)
    BY <1>7, FirstPlace DEF p
  <2>3. p.val = Wiped(d[p.lba])
    BY <2>1, <2>2, FirstPlan DEF p
  <2> QED
    BY <1>4, <2>3
<1>8. CASE g # NoScheme /\ p.lba # 0
  <2>1. GptPlan(s, d, n, g) /\ GptFits(g)
    BY <1>1, <1>8 DEF Plan
  <2>2. TargetHdr(PrimHdr(n, g), hdr_lba_prim, n, g) /\ TargetHdr(SecHdr(n, g), hdr_lba_sec(n), n, g)
    BY <1>1, <2>1, TargetHeaders
  <2>3. ASSUME NEW l, NEW h, HdrPlan(s, d, l, h), TargetHdr(h, l, n, g), p.lba = l
        PROVE  OwnSec(p.val, p.lba)
    <3>1. \/ p.val = HdrIn(d[p.lba]) \/ p.val = Junk \/ p.val = h
      BY <2>3, FirstPlan DEF p
    <3>2. Junk.kind = "junk"
      BY DEF Junk
    <3> QED
      BY <1>2, <1>3, <1>5, <1>8, <2>3, <3>1, <3>2
  <2>4. ASSUME NEW tl, NEW i \in Slots, TablePlan(s, tl, g), p.lba = tl + i
        PROVE  OwnSec(p.val, p.lba)
    <3>1. p.val = Ent(g.tab[i])
      BY <2>4, FirstPlan DEF p
    <3>2. p.val.kind = "ent"
      BY <3>1 DEF Ent
    <3> QED
      BY <1>2, <3>2
  <2>5. \/ p.lba = hdr_lba_prim \/ p.lba = hdr_lba_sec(n)
        \/ \E i \in Slots : p.lba = table_lba_prim + i
        \/ \E i \in Slots : p.lba = table_lba_sec(n) + i
    BY <1>8, FirstPlace DEF p
  <2> QED
    BY <2>1, <2>2, <2>3, <2>4, <2>5 DEF GptPlan
<1> QED
  BY <1>6, <1>7, <1>8

\* A copy stays what it is, or is on its way to hold g.
SameCopy(d, e, l) == CopyIn(e, l) = CopyIn(d, l) /\ RemovedIn(e, l) = RemovedIn(d, l)

Rewritten(d, e, l, g) ==
  CopyIn(e, l) \in {NoScheme, g} \cup RemovedIn(d, l) /\ RemovedIn(e, l) = {}

LEMMA MidwayCopy ==
  ASSUME NEW s, NEW d, NEW n, NEW m, NEW g, NEW had, Midway(s, d, n, m, g, had),
         NEW l, Place(l, n)
  PROVE  InSize(n) /\ OwnCopy(d, l, n)
<1>1. InSize(n) /\ l \in Lbas
  BY PlacesOfCopy DEF Midway
<1> QED
  BY <1>1 DEF Midway, OwnCopy, OwnSec, WellFormed

LEMMA CopyAway ==
  ASSUME NEW s, NEW d, NEW n, NEW m, NEW g, NEW had, Midway(s, d, n, m, g, had),
         NEW l, Place(l, n), Head(s).lba # l, \A i \in Slots : Head(s).lba # TableLba(l) + i
  PROVE  SameCopy(d, After(d, Head(s)), l)
<1> DEFINE e == After(d, Head(s))
<1>1. InSize(n) /\ OwnCopy(d, l, n)
  BY MidwayCopy
<1>2. l \in Lbas /\ \A i \in Slots : TableLba(l) + i \in Lbas
  BY <1>1, PlacesOfCopy
<1>3. DOMAIN e = Lbas /\ e[l] = d[l] /\ \A i \in Slots : e[TableLba(l) + i] = d[TableLba(l) + i]
  BY <1>2, FirstStore
<1> HIDE DEF e
<1>4. SameCopy(d, e, l)
  BY <1>1, <1>3, CopyKept DEF SameCopy
<1> QED
  BY <1>4 DEF e

LEMMA HeaderStoreStep ==
  ASSUME NEW s, NEW d, NEW n, NEW m, NEW g, NEW had, Midway(s, d, n, m, g, had), g # NoScheme,
         NEW l, NEW h, Place(l, n), HdrPlan(s, d, l, h), TargetHdr(h, l, n, g), Head(s).lba = l,
         l # hdr_lba_prim => h = GptHdr(l, hdr_lba_prim, TableLba(l), g)
  PROVE  LET e == After(d, Head(s))
         IN  \/ SameCopy(d, e, l)
             \/ Rewritten(d, e, l, g) /\ (CopyIn(d, l) = g => l = hdr_lba_prim)
<1> DEFINE v == Head(s).val
           e == After(d, Head(s))
<1> SUFFICES \/ SameCopy(d, e, l)
             \/ Rewritten(d, e, l, g) /\ (CopyIn(d, l) = g => l = hdr_lba_prim)
  OBVIOUS
<1>1. InSize(n) /\ OwnCopy(d, l, n)
  BY MidwayCopy
<1>2. WellFormedSec(v) /\ Standard(v, l) /\ e = [d EXCEPT ![l] = v]
      /\ DOMAIN e = Lbas /\ e[l] = v
  BY FirstStore, StoredOwn DEF OwnSec, After
<1>3. \/ d[l].kind = "erased" /\ v = HdrIn(d[l])
      \/ v = Junk /\ HdrIn(d[l]) # h
      \/ v = h
  BY FirstPlan
<1> HIDE DEF v, e
<1>4. /\ v = Junk => CopyIn(e, l) = NoScheme /\ RemovedIn(e, l) = {}
      /\ d[l].kind = "erased" /\ v = HdrIn(d[l]) =>
           /\ CopyIn(d, l) = NoScheme /\ RemovedIn(e, l) = {}
           /\ CopyIn(e, l) \in {NoScheme} \cup RemovedIn(d, l)
  <2> DEFINE f == [d EXCEPT ![l] = v]
  <2>0. WellFormedSec(v) /\ Standard(v, l)
    BY <1>2
  <2>1. /\ v = Junk => CopyIn(f, l) = NoScheme /\ RemovedIn(f, l) = {}
        /\ d[l].kind = "erased" /\ v = HdrIn(d[l]) =>
             /\ CopyIn(d, l) = NoScheme /\ RemovedIn(f, l) = {}
             /\ CopyIn(f, l) \in {NoScheme} \cup RemovedIn(d, l)
    BY ONLY <1>1, <2>0, HeaderStored
  <2> QED
    BY <1>2, <2>1
<1>5. CopyIn(d, l) = g /\ l # hdr_lba_prim => d[l] = h /\ HdrIn(d[l]) = h
  <2>1. CopyIn(d, l) = g /\ l # hdr_lba_prim =>
          d[l].kind = "hdr" /\ d[l] = GptHdr(l, hdr_lba_prim, TableLba(l), g)
    BY <1>1, CopyHas
  <2> QED
    BY <2>1 DEF HdrIn
<1>6. CASE d[l].kind = "erased" /\ v = HdrIn(d[l])
  BY <1>4, <1>6 DEF Rewritten
<1>7. CASE v = Junk /\ HdrIn(d[l]) # h
  BY <1>4, <1>5, <1>7 DEF Rewritten
<1>8. CASE v = h
  <2>1. Rewritten(d, e, l, g)
    <3>1. TargetHdr(e[l], l, n, g)
      BY <1>2, <1>8
    <3>2. CopyIn(e, l) \in {g, NoScheme} /\ RemovedIn(e, l) = {}
      BY <1>1, <1>2, <3>1, CopyOfTarget
    <3> QED
      BY <3>2 DEF Rewritten
  <2>2. d[l] = h => SameCopy(d, e, l)
    <3>1. \A i \in Slots : e[TableLba(l) + i] = d[TableLba(l) + i]
      <4>1. \A i \in Slots : TableLba(l) + i \in Lbas /\ TableLba(l) + i # l
        BY <1>1, PlacesOfCopy
      <4> QED
        BY <1>1, <1>2, <4>1 DEF OwnCopy
    <3> SUFFICES ASSUME d[l] = h PROVE SameCopy(d, e, l)
      OBVIOUS
    <3>2. e[l] = d[l] /\ DOMAIN e = Lbas
      BY <1>2, <1>8
    <3>3. CopyIn(e, l) = CopyIn(d, l) /\ RemovedIn(e, l) = RemovedIn(d, l)
      BY ONLY <1>1, <3>1, <3>2, CopyKept
    <3> QED
      BY <3>3 DEF SameCopy
  <2> QED
    BY <1>5, <2>1, <2>2
<1> QED
  BY <1>3, <1>6, <1>7, <1>8

LEMMA TableStoreStep ==
  ASSUME NEW s, NEW d, NEW n, NEW m, NEW g, NEW had, Midway(s, d, n, m, g, had), g # NoScheme,
         NEW l, NEW h, Place(l, n), TablePlan(s, TableLba(l), g), TargetHdr(h, l, n, g),
         d[l] = h, NEW i \in Slots, Head(s).lba = TableLba(l) + i
  PROVE  LET e == After(d, Head(s))
         IN  SameCopy(d, e, l) \/ (Rewritten(d, e, l, g) /\ CopyIn(d, l) # g)
<1> DEFINE p == Head(s)
           e == After(d, p)
<1>1. InSize(n) /\ OwnCopy(d, l, n) /\ DOMAIN d = Lbas
  BY MidwayCopy DEF Midway
<1>2. l \in Lbas /\ l # TableLba(l) + i /\ TableLba(l) + i \in Lbas
  BY <1>1, PlacesOfCopy
<1>3. i \in DOMAIN g.tab /\ p.val = Ent(g.tab[i])
  BY FirstPlan
<1>4. DOMAIN e = Lbas /\ e[l] = d[l]
  BY <1>2, FirstStore
<1>5. e = [d EXCEPT ![TableLba(l) + i] = p.val]
  BY DEF After
<1> HIDE DEF p, e
<1>6. CopyIn(d, l) \in {g, NoScheme} /\ RemovedIn(d, l) = {}
      /\ CopyIn(e, l) \in {g, NoScheme} /\ RemovedIn(e, l) = {}
  BY <1>1, <1>4, CopyOfTarget
<1>7. CopyIn(d, l) = g => SameCopy(d, e, l)
  <2>1. CopyIn(d, l) = g => d[TableLba(l) + i] = p.val
    BY <1>1, <1>3, CopyHas, SchemeKinds DEF TargetHdr, GptFits
  <2>2. CopyIn(d, l) = g => \A j \in Lbas : e[j] = d[j]
    BY <1>1, <1>5, <2>1
  <2>3. \A j \in Slots : TableLba(l) + j \in Lbas
    BY <1>1, PlacesOfCopy DEF OwnCopy
  <2> QED
    BY <1>1, <1>4, <2>2, <2>3, CopyKept DEF SameCopy
<1>8. SameCopy(d, e, l) \/ (Rewritten(d, e, l, g) /\ CopyIn(d, l) # g)
  BY <1>6, <1>7 DEF SameCopy, Rewritten
<1> QED
  BY <1>8 DEF p, e

\* The main copy is not touched before the backup is whole.
LEMMA BackupFirst ==
  ASSUME NEW s, NEW d, NEW n, NEW m, NEW g, NEW had, Midway(s, d, n, m, g, had), g # NoScheme,
         Phase(Head(s).lba, n, g) >= 3
  PROVE  CopyIn(d, hdr_lba_sec(n)) = g
<1> DEFINE q == hdr_lba_sec(n)
           tq == table_lba_sec(n)
<1>1. /\ InSize(n) /\ IsSeq(s) /\ s # <<>> /\ InOrder(s, n, g) /\ GptFits(g)
      /\ CopyEnds(s, d, q, hdr_lba_prim, tq, g)
  BY DEF Midway, Plan, WriteEnds, GptEnds
<1>2. /\ Phase(q, n, g) = 1 /\ \A i \in Slots : Phase(tq + i, n, g) = 2
  BY <1>1, Phases
<1>3. Phase(Head(s).lba, n, g) \in Int
  BY PhaseInt
<1>4. /\ hdr_lba_prim \in Lbas \ {0} /\ tq \in Nat \ {0}
      /\ \A i \in Slots : tq + i \in Lbas
  <2>1. 0 \in Slots /\ tq + 0 = tq
    BY <1>1, GptPlaces, GptCntAssumption DEF Slots
  <2>2. \A i \in Slots : tq + i \in Metadata(n) /\ tq + i # 0
    BY <1>1, GptPlaces, Apart DEF Slots
  <2> QED
    BY <1>1, <2>1, <2>2, GptPlaces, Apart DEF Metadata
<1> HIDE DEF q, tq
<1>5. Untouched(s, q) /\ \A i \in Slots : Untouched(s, tq + i)
  <2>1. /\ Phase(q, n, g) < Phase(Head(s).lba, n, g)
        /\ \A i \in Slots : Phase(tq + i, n, g) < Phase(Head(s).lba, n, g)
    BY <1>2, <1>3
  <2> QED
    BY <1>1, <2>1, OrderHead
<1>6. CopyEnds(<<>>, d, q, hdr_lba_prim, tq, g)
  <2>1. \A l : Untouched(<<>>, l)
    BY SeqNone DEF Untouched
  <2>2. \A l, v : Untouched(s, l) /\ Ends(s, d, l, v) => Ends(<<>>, d, l, v)
    BY <2>1 DEF Ends, Wrote, Untouched
  <2>3. DOMAIN g.tab \subseteq Slots
    <3>1. PICK c \in 0 .. gpt_max_part_cnt : g.tab = [i \in 0 .. c - 1 |-> g.tab[i]]
      BY <1>1 DEF GptFits
    <3>2. DOMAIN g.tab = 0 .. c - 1
      BY <3>1
    <3> QED
      BY <3>2, GptCntAssumption DEF Slots
  <2> QED
    BY <1>1, <1>5, <2>2, <2>3 DEF CopyEnds
<1>7. gpt_pair_load(d, q) = "ok" /\ gpt_to_schem(d, q) = g
  BY <1>1, <1>4, <1>6, CopyLoads
<1> QED
  BY <1>7 DEF CopyIn, q

\* A table is not touched before its header is the new one.
LEMMA HeaderFirst ==
  ASSUME NEW s, NEW d, NEW n, NEW m, NEW g, NEW had, Midway(s, d, n, m, g, had), g # NoScheme
  PROVE  /\ Phase(Head(s).lba, n, g) > 1 => d[hdr_lba_sec(n)] = SecHdr(n, g)
         /\ Phase(Head(s).lba, n, g) > 3 => d[hdr_lba_prim] = PrimHdr(n, g)
<1>1. /\ InSize(n) /\ IsSeq(s) /\ s # <<>> /\ InOrder(s, n, g)
      /\ Ends(s, d, hdr_lba_sec(n), SecHdr(n, g)) /\ Ends(s, d, hdr_lba_prim, PrimHdr(n, g))
  BY DEF Midway, Plan, WriteEnds, GptEnds, CopyEnds, SecHdr, PrimHdr
<1>2. Phase(hdr_lba_sec(n), n, g) = 1 /\ Phase(hdr_lba_prim, n, g) = 3
  BY <1>1, Phases
<1>3. \A l, v : Untouched(s, l) /\ Ends(s, d, l, v) => d[l] = v
  BY DEF Ends, Wrote, Untouched
<1> QED
  BY <1>1, <1>2, <1>3, OrderHead

\* A store of a GPT leaves both copies, goes on with a backup that is not
\* complete, or goes on with the main copy when the backup is.
LEMMA GptStep ==
  ASSUME NEW s, NEW d, NEW n, NEW m, NEW g, NEW had, Midway(s, d, n, m, g, had), g # NoScheme
  PROVE  LET e == After(d, Head(s))
             q == hdr_lba_sec(n)
         IN  \/ SameCopy(d, e, hdr_lba_prim) /\ SameCopy(d, e, q)
             \/ /\ SameCopy(d, e, hdr_lba_prim)
                /\ Rewritten(d, e, q, g) /\ CopyIn(d, q) # g
             \/ /\ SameCopy(d, e, q)
                /\ Rewritten(d, e, hdr_lba_prim, g) /\ CopyIn(d, q) = g
<1> DEFINE x == Head(s).lba
           e == After(d, Head(s))
           p == hdr_lba_prim
           q == hdr_lba_sec(n)
<1> SUFFICES \/ SameCopy(d, e, p) /\ SameCopy(d, e, q)
             \/ SameCopy(d, e, p) /\ Rewritten(d, e, q, g) /\ CopyIn(d, q) # g
             \/ SameCopy(d, e, q) /\ Rewritten(d, e, p, g) /\ CopyIn(d, q) = g
  OBVIOUS
<1>1. /\ InSize(n) /\ GptFits(g) /\ GptPlan(s, d, n, g)
  BY DEF Midway, Plan
<1>2. /\ Place(p, n) /\ Place(q, n) /\ TableLba(p) = table_lba_prim /\ TableLba(q) = table_lba_sec(n)
      /\ p # q /\ p # 0 /\ q # 0
  BY <1>1, PlacesOfCopy, Apart DEF Place
<1>3. /\ TargetHdr(PrimHdr(n, g), p, n, g) /\ TargetHdr(SecHdr(n, g), q, n, g)
      /\ HdrPlan(s, d, p, PrimHdr(n, g)) /\ HdrPlan(s, d, q, SecHdr(n, g))
      /\ TablePlan(s, table_lba_prim, g) /\ TablePlan(s, table_lba_sec(n), g)
      /\ SecHdr(n, g) = GptHdr(q, p, TableLba(q), g)
  BY <1>1, <1>2, TargetHeaders DEF GptPlan, SecHdr
<1>4. /\ (x # p /\ \A i \in Slots : x # table_lba_prim + i) => SameCopy(d, e, p)
      /\ (x # q /\ \A i \in Slots : x # table_lba_sec(n) + i) => SameCopy(d, e, q)
  BY <1>2, CopyAway
<1>5. /\ Phase(p, n, g) = 3 /\ \A i \in Slots : /\ Phase(table_lba_prim + i, n, g) = 4
                                               /\ Phase(table_lba_sec(n) + i, n, g) = 2
  BY <1>1, Phases
<1>6. /\ Phase(x, n, g) = 2 => d[q] = SecHdr(n, g)
      /\ Phase(x, n, g) = 4 => d[p] = PrimHdr(n, g)
      /\ Phase(x, n, g) \in {3, 4} => CopyIn(d, q) = g
  BY HeaderFirst, BackupFirst
<1>7. CASE x = 0
  BY <1>1, <1>2, <1>4, <1>7, Apart
<1>8. CASE x = q
  <2>1. SameCopy(d, e, p)
    BY <1>1, <1>2, <1>4, <1>8, Apart
  <2>2. SameCopy(d, e, q) \/ (Rewritten(d, e, q, g) /\ CopyIn(d, q) # g)
    BY <1>2, <1>3, <1>8, HeaderStoreStep
  <2> QED
    BY <2>1, <2>2
<1>9. CASE x = p
  <2>1. SameCopy(d, e, q)
    BY <1>1, <1>2, <1>4, <1>9, Apart
  <2>2. SameCopy(d, e, p) \/ Rewritten(d, e, p, g)
    BY <1>2, <1>3, <1>9, HeaderStoreStep
  <2>3. CopyIn(d, q) = g
    BY <1>5, <1>6, <1>9
  <2> QED
    BY <2>1, <2>2, <2>3
<1>10. ASSUME NEW i \in Slots, x = table_lba_sec(n) + i
       PROVE  SameCopy(d, e, p) /\ (SameCopy(d, e, q) \/ (Rewritten(d, e, q, g) /\ CopyIn(d, q) # g))
  <2>1. SameCopy(d, e, p)
    BY <1>1, <1>4, <1>10, Apart
  <2>2. d[q] = SecHdr(n, g)
    BY <1>5, <1>6, <1>10
  <2> QED
    BY <1>2, <1>3, <1>10, <2>1, <2>2, TableStoreStep
<1>11. ASSUME NEW i \in Slots, x = table_lba_prim + i
       PROVE  /\ SameCopy(d, e, q) /\ CopyIn(d, q) = g
              /\ SameCopy(d, e, p) \/ Rewritten(d, e, p, g)
  <2>1. SameCopy(d, e, q)
    BY <1>1, <1>4, <1>11, Apart
  <2>2. d[p] = PrimHdr(n, g) /\ CopyIn(d, q) = g
    BY <1>5, <1>6, <1>11
  <2> QED
    BY <1>2, <1>3, <1>11, <2>1, <2>2, TableStoreStep
<1> QED
  BY <1>7, <1>8, <1>9, <1>10, <1>11, FirstPlace

\* One copy is removed, and stays behind without its signature.
Removes(d, e, l) ==
  CopyIn(d, l) # NoScheme /\ CopyIn(e, l) = NoScheme /\ RemovedIn(e, l) = {CopyIn(d, l)}

\* A store of a write that removes the GPT leaves both copies, removes the main
\* one, or removes the backup when the main one is gone.
LEMMA RemoveStep ==
  ASSUME NEW s, NEW d, NEW n, NEW m, NEW g, NEW had, Midway(s, d, n, m, g, had), g = NoScheme
  PROVE  LET e == After(d, Head(s))
             q == hdr_lba_sec(n)
         IN  \/ SameCopy(d, e, hdr_lba_prim) /\ SameCopy(d, e, q)
             \/ Removes(d, e, hdr_lba_prim) /\ SameCopy(d, e, q)
             \/ /\ CopyIn(d, hdr_lba_prim) = NoScheme
                /\ SameCopy(d, e, hdr_lba_prim) /\ Removes(d, e, q)
<1> DEFINE x == Head(s).lba
           e == After(d, Head(s))
           p == hdr_lba_prim
           q == hdr_lba_sec(n)
<1> SUFFICES \/ SameCopy(d, e, p) /\ SameCopy(d, e, q)
             \/ Removes(d, e, p) /\ SameCopy(d, e, q)
             \/ CopyIn(d, p) = NoScheme /\ SameCopy(d, e, p) /\ Removes(d, e, q)
  OBVIOUS
<1>1. /\ InSize(n) /\ ErasePlan(s, d, p) /\ ErasePlan(s, d, q) /\ InOrder(s, n, NoScheme)
      /\ IsSeq(s) /\ s # <<>> /\ WriteEnds(s, d, n, m, NoScheme, had) /\ had \in BOOLEAN
  BY DEF Midway, Plan, RemovePlan
<1>2. Place(p, n) /\ Place(q, n) /\ p # q /\ p # 0 /\ q # 0 /\ p \in Lbas /\ q \in Lbas
  BY <1>1, PlacesOfCopy, Apart DEF Place
<1>3. /\ TableLba(p) = table_lba_prim /\ TableLba(q) = table_lba_sec(n)
      /\ \A i \in Slots : table_lba_prim + i \notin {0, p, q} /\ table_lba_sec(n) + i \notin {0, p, q}
  BY <1>1, PlacesOfCopy, Apart DEF Place
<1>4. x \in {0, p, q}
  BY FirstPlace
<1>5. (x # p => SameCopy(d, e, p)) /\ (x # q => SameCopy(d, e, q))
  BY <1>2, <1>3, <1>4, CopyAway
<1>6. ASSUME NEW l, Place(l, n), ErasePlan(s, d, l), x = l
      PROVE  SameCopy(d, e, l) \/ Removes(d, e, l)
  <2> DEFINE v == Head(s).val
             f == [d EXCEPT ![l] = v]
  <2>1. v = Wiped(d[l])
    BY <1>6, FirstPlan
  <2>2. OwnCopy(d, l, n) /\ WellFormedSec(v) /\ Standard(v, l) /\ e = f
    BY <1>6, MidwayCopy, FirstStore, StoredOwn DEF OwnSec, After
  <2> HIDE DEF v
  <2>3. /\ DOMAIN f = Lbas /\ f[l] = v
        /\ \A i \in Slots : f[TableLba(l) + i] = d[TableLba(l) + i]
    BY <1>1, <2>2, PlacesOfCopy DEF OwnCopy
  <2> HIDE DEF f
  <2>4. CASE d[l].kind = "hdr"
    <3>1. v = Erased(d[l])
      BY <2>1, <2>4, WipedIs
    <3>2. /\ CopyIn(f, l) = NoScheme /\ RemovedIn(d, l) = {}
          /\ RemovedIn(f, l) = IF CopyIn(d, l) = NoScheme THEN {} ELSE {CopyIn(d, l)}
      <4>1. InSize(n) /\ OwnCopy(d, l, n) /\ WellFormedSec(v) /\ Standard(v, l)
        BY <1>1, <2>2
      <4> QED
        BY ONLY <2>4, <3>1, <4>1, HeaderStored DEF f
    <3> QED
      BY <2>2, <3>2 DEF SameCopy, Removes
  <2>5. CASE v = d[l]
    <3>1. CopyIn(f, l) = CopyIn(d, l) /\ RemovedIn(f, l) = RemovedIn(d, l)
      BY ONLY <1>1, <2>2, <2>3, <2>5, CopyKept
    <3> QED
      BY <2>2, <3>1 DEF SameCopy
  <2>6. CASE d[l].kind # "hdr" /\ v # d[l]
    <3>1. v = Junk /\ d[l].kind \notin {"hdr", "erased"}
      BY <2>1, <2>6, WipedIs
    <3>2. CopyIn(f, l) = NoScheme /\ RemovedIn(f, l) = {}
      <4>1. InSize(n) /\ OwnCopy(d, l, n) /\ WellFormedSec(v) /\ Standard(v, l)
        BY <1>1, <2>2
      <4>2. v = Junk => /\ CopyIn([d EXCEPT ![l] = v], l) = NoScheme
                        /\ RemovedIn([d EXCEPT ![l] = v], l) = {}
        BY ONLY <4>1, HeaderStored
      <4> QED
        BY <3>1, <4>2 DEF f
    <3>3. CopyIn(d, l) = NoScheme /\ RemovedIn(d, l) = {}
      BY <3>1, PairLoads DEF CopyIn, RemovedIn
    <3> QED
      BY <2>2, <3>2, <3>3 DEF SameCopy
  <2> QED
    BY <2>4, <2>5, <2>6
<1>7. ASSUME x = q PROVE CopyIn(d, p) = NoScheme
  <2>1. Phase(p, n, NoScheme) = 0 /\ Phase(q, n, NoScheme) = 1
    <3>1. EmptyMbr # NoScheme
      BY SchemeKinds
    <3> QED
      BY <1>1, <3>1, Phases
  <2>2. Untouched(s, p)
    BY <1>1, <1>7, <2>1, OrderHead
  <2>3. ~Untouched(s, q)
    BY <1>7, FirstStore DEF Untouched
  <2>4. Gone(s, d, p)
    BY <1>1, <1>2, <2>3 DEF WriteEnds
  <2>5. d[p].kind # "hdr"
    BY <2>2, <2>4 DEF Gone, Ends, Wrote, Untouched
  <2> QED
    BY <2>5, PairLoads DEF CopyIn
<1> QED
  BY <1>1, <1>2, <1>4, <1>5, <1>6, <1>7

-----------------------------------------------------------------------------
(* The invariant: what is on the image and what is left to store.          *)

AtomicInv == SaveInv /\ OwnInv /\ PlanInv

LEMMA ImageOwn ==
  ASSUME SaveInv, OwnInv
  PROVE  /\ InSize(secs) /\ DOMAIN disk = Lbas /\ WellFormed(disk)
         /\ \A l \in Lbas : disk[l] \in stable[l] /\ OwnSec(disk[l], l)
  BY SizeFits DEF SaveInv, ImageFits, OwnInv

LEMMA AtStore ==
  ASSUME AtomicInv, Store
  PROVE  /\ Midway(todo, disk, secs, mbr, gpt, in_img.gpt)
         /\ disk' = After(disk, Head(todo)) /\ secs' = secs /\ gpt' = gpt
<1>1. /\ pc = "saving" /\ todo # <<>> /\ disk' = After(disk, Head(todo))
      /\ secs' = secs /\ gpt' = gpt
  BY DEF Store, After, ctx
<1>2. /\ InSize(secs) /\ DOMAIN disk = Lbas /\ WellFormed(disk)
      /\ \A l \in Lbas : OwnSec(disk[l], l)
  BY ImageOwn DEF AtomicInv
<1>3. IsSeq(todo) /\ SafePuts(todo, secs) /\ Plan(todo, disk, secs, gpt)
  BY <1>1 DEF AtomicInv, SaveInv, RunFits, PlanInv
<1>4. WriteEnds(todo, disk, secs, mbr, gpt, in_img.gpt) /\ in_img.gpt \in BOOLEAN
  BY <1>1 DEF AtomicInv, SaveInv, WriteFits, SchemesFit
<1>5. gpt # NoScheme => GptFits(gpt) /\ gpt.id \in AllIds
  BY DEF AtomicInv, SaveInv, SchemesFit, OwnInv
<1> QED
  BY <1>1, <1>2, <1>3, <1>4, <1>5 DEF Midway

LEMMA OwnInit == ASSUME StandardImages, Init PROVE OwnInv
<1>1. PICK d \in InitDisks : disk = d.sectors
  BY DEF Init
<1>2. ASSUME NEW l \in Lbas PROVE OwnSec(disk[l], l)
  <2>1. Standard(disk[l], l)
    BY <1>1 DEF StandardImages
  <2>2. disk[l].kind \in {"hdr", "erased"} => HdrIn(disk[l]).id \in AllIds
    BY <1>1 DEF AllIds
  <2> QED
    BY <2>1, <2>2 DEF OwnSec
<1> QED
  BY <1>2 DEF Init, OwnInv

\* The disk GUID of what is found is that of a header on the image.
LEMMA LoadedId ==
  ASSUME SaveInv, OwnInv, NEW n \in Sizes, gpt_load(disk, n) # NoScheme
  PROVE  gpt_load(disk, n).id \in AllIds
<1>1. /\ InSize(n) /\ DOMAIN disk = Lbas /\ WellFormed(disk)
      /\ \A l \in Lbas : OwnSec(disk[l], l)
  BY ImageOwn, Places
<1>2. \A l \in Lbas : Standard(disk[l], l)
  BY <1>1 DEF OwnSec
<1>3. PICK l : Place(l, n) /\ gpt_load(disk, n) = CopyIn(disk, l)
  BY <1>1, <1>2, LoadIsCopies DEF Place
<1>4. OwnCopy(disk, l, n) /\ l \in Lbas
  BY <1>1, <1>2, <1>3, PlacesOfCopy DEF OwnCopy, WellFormed
<1>5. disk[l].kind = "hdr" /\ CopyIn(disk, l) = Described(disk[l])
  BY <1>1, <1>3, <1>4, CopyHas
<1>6. disk[l].id \in AllIds
  BY <1>1, <1>4, <1>5 DEF OwnSec, HdrIn
<1>7. Described(disk[l]).id = disk[l].id
  BY <1>5 DEF Described, GptSchem
<1> QED
  BY <1>3, <1>5, <1>6, <1>7

\* A step that leaves the sectors as they are.
LEMMA OwnKept ==
  ASSUME SaveInv, OwnInv, gpt' # NoScheme => gpt'.id \in AllIds,
         \A l \in Lbas : \A v \in stable'[l] : v \in stable[l] \/ OwnSec(v, l)
  PROVE  OwnInv'
  BY DEF OwnInv

LEMMA OwnCommand == ASSUME SaveInv, OwnInv, Command PROVE OwnInv'
<1>1. gpt # NoScheme => gpt.id \in AllIds
  BY DEF OwnInv
<1>2. UNCHANGED stable
  BY DEF Command, NewMbr, NewGpt, EditGpt, EditMbr, EnterMbr, ResetMbr, ReturnFromNested,
         Quit, img
<1>3. gpt' # NoScheme => gpt'.id \in AllIds
  <2>1. CASE UNCHANGED gpt
    BY <1>1, <2>1
  <2>2. CASE NewMbr \/ Quit
    BY <2>2 DEF NewMbr, Quit, Exit
  <2>3. ASSUME NEW id \in Ids, NewGpt(id) PROVE gpt'.id \in AllIds
    BY <2>3 DEF NewGpt, GptSchem, AllIds
  <2>4. ASSUME NEW i, NEW p, EditGpt(i, p) PROVE gpt'.id \in AllIds
    <3>1. gpt # NoScheme /\ IsGpt(gpt) /\ gpt' = [gpt EXCEPT !.tab[i] = p]
      BY <2>4 DEF EditGpt, SaveInv, Inv, CurExists, Kinds
    <3>2. gpt'.id = gpt.id
      BY <3>1 DEF IsGpt, GptSchem
    <3> QED
      BY <1>1, <3>1, <3>2
  <2> QED
    BY <2>1, <2>2, <2>3, <2>4 DEF Command, EditMbr, EnterMbr, ResetMbr, ReturnFromNested
<1> QED
  BY <1>2, <1>3, OwnKept

LEMMA OwnNext == AtomicInv /\ [Next]_vars => OwnInv'
<1> SUFFICES ASSUME AtomicInv, [Next]_vars PROVE OwnInv'
  OBVIOUS
<1> USE DEF AtomicInv
<1>1. /\ \A l \in Lbas : disk[l] \in stable[l]
      /\ DOMAIN disk = Lbas /\ DOMAIN stable = Lbas
      /\ gpt # NoScheme => gpt.id \in AllIds
  BY DEF SaveInv, ImageFits, OwnInv
<1>2. ASSUME UNCHANGED stable, gpt' \in {gpt, NoScheme} PROVE OwnInv'
  BY <1>1, <1>2, OwnKept
<1>3. ASSUME stable' = [l \in Lbas |-> {disk[l]}], gpt' \in {gpt, NoScheme} PROVE OwnInv'
  BY <1>1, <1>3, OwnKept
<1>4. ASSUME NEW n \in Sizes, Start(n) PROVE OwnInv'
  <2>1. n >= secs /\ gpt' = gpt_load(disk, n) /\ UNCHANGED stable
    BY <1>4 DEF Start, Extend
  <2>2. gpt' # NoScheme => gpt'.id \in AllIds
    BY <2>1, LoadedId
  <2> QED
    BY <2>1, <2>2, OwnKept
<1>5. ASSUME NEW n, StartFails(n) PROVE OwnInv'
  BY <1>2, <1>5 DEF StartFails, Extend, ctx
<1>6. CASE Command
  BY <1>6, OwnCommand
<1>7. CASE Write
  BY <1>2, <1>7 DEF Write, img, ctx
<1>8. CASE Store
  <2> DEFINE p == Head(todo)
  <2>1. OwnSec(p.val, p.lba)
    BY <1>8, AtStore, StoredOwn
  <2>2. /\ stable' = IF "power" \in Faults
                     THEN [stable EXCEPT ![p.lba] = @ \cup {p.val}]
                     ELSE [stable EXCEPT ![p.lba] = {p.val}]
        /\ gpt' = gpt
    BY <1>8 DEF Store, ctx
  <2> HIDE DEF p
  <2>3. \A l \in Lbas : \A v \in stable'[l] : v \in stable[l] \/ (l = p.lba /\ v = p.val)
    BY <1>1, <2>2
  <2> QED
    BY <1>1, <2>1, <2>2, <2>3, OwnKept
<1>9. CASE Stored
  BY <1>2, <1>9 DEF Stored, img, ctx
<1>10. CASE Sync
  BY <1>3, <1>10 DEF Sync
<1>11. CASE WriteFails \/ Kill
  BY <1>2, <1>11 DEF WriteFails, Kill, Exit, img
<1>12. CASE PowerLoss
  <2>1. PICK d \in OnMedium : /\ \A l \in Lbas : d[l] \in stable[l]
                              /\ stable' = [l \in Lbas |-> {d[l]}]
    BY <1>12 DEF PowerLoss
  <2>2. gpt' = NoScheme
    BY <1>12 DEF PowerLoss, Exit
  <2> QED
    BY <2>1, <2>2, OwnKept
<1>13. CASE Writeback
  BY <1>3, <1>13 DEF Writeback, ctx
<1>14. ASSUME NEW l \in Lbas, Rot(l) PROVE OwnInv'
  <2>1. stable' = [stable EXCEPT ![l] = {Junk}] /\ gpt' = gpt
    BY <1>14 DEF Rot, ctx
  <2>2. OwnSec(Junk, l)
    BY DEF OwnSec, Standard, Junk
  <2> QED
    BY <1>1, <2>1, <2>2, OwnKept
<1>15. CASE UNCHANGED vars
  BY <1>2, <1>15 DEF vars
<1> QED
  BY <1>4, <1>5, <1>6, <1>7, <1>8, <1>9, <1>10, <1>11, <1>12, <1>13, <1>14, <1>15
     DEF Next, Save

LEMMA PlanNext == AtomicInv /\ [Next]_vars => PlanInv'
<1> SUFFICES ASSUME AtomicInv, [Next]_vars, pc' = "saving"
             PROVE  Plan(todo', disk', secs', gpt')
  BY DEF PlanInv
<1>1. /\ InSize(secs) /\ DOMAIN disk = Lbas /\ WellFormed(disk)
  BY ImageOwn DEF AtomicInv
<1>2. CASE Write
  <2>1. /\ todo' = SavePuts(disk, secs, mbr, gpt)
        /\ disk' = disk /\ secs' = secs /\ gpt' = gpt
    BY <1>2 DEF Write, img, ctx
  <2>2. mbr \in MbrSchemes \cup {NoScheme} /\ (gpt # NoScheme => GptFits(gpt))
    BY DEF AtomicInv, SaveInv, SchemesFit
  <2>3. Plan(SavePuts(disk, secs, mbr, gpt), disk, secs, gpt)
    BY <1>1, <2>2, PlanBegins
  <2> QED
    BY <2>1, <2>3
<1>3. CASE Store
  <2>1. /\ todo' = Tail(todo) /\ disk' = [disk EXCEPT ![Head(todo).lba] = Head(todo).val]
        /\ secs' = secs /\ gpt' = gpt
    BY <1>3 DEF Store, ctx
  <2>2. IsSeq(todo) /\ SafePuts(todo, secs) /\ todo # <<>> /\ Plan(todo, disk, secs, gpt)
    BY <1>3, AtStore DEF Midway
  <2>3. Plan(Tail(todo), [disk EXCEPT ![Head(todo).lba] = Head(todo).val], secs, gpt)
    BY <1>1, <2>2, PlanAdvances
  <2> QED
    BY <2>1, <2>3
<1>4. CASE pc = "saving" /\ UNCHANGED <<disk, secs, gpt, todo>>
  BY <1>4 DEF AtomicInv, PlanInv
<1> QED
  BY <1>2, <1>3, <1>4, SavingSteps DEF vars

LEMMA AtomicInvariant ==
  ASSUME StandardImages
  PROVE  Spec => []AtomicInv
<1>1. Init => AtomicInv
  BY SaveInit, OwnInit DEF AtomicInv, PlanInv, Init
<1>2. AtomicInv /\ [Next]_vars => AtomicInv'
  BY SaveNext, OwnNext, PlanNext DEF AtomicInv
<1> QED
  BY <1>1, <1>2, PTL DEF Spec

-----------------------------------------------------------------------------
(* What follows: a write of a GPT is atomic.                               *)

\* What SchemCtx says of the two copies is what is said here.
LEMMA CopiesAre ==
  /\ Main = CopyIn(disk, hdr_lba_prim) /\ Backup = CopyIn(disk, hdr_lba_sec(secs))
  /\ RemovedAt(hdr_lba_prim) = RemovedIn(disk, hdr_lba_prim)
  /\ RemovedAt(hdr_lba_sec(secs)) = RemovedIn(disk, hdr_lba_sec(secs))
  BY DEF Main, Backup, CopyAt, CopyIn, RemovedAt, RemovedIn

LEMMA CopiesAfter ==
  ASSUME secs' = secs
  PROVE  /\ Main' = CopyIn(disk', hdr_lba_prim) /\ Backup' = CopyIn(disk', hdr_lba_sec(secs))
         /\ RemovedAt(hdr_lba_prim)' = RemovedIn(disk', hdr_lba_prim)
         /\ RemovedAt(hdr_lba_sec(secs))' = RemovedIn(disk', hdr_lba_sec(secs))
  BY DEF Main, Backup, CopyAt, CopyIn, RemovedAt, RemovedIn

FoundIsCopy == Found = IF Main # NoScheme THEN Main ELSE Backup

LEMMA FoundIs == AtomicInv => FoundIsCopy
<1> SUFFICES ASSUME AtomicInv PROVE Found = IF Main # NoScheme THEN Main ELSE Backup
  BY DEF FoundIsCopy
<1>1. InSize(secs) /\ WellFormed(disk) /\ \A l \in Lbas : Standard(disk[l], l)
  BY ImageOwn DEF AtomicInv, OwnSec
<1> QED
  BY <1>1, LoadIsCopies, CopiesAre DEF Found

RemovedMain == RemovedAt(hdr_lba_prim)
RemovedBackup == RemovedAt(hdr_lba_sec(secs))

MainKept == Main' = Main /\ RemovedMain' = RemovedMain
BackupKept == Backup' = Backup /\ RemovedBackup' = RemovedBackup

\* A store of a write, seen as a step of the two copies.
LEMMA StoreSteps ==
  ASSUME AtomicInv, Store
  PROVE  /\ gpt # NoScheme =>
              \/ MainKept /\ BackupKept
              \/ /\ MainKept /\ Backup # gpt
                 /\ Backup' \in {NoScheme, gpt} \cup RemovedBackup /\ RemovedBackup' = {}
              \/ /\ BackupKept /\ Backup = gpt
                 /\ Main' \in {NoScheme, gpt} \cup RemovedMain /\ RemovedMain' = {}
         /\ gpt = NoScheme =>
              \/ MainKept /\ BackupKept
              \/ BackupKept /\ Main # NoScheme /\ Main' = NoScheme /\ RemovedMain' = {Main}
              \/ /\ MainKept /\ Main = NoScheme /\ Backup # NoScheme
                 /\ Backup' = NoScheme /\ RemovedBackup' = {Backup}
<1>1. /\ Midway(todo, disk, secs, mbr, gpt, in_img.gpt)
      /\ disk' = After(disk, Head(todo)) /\ secs' = secs
  BY AtStore
<1>2. /\ Main = CopyIn(disk, hdr_lba_prim) /\ Backup = CopyIn(disk, hdr_lba_sec(secs))
      /\ RemovedMain = RemovedIn(disk, hdr_lba_prim)
      /\ RemovedBackup = RemovedIn(disk, hdr_lba_sec(secs))
  BY CopiesAre DEF RemovedMain, RemovedBackup
<1>3. /\ Main' = CopyIn(disk', hdr_lba_prim) /\ Backup' = CopyIn(disk', hdr_lba_sec(secs))
      /\ RemovedMain' = RemovedIn(disk', hdr_lba_prim)
      /\ RemovedBackup' = RemovedIn(disk', hdr_lba_sec(secs))
  BY <1>1, CopiesAfter DEF RemovedMain, RemovedBackup
<1>4. ASSUME gpt # NoScheme
      PROVE  \/ SameCopy(disk, disk', hdr_lba_prim) /\ SameCopy(disk, disk', hdr_lba_sec(secs))
             \/ /\ SameCopy(disk, disk', hdr_lba_prim)
                /\ Rewritten(disk, disk', hdr_lba_sec(secs), gpt)
                /\ CopyIn(disk, hdr_lba_sec(secs)) # gpt
             \/ /\ SameCopy(disk, disk', hdr_lba_sec(secs))
                /\ Rewritten(disk, disk', hdr_lba_prim, gpt)
                /\ CopyIn(disk, hdr_lba_sec(secs)) = gpt
  BY <1>1, <1>4, GptStep
<1>5. ASSUME gpt = NoScheme
      PROVE  \/ SameCopy(disk, disk', hdr_lba_prim) /\ SameCopy(disk, disk', hdr_lba_sec(secs))
             \/ /\ Removes(disk, disk', hdr_lba_prim)
                /\ SameCopy(disk, disk', hdr_lba_sec(secs))
             \/ /\ CopyIn(disk, hdr_lba_prim) = NoScheme
                /\ SameCopy(disk, disk', hdr_lba_prim)
                /\ Removes(disk, disk', hdr_lba_sec(secs))
  BY <1>1, <1>5, RemoveStep
<1> QED
  BY <1>2, <1>3, <1>4, <1>5 DEF MainKept, BackupKept, SameCopy, Rewritten, Removes

\* While a GPT is written over a valid main copy, or over nothing, a restart
\* finds after every store what it would have found before, or the GPT that is
\* written: gpt_save (gpt.c:613) completes the backup before it touches the main
\* copy, and gpt_hdr_write never leaves two headers that are half written.
THEOREM WriteIsAtomic == ASSUME StandardImages PROVE Spec => SaveAtomic
<1>1. AtomicInv /\ FoundIsCopy /\ FoundIsCopy' /\ [Next]_vars =>
        [pc = "saving" /\ pc' = "saving" /\ gpt # NoScheme /\ Guarded =>
           /\ Found' \in {Found, gpt} \cup Removed
           /\ Removed = {} => Guarded']_vars
  <2> SUFFICES ASSUME AtomicInv, FoundIsCopy, FoundIsCopy', Next, pc = "saving",
                      pc' = "saving", gpt # NoScheme, Guarded
               PROVE  /\ Found' \in {Found, gpt} \cup Removed
                      /\ Removed = {} => Guarded'
    OBVIOUS
  <2>1. /\ Found = IF Main # NoScheme THEN Main ELSE Backup
        /\ Found' = IF Main' # NoScheme THEN Main' ELSE Backup'
    BY DEF FoundIsCopy
  <2>2. Removed = RemovedMain \cup RemovedBackup
    BY DEF Removed, RemovedMain, RemovedBackup
  <2>3. CASE Store
    <3>1. gpt' = gpt
      BY <2>3, AtStore
    <3>2. \/ MainKept /\ BackupKept
          \/ /\ MainKept /\ Backup # gpt
             /\ Backup' \in {NoScheme, gpt} \cup RemovedBackup /\ RemovedBackup' = {}
          \/ /\ BackupKept /\ Backup = gpt
             /\ Main' \in {NoScheme, gpt} \cup RemovedMain /\ RemovedMain' = {}
      BY <2>3, StoreSteps
    <3> QED
      BY <2>1, <2>2, <3>1, <3>2 DEF Guarded, MainKept, BackupKept
  <2>4. CASE UNCHANGED <<disk, secs, gpt, todo>>
    BY <2>4 DEF Found, Guarded, Main, Backup, CopyAt
  <2> QED
    BY <2>3, <2>4, SavingSteps DEF Write
<1>2. Spec => []AtomicInv
  BY AtomicInvariant
<1> QED
  BY <1>1, <1>2, FoundIs, PTL DEF Spec, SaveAtomic

-----------------------------------------------------------------------------
(* SchemCtx implements GptStore, as long as no power is lost.              *)

LEMMA GptInGpts ==
  ASSUME NEW g, GptFits(g), g.id \in AllIds
  PROVE  g \in Gpts
<1>1. /\ g = [kind |-> "gpt", id |-> g.id, first |-> g.first, last |-> g.last, tab |-> g.tab]
      /\ g.first \in Nat /\ g.last \in Nat
  BY DEF GptFits, IsGpt, GptSchem
<1>2. PICK c \in 0 .. gpt_max_part_cnt : g.tab = [i \in 0 .. c - 1 |-> g.tab[i]]
  BY DEF GptFits
<1>3. \A i \in 0 .. c - 1 : g.tab[i] \in Ranges \cup {Unused}
  <2>1. DOMAIN g.tab = 0 .. c - 1
    BY <1>2
  <2> QED
    BY <2>1 DEF GptFits
<1>4. g.tab \in [0 .. c - 1 -> Ranges \cup {Unused}]
  BY <1>2, <1>3
<1>5. g.tab \in UNION {[0 .. cnt - 1 -> Ranges \cup {Unused}] : cnt \in 0 .. gpt_max_part_cnt}
  BY <1>4
<1> QED
  BY <1>1, <1>5 DEF Gpts

LEMMA CopyInGpts ==
  ASSUME NEW n, InSize(n), NEW l, NEW d, OwnCopy(d, l, n), OwnSec(d[l], l)
  PROVE  CopyIn(d, l) \in Gpts \cup {NoScheme} /\ RemovedIn(d, l) \subseteq Gpts
<1>1. ASSUME NEW e, WellFormedSec(e[l]), gpt_pair_load(e, l) = "ok",
             e[l].kind = "hdr" => e[l].id \in AllIds
      PROVE  gpt_to_schem(e, l) \in Gpts
  <2>1. GptFits(gpt_to_schem(e, l)) /\ e[l].kind = "hdr"
    BY <1>1, PairFits, PairLoads
  <2>2. gpt_to_schem(e, l).id = e[l].id
    BY DEF gpt_to_schem, GptSchem
  <2> QED
    BY <1>1, <2>1, <2>2, GptInGpts
<1>2. /\ WellFormedSec(d[l]) /\ DOMAIN d = Lbas /\ l \in Lbas
      /\ d[l].kind \in {"hdr", "erased"} => HdrIn(d[l]).id \in AllIds
  BY PlacesOfCopy DEF OwnCopy, OwnSec
<1>3. CopyIn(d, l) \in Gpts \cup {NoScheme}
  BY <1>1, <1>2 DEF CopyIn, HdrIn
<1>4. ASSUME d[l].kind = "erased" PROVE RemovedIn(d, l) \subseteq Gpts
  <2> DEFINE e == [d EXCEPT ![l] = HdrIn(@)]
  <2>1. e[l] = HdrIn(d[l])
    BY <1>2
  <2>2. RemovedIn(d, l) = IF gpt_pair_load(e, l) = "ok" THEN {gpt_to_schem(e, l)} ELSE {}
    BY <1>4 DEF RemovedIn
  <2> HIDE DEF e
  <2>3. WellFormedSec(e[l]) /\ e[l].id \in AllIds
    BY <1>2, <1>4, <2>1, Sectors DEF WellFormedHdr
  <2> QED
    BY <1>1, <2>2, <2>3
<1> QED
  BY <1>3, <1>4 DEF RemovedIn

\* A sector that goes bad can only make a copy invalid.
LEMMA CopyRots ==
  ASSUME NEW n, InSize(n), NEW l, NEW d, OwnCopy(d, l, n), NEW x \in Lbas
  PROVE  LET e == [d EXCEPT ![x] = Junk]
         IN  CopyIn(e, l) \in {CopyIn(d, l), NoScheme} /\ RemovedIn(e, l) \subseteq RemovedIn(d, l)
<1> DEFINE e == [d EXCEPT ![x] = Junk]
<1> SUFFICES CopyIn(e, l) \in {CopyIn(d, l), NoScheme} /\ RemovedIn(e, l) \subseteq RemovedIn(d, l)
  OBVIOUS
<1>1. /\ DOMAIN d = Lbas /\ l \in Lbas /\ DOMAIN e = Lbas /\ Place(l, n)
      /\ e[x] = Junk /\ \A y \in Lbas : y # x => e[y] = d[y]
      /\ \A i \in Slots : TableLba(l) + i \in Lbas /\ TableLba(l) + i # l
  BY PlacesOfCopy DEF OwnCopy
<1> HIDE DEF e
<1>2. OwnCopy(e, l, n)
  <2>1. WellFormedSec(Junk) /\ Standard(Junk, l)
    BY DEF WellFormedSec, Standard, Junk
  <2> QED
    BY <1>1, <2>1 DEF OwnCopy
<1>3. ASSUME NEW h, OwnHdr(h, l, n), Whole(e, h, l) PROVE Whole(d, h, l)
  <2>1. /\ h.my_lba = l /\ DOMAIN h.entries \subseteq Slots /\ h.entries = Entries(Described(h))
        /\ \A i \in DOMAIN h.entries : e[TableLba(l) + i] = h.entries[i]
    <3>1. h.my_lba = l /\ \A i \in DOMAIN h.entries : e[TableLba(l) + i] = h.entries[i]
      BY <1>3 DEF Whole
    <3>2. WellFormedHdr(h) /\ StandardHdr(h, l)
      BY <1>3, <3>1 DEF OwnHdr
    <3>3. h.entries = Entries(Described(h))
      BY <3>2 DEF StandardHdr, GptHdr
    <3> QED
      BY <3>1, <3>2, <3>3, StandardFacts
  <2>2. \A i \in DOMAIN h.entries : h.entries[i] # Junk
    <3>1. PICK g : h.entries = Entries(g)
      BY <2>1
    <3>2. \A i \in DOMAIN h.entries : h.entries[i].kind = "ent"
      BY <3>1 DEF Entries, Ent
    <3> QED
      BY <3>2 DEF Junk
  <2>3. \A i \in DOMAIN h.entries : TableLba(l) + i \in Lbas /\ TableLba(l) + i # x
    BY <1>1, <2>1, <2>2
  <2> QED
    BY <1>1, <2>1, <2>3 DEF Whole
<1>4. /\ CopyIn(e, l) = IF e[l].kind = "hdr" /\ Whole(e, e[l], l) THEN Described(e[l]) ELSE NoScheme
      /\ RemovedIn(e, l) = IF e[l].kind = "erased" /\ Whole(e, e[l].hdr, l)
                           THEN {Described(e[l].hdr)} ELSE {}
      /\ CopyIn(d, l) = IF d[l].kind = "hdr" /\ Whole(d, d[l], l) THEN Described(d[l]) ELSE NoScheme
      /\ RemovedIn(d, l) = IF d[l].kind = "erased" /\ Whole(d, d[l].hdr, l)
                           THEN {Described(d[l].hdr)} ELSE {}
  BY <1>2, CopyIs
<1>5. /\ d[l].kind = "hdr" => OwnHdr(d[l], l, n)
      /\ d[l].kind = "erased" => OwnHdr(d[l].hdr, l, n)
  BY OwnHeaders DEF OwnCopy
<1>6. CASE x = l
  <2>1. e[l].kind \notin {"hdr", "erased"}
    BY <1>1, <1>6 DEF Junk
  <2> QED
    BY <1>4, <2>1
<1>7. CASE x # l
  <2>1. e[l] = d[l]
    BY <1>1, <1>7
  <2> QED
    BY <1>3, <1>4, <1>5, <2>1
<1> QED
  BY <1>6, <1>7

\* The state of GptStore that a state of SchemCtx stands for.
Target == IF pc \in {"saving", "sync"} THEN gpt ELSE Idle

CopiesFit ==
  /\ Main \in Gpts \cup {NoScheme} /\ RemovedMain \subseteq Gpts
  /\ Backup \in Gpts \cup {NoScheme} /\ RemovedBackup \subseteq Gpts
  /\ gpt \in Gpts \cup {NoScheme}

LEMMA CopiesTyped == AtomicInv => CopiesFit
<1> SUFFICES ASSUME AtomicInv PROVE CopiesFit
  OBVIOUS
<1>1. ASSUME NEW l, Place(l, secs)
      PROVE  CopyIn(disk, l) \in Gpts \cup {NoScheme} /\ RemovedIn(disk, l) \subseteq Gpts
  <2>1. InSize(secs) /\ l \in Lbas
    BY <1>1, ImageOwn, PlacesOfCopy DEF AtomicInv
  <2>2. OwnCopy(disk, l, secs) /\ OwnSec(disk[l], l)
    BY <1>1, <2>1, ImageOwn DEF AtomicInv, OwnCopy, OwnSec, WellFormed
  <2> QED
    BY <2>1, <2>2, CopyInGpts
<1>2. gpt \in Gpts \cup {NoScheme}
  BY GptInGpts DEF AtomicInv, SaveInv, SchemesFit, OwnInv
<1> QED
  BY <1>1, <1>2, CopiesAre DEF CopiesFit, RemovedMain, RemovedBackup, Place

\* The kinds of values GptStore keeps apart.
LEMMA KindsApart == NoScheme \notin Gpts /\ Idle \notin Gpts /\ Idle # NoScheme
<1>1. \A g \in Gpts : g.kind = "gpt"
  BY DEF Gpts
<1>2. NoScheme.kind = "none" /\ Idle.kind = "idle"
  BY DEF NoScheme, Idle
<1> QED
  BY <1>1, <1>2

LEMMA CopiesStill ==
  ASSUME UNCHANGED <<disk, secs>>
  PROVE  MainKept /\ BackupKept
  BY DEF MainKept, BackupKept, Main, Backup, CopyAt, RemovedMain, RemovedBackup, RemovedAt

\* The actions of GptStore, in terms of this module.
LEMMA CopiesSteps ==
  /\ (MainKept /\ BackupKept /\ Target' = Target) => UNCHANGED Copies!vars
  /\ /\ MainKept /\ BackupKept /\ Target = Idle /\ Target' \in Gpts \cup {NoScheme}
     => Copies!Begin
  /\ /\ MainKept /\ BackupKept /\ Target # Idle /\ Target' = Idle
     => Copies!End
  /\ /\ Target \in Gpts /\ Target' = Target /\ MainKept /\ Backup # Target
     /\ Backup' \in {NoScheme, Target} \cup RemovedBackup /\ RemovedBackup' = {}
     => Copies!WriteBackup
  /\ /\ Target \in Gpts /\ Target' = Target /\ BackupKept /\ Backup = Target
     /\ Main' \in {NoScheme, Target} \cup RemovedMain /\ RemovedMain' = {}
     => Copies!WriteMain
  /\ /\ Target = NoScheme /\ Target' = Target /\ BackupKept /\ Main # NoScheme
     /\ Main' = NoScheme /\ RemovedMain' = {Main}
     => Copies!RemoveMain
  /\ /\ Target = NoScheme /\ Target' = Target /\ MainKept /\ Main = NoScheme
     /\ Backup # NoScheme /\ Backup' = NoScheme /\ RemovedBackup' = {Backup}
     => Copies!RemoveBackup
  /\ /\ Target = Idle /\ Target' = Target /\ MainKept
     /\ Backup' \in Gpts \cup {NoScheme} /\ RemovedBackup' \subseteq Gpts
     => Copies!Extend
  /\ /\ Target = Idle /\ Target' = Target
     /\ Main' \in {Main, NoScheme} /\ RemovedMain' \subseteq RemovedMain
     /\ Backup' \in {Backup, NoScheme} /\ RemovedBackup' \subseteq RemovedBackup
     => Copies!Damage
  BY DEF Copies!vars, Copies!Begin, Copies!End, Copies!WriteBackup, Copies!WriteMain,
         Copies!RemoveMain, Copies!RemoveBackup, Copies!Extend, Copies!Damage,
         Target, MainKept, BackupKept, RemovedMain, RemovedBackup

LEMMA CopiesStart ==
  ASSUME CopiesFit', pc = "off", pc' \in {"off", "cmd"}, disk' = disk
  PROVE  Copies!Extend
<1>1. Target = Idle /\ Target' = Target
  BY DEF Target
<1>2. MainKept
  BY DEF MainKept, Main, CopyAt, RemovedMain, RemovedAt
<1> QED
  BY <1>1, <1>2, CopiesSteps DEF CopiesFit

LEMMA CopiesRot ==
  ASSUME AtomicInv, NEW l \in Lbas, Rot(l)
  PROVE  Copies!Damage
<1>1. /\ disk' = [disk EXCEPT ![l] = Junk] /\ secs' = secs /\ pc = "off" /\ pc' = pc
  BY DEF Rot, run
<1>2. ASSUME NEW p, Place(p, secs)
      PROVE  /\ CopyIn(disk', p) \in {CopyIn(disk, p), NoScheme}
             /\ RemovedIn(disk', p) \subseteq RemovedIn(disk, p)
  <2>1. InSize(secs) /\ p \in Lbas
    BY <1>2, ImageOwn, PlacesOfCopy DEF AtomicInv
  <2>2. OwnCopy(disk, p, secs)
    BY <1>2, <2>1, ImageOwn DEF AtomicInv, OwnCopy, OwnSec, WellFormed
  <2> QED
    BY <1>1, <2>1, <2>2, CopyRots
<1>3. Place(hdr_lba_prim, secs) /\ Place(hdr_lba_sec(secs), secs)
  BY DEF Place
<1>4. /\ Main' \in {Main, NoScheme} /\ RemovedMain' \subseteq RemovedMain
      /\ Backup' \in {Backup, NoScheme} /\ RemovedBackup' \subseteq RemovedBackup
  BY <1>1, <1>2, <1>3, CopiesAre, CopiesAfter DEF RemovedMain, RemovedBackup
<1>5. Target = Idle /\ Target' = Target
  BY <1>1 DEF Target
<1> QED
  BY <1>4, <1>5, CopiesSteps

LEMMA CopiesStore ==
  ASSUME AtomicInv, CopiesFit, Store
  PROVE  [Copies!Next]_(Copies!vars)
<1>1. gpt' = gpt /\ Target = gpt /\ Target' = Target
  BY DEF Store, ctx, Target
<1>2. CASE gpt = NoScheme
  BY <1>1, <1>2, StoreSteps, CopiesSteps DEF Copies!Next
<1>3. CASE gpt # NoScheme
  <2>1. gpt \in Gpts
    BY <1>3 DEF CopiesFit
  <2> QED
    BY <1>1, <1>3, <2>1, StoreSteps, CopiesSteps DEF Copies!Next
<1> QED
  BY <1>2, <1>3

\* The steps that leave the image alone: a write begins, ends, or goes on.
LEMMA CopiesQuiet ==
  ASSUME CopiesFit, UNCHANGED <<disk, secs>>,
         gpt' = gpt \/ pc' \in {"off", "cmd"}
  PROVE  [Copies!Next]_(Copies!vars)
<1>1. MainKept /\ BackupKept
  BY CopiesStill
<1>2. Idle # gpt /\ gpt \in Gpts \cup {NoScheme}
  BY KindsApart DEF CopiesFit
<1>3. \/ Target' = Target
      \/ Target = Idle /\ Target' \in Gpts \cup {NoScheme}
      \/ Target # Idle /\ Target' = Idle
  BY <1>2 DEF Target
<1> QED
  BY <1>1, <1>3, CopiesSteps DEF Copies!Next

LEMMA CopiesNext ==
  ASSUME AtomicInv, CopiesFit, CopiesFit', "power" \notin Faults, [Next]_vars
  PROVE  [Copies!Next]_(Copies!vars)
<1>1. ASSUME NEW n \in Sizes, Start(n) \/ StartFails(n)
      PROVE  Copies!Extend
  <2>1. pc = "off" /\ pc' \in {"off", "cmd"} /\ disk' = disk
    BY <1>1 DEF Start, StartFails, Extend, run
  <2> QED
    BY <2>1, CopiesStart
<1>2. CASE Command
  <2>1. pc' \in {"off", "cmd"} /\ UNCHANGED <<disk, secs>>
    BY <1>2 DEF Command, NewMbr, NewGpt, EditGpt, EditMbr, EnterMbr, ResetMbr,
                ReturnFromNested, Quit, Exit, img, run
  <2> QED
    BY <2>1, CopiesQuiet
<1>3. CASE Store
  BY <1>3, CopiesStore
<1>4. CASE Write \/ Stored \/ Sync \/ WriteFails \/ Kill \/ Writeback \/ UNCHANGED vars
  <2>1. UNCHANGED <<disk, secs>> /\ (gpt' = gpt \/ pc' \in {"off", "cmd"})
    BY <1>4 DEF Write, Stored, Sync, WriteFails, Kill, Writeback, Exit, img, ctx, run, vars
  <2> QED
    BY <2>1, CopiesQuiet
<1>5. ~PowerLoss
  BY DEF PowerLoss
<1>6. ASSUME NEW l \in Lbas, Rot(l)
      PROVE  Copies!Damage
  BY <1>6, CopiesRot
<1> QED
  BY <1>1, <1>2, <1>3, <1>4, <1>5, <1>6 DEF Next, Save, Copies!Next

\* As long as no power is lost, two copies that are rewritten one after the
\* other are all a session does to the GPTs of an image: the main copy is
\* written only while the backup holds the same (gpt_save, gpt.c:613), a removed
\* copy is erased whole (schem_remove_gpt, gpt.c:926), main copy first, and the order of
\* schem_ctx_save (schem.c:218), the checks of gpt_load, a kill between two
\* stores and an extension of the image add no other step.
THEOREM SessionImplementsStore ==
  ASSUME StandardImages, "power" \notin Faults
  PROVE  Spec => ImplementsStore
<1>1. Init /\ CopiesFit => Copies!Init
  BY DEF Init, CopiesFit, Copies!Init, RemovedMain, RemovedBackup
<1>2. AtomicInv /\ CopiesFit /\ CopiesFit' /\ [Next]_vars => [Copies!Next]_(Copies!vars)
  BY CopiesNext
<1>3. Spec => []AtomicInv
  BY AtomicInvariant
<1> QED
  BY <1>1, <1>2, <1>3, CopiesTyped, PTL DEF Spec, ImplementsStore, Copies!Spec
=============================================================================
