-------------------------- MODULE SchemSave_proofs --------------------------
(***************************************************************************)
(* What a write does to the image, for every image size, table length,     *)
(* partition and set of faults: the schemes in memory fit together, the    *)
(* stores stay out of the partitions, and when they are done both copies   *)
(* of the GPT and the MBR are what was in memory.                          *)
(***************************************************************************)
EXTENDS SchemCtx, TLAPS, SequenceTheorems, FiniteSetTheorems

IsMbr(m) == m = MbrSchem(m.types)
IsGpt(g) == g = GptSchem(g.id, g.first, g.last, g.tab)

\* What a scheme in memory is.
Kinds ==
  /\ mbr = NoScheme \/ IsMbr(mbr)
  /\ gpt = NoScheme \/ IsGpt(gpt)

\* The scheme the commands work on exists.
CurExists ==
  /\ cur = "gpt" => gpt # NoScheme
  /\ cur = "mbr" => mbr # NoScheme

Inv == Kinds /\ CurExists /\ MbrInMemory

-----------------------------------------------------------------------------
(* The values a scheme can have.                                           *)

LEMMA SchemeKinds ==
  /\ \A m : IsMbr(m) => m # NoScheme
  /\ \A g : IsGpt(g) => g # NoScheme
  /\ IsMbr(EmptyMbr) /\ IsMbr(ProtectiveMbr)
  /\ \A id, first, last, tab : IsGpt(GptSchem(id, first, last, tab))
  BY DEF IsMbr, IsGpt, NoScheme, EmptyMbr, ProtectiveMbr, MbrSchem, GptSchem

\* Editing an entry leaves a scheme what it is.
LEMMA EditKeepsKind ==
  ASSUME NEW i, NEW v
  PROVE  /\ \A m : IsMbr(m) => IsMbr([m EXCEPT !.types[i] = v])
         /\ \A g : IsGpt(g) => IsGpt([g EXCEPT !.tab[i] = v])
<1>1. ASSUME NEW m, IsMbr(m) PROVE IsMbr([m EXCEPT !.types[i] = v])
  <2>1. PICK T : m = [kind |-> "mbr", types |-> T]
    BY <1>1 DEF IsMbr, MbrSchem
  <2>2. [m EXCEPT !.types[i] = v]
          = [kind |-> "mbr", types |-> [T EXCEPT ![i] = v]]
    BY <2>1
  <2> QED
    BY <2>2 DEF IsMbr, MbrSchem
<1>2. ASSUME NEW g, IsGpt(g) PROVE IsGpt([g EXCEPT !.tab[i] = v])
  <2>1. PICK id, first, last, T :
          g = [kind |-> "gpt", id |-> id, first |-> first, last |-> last, tab |-> T]
    BY <1>2 DEF IsGpt, GptSchem
  <2>2. [g EXCEPT !.tab[i] = v]
          = [kind |-> "gpt", id |-> id, first |-> first, last |-> last,
             tab |-> [T EXCEPT ![i] = v]]
    BY <2>1
  <2> QED
    BY <2>2 DEF IsGpt, GptSchem
<1> QED
  BY <1>1, <1>2

LEMMA LoadedKinds ==
  ASSUME NEW d, NEW n
  PROVE  /\ mbr_load(d) = NoScheme \/ IsMbr(mbr_load(d))
         /\ gpt_load(d, n) \in {NoScheme, Fatal} \/ IsGpt(gpt_load(d, n))
<1>1. mbr_load(d) = NoScheme \/ IsMbr(mbr_load(d))
  BY DEF mbr_load, IsMbr, MbrSchem
<1>2. \A l : IsGpt(gpt_to_schem(d, l))
  BY SchemeKinds DEF gpt_to_schem
<1>3. \/ gpt_load(d, n) \in {NoScheme, Fatal}
      \/ \E l : gpt_load(d, n) = gpt_to_schem(d, l)
  BY DEF gpt_load
<1> QED
  BY <1>1, <1>2, <1>3

\* Beside a GPT there is an MBR, and one that was found is never dropped.
LEMMA BesideFits ==
  ASSUME NEW m, NEW g, m = NoScheme \/ IsMbr(m)
  PROVE  /\ MbrBeside(m, g) = NoScheme \/ IsMbr(MbrBeside(m, g))
         /\ g # NoScheme => MbrBeside(m, g) # NoScheme
         /\ m # NoScheme => MbrBeside(m, g) # NoScheme
  BY SchemeKinds DEF MbrBeside

-----------------------------------------------------------------------------
(* The invariant is inductive.                                             *)

LEMMA InvExit == ASSUME Exit PROVE Inv'
  BY DEF Exit, NoFlags, Inv, Kinds, CurExists, MbrInMemory

LEMMA InvUnchanged == ASSUME Inv, UNCHANGED ctx PROVE Inv'
  BY DEF ctx, Inv, Kinds, CurExists, MbrInMemory

LEMMA InvInit == Init => Inv
  BY DEF Init, NoFlags, Inv, Kinds, CurExists, MbrInMemory

LEMMA InvStart ==
  ASSUME NEW n, Start(n)
  PROVE  Inv'
<1> DEFINE m == mbr_load(disk)
           g == gpt_load(disk, n)
<1>1. /\ g # Fatal /\ gpt' = g /\ mbr' = MbrBeside(m, g)
      /\ in_img' = [mbr |-> m # NoScheme, gpt |-> g # NoScheme]
      /\ cur' = get_type(mbr', gpt')
  BY DEF Start
<1>2. /\ m = NoScheme \/ IsMbr(m)
      /\ g = NoScheme \/ IsGpt(g)
  BY <1>1, LoadedKinds
<1> HIDE DEF m, g
<1>3. Kinds' /\ MbrInMemory'
  BY <1>1, <1>2, BesideFits DEF Kinds, MbrInMemory
<1>4. CurExists'
  BY <1>1 DEF get_type, CurExists
<1> QED
  BY <1>3, <1>4 DEF Inv

LEMMA InvCommand ==
  ASSUME Inv, Command
  PROVE  Inv'
<1> USE SchemeKinds DEF Inv, Kinds, CurExists, MbrInMemory
<1>1. CASE NewMbr
  BY <1>1 DEF NewMbr
<1>2. ASSUME NEW id \in Ids, NewGpt(id) PROVE Inv'
  BY <1>2 DEF NewGpt
<1>3. ASSUME NEW i, NEW p, EditGpt(i, p) PROVE Inv'
  <2>1. /\ cur = "gpt" /\ cur' = cur /\ mbr' = mbr /\ in_img' = in_img
        /\ gpt' = [gpt EXCEPT !.tab[i] = p]
    BY <1>3 DEF EditGpt
  <2>2. gpt # NoScheme /\ IsGpt(gpt)
    BY <2>1
  <2>3. gpt' # NoScheme /\ IsGpt(gpt')
    BY <2>1, <2>2, EditKeepsKind
  <2> QED
    BY <2>1, <2>2, <2>3
<1>4. ASSUME NEW i, NEW t, EditMbr(i, t) PROVE Inv'
  <2>1. /\ cur = "mbr" /\ cur' = cur /\ gpt' = gpt /\ in_img' = in_img
        /\ mbr' = [mbr EXCEPT !.types[i] = t]
    BY <1>4 DEF EditMbr
  <2>2. mbr # NoScheme /\ IsMbr(mbr)
    BY <2>1
  <2>3. mbr' # NoScheme /\ IsMbr(mbr')
    BY <2>1, <2>2, EditKeepsKind
  <2> QED
    BY <2>1, <2>2, <2>3
<1>5. CASE EnterMbr
  BY <1>5 DEF EnterMbr
<1>6. CASE ResetMbr
  BY <1>6 DEF ResetMbr
<1>7. CASE ReturnFromNested
  BY <1>7 DEF ReturnFromNested, get_type
<1>8. CASE Quit
  BY <1>8, InvExit DEF Quit
<1> QED
  BY <1>1, <1>2, <1>3, <1>4, <1>5, <1>6, <1>7, <1>8 DEF Command

LEMMA InvSave ==
  ASSUME Inv, Save
  PROVE  Inv'
<1>1. CASE Write
  BY <1>1, InvUnchanged DEF Write
<1>2. CASE Store
  BY <1>2, InvUnchanged DEF Store
<1>3. CASE Stored
  BY <1>3, InvUnchanged DEF Stored
<1>4. CASE Sync
  BY <1>4 DEF Sync, Inv, Kinds, CurExists, MbrInMemory
<1>5. CASE WriteFails
  BY <1>5, InvExit DEF WriteFails
<1> QED
  BY <1>1, <1>2, <1>3, <1>4, <1>5 DEF Save

LEMMA InvNext == Inv /\ [Next]_vars => Inv'
<1> SUFFICES ASSUME Inv, [Next]_vars PROVE Inv'
  OBVIOUS
<1>1. ASSUME NEW n \in Sizes, Start(n) PROVE Inv'
  BY <1>1, InvStart
<1>2. ASSUME NEW n \in Sizes, StartFails(n) PROVE Inv'
  BY <1>2, InvUnchanged DEF StartFails
<1>3. CASE Command
  BY <1>3, InvCommand
<1>4. CASE Save
  BY <1>4, InvSave
<1>5. CASE Kill
  BY <1>5, InvExit DEF Kill
<1>6. CASE PowerLoss
  BY <1>6, InvExit DEF PowerLoss
<1>7. CASE Writeback
  BY <1>7, InvUnchanged DEF Writeback
<1>8. ASSUME NEW l \in Lbas, Rot(l) PROVE Inv'
  BY <1>8, InvUnchanged DEF Rot
<1>9. CASE UNCHANGED vars
  BY <1>9, InvUnchanged DEF vars, ctx
<1> QED
  BY <1>1, <1>2, <1>3, <1>4, <1>5, <1>6, <1>7, <1>8, <1>9 DEF Next

\* A GPT in memory always has an MBR beside it, and an MBR found on the image
\* is never dropped: schem_ctx_save never calls schem_remove_mbr.
THEOREM MbrStays == Spec => []MbrInMemory
<1>1. Inv => MbrInMemory
  BY DEF Inv
<1> QED
  BY <1>1, InvInit, InvNext, PTL DEF Spec

-----------------------------------------------------------------------------
(* Places on the image.                                                    *)

InSize(n) == n \in Nat /\ n >= 2 * gpt_max_part_cnt + 4 /\ n <= MaxSize

LEMMA Places ==
  /\ MaxSize \in Nat /\ Lbas = 0 .. MaxSize - 1
  /\ \A n \in Sizes : InSize(n)
<1>1. MaxSize \in Sizes /\ \A m \in Sizes : m <= MaxSize
  BY SizesAssumption DEF MaxSize
<1>2. ASSUME NEW n \in Sizes PROVE InSize(n)
  BY <1>1, SizesAssumption, GptCntAssumption
     DEF InSize, first_usable_lba, last_usable_lba, table_lba_sec, hdr_lba_sec,
         table_lba_prim, hdr_lba_prim
<1> QED
  BY <1>1, <1>2, SizesAssumption DEF Lbas

\* The sectors a GPT of this program takes: none of them is usable.
Metadata(n) == Lbas \ (first_usable_lba .. last_usable_lba(n))

LEMMA GptPlaces ==
  ASSUME NEW n, InSize(n)
  PROVE  /\ 0 \in Metadata(n)
         /\ hdr_lba_prim = 1 /\ hdr_lba_prim \in Metadata(n)
         /\ hdr_lba_sec(n) \in Metadata(n) /\ hdr_lba_sec(n) > 2 + gpt_max_part_cnt
         /\ \A i \in 0 .. gpt_max_part_cnt - 1 :
              /\ table_lba_prim + i \in Metadata(n)
              /\ table_lba_prim + i > 1 /\ table_lba_prim + i < 2 + gpt_max_part_cnt
              /\ table_lba_sec(n) + i \in Metadata(n)
              /\ table_lba_sec(n) + i > 2 + gpt_max_part_cnt
              /\ table_lba_sec(n) + i < hdr_lba_sec(n)
         /\ table_lba_prim = 2 /\ table_lba_sec(n) \in Nat
  BY Places, GptCntAssumption
     DEF InSize, Metadata, first_usable_lba, last_usable_lba, table_lba_sec, hdr_lba_sec,
         table_lba_prim, hdr_lba_prim

-----------------------------------------------------------------------------
(* Sequences of stores.                                                    *)

IsSeq(s) == \E S : s \in Seq(S)

LEMMA SeqFacts ==
  ASSUME NEW s, IsSeq(s)
  PROVE  /\ Len(s) \in Nat /\ DOMAIN s = 1 .. Len(s)
         /\ s = <<>> <=> Len(s) = 0
         /\ s # <<>> => /\ Head(s) = s[1]
                        /\ IsSeq(Tail(s)) /\ Len(Tail(s)) = Len(s) - 1
                        /\ \A k \in 1 .. Len(s) - 1 : Tail(s)[k] = s[k + 1]
<1>1. PICK S : s \in Seq(S)
  BY DEF IsSeq
<1>2. /\ Len(s) \in Nat /\ DOMAIN s = 1 .. Len(s)
      /\ s = <<>> <=> Len(s) = 0
  BY <1>1, LenProperties, EmptySeq
<1>3. ASSUME s # <<>>
      PROVE  /\ Head(s) = s[1]
             /\ IsSeq(Tail(s)) /\ Len(Tail(s)) = Len(s) - 1
             /\ \A k \in 1 .. Len(s) - 1 : Tail(s)[k] = s[k + 1]
  <2>1. Head(s) = s[1]
    BY <1>1, <1>3
  <2>2. /\ Tail(s) \in Seq(S) /\ Len(Tail(s)) = Len(s) - 1
        /\ \A k \in 1 .. Len(Tail(s)) : Tail(s)[k] = s[k + 1]
    BY <1>1, <1>3, HeadTailProperties
  <2> QED
    BY <2>1, <2>2 DEF IsSeq
<1> QED
  BY <1>2, <1>3

LEMMA SeqConcat ==
  ASSUME NEW s, NEW t, IsSeq(s), IsSeq(t)
  PROVE  /\ IsSeq(s \o t) /\ Len(s \o t) = Len(s) + Len(t)
         /\ \A k \in 1 .. Len(s) + Len(t) :
              (s \o t)[k] = IF k <= Len(s) THEN s[k] ELSE t[k - Len(s)]
<1>1. PICK S : s \in Seq(S)
  BY DEF IsSeq
<1>2. PICK T : t \in Seq(T)
  BY DEF IsSeq
<1>3. s \in Seq(S \cup T) /\ t \in Seq(S \cup T)
  BY <1>1, <1>2, SeqMonotonic
<1> QED
  BY <1>3, ConcatProperties DEF IsSeq

LEMMA SeqNone == IsSeq(<<>>) /\ Len(<<>>) = 0
<1>1. <<>> \in Seq({})
  OBVIOUS
<1> QED
  BY <1>1 DEF IsSeq

LEMMA SeqShort ==
  ASSUME NEW p, NEW q
  PROVE  /\ IsSeq(<<p>>) /\ Len(<<p>>) = 1 /\ <<p>>[1] = p
         /\ IsSeq(<<p, q>>) /\ Len(<<p, q>>) = 2 /\ <<p, q>>[1] = p /\ <<p, q>>[2] = q
<1>1. <<p>> \in Seq({p}) /\ <<p, q>> \in Seq({p, q})
  OBVIOUS
<1>2. IsSeq(<<p>>) /\ IsSeq(<<p, q>>)
  BY <1>1 DEF IsSeq
<1> QED
  BY <1>2

\* Which sectors are well-formed.
LEMMA Sectors ==
  ASSUME NEW v
  PROVE  /\ v.kind = "hdr" => (WellFormedSec(v) <=> WellFormedHdr(v))
         /\ v.kind = "erased" => (WellFormedSec(v) <=> WellFormedHdr(v.hdr))
         /\ WellFormedHdr(v) => v.kind = "hdr" /\ WellFormedSec(Erased(v))
         /\ v.kind \notin {"mbr", "hdr", "erased"} => WellFormedSec(v)
         /\ HdrIn(v) = IF v.kind = "erased" THEN v.hdr ELSE v
  BY DEF WellFormedSec, WellFormedHdr, HdrIn, Erased

WellFormed(d) == \A l \in Lbas : WellFormedSec(d[l])

\* A store to a sector no partition can use, of a value such a sector can have.
SafePut(p, n) == p.lba \in Metadata(n) /\ WellFormedSec(p.val)

SafePuts(s, n) == \A k \in 1 .. Len(s) : SafePut(s[k], n)

\* No store goes to l; the last one to l stores v; l has v when all is stored.
Untouched(s, l) == \A k \in 1 .. Len(s) : s[k].lba # l

Wrote(s, l, v) ==
  \E k \in 1 .. Len(s) : /\ s[k].lba = l /\ s[k].val = v
                         /\ \A j \in k + 1 .. Len(s) : s[j].lba # l

Ends(s, d, l, v) == Wrote(s, l, v) \/ (Untouched(s, l) /\ d[l] = v)

LEMMA PutsConcat ==
  ASSUME NEW s, NEW t, IsSeq(s), IsSeq(t)
  PROVE  /\ \A n : SafePuts(s, n) /\ SafePuts(t, n) => SafePuts(s \o t, n)
         /\ \A l : Untouched(s, l) /\ Untouched(t, l) => Untouched(s \o t, l)
         /\ \A l, v : Wrote(t, l, v) => Wrote(s \o t, l, v)
         /\ \A l, v : Wrote(s, l, v) /\ Untouched(t, l) => Wrote(s \o t, l, v)
         /\ \A d, l, v : Ends(s, d, l, v) /\ Untouched(t, l) => Ends(s \o t, d, l, v)
         /\ \A d, l, v : Untouched(s, l) /\ Ends(t, d, l, v) => Ends(s \o t, d, l, v)
<1> DEFINE u == s \o t
<1>1. /\ Len(s) \in Nat /\ Len(t) \in Nat /\ Len(u) = Len(s) + Len(t)
      /\ \A k \in 1 .. Len(s) : u[k] = s[k]
      /\ \A k \in 1 .. Len(t) : u[Len(s) + k] = t[k]
      /\ \A k \in Len(s) + 1 .. Len(u) : k - Len(s) \in 1 .. Len(t) /\ u[k] = t[k - Len(s)]
  BY SeqConcat, SeqFacts
<1> HIDE DEF u
<1>2. \A n : SafePuts(s, n) /\ SafePuts(t, n) => SafePuts(u, n)
  BY <1>1 DEF SafePuts
<1>3. \A l : Untouched(s, l) /\ Untouched(t, l) => Untouched(u, l)
  BY <1>1 DEF Untouched
<1>4. ASSUME NEW l, NEW v, Wrote(t, l, v) PROVE Wrote(u, l, v)
  <2>1. PICK k \in 1 .. Len(t) : /\ t[k].lba = l /\ t[k].val = v
                                 /\ \A j \in k + 1 .. Len(t) : t[j].lba # l
    BY <1>4 DEF Wrote
  <2>2. Len(s) + k \in 1 .. Len(u) /\ u[Len(s) + k] = t[k]
    BY <1>1
  <2>3. ASSUME NEW j \in Len(s) + k + 1 .. Len(u) PROVE u[j].lba # l
    <3>1. j \in Len(s) + 1 .. Len(u) /\ j - Len(s) \in k + 1 .. Len(t)
      BY <1>1
    <3>2. u[j] = t[j - Len(s)]
      BY <1>1, <3>1
    <3> QED
      BY <2>1, <3>1, <3>2
  <2> QED
    BY <2>1, <2>2, <2>3 DEF Wrote
<1>5. ASSUME NEW l, NEW v, Wrote(s, l, v), Untouched(t, l) PROVE Wrote(u, l, v)
  <2>1. PICK k \in 1 .. Len(s) : /\ s[k].lba = l /\ s[k].val = v
                                 /\ \A j \in k + 1 .. Len(s) : s[j].lba # l
    BY <1>5 DEF Wrote
  <2>2. k \in 1 .. Len(u) /\ u[k] = s[k]
    BY <1>1
  <2>3. \A j \in k + 1 .. Len(u) : u[j].lba # l
    BY <1>1, <1>5, <2>1 DEF Untouched
  <2> QED
    BY <2>1, <2>2, <2>3 DEF Wrote
<1> QED
  BY <1>2, <1>3, <1>4, <1>5 DEF Ends, u

\* Taking the first store.
LEMMA PutsTail ==
  ASSUME NEW s, IsSeq(s), s # <<>>, NEW d, Head(s).lba \in DOMAIN d
  PROVE  LET e == [d EXCEPT ![Head(s).lba] = Head(s).val]
         IN  /\ \A n : SafePuts(s, n) => SafePut(Head(s), n) /\ SafePuts(Tail(s), n)
             /\ \A l : Untouched(s, l) => /\ Untouched(Tail(s), l)
                                          /\ l \in DOMAIN d => e[l] = d[l]
             /\ \A l \in DOMAIN d : \A v : Ends(s, d, l, v) => Ends(Tail(s), e, l, v)
<1> DEFINE t == Tail(s)
           p == Head(s)
           e == [d EXCEPT ![p.lba] = p.val]
<1>1. /\ Len(s) \in Nat \ {0} /\ Len(t) = Len(s) - 1 /\ p = s[1]
      /\ \A k \in 1 .. Len(t) : k + 1 \in 1 .. Len(s) /\ t[k] = s[k + 1]
  BY SeqFacts
<1>2. /\ DOMAIN e = DOMAIN d /\ e[p.lba] = p.val
      /\ \A l \in DOMAIN d : l # p.lba => e[l] = d[l]
  OBVIOUS
<1> HIDE DEF t, p, e
<1>3. \A n : SafePuts(s, n) => SafePut(p, n) /\ SafePuts(t, n)
  BY <1>1 DEF SafePuts
<1>4. \A l : Untouched(s, l) => Untouched(t, l) /\ (l \in DOMAIN d => e[l] = d[l])
  BY <1>1, <1>2 DEF Untouched
<1>5. ASSUME NEW l \in DOMAIN d, NEW v, Wrote(s, l, v) PROVE Ends(t, e, l, v)
  <2>1. PICK k \in 1 .. Len(s) : /\ s[k].lba = l /\ s[k].val = v
                                 /\ \A j \in k + 1 .. Len(s) : s[j].lba # l
    BY <1>5 DEF Wrote
  <2>2. CASE k = 1
    BY <1>1, <1>2, <2>1, <2>2 DEF Ends, Untouched
  <2>3. CASE k # 1
    <3>1. /\ k - 1 \in 1 .. Len(t) /\ t[k - 1] = s[k]
          /\ \A j \in (k - 1) + 1 .. Len(t) : t[j].lba # l
      BY <1>1, <2>1, <2>3
    <3> QED
      BY <2>1, <3>1 DEF Ends, Wrote
  <2> QED
    BY <2>2, <2>3
<1> QED
  BY <1>3, <1>4, <1>5 DEF Ends, t, p, e
-----------------------------------------------------------------------------
(* The stores of a copy of a GPT.                                          *)

\* A GPT in memory, with no more entries than are supported.
GptFits(g) ==
  /\ IsGpt(g)
  /\ \E c \in 0 .. gpt_max_part_cnt : g.tab = [i \in 0 .. c - 1 |-> g.tab[i]]
  /\ g.first \in Nat /\ g.last \in Nat
  /\ \A i \in DOMAIN g.tab : g.tab[i] \in Ranges \cup {Unused}

Slots == 0 .. gpt_max_part_cnt - 1

\* What a header says of the table of g.
HeaderFits(h, my, alt, tl, g) ==
  /\ h.kind = "hdr" /\ h.my_lba = my /\ h.alt_lba = alt /\ h.table_lba = tl
  /\ h.id = g.id /\ h.first = g.first /\ h.last = g.last
  /\ part_cnt(h) \in 0 .. gpt_max_part_cnt
  /\ DOMAIN h.entries = 0 .. part_cnt(h) - 1 /\ DOMAIN g.tab = DOMAIN h.entries
  /\ DOMAIN g.tab \subseteq Slots
  /\ h.entries = [i \in 0 .. part_cnt(h) - 1 |-> Ent(g.tab[i])]
  /\ WellFormedSec(h)

LEMMA Header ==
  ASSUME NEW g, GptFits(g),
         NEW my, NEW alt \in Lbas \ {0}, NEW tl \in Nat \ {0},
         \A i \in Slots : tl + i \in Lbas
  PROVE  HeaderFits(GptHdr(my, alt, tl, g), my, alt, tl, g)
<1> DEFINE h == GptHdr(my, alt, tl, g)
<1>1. PICK c \in 0 .. gpt_max_part_cnt : g.tab = [i \in 0 .. c - 1 |-> g.tab[i]]
  BY DEF GptFits
<1>2. DOMAIN g.tab = 0 .. c - 1
  BY <1>1
<1>3. /\ h.kind = "hdr" /\ h.my_lba = my /\ h.alt_lba = alt /\ h.table_lba = tl
      /\ h.id = g.id /\ h.first = g.first /\ h.last = g.last
      /\ h.entries = [i \in 0 .. c - 1 |-> Ent(g.tab[i])]
  BY <1>2 DEF GptHdr, Entries
<1>4. DOMAIN h.entries = 0 .. c - 1
  BY <1>3
<1> HIDE DEF h
<1>5. c \in Nat /\ c <= gpt_max_part_cnt
  BY GptCntAssumption
<1>6. part_cnt(h) = c
  <2>1. Cardinality(0 .. c - 1) = IF 0 > c - 1 THEN 0 ELSE (c - 1) - 0 + 1
    BY <1>5, FS_Interval
  <2>2. Cardinality(0 .. c - 1) = c
    BY <1>5, <2>1
  <2> QED
    BY <1>4, <2>2 DEF part_cnt
<1>7. \A i \in 0 .. c - 1 : PartOf(h.entries[i]) = g.tab[i] /\ tl + i \in Lbas
  BY <1>3, <1>5, GptCntAssumption DEF PartOf, Ent, Slots
<1>8. WellFormedSec(h)
  <2>1. h.kind # "mbr"
    BY <1>3
  <2>2. g.first \in Nat /\ g.last \in Nat
    BY DEF GptFits
  <2>3. \A i \in DOMAIN h.entries : /\ PartOf(h.entries[i]) \in Ranges \cup {Unused}
                                    /\ tl + i \in Lbas
    BY <1>2, <1>4, <1>7 DEF GptFits
  <2>4. WellFormedHdr(h)
    BY <1>3, <1>4, <1>5, <1>6, <2>2, <2>3 DEF WellFormedHdr
  <2> QED
    BY <1>3, <2>4, Sectors
<1> QED
  BY <1>2, <1>3, <1>4, <1>5, <1>6, <1>8, GptCntAssumption DEF Slots, h, HeaderFits

\* The stores of a header h to l, whatever was there.
LEMMA HeaderPuts ==
  ASSUME NEW n, NEW d, NEW l \in Metadata(n), NEW h,
         h.kind = "hdr", WellFormedSec(h), WellFormedSec(d[l])
  PROVE  LET s == gpt_hdr_puts(d, l, h)
         IN  /\ IsSeq(s) /\ SafePuts(s, n) /\ Ends(s, d, l, h)
             /\ \A x : x # l => Untouched(s, x)
<1> DEFINE old == HdrIn(d[l])
           r == IF d[l].kind = "erased" THEN <<Put(l, old)>> ELSE <<>>
           a == IF old = h THEN <<>> ELSE <<Put(l, Junk), Put(l, h)>>
<1>1. gpt_hdr_puts(d, l, h) = r \o a
  BY DEF gpt_hdr_puts
<1>2. /\ IsSeq(r) /\ SafePuts(r, n) /\ \A x : x # l => Untouched(r, x)
      /\ old = h => Ends(r, d, l, h)
  <2>1. CASE d[l].kind = "erased"
    <3> DEFINE p == Put(l, old)
    <3>1. p.lba = l /\ p.val = old /\ WellFormedSec(old)
      BY <2>1, Sectors DEF Put
    <3>2. r = <<p>>
      BY <2>1
    <3> HIDE DEF r, p, old
    <3>3. IsSeq(r) /\ Len(r) = 1 /\ r[1] = p
      BY <3>2, SeqShort
    <3>4. SafePuts(r, n) /\ \A x : x # l => Untouched(r, x)
      BY <3>1, <3>3 DEF SafePuts, SafePut, Untouched
    <3>5. Wrote(r, l, old)
      BY <3>1, <3>3 DEF Wrote
    <3> QED
      BY <3>3, <3>4, <3>5 DEF Ends
  <2>2. CASE d[l].kind # "erased"
    <3>1. r = <<>> /\ old = d[l]
      BY <2>2, Sectors
    <3> HIDE DEF r, old
    <3> QED
      BY <3>1, SeqNone DEF SafePuts, Ends, Untouched
  <2> QED
    BY <2>1, <2>2
<1>3. /\ IsSeq(a) /\ SafePuts(a, n) /\ \A x : x # l => Untouched(a, x)
      /\ old = h => Untouched(a, l)
      /\ old # h => Wrote(a, l, h)
  <2> HIDE DEF old
  <2>1. CASE old = h
    <3>1. a = <<>>
      BY <2>1
    <3> HIDE DEF a
    <3> QED
      BY <2>1, <3>1, SeqNone DEF SafePuts, Untouched
  <2>2. CASE old # h
    <3> DEFINE p == Put(l, Junk)
               q == Put(l, h)
    <3>1. Junk.kind = "junk"
      BY DEF Junk
    <3>2. /\ p.lba = l /\ p.val = Junk /\ q.lba = l /\ q.val = h
          /\ WellFormedSec(Junk)
      BY <3>1, Sectors DEF Put
    <3>3. a = <<p, q>>
      BY <2>2
    <3> HIDE DEF a, p, q
    <3>4. IsSeq(a) /\ Len(a) = 2 /\ a[1] = p /\ a[2] = q
      BY <3>3, SeqShort
    <3>5. SafePuts(a, n) /\ \A x : x # l => Untouched(a, x)
      BY <3>2, <3>4 DEF SafePuts, SafePut, Untouched
    <3>6. Wrote(a, l, h)
      BY <3>2, <3>4 DEF Wrote
    <3> QED
      BY <2>2, <3>4, <3>5, <3>6
  <2> QED
    BY <2>1, <2>2
<1> HIDE DEF r, a, old
<1>4. /\ IsSeq(r \o a) /\ SafePuts(r \o a, n)
      /\ \A x : x # l => Untouched(r \o a, x)
  BY <1>2, <1>3, SeqConcat, PutsConcat
<1>5. Ends(r \o a, d, l, h)
  <2>1. CASE old = h
    BY <1>2, <1>3, <2>1, PutsConcat
  <2>2. CASE old # h
    BY <1>2, <1>3, <2>2, PutsConcat DEF Ends
  <2> QED
    BY <2>1, <2>2
<1> QED
  BY <1>1, <1>4, <1>5

\* The stores t put the table of g at tl, and nothing anywhere else.
TableStores(t, n, tl, g) ==
  /\ IsSeq(t) /\ SafePuts(t, n)
  /\ \A i \in DOMAIN g.tab : Wrote(t, tl + i, Ent(g.tab[i]))
  /\ \A l : (\A i \in Slots : l # tl + i) => Untouched(t, l)

LEMMA Table ==
  ASSUME NEW n, NEW g, GptFits(g),
         NEW my, NEW alt \in Lbas \ {0}, NEW tl \in Nat \ {0},
         \A i \in Slots : tl + i \in Metadata(n)
  PROVE  TableStores(TablePuts(tl, GptHdr(my, alt, tl, g)), n, tl, g)
<1> DEFINE h == GptHdr(my, alt, tl, g)
           c == part_cnt(h)
           t == TablePuts(tl, h)
<1>1. /\ c \in Nat /\ c <= gpt_max_part_cnt
      /\ DOMAIN g.tab = 0 .. c - 1
      /\ h.entries = [i \in 0 .. c - 1 |-> Ent(g.tab[i])]
  <2>1. \A i \in Slots : tl + i \in Lbas
    BY DEF Metadata
  <2>2. HeaderFits(GptHdr(my, alt, tl, g), my, alt, tl, g)
    BY ONLY <2>1, GptFits(g), alt \in Lbas \ {0}, tl \in Nat \ {0}, Header
  <2> QED
    BY <2>2, GptCntAssumption DEF HeaderFits
<1>2. t = [k \in 1 .. c |-> Put(tl + k - 1, h.entries[k - 1])]
  BY DEF TablePuts
<1> HIDE DEF h, c, t
<1>3. IsSeq(t) /\ Len(t) = c
  <2> DEFINE S == {t[k] : k \in 1 .. c}
  <2>1. t \in [1 .. c -> S]
    BY <1>2
  <2>2. DOMAIN t = 1 .. c
    BY <1>2
  <2> HIDE DEF S
  <2>3. t \in Seq(S)
    BY <1>1, <2>1, SeqDef
  <2>4. Len(t) \in Nat /\ DOMAIN t = 1 .. Len(t)
    BY <2>3, LenProperties
  <2> QED
    BY <1>1, <2>2, <2>3, <2>4 DEF IsSeq
<1>4. \A k \in 1 .. c : t[k].lba = tl + (k - 1) /\ t[k].val = Ent(g.tab[k - 1]) /\ k - 1 \in Slots
  BY <1>1, <1>2, GptCntAssumption DEF Put, Slots
<1>5. SafePuts(t, n)
  <2>1. \A p : Ent(p).kind = "ent"
    BY DEF Ent
  <2>2. \A p : WellFormedSec(Ent(p))
    BY <2>1, Sectors
  <2> QED
    BY <1>3, <1>4, <2>2 DEF SafePuts, SafePut
<1>6. ASSUME NEW i \in DOMAIN g.tab PROVE Wrote(t, tl + i, Ent(g.tab[i]))
  <2>1. i + 1 \in 1 .. Len(t) /\ (i + 1) - 1 = i /\ i \in Nat
    BY <1>1, <1>3
  <2>2. t[i + 1].lba = tl + i /\ t[i + 1].val = Ent(g.tab[i])
    BY <1>3, <1>4, <2>1
  <2>3. \A j \in (i + 1) + 1 .. Len(t) : t[j].lba # tl + i
    BY <1>1, <1>3, <1>4, <2>1
  <2> QED
    BY <2>1, <2>2, <2>3 DEF Wrote
<1>7. \A l : (\A i \in Slots : l # tl + i) => Untouched(t, l)
  BY <1>3, <1>4 DEF Untouched
<1> QED
  BY <1>3, <1>5, <1>6, <1>7 DEF TableStores, t, h

\* When all is stored, there is a copy of g with its header at l.
CopyEnds(s, d, l, alt, tl, g) ==
  /\ Ends(s, d, l, GptHdr(l, alt, tl, g))
  /\ \A i \in DOMAIN g.tab : Ends(s, d, tl + i, Ent(g.tab[i]))

\* The stores s make such a copy, in sectors of its own.
CopyStores(s, n, d, l, alt, tl, g) ==
  /\ IsSeq(s) /\ SafePuts(s, n)
  /\ CopyEnds(s, d, l, alt, tl, g)
  /\ \A x : x # l /\ (\A i \in Slots : x # tl + i) => Untouched(s, x)

LEMMA PairPuts ==
  ASSUME NEW n, NEW g, GptFits(g), NEW d,
         NEW l \in Metadata(n), NEW alt \in Lbas \ {0}, NEW tl \in Nat \ {0},
         WellFormedSec(d[l]),
         \A i \in Slots : tl + i \in Metadata(n) /\ tl + i # l
  PROVE  CopyStores(gpt_pair_puts(d, l, tl, GptHdr(l, alt, tl, g)), n, d, l, alt, tl, g)
<1> DEFINE h == GptHdr(l, alt, tl, g)
           t == TablePuts(tl, h)
           a == gpt_hdr_puts(d, l, h)
<1>1. /\ IsSeq(t) /\ SafePuts(t, n)
      /\ \A i \in DOMAIN g.tab : Wrote(t, tl + i, Ent(g.tab[i]))
      /\ \A x : (\A i \in Slots : x # tl + i) => Untouched(t, x)
  <2>1. \A i \in Slots : tl + i \in Metadata(n)
    OBVIOUS
  <2>2. TableStores(TablePuts(tl, GptHdr(l, alt, tl, g)), n, tl, g)
    BY ONLY <2>1, GptFits(g), alt \in Lbas \ {0}, tl \in Nat \ {0}, Table
  <2> QED
    BY <2>2 DEF TableStores
<1>2. h.kind = "hdr" /\ WellFormedSec(h)
  <2>1. \A i \in Slots : tl + i \in Lbas
    BY DEF Metadata
  <2>2. HeaderFits(GptHdr(l, alt, tl, g), l, alt, tl, g)
    BY ONLY <2>1, GptFits(g), alt \in Lbas \ {0}, tl \in Nat \ {0}, Header
  <2> QED
    BY <2>2 DEF HeaderFits
<1>3. gpt_pair_puts(d, l, tl, h) = a \o t
  BY DEF gpt_pair_puts
<1> HIDE DEF h, t
<1>4. /\ IsSeq(a) /\ SafePuts(a, n) /\ Ends(a, d, l, h)
      /\ \A x : x # l => Untouched(a, x)
  BY <1>2, HeaderPuts
<1> HIDE DEF a
<1>5. Untouched(t, l)
  BY <1>1
<1>6. /\ IsSeq(a \o t) /\ SafePuts(a \o t, n)
      /\ Ends(a \o t, d, l, h)
      /\ \A i \in DOMAIN g.tab : Ends(a \o t, d, tl + i, Ent(g.tab[i]))
      /\ \A x : x # l /\ (\A i \in Slots : x # tl + i) => Untouched(a \o t, x)
  BY <1>1, <1>4, <1>5, SeqConcat, PutsConcat DEF Ends
<1> QED
  BY <1>3, <1>6 DEF CopyStores, CopyEnds, h

\* Both copies.
GptEnds(s, d, n, g) ==
  /\ CopyEnds(s, d, hdr_lba_prim, hdr_lba_sec(n), table_lba_prim, g)
  /\ CopyEnds(s, d, hdr_lba_sec(n), hdr_lba_prim, table_lba_sec(n), g)

\* No store goes to a copy with its header at l and its table at tl.
Avoids(s, l, tl) == Untouched(s, l) /\ \A i \in Slots : Untouched(s, tl + i)

LEMMA EndsKept ==
  ASSUME NEW s, NEW t, IsSeq(s), IsSeq(t),
         NEW d, NEW l, NEW alt, NEW tl, NEW g, DOMAIN g.tab \subseteq Slots
  PROVE  /\ CopyEnds(s, d, l, alt, tl, g) /\ Avoids(t, l, tl)
              => CopyEnds(s \o t, d, l, alt, tl, g)
         /\ CopyEnds(t, d, l, alt, tl, g) /\ Avoids(s, l, tl)
              => CopyEnds(s \o t, d, l, alt, tl, g)
  BY PutsConcat DEF CopyEnds, Avoids

LEMMA GptPuts ==
  ASSUME NEW n, InSize(n), NEW g, GptFits(g), NEW d, WellFormed(d)
  PROVE  /\ IsSeq(gpt_save_puts(d, n, g)) /\ SafePuts(gpt_save_puts(d, n, g), n)
         /\ GptEnds(gpt_save_puts(d, n, g), d, n, g)
         /\ Untouched(gpt_save_puts(d, n, g), 0)
<1> DEFINE prim == gpt_pair_puts(d, hdr_lba_prim, table_lba_prim,
                     GptHdr(hdr_lba_prim, hdr_lba_sec(n), table_lba_prim, g))
           sec == gpt_pair_puts(d, hdr_lba_sec(n), table_lba_sec(n),
                     GptHdr(hdr_lba_sec(n), hdr_lba_prim, table_lba_sec(n), g))
           p == hdr_lba_prim
           q == hdr_lba_sec(n)
           tp == table_lba_prim
           tq == table_lba_sec(n)
<1>1. gpt_save_puts(d, n, g) = sec \o prim
  BY DEF gpt_save_puts
<1>2. /\ p = 1 /\ q > 2 + gpt_max_part_cnt /\ tp = 2 /\ tq \in Nat
      /\ p \in Metadata(n) /\ q \in Metadata(n) /\ p \in Lbas \ {0} /\ q \in Lbas \ {0}
      /\ \A i \in Slots : /\ tp + i \in Metadata(n) /\ tq + i \in Metadata(n)
                          /\ tp + i > 1 /\ tp + i < 2 + gpt_max_part_cnt
                          /\ tq + i > 2 + gpt_max_part_cnt /\ tq + i < q
      /\ gpt_max_part_cnt \in Nat \ {0} /\ q \in Nat
  BY GptPlaces, GptCntAssumption, Places DEF Slots, Metadata
<1>3. DOMAIN g.tab \subseteq Slots
  BY GptCntAssumption DEF GptFits, Slots
<1>4. tq # 0
  <2>1. 0 \in Slots
    BY <1>2 DEF Slots
  <2>2. tq + 0 > 2 + gpt_max_part_cnt
    BY <1>2, <2>1
  <2> QED
    BY <1>2, <2>2
<1>5. CopyStores(prim, n, d, p, q, tp, g)
  <2>1. \A i \in Slots : tp + i \in Metadata(n) /\ tp + i # p
    BY <1>2 DEF Slots
  <2>2. /\ p \in Metadata(n) /\ q \in Lbas \ {0} /\ tp \in Nat \ {0}
        /\ WellFormedSec(d[p])
    BY <1>2 DEF WellFormed
  <2> HIDE DEF p, q, tp, tq
  <2>3. CopyStores(gpt_pair_puts(d, p, tp, GptHdr(p, q, tp, g)), n, d, p, q, tp, g)
    BY ONLY <2>1, <2>2, GptFits(g), PairPuts
  <2> QED
    BY <2>3 DEF p, q, tp
<1>6. CopyStores(sec, n, d, q, p, tq, g)
  <2>1. \A i \in Slots : tq + i \in Metadata(n) /\ tq + i # q
    BY <1>2 DEF Slots
  <2>2. /\ q \in Metadata(n) /\ p \in Lbas \ {0} /\ tq \in Nat \ {0}
        /\ WellFormedSec(d[q])
    BY <1>2, <1>4 DEF WellFormed
  <2> HIDE DEF p, q, tp, tq
  <2>3. CopyStores(gpt_pair_puts(d, q, tq, GptHdr(q, p, tq, g)), n, d, q, p, tq, g)
    BY ONLY <2>1, <2>2, GptFits(g), PairPuts
  <2> QED
    BY <2>3 DEF p, q, tq
<1> HIDE DEF prim, sec, p, q, tp, tq
<1>7. IsSeq(sec \o prim) /\ SafePuts(sec \o prim, n)
  BY <1>5, <1>6, SeqConcat, PutsConcat DEF CopyStores
<1>8. /\ Avoids(sec, p, tp) /\ Avoids(prim, q, tq)
      /\ Untouched(sec, 0) /\ Untouched(prim, 0)
  <2>1. \A i \in Slots : i \in Nat
    BY DEF Slots
  <2>2. Untouched(sec, p) /\ Untouched(prim, q) /\ Untouched(sec, 0) /\ Untouched(prim, 0)
    BY <1>2, <1>5, <1>6, <2>1 DEF CopyStores
  <2>3. ASSUME NEW i \in Slots PROVE Untouched(sec, tp + i)
    <3>1. tp + i # q /\ \A j \in Slots : tp + i # tq + j
      BY <1>2, <2>1
    <3> QED
      BY <1>6, <3>1 DEF CopyStores
  <2>4. ASSUME NEW i \in Slots PROVE Untouched(prim, tq + i)
    <3>1. tq + i # p /\ \A j \in Slots : tq + i # tp + j
      BY <1>2, <2>1
    <3> QED
      BY <1>5, <3>1 DEF CopyStores
  <2> QED
    BY <2>2, <2>3, <2>4 DEF Avoids
<1>9. CopyEnds(sec \o prim, d, p, q, tp, g)
  BY <1>3, <1>5, <1>6, <1>8, EndsKept DEF CopyStores
<1>10. CopyEnds(sec \o prim, d, q, p, tq, g)
  BY <1>3, <1>5, <1>6, <1>8, EndsKept DEF CopyStores
<1>11. Untouched(sec \o prim, 0)
  BY <1>5, <1>6, <1>8, PutsConcat DEF CopyStores
<1> QED
  BY <1>1, <1>7, <1>9, <1>10, <1>11 DEF GptEnds, p, q, tp, tq

-----------------------------------------------------------------------------
(* The stores of a whole write.                                            *)

LEMMA MbrPuts ==
  ASSUME NEW n, InSize(n), NEW m \in MbrSchemes, NEW d, WellFormedSec(d[0])
  PROVE  /\ IsSeq(mbr_save_puts(d, m)) /\ SafePuts(mbr_save_puts(d, m), n)
         /\ Wrote(mbr_save_puts(d, m), 0, m)
         /\ \A l : l # 0 => Untouched(mbr_save_puts(d, m), l)
<1> DEFINE s == mbr_save_puts(d, m)
           I == 0 .. mbr_max_part_cnt - 1
           c == mbr_max_part_cnt
<1>1. c \in Nat \ {0}
  BY MbrCntAssumption
<1>2. PICK T \in [I -> MbrTypes] : m = MbrSchem(T)
  BY DEF MbrSchemes
<1>3. m.kind = "mbr" /\ m.types = T /\ 0 \in Metadata(n)
  BY <1>2, GptPlaces DEF MbrSchem
<1>4. \A U \in [I -> MbrTypes] : WellFormedSec(MbrSchem(U))
  BY DEF WellFormedSec, MbrSchem
<1>5. CASE d[0].kind = "mbr"
  <2> DEFINE U(k) == [i \in I |-> IF i < k THEN m.types[i] ELSE d[0].types[i]]
  <2>1. d[0].types \in [I -> MbrTypes]
    BY <1>5 DEF WellFormedSec
  <2>2. \A k : U(k) \in [I -> MbrTypes]
    BY <1>3, <2>1
  <2>3. U(c) = T
    <3>1. \A i \in I : i < c
      BY <1>1
    <3> QED
      BY <1>3, <3>1
  <2>4. s = [k \in 1 .. c |-> Put(0, MbrSchem(U(k)))]
    BY <1>5 DEF mbr_save_puts
  <2> HIDE DEF s, U
  <2>5. IsSeq(s) /\ Len(s) = c
    <3> DEFINE S == {s[k] : k \in 1 .. c}
    <3>1. s \in [1 .. c -> S] /\ DOMAIN s = 1 .. c
      BY <2>4
    <3> HIDE DEF S
    <3>2. s \in Seq(S)
      BY <1>1, <3>1, SeqDef
    <3>3. Len(s) \in Nat /\ DOMAIN s = 1 .. Len(s)
      BY <3>2, LenProperties
    <3> QED
      BY <1>1, <3>1, <3>2, <3>3 DEF IsSeq
  <2>6. \A k \in 1 .. c : s[k].lba = 0 /\ s[k].val = MbrSchem(U(k))
    BY <2>4 DEF Put
  <2>7. SafePuts(s, n) /\ \A l : l # 0 => Untouched(s, l)
    BY <1>3, <1>4, <2>2, <2>5, <2>6 DEF SafePuts, SafePut, Untouched
  <2>8. Wrote(s, 0, m)
    <3>1. c \in 1 .. Len(s) /\ s[c].lba = 0 /\ s[c].val = m
      BY <1>1, <1>2, <2>3, <2>5, <2>6
    <3> QED
      BY <1>1, <2>5, <3>1 DEF Wrote
  <2> QED
    BY <2>5, <2>7, <2>8 DEF s
<1>6. CASE d[0].kind # "mbr"
  <2> DEFINE p == Put(0, m)
  <2>1. s = <<p>>
    BY <1>6 DEF mbr_save_puts
  <2>2. p.lba = 0 /\ p.val = m /\ WellFormedSec(m)
    BY <1>2, <1>4 DEF Put
  <2> HIDE DEF s, p
  <2>3. IsSeq(s) /\ Len(s) = 1 /\ s[1] = p
    BY <2>1, SeqShort
  <2> QED
    BY <1>3, <2>2, <2>3 DEF SafePuts, SafePut, Untouched, Wrote, s
<1> QED
  BY <1>5, <1>6

\* When all is stored, there is no header at l.
Gone(s, d, l) == \E v : v.kind # "hdr" /\ Ends(s, d, l, v)

\* Erasing the signature of whatever is at l.
Erase(d, l) == <<Put(l, Wiped(d[l]))>>

LEMMA EraseTwo ==
  ASSUME NEW d, NEW n
  PROVE  gpt_remove_puts(d, n) = Erase(d, hdr_lba_prim) \o Erase(d, hdr_lba_sec(n))
<1>1. ASSUME NEW x, NEW y PROVE <<x>> \o <<y>> = <<x, y>>
  <2>1. <<x>> \in Seq({x, y}) /\ <<y>> \in Seq({x, y}) /\ <<x, y>> \in Seq({x, y})
    OBVIOUS
  <2>2. Len(<<x>>) = 1 /\ Len(<<y>>) = 1 /\ Len(<<x, y>>) = 2
    OBVIOUS
  <2>3. /\ <<x>> \o <<y>> \in Seq({x, y}) /\ Len(<<x>> \o <<y>>) = 2
        /\ \A i \in 1 .. 2 : (<<x>> \o <<y>>)[i] = <<x, y>>[i]
    BY <2>1, <2>2, ConcatProperties
  <2> QED
    BY <2>1, <2>2, <2>3, SeqEqual
<1> QED
  BY <1>1 DEF gpt_remove_puts, Erase

\* What is left of a sector is no header.
LEMMA WipedIs ==
  ASSUME NEW v
  PROVE  /\ v.kind = "hdr" => Wiped(v) = Erased(v)
         /\ v.kind # "hdr" => Wiped(v) = v \/ Wiped(v) = Junk
         /\ v.kind = "erased" => Wiped(v) = v
         /\ Wiped(v).kind # "hdr"
         /\ WellFormedSec(v) => WellFormedSec(Wiped(v))
<1>1. WellFormedSec(Junk) /\ Junk.kind = "junk"
  BY DEF WellFormedSec, Junk
<1>2. Erased(v).kind = "erased"
  BY DEF Erased
<1>3. CASE v.kind = "hdr"
  BY <1>2, <1>3, Sectors DEF Wiped
<1>4. CASE v.kind # "hdr"
  BY <1>1, <1>4 DEF Wiped
<1> QED
  BY <1>3, <1>4

LEMMA ErasePuts ==
  ASSUME NEW n, NEW d, NEW l \in Metadata(n), WellFormedSec(d[l])
  PROVE  /\ IsSeq(Erase(d, l)) /\ SafePuts(Erase(d, l), n)
         /\ Gone(Erase(d, l), d, l)
         /\ \A x : x # l => Untouched(Erase(d, l), x)
<1> DEFINE s == Erase(d, l)
           v == Wiped(d[l])
           p == Put(l, v)
<1>1. p.lba = l /\ p.val = v
  BY DEF Put
<1>2. v.kind # "hdr" /\ WellFormedSec(v)
  BY WipedIs
<1>3. s = <<p>>
  BY DEF Erase
<1> HIDE DEF s, p, v
<1>4. IsSeq(s) /\ Len(s) = 1 /\ s[1] = p
  BY <1>3, SeqShort
<1>5. Wrote(s, l, v)
  BY <1>1, <1>4 DEF Wrote
<1> QED
  BY <1>1, <1>2, <1>4, <1>5 DEF SafePuts, SafePut, Untouched, Gone, Ends, s

LEMMA RemovePuts ==
  ASSUME NEW n, InSize(n), NEW d, WellFormed(d)
  PROVE  LET s == gpt_remove_puts(d, n)
         IN  /\ IsSeq(s) /\ SafePuts(s, n)
             /\ Gone(s, d, hdr_lba_prim) /\ Gone(s, d, hdr_lba_sec(n))
             /\ Untouched(s, 0)
<1> DEFINE p == hdr_lba_prim
           q == hdr_lba_sec(n)
           a == Erase(d, p)
           b == Erase(d, q)
<1>1. gpt_remove_puts(d, n) = a \o b
  BY EraseTwo
<1>2. /\ p \in Metadata(n) /\ q \in Metadata(n) /\ p # q /\ p # 0 /\ q # 0
      /\ WellFormedSec(d[p]) /\ WellFormedSec(d[q])
  BY GptPlaces, GptCntAssumption DEF WellFormed, Metadata
<1>3. /\ IsSeq(a) /\ SafePuts(a, n) /\ Gone(a, d, p) /\ Untouched(a, q) /\ Untouched(a, 0)
      /\ IsSeq(b) /\ SafePuts(b, n) /\ Gone(b, d, q) /\ Untouched(b, p) /\ Untouched(b, 0)
  <2> HIDE DEF p, q
  <2> QED
    BY <1>2, ErasePuts
<1> HIDE DEF p, q, a, b
<1>4. Gone(a \o b, d, p) /\ Gone(a \o b, d, q)
  BY <1>3, PutsConcat DEF Gone
<1>5. IsSeq(a \o b) /\ SafePuts(a \o b, n) /\ Untouched(a \o b, 0)
  BY <1>3, SeqConcat, PutsConcat
<1> QED
  BY <1>1, <1>4, <1>5 DEF p, q

-----------------------------------------------------------------------------
(* What a load finds.                                                      *)

LEMMA PairLoads ==
  ASSUME NEW d, NEW l
  PROVE  /\ gpt_pair_load(d, l) \in {"hdr_inv", "fatal", "table_inv", "ok"}
         /\ gpt_pair_load(d, l) = "ok" =>
              /\ d[l].kind = "hdr" /\ d[l].my_lba = l
              /\ ~(part_cnt(d[l]) > gpt_max_part_cnt)
              /\ TableAt(d, d[l].table_lba, part_cnt(d[l])) = d[l].entries
         /\ d[l].kind # "hdr" => gpt_pair_load(d, l) = "hdr_inv"
         /\ d[l].kind = "hdr" /\ d[l].my_lba = l /\ ~(part_cnt(d[l]) > gpt_max_part_cnt)
              /\ TableAt(d, d[l].table_lba, part_cnt(d[l])) = d[l].entries
              => gpt_pair_load(d, l) = "ok"
  BY DEF gpt_pair_load

LEMMA PairFits ==
  ASSUME NEW d, NEW l, WellFormedSec(d[l]), gpt_pair_load(d, l) = "ok"
  PROVE  GptFits(gpt_to_schem(d, l))
<1> DEFINE h == d[l]
           c == part_cnt(h)
           tab == [i \in DOMAIN h.entries |-> PartOf(d[h.table_lba + i])]
           g == gpt_to_schem(d, l)
<1>1. /\ h.kind = "hdr" /\ ~(c > gpt_max_part_cnt)
      /\ TableAt(d, h.table_lba, c) = h.entries
  BY PairLoads
<1>2. /\ c \in Nat /\ DOMAIN h.entries = 0 .. c - 1
      /\ h.first \in Nat /\ h.last \in Nat
      /\ \A i \in DOMAIN h.entries : PartOf(h.entries[i]) \in Ranges \cup {Unused}
  <2>1. WellFormedHdr(h)
    BY <1>1, Sectors
  <2> QED
    BY <2>1 DEF WellFormedHdr
<1>3. g = [kind |-> "gpt", id |-> h.id, first |-> h.first, last |-> h.last, tab |-> tab]
  BY DEF gpt_to_schem, GptSchem
<1> HIDE DEF h, c, g
<1>4. c \in 0 .. gpt_max_part_cnt
  BY <1>1, <1>2, GptCntAssumption
<1>5. tab = [i \in 0 .. c - 1 |-> PartOf(h.entries[i])]
  <2>1. \A i \in 0 .. c - 1 : h.entries[i] = d[h.table_lba + i]
    BY <1>1 DEF TableAt
  <2> QED
    BY <1>2, <2>1
<1> HIDE DEF tab
<1>6. /\ IsGpt(g) /\ g.tab = tab /\ g.first = h.first /\ g.last = h.last
  BY <1>3 DEF IsGpt, GptSchem
<1>7. tab = [i \in 0 .. c - 1 |-> tab[i]] /\ DOMAIN tab = 0 .. c - 1
  BY <1>5
<1>8. \A i \in 0 .. c - 1 : tab[i] \in Ranges \cup {Unused}
  BY <1>2, <1>5
<1> QED
  BY <1>2, <1>4, <1>6, <1>7, <1>8 DEF GptFits, g

LEMMA LoadFits ==
  ASSUME NEW n, InSize(n), NEW d, WellFormed(d), gpt_load(d, n) \notin {Fatal, NoScheme}
  PROVE  GptFits(gpt_load(d, n))
<1> DEFINE p == gpt_pair_load(d, hdr_lba_prim)
           q == IF p = "ok" THEN d[hdr_lba_prim].alt_lba ELSE hdr_lba_sec(n)
<1>1. hdr_lba_prim \in Lbas /\ hdr_lba_sec(n) \in Lbas
  BY GptPlaces DEF Metadata
<1>2. CASE gpt_load(d, n) = gpt_to_schem(d, hdr_lba_prim) /\ p = "ok"
  BY <1>1, <1>2, PairFits DEF WellFormed
<1>3. CASE gpt_load(d, n) = gpt_to_schem(d, hdr_lba_sec(n))
             /\ gpt_pair_load(d, hdr_lba_sec(n)) = "ok"
  BY <1>1, <1>3, PairFits DEF WellFormed
<1> QED
  BY <1>2, <1>3 DEF gpt_load

LEMMA LoadNone ==
  ASSUME NEW n, NEW d
  PROVE  gpt_load(d, n) = NoScheme <=>
           /\ gpt_pair_load(d, hdr_lba_prim) \notin {"ok", "fatal"}
           /\ gpt_pair_load(d, hdr_lba_sec(n)) \notin {"ok", "fatal"}
<1>1. \A l : gpt_to_schem(d, l) # NoScheme
  BY DEF gpt_to_schem, GptSchem, NoScheme
<1>2. Fatal # NoScheme
  BY DEF Fatal, NoScheme
<1> QED
  BY <1>1, <1>2, PairLoads DEF gpt_load

\* What a load finds does not depend on sector 0, when it finds nothing.
LEMMA NoneKept ==
  ASSUME NEW n, InSize(n), NEW d, NEW e, WellFormed(d), gpt_load(d, n) = NoScheme,
         \A l \in Lbas : l # 0 => e[l] = d[l]
  PROVE  gpt_load(e, n) = NoScheme
<1>1. ASSUME NEW l \in Lbas, l # 0 PROVE gpt_pair_load(e, l) = gpt_pair_load(d, l)
  <2> DEFINE h == d[l]
             c == part_cnt(h)
  <2>1. e[l] = h
    BY <1>1
  <2>2. CASE h.kind # "hdr"
    BY <2>1, <2>2 DEF gpt_pair_load
  <2>3. CASE h.kind = "hdr"
    <3>1. /\ h.table_lba \in Nat \ {0} /\ c \in Nat /\ DOMAIN h.entries = 0 .. c - 1
          /\ \A i \in DOMAIN h.entries : h.table_lba + i \in Lbas
      <4>1. WellFormedHdr(h)
        BY <1>1, <2>3, Sectors DEF WellFormed
      <4> QED
        BY <4>1 DEF WellFormedHdr
    <3>2. \A i \in 0 .. c - 1 : e[h.table_lba + i] = d[h.table_lba + i]
      BY <3>1
    <3>3. TableAt(e, h.table_lba, c) = TableAt(d, h.table_lba, c)
      BY <3>2 DEF TableAt
    <3> QED
      BY <2>1, <3>3 DEF gpt_pair_load
  <2> QED
    BY <2>2, <2>3
<1>2. /\ hdr_lba_prim \in Lbas /\ hdr_lba_prim # 0
      /\ hdr_lba_sec(n) \in Lbas /\ hdr_lba_sec(n) # 0
  BY GptPlaces, GptCntAssumption DEF Metadata
<1> QED
  BY <1>1, <1>2, LoadNone

\* A copy that is complete is loaded as what was written.
LEMMA CopyLoads ==
  ASSUME NEW g, GptFits(g), NEW d,
         NEW l, NEW alt \in Lbas \ {0}, NEW tl \in Nat \ {0},
         \A i \in Slots : tl + i \in Lbas,
         CopyEnds(<<>>, d, l, alt, tl, g)
  PROVE  /\ gpt_pair_load(d, l) = "ok" /\ gpt_to_schem(d, l) = g
         /\ d[l].alt_lba = alt
<1> DEFINE h == GptHdr(l, alt, tl, g)
           c == part_cnt(h)
<1>1. \A x, v : Ends(<<>>, d, x, v) => d[x] = v
  BY SeqNone DEF Ends, Wrote
<1>2. d[l] = h /\ \A i \in DOMAIN g.tab : d[tl + i] = Ent(g.tab[i])
  BY <1>1 DEF CopyEnds
<1>3. /\ h.kind = "hdr" /\ h.my_lba = l /\ h.alt_lba = alt /\ h.table_lba = tl
      /\ h.id = g.id /\ h.first = g.first /\ h.last = g.last
      /\ c \in 0 .. gpt_max_part_cnt
      /\ DOMAIN h.entries = 0 .. c - 1 /\ DOMAIN g.tab = DOMAIN h.entries
      /\ h.entries = [i \in 0 .. c - 1 |-> Ent(g.tab[i])]
  <2>1. HeaderFits(GptHdr(l, alt, tl, g), l, alt, tl, g)
    BY ONLY \A i \in Slots : tl + i \in Lbas, GptFits(g), alt \in Lbas \ {0},
            tl \in Nat \ {0}, Header
  <2> QED
    BY <2>1 DEF HeaderFits
<1> HIDE DEF h, c
<1>4. TableAt(d, tl, c) = h.entries
  BY <1>2, <1>3 DEF TableAt
<1>5. gpt_pair_load(d, l) = "ok"
  <2>1. ~(c > gpt_max_part_cnt)
    BY <1>3, GptCntAssumption
  <2> QED
    BY <1>2, <1>3, <1>4, <2>1, PairLoads DEF c
<1>6. gpt_to_schem(d, l) = g
  <2>1. g = GptSchem(g.id, g.first, g.last, g.tab) /\ g.tab = [i \in DOMAIN g.tab |-> g.tab[i]]
    BY DEF GptFits, IsGpt
  <2>2. \A i \in DOMAIN g.tab : PartOf(d[tl + i]) = g.tab[i]
    <3>1. ASSUME NEW v PROVE PartOf(Ent(v)) = v
      BY DEF PartOf, Ent
    <3> QED
      BY <1>2, <3>1
  <2>3. [i \in DOMAIN h.entries |-> PartOf(d[tl + i])] = g.tab
    BY <1>3, <2>1, <2>2
  <2> QED
    BY <1>2, <1>3, <2>1, <2>3 DEF gpt_to_schem
<1> QED
  BY <1>2, <1>3, <1>5, <1>6

LEMMA GptLoads ==
  ASSUME NEW n, InSize(n), NEW g, GptFits(g), NEW d, GptEnds(<<>>, d, n, g)
  PROVE  /\ gpt_load(d, n) = g
         /\ \A l \in {hdr_lba_prim, hdr_lba_sec(n)} :
              gpt_pair_load(d, l) = "ok" /\ gpt_to_schem(d, l) = g
<1> DEFINE p == hdr_lba_prim
           q == hdr_lba_sec(n)
           tp == table_lba_prim
           tq == table_lba_sec(n)
<1>1. /\ p \in Lbas \ {0} /\ q \in Lbas \ {0} /\ tp \in Nat \ {0} /\ tq \in Nat \ {0}
      /\ \A i \in Slots : tp + i \in Lbas
      /\ \A i \in Slots : tq + i \in Lbas
  <2>1. 0 \in Slots /\ gpt_max_part_cnt \in Nat \ {0}
    BY GptCntAssumption DEF Slots
  <2>2. tq + 0 > 2 + gpt_max_part_cnt
    BY <2>1, GptPlaces DEF Slots
  <2> QED
    BY <2>1, <2>2, GptPlaces DEF Metadata, Slots
<1>2. CopyEnds(<<>>, d, p, q, tp, g) /\ CopyEnds(<<>>, d, q, p, tq, g)
  BY DEF GptEnds
<1> HIDE DEF p, q, tp, tq
<1>3. gpt_pair_load(d, p) = "ok" /\ gpt_to_schem(d, p) = g /\ d[p].alt_lba = q
  BY ONLY <1>1, <1>2, GptFits(g), CopyLoads
<1>4. gpt_pair_load(d, q) = "ok" /\ gpt_to_schem(d, q) = g
  BY ONLY <1>1, <1>2, GptFits(g), CopyLoads
<1>5. gpt_load(d, n) = g
  BY <1>3, <1>4 DEF gpt_load, p
<1> QED
  BY <1>3, <1>4, <1>5 DEF p, q

-----------------------------------------------------------------------------
(* The stores of a whole write, and where they lead.                       *)

\* Storing s on d leaves what is in memory: GPT g and MBR m.  had: the image
\* had a GPT when the write began.
WriteEnds(s, d, n, m, g, had) ==
  /\ g # NoScheme => GptEnds(s, d, n, g)
  /\ g = NoScheme /\ had => Gone(s, d, hdr_lba_prim) /\ Gone(s, d, hdr_lba_sec(n))
  /\ g = NoScheme /\ ~had => /\ gpt_load(d, n) = NoScheme
                             /\ \A l \in Lbas : l # 0 => Untouched(s, l)
  /\ m # NoScheme => Ends(s, d, 0, m)
  /\ m = NoScheme => mbr_load(d) = NoScheme /\ Untouched(s, 0)

LEMMA GoneKept ==
  ASSUME NEW s, NEW t, IsSeq(s), IsSeq(t), NEW d, NEW l
  PROVE  Gone(s, d, l) /\ Untouched(t, l) => Gone(s \o t, d, l)
  BY PutsConcat DEF Gone

\* What schem_ctx_save is about to do.
LEMMA SaveBegins ==
  ASSUME NEW n, InSize(n), NEW d, WellFormed(d),
         NEW m \in MbrSchemes \cup {NoScheme},
         NEW g, g # NoScheme => GptFits(g), g # NoScheme => m # NoScheme,
         in_img.gpt \in BOOLEAN,
         ~in_img.gpt => gpt_load(d, n) = NoScheme,
         m = NoScheme => mbr_load(d) = NoScheme
  PROVE  LET s == SavePuts(d, n, m, g)
         IN  IsSeq(s) /\ SafePuts(s, n) /\ WriteEnds(s, d, n, m, g, in_img.gpt)
<1> DEFINE p == hdr_lba_prim
           q == hdr_lba_sec(n)
           a == IF in_img.gpt /\ g = NoScheme THEN gpt_remove_puts(d, n) ELSE <<>>
           b == IF m # NoScheme THEN mbr_save_puts(d, m) ELSE <<>>
           c == IF g # NoScheme THEN gpt_save_puts(d, n, g) ELSE <<>>
<1>1. SavePuts(d, n, m, g) = (a \o b) \o c
  BY DEF SavePuts
<1>2. /\ IsSeq(<<>>) /\ SafePuts(<<>>, n) /\ \A l : Untouched(<<>>, l)
  BY SeqNone DEF SafePuts, Untouched
<1>3. p \in Lbas /\ q \in Lbas /\ p # 0 /\ q # 0 /\ 0 \in Lbas
  BY GptPlaces, GptCntAssumption DEF Metadata
<1>4. /\ IsSeq(a) /\ SafePuts(a, n) /\ Untouched(a, 0)
      /\ g = NoScheme /\ in_img.gpt => Gone(a, d, p) /\ Gone(a, d, q)
      /\ g # NoScheme \/ ~in_img.gpt => a = <<>>
  <2>1. CASE in_img.gpt /\ g = NoScheme
    BY <2>1, RemovePuts
  <2>2. CASE ~(in_img.gpt /\ g = NoScheme)
    BY <1>2, <2>2
  <2> QED
    BY <2>1, <2>2
<1>5. /\ IsSeq(b) /\ SafePuts(b, n) /\ \A l : l # 0 => Untouched(b, l)
      /\ m # NoScheme => Wrote(b, 0, m)
      /\ m = NoScheme => Untouched(b, 0)
  <2>1. CASE m # NoScheme
    <3>1. m \in MbrSchemes /\ WellFormedSec(d[0])
      BY <1>3, <2>1 DEF WellFormed
    <3> QED
      BY <2>1, <3>1, MbrPuts
  <2>2. CASE m = NoScheme
    BY <1>2, <2>2
  <2> QED
    BY <2>1, <2>2
<1>6. /\ IsSeq(c) /\ SafePuts(c, n) /\ Untouched(c, 0)
      /\ g # NoScheme => GptEnds(c, d, n, g)
      /\ g = NoScheme => \A l : Untouched(c, l)
  <2>1. CASE g # NoScheme
    BY <2>1, GptPuts
  <2>2. CASE g = NoScheme
    BY <1>2, <2>2
  <2> QED
    BY <2>1, <2>2
<1> HIDE DEF p, q, a, b, c
<1> DEFINE ab == a \o b
<1>7. /\ IsSeq(ab) /\ SafePuts(ab, n)
      /\ g = NoScheme /\ in_img.gpt => Gone(ab, d, p) /\ Gone(ab, d, q)
      /\ g # NoScheme \/ ~in_img.gpt => \A l : l # 0 => Untouched(ab, l)
      /\ m # NoScheme => Wrote(ab, 0, m)
      /\ m = NoScheme => Untouched(ab, 0)
  <2>1. IsSeq(ab) /\ SafePuts(ab, n)
    BY <1>4, <1>5, SeqConcat, PutsConcat
  <2>2. g = NoScheme /\ in_img.gpt => Gone(ab, d, p) /\ Gone(ab, d, q)
    BY <1>3, <1>4, <1>5, GoneKept
  <2>3. g # NoScheme \/ ~in_img.gpt => \A l : l # 0 => Untouched(ab, l)
    BY <1>2, <1>4, <1>5, PutsConcat
  <2>4. m # NoScheme => Wrote(ab, 0, m)
    BY <1>4, <1>5, PutsConcat
  <2>5. m = NoScheme => Untouched(ab, 0)
    BY <1>4, <1>5, PutsConcat
  <2> QED
    BY <2>1, <2>2, <2>3, <2>4, <2>5
<1> HIDE DEF ab
<1>8. IsSeq(ab \o c) /\ SafePuts(ab \o c, n)
  BY <1>6, <1>7, SeqConcat, PutsConcat
<1>9. g # NoScheme => GptEnds(ab \o c, d, n, g)
  <2> SUFFICES ASSUME g # NoScheme PROVE GptEnds(ab \o c, d, n, g)
    OBVIOUS
  <2>1. \A l : l # 0 => Untouched(ab, l)
    BY <1>7
  <2>2. DOMAIN g.tab \subseteq Slots
    <3>1. GptFits(g)
      OBVIOUS
    <3> QED
      BY ONLY <3>1, GptCntAssumption DEF GptFits, Slots
  <2>3. Avoids(ab, p, table_lba_prim) /\ Avoids(ab, q, table_lba_sec(n))
    <3>1. \A i \in Slots : table_lba_prim + i # 0 /\ table_lba_sec(n) + i # 0
      BY GptPlaces, GptCntAssumption DEF Slots
    <3> QED
      BY <1>3, <2>1, <3>1 DEF Avoids
  <2>4. GptEnds(c, d, n, g)
    BY <1>6
  <2> QED
    BY <1>6, <1>7, <2>2, <2>3, <2>4, EndsKept DEF GptEnds, p, q
<1>10. g = NoScheme /\ in_img.gpt => Gone(ab \o c, d, p) /\ Gone(ab \o c, d, q)
  BY <1>6, <1>7, GoneKept
<1>11. g = NoScheme /\ ~in_img.gpt => \A l : l # 0 => Untouched(ab \o c, l)
  BY <1>6, <1>7, PutsConcat
<1>12. m # NoScheme => Ends(ab \o c, d, 0, m)
  BY <1>6, <1>7, PutsConcat DEF Ends
<1>13. m = NoScheme => Untouched(ab \o c, 0)
  BY <1>6, <1>7, PutsConcat
<1>14. WriteEnds(ab \o c, d, n, m, g, in_img.gpt)
  BY <1>9, <1>10, <1>11, <1>12, <1>13 DEF WriteEnds, p, q
<1> QED
  BY <1>1, <1>8, <1>14 DEF ab

\* A store brings the image nearer to where the write leads.
LEMMA WriteAdvances ==
  ASSUME NEW n, InSize(n), NEW d, DOMAIN d = Lbas, WellFormed(d),
         NEW s, IsSeq(s), SafePuts(s, n), s # <<>>,
         NEW m, NEW g, g # NoScheme => GptFits(g), NEW had,
         WriteEnds(s, d, n, m, g, had)
  PROVE  LET e == [d EXCEPT ![Head(s).lba] = Head(s).val]
         IN  WriteEnds(Tail(s), e, n, m, g, had)
<1> DEFINE e == [d EXCEPT ![Head(s).lba] = Head(s).val]
           t == Tail(s)
<1>1. Head(s).lba \in Lbas
  <2>1. /\ Len(s) \in Nat /\ Len(s) # 0 /\ Head(s) = s[1]
    BY SeqFacts
  <2> QED
    BY <2>1 DEF SafePuts, SafePut, Metadata
<1>2. /\ \A l : Untouched(s, l) => Untouched(t, l) /\ (l \in Lbas => e[l] = d[l])
      /\ \A l \in Lbas : \A v : Ends(s, d, l, v) => Ends(t, e, l, v)
  BY <1>1, PutsTail
<1> HIDE DEF e, t
<1>3. /\ hdr_lba_prim \in Lbas /\ hdr_lba_sec(n) \in Lbas /\ 0 \in Lbas
      /\ \A i \in Slots : table_lba_prim + i \in Lbas
      /\ \A i \in Slots : table_lba_sec(n) + i \in Lbas
  BY GptPlaces DEF Metadata, Slots
<1>4. g # NoScheme => GptEnds(t, e, n, g)
  <2> SUFFICES ASSUME g # NoScheme PROVE GptEnds(t, e, n, g)
    OBVIOUS
  <2>1. DOMAIN g.tab \subseteq Slots
    <3>1. GptFits(g)
      OBVIOUS
    <3> QED
      BY ONLY <3>1, GptCntAssumption DEF GptFits, Slots
  <2>2. GptEnds(s, d, n, g)
    BY DEF WriteEnds
  <2> QED
    BY <1>2, <1>3, <2>1, <2>2 DEF GptEnds, CopyEnds
<1>5. g = NoScheme /\ had => Gone(t, e, hdr_lba_prim) /\ Gone(t, e, hdr_lba_sec(n))
  BY <1>2, <1>3 DEF WriteEnds, Gone
<1>6. ASSUME g = NoScheme, ~had
      PROVE  gpt_load(e, n) = NoScheme /\ \A l \in Lbas : l # 0 => Untouched(t, l)
  <2>1. gpt_load(d, n) = NoScheme /\ \A l \in Lbas : l # 0 => Untouched(s, l)
    BY <1>6 DEF WriteEnds
  <2>2. \A l \in Lbas : l # 0 => Untouched(t, l) /\ e[l] = d[l]
    BY <1>2, <2>1
  <2> QED
    BY <2>1, <2>2, NoneKept
<1>7. m # NoScheme => Ends(t, e, 0, m)
  BY <1>2, <1>3 DEF WriteEnds
<1>8. ASSUME m = NoScheme
      PROVE  mbr_load(e) = NoScheme /\ Untouched(t, 0)
  <2>1. mbr_load(d) = NoScheme /\ Untouched(s, 0)
    BY <1>8 DEF WriteEnds
  <2>2. e[0] = d[0] /\ Untouched(t, 0)
    BY <1>2, <1>3, <2>1
  <2> QED
    BY <2>1, <2>2 DEF mbr_load
<1> QED
  BY <1>4, <1>5, <1>6, <1>7, <1>8 DEF WriteEnds, e, t

\* When all is stored, a load finds what was in memory.
LEMMA WriteIsDone ==
  ASSUME NEW n, InSize(n), NEW d, NEW m \in MbrSchemes \cup {NoScheme},
         NEW g, g # NoScheme => GptFits(g), NEW had \in BOOLEAN,
         WriteEnds(<<>>, d, n, m, g, had)
  PROVE  /\ gpt_load(d, n) = g /\ mbr_load(d) = m
         /\ \A l \in {hdr_lba_prim, hdr_lba_sec(n)} :
              IF g = NoScheme THEN gpt_pair_load(d, l) # "ok"
              ELSE gpt_pair_load(d, l) = "ok" /\ gpt_to_schem(d, l) = g
<1>1. \A l, v : Ends(<<>>, d, l, v) => d[l] = v
  BY SeqNone DEF Ends, Wrote
<1>2. mbr_load(d) = m
  <2>1. CASE m = NoScheme
    BY <2>1 DEF WriteEnds
  <2>2. CASE m # NoScheme
    <3>1. PICK T : m = MbrSchem(T)
      BY <2>2 DEF MbrSchemes
    <3>2. d[0] = m
      BY <1>1, <2>2 DEF WriteEnds
    <3> QED
      BY <3>1, <3>2 DEF mbr_load, MbrSchem
  <2> QED
    BY <2>1, <2>2
<1>3. CASE g # NoScheme
  <2>1. GptEnds(<<>>, d, n, g) /\ GptFits(g)
    BY <1>3 DEF WriteEnds
  <2> QED
    BY <1>2, <1>3, <2>1, GptLoads
<1>4. CASE g = NoScheme /\ had
  <2>1. \A l \in {hdr_lba_prim, hdr_lba_sec(n)} : d[l].kind # "hdr"
    BY <1>1, <1>4 DEF WriteEnds, Gone
  <2>2. \A l \in {hdr_lba_prim, hdr_lba_sec(n)} : gpt_pair_load(d, l) = "hdr_inv"
    BY <2>1, PairLoads
  <2> QED
    BY <1>2, <1>4, <2>2, LoadNone
<1>5. CASE g = NoScheme /\ ~had
  <2>1. gpt_load(d, n) = NoScheme
    BY <1>5 DEF WriteEnds
  <2> QED
    BY <1>2, <1>5, <2>1, LoadNone
<1> QED
  BY <1>3, <1>4, <1>5

-----------------------------------------------------------------------------
(* The inductive invariant.                                                *)

ImageFits ==
  /\ secs \in Sizes
  /\ DOMAIN disk = Lbas /\ DOMAIN stable = Lbas
  /\ \A l \in Lbas : disk[l] \in stable[l] /\ \A v \in stable[l] : WellFormedSec(v)

SchemesFit ==
  /\ mbr \in MbrSchemes \cup {NoScheme}
  /\ gpt # NoScheme => GptFits(gpt)
  /\ in_img \in [{"mbr", "gpt"} -> BOOLEAN]
  /\ cur \in {"none", "mbr", "gpt"}
  /\ cur = "none" => mbr = NoScheme /\ gpt = NoScheme

RunFits ==
  /\ pc \in {"off", "cmd", "saving", "sync"}
  /\ pc # "saving" => todo = <<>>
  /\ IsSeq(todo) /\ SafePuts(todo, secs)
  /\ pc \notin {"saving", "sync"} => before = NoWrite

WriteFits ==
  /\ FlagsAccurate
  /\ pc \in {"saving", "sync"} => WriteEnds(todo, disk, secs, mbr, gpt, in_img.gpt)

SaveInv == Inv /\ ImageFits /\ SchemesFit /\ RunFits /\ WriteFits

LEMMA SizeFits == ImageFits => InSize(secs) /\ WellFormed(disk)
  BY Places DEF ImageFits, WellFormed

LEMMA SaveInit == Init => SaveInv
<1> SUFFICES ASSUME Init PROVE SaveInv
  OBVIOUS
<1>1. PICK d \in InitDisks : disk = d.sectors /\ secs = d.size
  BY DEF Init
<1>2. /\ d.size \in Sizes /\ d.sectors = [l \in Lbas |-> d.sectors[l]]
      /\ \A l \in Lbas : WellFormedSec(d.sectors[l])
  BY InitDisksAssumption
<1>3. ImageFits
  BY <1>1, <1>2 DEF Init, ImageFits
<1>4. SchemesFit /\ RunFits /\ WriteFits
  BY SeqNone DEF Init, NoFlags, SchemesFit, RunFits, WriteFits, FlagsAccurate, SafePuts
<1> QED
  BY <1>3, <1>4, InvInit DEF SaveInv

\* Leaving the program.
LEMMA SaveExit ==
  ASSUME Exit, ImageFits'
  PROVE  SaveInv'
<1>1. (SchemesFit /\ RunFits /\ WriteFits)'
  BY SeqNone DEF Exit, NoFlags, SchemesFit, RunFits, WriteFits, FlagsAccurate, SafePuts
<1> QED
  BY <1>1, InvExit DEF SaveInv

LEMMA ImageKept == ASSUME ImageFits, UNCHANGED img PROVE ImageFits'
  BY DEF ImageFits, img

\* While the program is not running only the image changes.
LEMMA SaveOff ==
  ASSUME SaveInv, pc = "off", UNCHANGED <<ctx, run>>, ImageFits'
  PROVE  SaveInv'
<1>1. /\ pc' = pc /\ todo' = todo /\ before' = before
      /\ mbr' = mbr /\ gpt' = gpt /\ in_img' = in_img /\ cur' = cur
  BY DEF ctx, run
<1>2. Inv'
  BY InvUnchanged DEF SaveInv
<1>3. SchemesFit'
  BY <1>1 DEF SaveInv, SchemesFit
<1>4. SafePuts(todo, secs')
  BY SeqNone DEF SaveInv, RunFits, SafePuts
<1>5. RunFits' /\ WriteFits'
  BY <1>1, <1>4 DEF SaveInv, RunFits, WriteFits, FlagsAccurate
<1> QED
  BY <1>2, <1>3, <1>5 DEF SaveInv

LEMMA FlagTypes ==
  \A a, b \in BOOLEAN : [mbr |-> a, gpt |-> b] \in [{"mbr", "gpt"} -> BOOLEAN]
  OBVIOUS

LEMMA SaveStart ==
  ASSUME SaveInv, NEW n \in Sizes, Start(n)
  PROVE  SaveInv'
<1> DEFINE m == mbr_load(disk)
           g == gpt_load(disk, n)
<1>1. /\ pc' = "cmd" /\ todo' = todo /\ before' = before /\ pc = "off"
      /\ secs' = n /\ n >= secs /\ disk' = disk /\ stable' = stable
      /\ g # Fatal /\ gpt' = g /\ mbr' = MbrBeside(m, g)
      /\ in_img' = [mbr |-> m # NoScheme, gpt |-> g # NoScheme]
      /\ cur' = get_type(mbr', gpt')
  BY DEF Start, Extend
<1>2. ImageFits'
  BY <1>1 DEF SaveInv, ImageFits
<1>3. InSize(n) /\ WellFormed(disk)
  BY <1>1, <1>2, Places DEF ImageFits, WellFormed
<1>4. g # NoScheme => GptFits(g)
  BY <1>1, <1>3, LoadFits
<1>5. m \in MbrSchemes \cup {NoScheme}
  <2>1. 0 \in Lbas
    BY <1>3, GptPlaces DEF Metadata
  <2>2. disk[0].kind = "mbr" =>
          disk[0].types \in [0 .. mbr_max_part_cnt - 1 -> MbrTypes]
    BY <1>3, <2>1 DEF WellFormed, WellFormedSec
  <2> QED
    BY <2>2 DEF mbr_load, MbrSchemes
<1>6. MbrBeside(m, g) \in MbrSchemes \cup {NoScheme}
  <2>1. ProtectiveMbr \in MbrSchemes
    BY MbrTypesAssumption DEF ProtectiveMbr, MbrSchemes
  <2> QED
    BY <1>5, <2>1 DEF MbrBeside
<1> HIDE DEF m, g
<1>7. SchemesFit'
  <2>1. in_img' \in [{"mbr", "gpt"} -> BOOLEAN]
    BY <1>1, FlagTypes
  <2> QED
    BY <1>1, <1>4, <1>6, <2>1 DEF SchemesFit, get_type
<1>8. RunFits'
  BY <1>1, SeqNone DEF SaveInv, RunFits, SafePuts
<1>9. WriteFits'
  BY <1>1 DEF WriteFits, FlagsAccurate, Found, m, g
<1> QED
  BY <1>2, <1>7, <1>8, <1>9, InvStart DEF SaveInv

\* A command changes the schemes in memory, and nothing else.
LEMMA SaveCommand ==
  ASSUME SaveInv, Command
  PROVE  SaveInv'
<1>1. CASE Quit
  BY <1>1, SaveExit, ImageKept DEF Quit, SaveInv
<1>2. ASSUME UNCHANGED <<img, in_img, run>>, pc = "cmd", SchemesFit' PROVE SaveInv'
  <2>1. /\ disk' = disk /\ secs' = secs /\ stable' = stable /\ in_img' = in_img
        /\ pc' = pc /\ todo' = todo /\ before' = before
    BY <1>2 DEF img, run
  <2>2. ImageFits' /\ RunFits' /\ WriteFits'
    BY <1>2, <2>1 DEF SaveInv, ImageFits, RunFits, WriteFits, FlagsAccurate, Found
  <2> QED
    BY <1>2, <2>2, InvCommand DEF SaveInv
<1>3. EmptyMbr \in MbrSchemes /\ ProtectiveMbr \in MbrSchemes
  BY MbrTypesAssumption DEF EmptyMbr, ProtectiveMbr, MbrSchemes
<1>4. InSize(secs) /\ secs \in Sizes
  BY SizeFits DEF SaveInv, ImageFits
<1>5. CASE NewMbr
  <2>1. SchemesFit'
    BY <1>3, <1>5 DEF NewMbr, SaveInv, SchemesFit
  <2> QED
    BY <1>2, <1>5, <2>1 DEF NewMbr
<1>6. ASSUME NEW id \in Ids, NewGpt(id) PROVE SaveInv'
  <2> DEFINE g == GptSchem(id, first_usable_lba, last_usable_lba(secs),
                           [i \in 0 .. gpt_max_part_cnt - 1 |-> Unused])
  <2>1. GptFits(g)
    <3>1. /\ g.tab = [i \in 0 .. gpt_max_part_cnt - 1 |-> Unused]
          /\ g.first = first_usable_lba /\ g.last = last_usable_lba(secs) /\ IsGpt(g)
      BY SchemeKinds DEF GptSchem
    <3> HIDE DEF g
    <3>2. gpt_max_part_cnt \in 0 .. gpt_max_part_cnt
      BY GptCntAssumption
    <3>3. g.tab = [i \in 0 .. gpt_max_part_cnt - 1 |-> g.tab[i]]
      BY <3>1
    <3>4. g.first \in Nat /\ g.last \in Nat
      BY <1>4, <3>1, GptCntAssumption
         DEF InSize, first_usable_lba, last_usable_lba, table_lba_sec, hdr_lba_sec,
             table_lba_prim, hdr_lba_prim
    <3>5. \A i \in DOMAIN g.tab : g.tab[i] \in Ranges \cup {Unused}
      BY <3>1
    <3> QED
      BY <3>1, <3>2, <3>3, <3>4, <3>5 DEF GptFits
  <2>2. gpt' = g /\ mbr' = ProtectiveMbr /\ cur' = "gpt" /\ in_img' = in_img /\ secs' = secs
    BY <1>6 DEF NewGpt, img
  <2> HIDE DEF g
  <2>3. SchemesFit'
    BY <1>3, <2>1, <2>2 DEF SaveInv, SchemesFit
  <2> QED
    BY <1>2, <1>6, <2>3 DEF NewGpt
<1>7. ASSUME NEW i \in 0 .. gpt_max_part_cnt - 1, NEW p \in Ranges \cup {Unused},
             EditGpt(i, p)
      PROVE  SaveInv'
  <2>1. /\ cur = "gpt" /\ gpt # NoScheme /\ GptFits(gpt) /\ i \in DOMAIN gpt.tab
        /\ gpt' = [gpt EXCEPT !.tab[i] = p]
        /\ mbr' = mbr /\ cur' = cur /\ in_img' = in_img /\ secs' = secs
    BY <1>7 DEF EditGpt, SaveInv, Inv, CurExists, SchemesFit, img
  <2>2. GptFits(gpt')
    <3>1. gpt = GptSchem(gpt.id, gpt.first, gpt.last, gpt.tab) /\ IsGpt(gpt')
      <4>1. IsGpt(gpt)
        BY <2>1 DEF GptFits
      <4>2. IsGpt([gpt EXCEPT !.tab[i] = p])
        BY <4>1, EditKeepsKind
      <4> QED
        BY <2>1, <4>1, <4>2 DEF IsGpt
    <3>2. /\ gpt'.tab = [gpt.tab EXCEPT ![i] = p]
          /\ gpt'.first = gpt.first /\ gpt'.last = gpt.last
      BY <2>1, <3>1 DEF GptSchem
    <3>3. PICK c \in 0 .. gpt_max_part_cnt : gpt.tab = [j \in 0 .. c - 1 |-> gpt.tab[j]]
      BY <2>1 DEF GptFits
    <3>4. gpt'.tab = [j \in 0 .. c - 1 |-> gpt'.tab[j]] /\ DOMAIN gpt.tab = DOMAIN gpt'.tab
      BY <3>2, <3>3
    <3>5. /\ gpt.first \in Nat /\ gpt.last \in Nat
          /\ \A j \in DOMAIN gpt.tab : gpt.tab[j] \in Ranges \cup {Unused}
      BY <2>1 DEF GptFits
    <3>6. \A j \in DOMAIN gpt'.tab : gpt'.tab[j] \in Ranges \cup {Unused}
      BY <1>7, <2>1, <3>2, <3>4, <3>5
    <3> QED
      BY <3>1, <3>2, <3>4, <3>5, <3>6 DEF GptFits
  <2>3. SchemesFit'
    BY <2>1, <2>2 DEF SaveInv, SchemesFit
  <2> QED
    BY <1>2, <1>7, <2>3 DEF EditGpt
<1>8. ASSUME NEW i \in 0 .. mbr_max_part_cnt - 1, NEW t \in MbrTypes, EditMbr(i, t)
      PROVE  SaveInv'
  <2>1. /\ cur = "mbr" /\ mbr \in MbrSchemes /\ mbr' = [mbr EXCEPT !.types[i] = t]
        /\ gpt' = gpt /\ cur' = cur /\ in_img' = in_img /\ secs' = secs
    BY <1>8 DEF EditMbr, SaveInv, Inv, CurExists, SchemesFit, img
  <2>2. PICK T \in [0 .. mbr_max_part_cnt - 1 -> MbrTypes] : mbr = MbrSchem(T)
    BY <2>1 DEF MbrSchemes
  <2>3. mbr' = MbrSchem([T EXCEPT ![i] = t])
    BY <2>1, <2>2 DEF MbrSchem
  <2>4. mbr' \in MbrSchemes
    BY <2>2, <2>3 DEF MbrSchemes
  <2>5. SchemesFit'
    BY <2>1, <2>4 DEF SaveInv, SchemesFit
  <2> QED
    BY <1>2, <1>8, <2>5 DEF EditMbr
<1>9. CASE EnterMbr
  <2>1. SchemesFit'
    BY <1>9 DEF EnterMbr, SaveInv, SchemesFit, img
  <2> QED
    BY <1>2, <1>9, <2>1 DEF EnterMbr
<1>10. CASE ResetMbr
  <2>1. SchemesFit'
    BY <1>3, <1>10 DEF ResetMbr, SaveInv, SchemesFit, img
  <2> QED
    BY <1>2, <1>10, <2>1 DEF ResetMbr
<1>11. CASE ReturnFromNested
  <2>1. SchemesFit'
    BY <1>11 DEF ReturnFromNested, get_type, SaveInv, SchemesFit, img
  <2> QED
    BY <1>2, <1>11, <2>1 DEF ReturnFromNested
<1> QED
  BY <1>1, <1>5, <1>6, <1>7, <1>8, <1>9, <1>10, <1>11 DEF Command

\* The first store of a write that is under way.
LEMMA NextPut ==
  ASSUME SaveInv, Store
  PROVE  /\ Head(todo).lba \in Metadata(secs) /\ WellFormedSec(Head(todo).val)
         /\ IsSeq(Tail(todo)) /\ SafePuts(Tail(todo), secs)
<1>1. todo # <<>> /\ IsSeq(todo) /\ SafePuts(todo, secs)
  BY DEF Store, SaveInv, RunFits
<1>2. SafePut(Head(todo), secs) /\ IsSeq(Tail(todo))
  <2>1. /\ Len(todo) \in Nat /\ Len(todo) # 0 /\ Head(todo) = todo[1] /\ IsSeq(Tail(todo))
    BY <1>1, SeqFacts
  <2> QED
    BY <1>1, <2>1 DEF SafePuts
<1>3. Head(todo).lba \in DOMAIN disk
  BY <1>2 DEF SafePut, Metadata, SaveInv, ImageFits
<1> QED
  BY <1>1, <1>2, <1>3, PutsTail DEF SafePut

LEMMA SaveStore ==
  ASSUME SaveInv, Store
  PROVE  SaveInv'
<1> DEFINE p == Head(todo)
<1>1. /\ pc = "saving" /\ todo # <<>>
      /\ disk' = [disk EXCEPT ![p.lba] = p.val]
      /\ \/ stable' = [stable EXCEPT ![p.lba] = @ \cup {p.val}]
         \/ stable' = [stable EXCEPT ![p.lba] = {p.val}]
      /\ todo' = Tail(todo)
      /\ secs' = secs /\ pc' = pc /\ before' = before
      /\ mbr' = mbr /\ gpt' = gpt /\ in_img' = in_img /\ cur' = cur
  BY DEF Store, ctx
<1>2. InSize(secs) /\ WellFormed(disk)
  BY SizeFits DEF SaveInv
<1>3. /\ p.lba \in Lbas /\ WellFormedSec(p.val)
      /\ IsSeq(todo') /\ SafePuts(todo', secs)
  BY <1>1, NextPut DEF Metadata
<1>4. WriteEnds(todo', disk', secs, mbr, gpt, in_img.gpt)
  <2>1. /\ DOMAIN disk = Lbas /\ IsSeq(todo) /\ SafePuts(todo, secs)
        /\ gpt # NoScheme => GptFits(gpt)
        /\ WriteEnds(todo, disk, secs, mbr, gpt, in_img.gpt)
    BY <1>1 DEF SaveInv, ImageFits, RunFits, SchemesFit, WriteFits
  <2> QED
    BY <1>1, <1>2, <2>1, WriteAdvances
<1> HIDE DEF p
<1>5. ImageFits'
  <2>1. /\ secs \in Sizes /\ DOMAIN disk = Lbas /\ DOMAIN stable = Lbas
        /\ \A l \in Lbas : disk[l] \in stable[l]
                           /\ \A v \in stable[l] : WellFormedSec(v)
    BY DEF SaveInv, ImageFits
  <2>2. DOMAIN disk' = Lbas /\ DOMAIN stable' = Lbas
    BY <1>1, <2>1
  <2>3. ASSUME NEW l \in Lbas
        PROVE  disk'[l] \in stable'[l] /\ \A v \in stable'[l] : WellFormedSec(v)
    <3>1. CASE l = p.lba
      <4>1. disk'[l] = p.val
            /\ (stable'[l] = stable[l] \cup {p.val} \/ stable'[l] = {p.val})
        BY <1>1, <2>1, <3>1
      <4> QED
        BY <1>3, <2>1, <4>1
    <3>2. CASE l # p.lba
      BY <1>1, <2>1, <3>2
    <3> QED
      BY <3>1, <3>2
  <2> QED
    BY <1>1, <2>1, <2>2, <2>3 DEF ImageFits
<1>6. SchemesFit' /\ RunFits' /\ WriteFits'
  BY <1>1, <1>3, <1>4
     DEF SaveInv, SchemesFit, RunFits, WriteFits, FlagsAccurate
<1>7. Inv'
  BY <1>1, InvUnchanged DEF SaveInv, ctx
<1> QED
  BY <1>5, <1>6, <1>7 DEF SaveInv

LEMMA SaveWrite ==
  ASSUME SaveInv, Write
  PROVE  SaveInv'
<1>1. /\ pc = "cmd" /\ pc' = "saving"
      /\ todo' = SavePuts(disk, secs, mbr, gpt)
      /\ disk' = disk /\ secs' = secs /\ stable' = stable
      /\ mbr' = mbr /\ gpt' = gpt /\ in_img' = in_img /\ cur' = cur
  BY DEF Write, img, ctx
<1>2. InSize(secs) /\ WellFormed(disk)
  BY SizeFits DEF SaveInv
<1>3. /\ mbr \in MbrSchemes \cup {NoScheme}
      /\ gpt # NoScheme => GptFits(gpt)
      /\ gpt # NoScheme => mbr # NoScheme
      /\ in_img.gpt \in BOOLEAN
  BY DEF SaveInv, SchemesFit, Inv, MbrInMemory
<1>4. /\ ~in_img.gpt => gpt_load(disk, secs) = NoScheme
      /\ mbr = NoScheme => mbr_load(disk) = NoScheme
  BY <1>1 DEF SaveInv, WriteFits, FlagsAccurate, Found, Inv, MbrInMemory
<1>5. /\ IsSeq(todo') /\ SafePuts(todo', secs)
      /\ WriteEnds(todo', disk, secs, mbr, gpt, in_img.gpt)
  BY <1>1, <1>2, <1>3, <1>4, SaveBegins
<1>6. ImageFits' /\ SchemesFit' /\ RunFits' /\ WriteFits'
  BY <1>1, <1>5 DEF SaveInv, ImageFits, SchemesFit, RunFits, WriteFits, FlagsAccurate
<1>7. Inv'
  BY <1>1, InvUnchanged DEF SaveInv, ctx
<1> QED
  BY <1>6, <1>7 DEF SaveInv

\* When a write is done the image holds what is in memory.
LEMMA WriteDone ==
  ASSUME SaveInv, pc \in {"saving", "sync"}, todo = <<>>
  PROVE  Found = gpt /\ mbr_load(disk) = mbr /\ Main = gpt /\ Backup = gpt
<1>1. InSize(secs)
  BY SizeFits DEF SaveInv
<1>2. /\ mbr \in MbrSchemes \cup {NoScheme} /\ in_img.gpt \in BOOLEAN
      /\ gpt # NoScheme => GptFits(gpt)
      /\ WriteEnds(<<>>, disk, secs, mbr, gpt, in_img.gpt)
  BY DEF SaveInv, SchemesFit, WriteFits
<1> QED
  BY <1>1, <1>2, WriteIsDone DEF Found, Main, Backup, CopyAt

LEMMA SaveSync ==
  ASSUME SaveInv, Sync
  PROVE  SaveInv'
<1>1. /\ pc = "sync" /\ pc' = "cmd" /\ before' = NoWrite /\ todo' = todo
      /\ stable' = [l \in Lbas |-> {disk[l]}]
      /\ in_img' = [mbr |-> mbr # NoScheme, gpt |-> gpt # NoScheme]
      /\ disk' = disk /\ secs' = secs /\ mbr' = mbr /\ gpt' = gpt /\ cur' = cur
  BY DEF Sync
<1>2. todo = <<>>
  BY <1>1 DEF SaveInv, RunFits
<1>3. Found = gpt /\ mbr_load(disk) = mbr
  BY <1>1, <1>2, WriteDone
<1>4. ImageFits'
  BY <1>1 DEF SaveInv, ImageFits
<1>5. in_img' \in [{"mbr", "gpt"} -> BOOLEAN]
  BY <1>1, FlagTypes
<1>6. SchemesFit' /\ RunFits'
  BY <1>1, <1>2, <1>5 DEF SaveInv, SchemesFit, RunFits
<1>7. WriteFits'
  BY <1>1, <1>3 DEF WriteFits, FlagsAccurate, Found
<1>8. Inv'
  <2>1. Save
    BY DEF Save
  <2> QED
    BY <2>1, InvSave DEF SaveInv
<1> QED
  BY <1>4, <1>6, <1>7, <1>8 DEF SaveInv

LEMMA SaveSave ==
  ASSUME SaveInv, Save
  PROVE  SaveInv'
<1>1. CASE Stored
  <2>1. /\ pc = "saving" /\ pc' = "sync" /\ todo = <<>> /\ todo' = todo /\ before' = before
        /\ disk' = disk /\ secs' = secs /\ stable' = stable
        /\ mbr' = mbr /\ gpt' = gpt /\ in_img' = in_img /\ cur' = cur
    BY <1>1 DEF Stored, img, ctx
  <2>2. ImageFits' /\ SchemesFit' /\ RunFits' /\ WriteFits'
    BY <2>1 DEF SaveInv, ImageFits, SchemesFit, RunFits, WriteFits, FlagsAccurate
  <2> QED
    BY <2>1, <2>2, InvUnchanged DEF SaveInv, ctx
<1>2. CASE WriteFails
  BY <1>2, SaveExit, ImageKept DEF WriteFails, SaveInv
<1> QED
  BY <1>1, <1>2, SaveWrite, SaveStore, SaveSync DEF Save

LEMMA SaveNext == SaveInv /\ [Next]_vars => SaveInv'
<1> SUFFICES ASSUME SaveInv, [Next]_vars PROVE SaveInv'
  OBVIOUS
<1>1. ASSUME NEW n \in Sizes, Start(n) PROVE SaveInv'
  BY <1>1, SaveStart
<1>2. ASSUME NEW n \in Sizes, StartFails(n) PROVE SaveInv'
  <2>1. /\ pc = "off" /\ UNCHANGED <<ctx, run>>
        /\ secs' = n /\ n >= secs /\ disk' = disk /\ stable' = stable
    BY <1>2 DEF StartFails, Extend
  <2>2. ImageFits'
    BY <2>1 DEF SaveInv, ImageFits
  <2> QED
    BY <2>1, <2>2, SaveOff
<1>3. CASE Command
  BY <1>3, SaveCommand
<1>4. CASE Save
  BY <1>4, SaveSave
<1>5. CASE Kill
  BY <1>5, SaveExit, ImageKept DEF Kill, SaveInv
<1>6. CASE PowerLoss
  <2>1. PICK d \in OnMedium : /\ \A l \in Lbas : d[l] \in stable[l]
                              /\ disk' = [l \in Lbas |-> d[l]]
                              /\ stable' = [l \in Lbas |-> {d[l]}]
    BY <1>6 DEF PowerLoss
  <2>2. secs' = secs /\ Exit
    BY <1>6 DEF PowerLoss
  <2>3. ImageFits'
    BY <2>1, <2>2 DEF SaveInv, ImageFits
  <2> QED
    BY <2>2, <2>3, SaveExit
<1>7. CASE Writeback
  <2>1. /\ pc = "off" /\ UNCHANGED <<ctx, run>> /\ disk' = disk /\ secs' = secs
        /\ stable' = [l \in Lbas |-> {disk[l]}]
    BY <1>7 DEF Writeback
  <2>2. ImageFits'
    BY <2>1 DEF SaveInv, ImageFits
  <2> QED
    BY <2>1, <2>2, SaveOff
<1>8. ASSUME NEW l \in Lbas, Rot(l) PROVE SaveInv'
  <2>1. /\ pc = "off" /\ UNCHANGED <<ctx, run>> /\ secs' = secs
        /\ disk' = [disk EXCEPT ![l] = Junk]
        /\ stable' = [stable EXCEPT ![l] = {Junk}]
    BY <1>8 DEF Rot
  <2>2. WellFormedSec(Junk)
    BY DEF WellFormedSec, Junk
  <2>3. ImageFits'
    BY <2>1, <2>2 DEF SaveInv, ImageFits
  <2> QED
    BY <2>1, <2>3, SaveOff
<1>9. CASE UNCHANGED vars
  BY <1>9 DEF vars, SaveInv, Inv, Kinds, CurExists, MbrInMemory, ImageFits, SchemesFit,
                RunFits, WriteFits, FlagsAccurate, Found
<1> QED
  BY <1>1, <1>2, <1>3, <1>4, <1>5, <1>6, <1>7, <1>8, <1>9 DEF Next

THEOREM SaveInvariant == Spec => []SaveInv
  BY SaveInit, SaveNext, PTL DEF Spec

-----------------------------------------------------------------------------
(* What follows from it.                                                   *)

\* The types of the state, and that the commands have a scheme to work on.
THEOREM Typed == Spec => []TypeOK
<1>1. SaveInv => TypeOK
  <2> SUFFICES ASSUME SaveInv PROVE TypeOK
    OBVIOUS
  <2>1. secs \in 1 .. MaxSize
    BY SizeFits, Places, GptCntAssumption DEF SaveInv, InSize
  <2>2. ASSUME gpt # NoScheme
        PROVE  gpt.kind = "gpt" /\ \A i \in DOMAIN gpt.tab : gpt.tab[i] \in Ranges \cup {Unused}
    <3>1. GptFits(gpt)
      BY <2>2 DEF SaveInv, SchemesFit
    <3> QED
      BY <3>1 DEF GptFits, IsGpt, GptSchem
  <2> QED
    BY <2>1, <2>2 DEF SaveInv, Inv, CurExists, ImageFits, SchemesFit, RunFits, TypeOK
<1> QED
  BY <1>1, SaveInvariant, PTL

\* schemes_in_img (schem.c:244) always says what a load would find.
THEOREM FlagsTrue == Spec => []FlagsAccurate
<1>1. SaveInv => FlagsAccurate
  BY DEF SaveInv, WriteFits
<1> QED
  BY <1>1, SaveInvariant, PTL

\* A completed write (schem.c:240) leaves both copies of the GPT as it was in
\* memory, whatever was on the image before.
THEOREM WriteLeavesBoth == Spec => []BothCopies
<1>1. SaveInv => BothCopies
  BY WriteDone DEF BothCopies, SaveInv, RunFits
<1> QED
  BY <1>1, SaveInvariant, PTL

\* What the program wrote is what it loads the next time.
THEOREM WriteIsLoaded == Spec => []WriteReloads
<1>1. SaveInv => WriteReloads
  BY WriteDone DEF WriteReloads, SaveInv, RunFits
<1> QED
  BY <1>1, SaveInvariant, PTL

\* The steps after which a write is under way.
LEMMA SavingSteps ==
  ASSUME Next, pc' = "saving"
  PROVE  Write \/ Store \/ (pc = "saving" /\ UNCHANGED <<disk, secs, gpt, todo>>)
<1>1. /\ \A n : ~Start(n) /\ ~(StartFails(n) /\ pc' = "saving")
      /\ ~Stored /\ ~Sync /\ ~WriteFails /\ ~Kill /\ ~PowerLoss /\ ~Quit
      /\ ~(Writeback /\ pc' = "saving") /\ \A l : ~(Rot(l) /\ pc' = "saving")
  BY DEF Start, StartFails, Stored, Sync, WriteFails, Kill, PowerLoss, Quit, Exit,
         Writeback, Rot, run
<1>2. ~Command
  BY <1>1 DEF Command, NewMbr, NewGpt, EditGpt, EditMbr, EnterMbr, ResetMbr,
              ReturnFromNested, run
<1> QED
  BY <1>1, <1>2 DEF Next, Save

\* Whatever was on the image, and wherever a GPT that was loaded has its usable
\* sectors: when they leave room for two full copies, no store of a write
\* (gpt.c:614) falls into a partition of the GPT that is written.
THEOREM StoresAreSafe == Spec => DataSafe
<1>1. SaveInv /\ [Next]_vars =>
        [pc = "saving" /\ pc' = "saving" /\ gpt # NoScheme /\ HasRoom(gpt, secs) =>
           \A l \in Lbas : InPartition(gpt, l) => disk'[l] = disk[l]]_vars
  <2> SUFFICES ASSUME SaveInv, Next, pc = "saving", pc' = "saving", gpt # NoScheme,
                      HasRoom(gpt, secs), NEW l \in Lbas, InPartition(gpt, l)
               PROVE  disk'[l] = disk[l]
    OBVIOUS
  <2>1. CASE Store
    <3>1. disk' = [disk EXCEPT ![Head(todo).lba] = Head(todo).val]
      BY <2>1 DEF Store
    <3>2. Head(todo).lba \in Metadata(secs)
      BY <2>1, NextPut
    <3>3. PICK i \in DOMAIN gpt.tab :
            /\ gpt.tab[i] # Unused
            /\ gpt.first <= gpt.tab[i][1] /\ gpt.tab[i][1] <= l
            /\ l <= gpt.tab[i][2] /\ gpt.tab[i][2] <= gpt.last
      BY DEF InPartition
    <3>4. /\ gpt.first \in Nat /\ gpt.last \in Nat
          /\ gpt.tab[i][1] \in Nat /\ gpt.tab[i][2] \in Nat
      <4>1. GptFits(gpt)
        BY DEF SaveInv, SchemesFit
      <4>2. gpt.tab[i] \in Ranges
        BY <3>3, <4>1 DEF GptFits
      <4> QED
        BY <4>1, <4>2, RangesAssumption DEF GptFits
    <3>5. l \in Int /\ first_usable_lba \in Int /\ last_usable_lba(secs) \in Int
      <4>1. InSize(secs) /\ l \in Int
        BY SizeFits, Places DEF SaveInv
      <4> QED
        BY <4>1, GptCntAssumption
           DEF InSize, first_usable_lba, last_usable_lba, table_lba_sec, hdr_lba_sec,
               table_lba_prim, hdr_lba_prim
    <3>6. l \in first_usable_lba .. last_usable_lba(secs)
      BY <3>3, <3>4, <3>5 DEF HasRoom
    <3>7. l # Head(todo).lba
      BY <3>2, <3>6 DEF Metadata
    <3> QED
      BY <3>1, <3>7 DEF SaveInv, ImageFits
  <2> QED
    BY <2>1, SavingSteps DEF Write
<1> QED
  BY <1>1, SaveInvariant, PTL DEF Spec, DataSafe

-----------------------------------------------------------------------------
(* The order of the stores.                                                *)

\* The MBR is written last, or first.
MbrLast(s) ==
  \A j, k \in 1 .. Len(s) : j < k /\ s[j].lba = 0 => s[k].lba = 0

MbrFirst(s) ==
  \A j, k \in 1 .. Len(s) : j < k /\ s[k].lba = 0 => s[j].lba = 0

OrderFits ==
  pc = "saving" =>
    /\ gpt = NoScheme => MbrLast(todo)
    /\ gpt # NoScheme => MbrFirst(todo)

LEMMA OrderConcat ==
  ASSUME NEW a, NEW b, IsSeq(a), IsSeq(b)
  PROVE  /\ Untouched(a, 0) /\ (\A l : l # 0 => Untouched(b, l)) => MbrLast(a \o b)
         /\ (\A l : l # 0 => Untouched(a, l)) /\ Untouched(b, 0) => MbrFirst(a \o b)
<1> DEFINE u == a \o b
<1>1. /\ Len(a) \in Nat /\ Len(b) \in Nat /\ Len(u) = Len(a) + Len(b)
      /\ \A k \in 1 .. Len(a) : u[k] = a[k]
      /\ \A k \in Len(a) + 1 .. Len(u) : k - Len(a) \in 1 .. Len(b) /\ u[k] = b[k - Len(a)]
  BY SeqConcat, SeqFacts
<1> HIDE DEF u
<1>2. \A k \in 1 .. Len(u) : k \in 1 .. Len(a) \/ k \in Len(a) + 1 .. Len(u)
  BY <1>1
<1>3. ASSUME Untouched(a, 0), \A l : l # 0 => Untouched(b, l) PROVE MbrLast(u)
  <2>1. \A k \in 1 .. Len(a) : u[k].lba # 0
    BY <1>1, <1>3 DEF Untouched
  <2>2. \A k \in Len(a) + 1 .. Len(u) : u[k].lba = 0
    BY <1>1, <1>3 DEF Untouched
  <2> QED
    BY <1>1, <1>2, <2>1, <2>2 DEF MbrLast
<1>4. ASSUME \A l : l # 0 => Untouched(a, l), Untouched(b, 0) PROVE MbrFirst(u)
  <2>1. \A k \in 1 .. Len(a) : u[k].lba = 0
    BY <1>1, <1>4 DEF Untouched
  <2>2. \A k \in Len(a) + 1 .. Len(u) : u[k].lba # 0
    BY <1>1, <1>4 DEF Untouched
  <2> QED
    BY <1>1, <1>2, <2>1, <2>2 DEF MbrFirst
<1> QED
  BY <1>3, <1>4 DEF u

LEMMA OrderTail ==
  ASSUME NEW s, IsSeq(s), s # <<>>
  PROVE  /\ MbrLast(s) => MbrLast(Tail(s))
         /\ MbrFirst(s) => MbrFirst(Tail(s))
         /\ MbrLast(s) /\ Head(s).lba = 0 => \A l : l # 0 => Untouched(s, l)
         /\ MbrFirst(s) /\ Head(s).lba # 0 => Untouched(s, 0)
<1> DEFINE t == Tail(s)
<1>1. /\ Len(s) \in Nat \ {0} /\ Len(t) = Len(s) - 1 /\ Head(s) = s[1]
      /\ \A k \in 1 .. Len(t) : k + 1 \in 1 .. Len(s) /\ t[k] = s[k + 1]
  BY SeqFacts
<1> HIDE DEF t
<1>2. ASSUME MbrLast(s) PROVE MbrLast(t)
  <2>1. ASSUME NEW j \in 1 .. Len(t), NEW k \in 1 .. Len(t), j < k, t[j].lba = 0
        PROVE  t[k].lba = 0
    <3>1. /\ j + 1 \in 1 .. Len(s) /\ k + 1 \in 1 .. Len(s) /\ j + 1 < k + 1
          /\ s[j + 1].lba = 0 /\ t[k] = s[k + 1]
      BY <1>1, <2>1
    <3>2. s[k + 1].lba = 0
      BY ONLY <1>2, <3>1 DEF MbrLast
    <3> QED
      BY <3>1, <3>2
  <2> QED
    BY <2>1 DEF MbrLast
<1>3. ASSUME MbrFirst(s) PROVE MbrFirst(t)
  <2>1. ASSUME NEW j \in 1 .. Len(t), NEW k \in 1 .. Len(t), j < k, t[k].lba = 0
        PROVE  t[j].lba = 0
    <3>1. /\ j + 1 \in 1 .. Len(s) /\ k + 1 \in 1 .. Len(s) /\ j + 1 < k + 1
          /\ s[k + 1].lba = 0 /\ t[j] = s[j + 1]
      BY <1>1, <2>1
    <3>2. s[j + 1].lba = 0
      BY ONLY <1>3, <3>1 DEF MbrFirst
    <3> QED
      BY <3>1, <3>2
  <2> QED
    BY <2>1 DEF MbrFirst
<1>4. ASSUME MbrLast(s), Head(s).lba = 0, NEW l, l # 0 PROVE Untouched(s, l)
  <2>1. \A k \in 1 .. Len(s) : k = 1 \/ 1 < k
    BY <1>1
  <2>2. \A k \in 1 .. Len(s) : s[k].lba = 0
    BY <1>1, <1>4, <2>1 DEF MbrLast
  <2> QED
    BY <1>4, <2>2 DEF Untouched
<1>5. ASSUME MbrFirst(s), Head(s).lba # 0 PROVE Untouched(s, 0)
  <2>1. \A k \in 1 .. Len(s) : k = 1 \/ 1 < k
    BY <1>1
  <2> QED
    BY <1>1, <1>5, <2>1 DEF MbrFirst, Untouched
<1> QED
  BY <1>2, <1>3, <1>4, <1>5 DEF t

LEMMA OrderBegins ==
  ASSUME NEW n, InSize(n), NEW d, WellFormed(d),
         NEW m \in MbrSchemes \cup {NoScheme}, NEW g, g # NoScheme => GptFits(g)
  PROVE  /\ g = NoScheme => MbrLast(SavePuts(d, n, m, g))
         /\ g # NoScheme => MbrFirst(SavePuts(d, n, m, g))
<1> DEFINE a == IF in_img.gpt /\ g = NoScheme THEN gpt_remove_puts(d, n) ELSE <<>>
           b == IF m # NoScheme THEN mbr_save_puts(d, m) ELSE <<>>
           c == IF g # NoScheme THEN gpt_save_puts(d, n, g) ELSE <<>>
<1>1. SavePuts(d, n, m, g) = (a \o b) \o c
  BY DEF SavePuts
<1>2. IsSeq(<<>>) /\ Len(<<>>) = 0 /\ \A l : Untouched(<<>>, l)
  BY SeqNone DEF Untouched
<1>3. IsSeq(a) /\ Untouched(a, 0)
  BY <1>2, RemovePuts
<1>4. IsSeq(b) /\ \A l : l # 0 => Untouched(b, l)
  <2>1. 0 \in Lbas
    BY GptPlaces DEF Metadata
  <2>2. m # NoScheme => m \in MbrSchemes /\ WellFormedSec(d[0])
    BY <2>1 DEF WellFormed
  <2> QED
    BY <1>2, <2>2, MbrPuts
<1>5. IsSeq(c) /\ Untouched(c, 0)
  BY <1>2, GptPuts
<1>6. g = NoScheme => c = <<>>
  OBVIOUS
<1>7. g # NoScheme => a = <<>>
  OBVIOUS
<1> HIDE DEF a, b, c
<1>8. ASSUME g = NoScheme PROVE MbrLast((a \o b) \o c)
  <2>1. MbrLast(a \o b) /\ IsSeq(a \o b)
    BY <1>3, <1>4, OrderConcat, SeqConcat
  <2> DEFINE ab == a \o b
  <2> HIDE DEF ab
  <2>2. Len(ab) \in Nat /\ IsSeq(ab) /\ MbrLast(ab)
    BY <2>1, SeqFacts DEF ab
  <2>3. Len(ab \o c) = Len(ab) /\ \A k \in 1 .. Len(ab) : (ab \o c)[k] = ab[k]
    BY <1>2, <1>5, <1>6, <1>8, <2>2, SeqConcat
  <2> QED
    BY <2>2, <2>3 DEF MbrLast, ab
<1>9. ASSUME g # NoScheme PROVE MbrFirst((a \o b) \o c)
  <2> DEFINE ab == a \o b
  <2>1. IsSeq(ab) /\ \A l : l # 0 => Untouched(ab, l)
    <3>1. \A l : Untouched(a, l)
      BY <1>2, <1>7, <1>9
    <3> QED
      BY <1>3, <1>4, <3>1, SeqConcat, PutsConcat
  <2> HIDE DEF ab
  <2>2. MbrFirst(ab \o c)
    BY <1>5, <2>1, OrderConcat
  <2> QED
    BY <2>2 DEF ab
<1> QED
  BY <1>1, <1>8, <1>9

LEMMA OrderNext == SaveInv /\ OrderFits /\ [Next]_vars => OrderFits'
<1> SUFFICES ASSUME SaveInv, OrderFits, [Next]_vars, pc' = "saving" PROVE OrderFits'
  BY DEF OrderFits
<1>1. CASE Write
  <2>1. /\ todo' = SavePuts(disk, secs, mbr, gpt) /\ gpt' = gpt
    BY <1>1 DEF Write, ctx
  <2>2. InSize(secs) /\ WellFormed(disk)
    BY SizeFits DEF SaveInv
  <2>3. mbr \in MbrSchemes \cup {NoScheme} /\ (gpt # NoScheme => GptFits(gpt))
    BY DEF SaveInv, SchemesFit
  <2> QED
    BY <2>1, <2>2, <2>3, OrderBegins DEF OrderFits
<1>2. CASE Store
  <2>1. pc = "saving" /\ todo # <<>> /\ todo' = Tail(todo) /\ gpt' = gpt /\ IsSeq(todo)
    BY <1>2 DEF Store, ctx, SaveInv, RunFits
  <2> QED
    BY <2>1, OrderTail DEF OrderFits
<1>3. CASE UNCHANGED vars
  BY <1>3 DEF vars, OrderFits
<1> QED
  BY <1>1, <1>2, <1>3, SavingSteps DEF OrderFits

LEMMA Ordered == Spec => [](SaveInv /\ OrderFits)
<1>1. Init => OrderFits
  BY DEF Init, OrderFits
<1> QED
  BY <1>1, SaveInit, SaveNext, OrderNext, PTL DEF Spec

\* The MBR is stored when no GPT is left that it would stand beside.
LEMMA RemovedFirst ==
  ASSUME SaveInv, OrderFits, Store, gpt = NoScheme, disk'[0] # disk[0]
  PROVE  Found = NoScheme
<1>1. /\ pc = "saving" /\ todo # <<>> /\ IsSeq(todo) /\ MbrLast(todo)
      /\ disk' = [disk EXCEPT ![Head(todo).lba] = Head(todo).val]
      /\ WriteEnds(todo, disk, secs, mbr, gpt, in_img.gpt) /\ in_img.gpt \in BOOLEAN
  BY DEF Store, OrderFits, SaveInv, RunFits, WriteFits, SchemesFit
<1>2. Head(todo).lba = 0
  BY <1>1
<1>3. \A l : l # 0 => Untouched(todo, l)
  BY <1>1, <1>2, OrderTail
<1>4. CASE in_img.gpt
  <2>1. Gone(todo, disk, hdr_lba_prim) /\ Gone(todo, disk, hdr_lba_sec(secs))
    BY <1>1, <1>4 DEF WriteEnds
  <2>2. ASSUME NEW l, l # 0, Gone(todo, disk, l) PROVE disk[l].kind # "hdr"
    <3>1. Untouched(todo, l)
      BY <1>3, <2>2
    <3> QED
      BY <2>2, <3>1 DEF Gone, Ends, Wrote, Untouched
  <2>3. hdr_lba_prim # 0 /\ hdr_lba_sec(secs) # 0
    BY SizeFits, GptPlaces, GptCntAssumption DEF SaveInv
  <2> QED
    BY <2>1, <2>2, <2>3, PairLoads, LoadNone DEF Found
<1>5. CASE ~in_img.gpt
  BY <1>1, <1>5 DEF WriteEnds, Found
<1> QED
  BY <1>1, <1>4, <1>5

\* A GPT that is replaced by partitions of an MBR is removed before the MBR is
\* written (schem.c:240): a restart never finds the old GPT beside the new MBR.
THEOREM RemovedBefore == Spec => RemovedBeforeMbr
<1>1. SaveInv /\ OrderFits /\ [Next]_vars =>
        [pc = "saving" /\ pc' = "saving" /\ gpt = NoScheme /\ disk'[0] # disk[0] =>
           Found = NoScheme]_vars
  BY SavingSteps, RemovedFirst DEF Write
<1> QED
  BY <1>1, Ordered, PTL DEF Spec, RemovedBeforeMbr

\* What is found does not depend on sector 0.
LEMMA LoadKept ==
  ASSUME NEW n, InSize(n), NEW d, NEW e, WellFormed(d),
         \A l \in Lbas : l # 0 => e[l] = d[l]
  PROVE  gpt_load(e, n) = gpt_load(d, n)
<1>1. ASSUME NEW l \in Lbas, l # 0
      PROVE  /\ e[l] = d[l]
             /\ gpt_pair_load(e, l) = gpt_pair_load(d, l)
             /\ gpt_pair_load(d, l) = "ok" =>
                  /\ gpt_to_schem(e, l) = gpt_to_schem(d, l)
                  /\ d[l].alt_lba \in Lbas \ {0}
  <2> DEFINE h == d[l]
             c == part_cnt(h)
  <2>1. e[l] = h
    BY <1>1
  <2>2. CASE h.kind # "hdr"
    BY <2>1, <2>2 DEF gpt_pair_load
  <2>3. CASE h.kind = "hdr"
    <3>1. /\ h.table_lba \in Nat \ {0} /\ c \in Nat /\ DOMAIN h.entries = 0 .. c - 1
          /\ h.alt_lba \in Lbas \ {0}
          /\ \A i \in DOMAIN h.entries : h.table_lba + i \in Lbas
      <4>1. WellFormedHdr(h)
        BY <1>1, <2>3, Sectors DEF WellFormed
      <4> QED
        BY <4>1 DEF WellFormedHdr
    <3>2. \A i \in 0 .. c - 1 : e[h.table_lba + i] = d[h.table_lba + i]
      BY <3>1
    <3>3. TableAt(e, h.table_lba, c) = TableAt(d, h.table_lba, c)
      BY <3>2 DEF TableAt
    <3>4. gpt_pair_load(e, l) = gpt_pair_load(d, l)
      BY <2>1, <3>3 DEF gpt_pair_load
    <3>5. gpt_to_schem(e, l) = gpt_to_schem(d, l)
      BY <2>1, <3>1, <3>2 DEF gpt_to_schem
    <3> QED
      BY <2>1, <3>1, <3>4, <3>5
  <2> QED
    BY <2>2, <2>3
<1>2. /\ hdr_lba_prim \in Lbas /\ hdr_lba_prim # 0
      /\ hdr_lba_sec(n) \in Lbas /\ hdr_lba_sec(n) # 0
  BY GptPlaces, GptCntAssumption DEF Metadata
<1> QED
  BY <1>1, <1>2 DEF gpt_load

LEMMA MbrStands ==
  ASSUME SaveInv, OrderFits, Store, gpt # NoScheme, Found' # Found
  PROVE  disk'[0] = mbr
<1>1. /\ pc = "saving" /\ todo # <<>> /\ IsSeq(todo) /\ MbrFirst(todo)
      /\ disk' = [disk EXCEPT ![Head(todo).lba] = Head(todo).val] /\ secs' = secs
      /\ DOMAIN disk = Lbas
      /\ WriteEnds(todo, disk, secs, mbr, gpt, in_img.gpt) /\ mbr # NoScheme
  BY DEF Store, OrderFits, SaveInv, RunFits, WriteFits, ImageFits, Inv, MbrInMemory
<1>2. InSize(secs) /\ WellFormed(disk)
  BY SizeFits DEF SaveInv
<1>3. Head(todo).lba # 0
  <2> SUFFICES ASSUME Head(todo).lba = 0 PROVE Found' = Found
    OBVIOUS
  <2>1. \A l \in Lbas : l # 0 => disk'[l] = disk[l]
    BY <1>1
  <2> QED
    BY <1>1, <1>2, <2>1, LoadKept DEF Found
<1>4. Untouched(todo, 0)
  BY <1>1, <1>3, OrderTail
<1>5. disk[0] = mbr
  BY <1>1, <1>4 DEF WriteEnds, Ends, Wrote, Untouched
<1>6. 0 \in Lbas
  BY <1>2, GptPlaces DEF Metadata
<1> QED
  BY <1>1, <1>3, <1>5, <1>6

\* A GPT only becomes what a restart finds when the MBR that protects it is
\* complete (schem.c:251).
THEOREM ProtectedBefore == Spec => ProtectedFirst
<1>1. SaveInv /\ OrderFits /\ [Next]_vars =>
        [pc = "saving" /\ pc' = "saving" /\ gpt # NoScheme /\ Found' # Found =>
           disk'[0] = mbr]_vars
  <2> SUFFICES ASSUME SaveInv, OrderFits, Next, pc = "saving", pc' = "saving",
                      gpt # NoScheme, Found' # Found
               PROVE  disk'[0] = mbr
    OBVIOUS
  <2>1. ~(UNCHANGED <<disk, secs, gpt, todo>>)
    BY DEF Found
  <2>2. Store
    BY <2>1, SavingSteps DEF Write
  <2> QED
    BY <2>2, MbrStands
<1> QED
  BY <1>1, Ordered, PTL DEF Spec, ProtectedFirst
=============================================================================
