------------------------------ MODULE GptDisk ------------------------------
(***************************************************************************)
(* The image as libpartman reads and writes it: what a load finds on a     *)
(* disk, and which sectors a save writes, in program order (mbr.c, gpt.c). *)
(*                                                                         *)
(* A disk is a function from LBAs to sectors.  A table entry fills a       *)
(* sector of its own (four share one in the code), so a table of k entries *)
(* takes k sectors.  A checksum is the content it was computed from: two   *)
(* contents never have the same CRC.  Of the header fields, those a load,  *)
(* a save or a dialog acts on are kept.  The image never shrinks below a   *)
(* header's alt_lba.                                                       *)
(***************************************************************************)
EXTENDS Integers, Sequences, FiniteSets

CONSTANTS
  gpt_max_part_cnt,   \* entries of a GPT this code creates
  mbr_max_part_cnt,   \* entries of an MBR (4 in the code)
  MbrTypes            \* types of an MBR entry

ASSUME GptCntAssumption == gpt_max_part_cnt \in Nat \ {0}
ASSUME MbrCntAssumption == mbr_max_part_cnt \in Nat \ {0}
ASSUME MbrTypesAssumption == {"none", "prot"} \subseteq MbrTypes

-----------------------------------------------------------------------------
(* Sectors and schemes.                                                    *)

\* The range of a partition; that of an entry whose type GUID is zero.
Unused == <<0, 0>>

Ent(p) == [kind |-> "ent", part |-> p]

\* The range read from a sector that holds something else.
Garbage == <<0, 1>>

\* A sector of zeroes reads as an unused entry.
Zero == Ent(Unused)

\* Neither a header, nor an entry, nor an MBR: also a header half written.
Junk == [kind |-> "junk"]

\* A header whose signature was erased; the rest of it is still there.
Erased(h) == [kind |-> "erased", hdr |-> h]

\* The header in a sector, whether or not it still has its signature.
HdrIn(sec) == IF sec.kind = "erased" THEN sec.hdr ELSE sec

NoScheme == [kind |-> "none"]
Fatal    == [kind |-> "fatal"]

\* struct schem of type MBR, and the sector it is stored in: partition types.
MbrSchem(types) == [kind |-> "mbr", types |-> types]

\* struct schem of type GPT: disk GUID, first_usable_lba, last_usable_lba, table.
GptSchem(id, first, last, tab) ==
  [kind |-> "gpt", id |-> id, first |-> first, last |-> last, tab |-> tab]

MbrSchemes == {MbrSchem(t) : t \in [0 .. mbr_max_part_cnt - 1 -> MbrTypes]}

Entries(g) == [i \in DOMAIN g.tab |-> Ent(g.tab[i])]

\* The header that describes table g, when it is stored at LBA my.
GptHdr(my, alt, table_lba, g) ==
  [kind |-> "hdr", my_lba |-> my, alt_lba |-> alt, table_lba |-> table_lba,
   id |-> g.id, first |-> g.first, last |-> g.last, entries |-> Entries(g)]

\* A sector read as an entry; what is not one is some other range.
PartOf(sec) == IF sec.kind = "ent" THEN sec.part ELSE Garbage

part_cnt(hdr) == Cardinality(DOMAIN hdr.entries)

-----------------------------------------------------------------------------
(* gpt_calc_pos: where this code puts a GPT on an image of n sectors.      *)

hdr_lba_prim      == 1
table_lba_prim    == hdr_lba_prim + 1
hdr_lba_sec(n)    == n - 1
table_lba_sec(n)  == hdr_lba_sec(n) - gpt_max_part_cnt

\* BUG variant: the backup table begins in the last usable sector.
last_usable_lba_table(n) == table_lba_sec(n)

\* schem_init_gpt
first_usable_lba   == table_lba_prim + gpt_max_part_cnt
last_usable_lba(n) == table_lba_sec(n) - 1

-----------------------------------------------------------------------------
(* Loading.                                                                *)

TableAt(d, l, cnt) == [i \in 0 .. cnt - 1 |-> d[l + i]]

\* BUG variant: the checksum of the table is not compared.
gpt_pair_load_any_table(d, l) ==
  LET h == d[l] IN
  IF h.kind # "hdr" \/ h.my_lba # l THEN "hdr_inv"
  ELSE IF part_cnt(h) > gpt_max_part_cnt THEN "fatal"
  ELSE "ok"

\* One header with its table, expected at LBA l.
gpt_pair_load(d, l) ==
  LET h == d[l] IN
  IF h.kind # "hdr" \/ h.my_lba # l THEN "hdr_inv"
  ELSE IF part_cnt(h) > gpt_max_part_cnt THEN "fatal"
  ELSE IF TableAt(d, h.table_lba, part_cnt(h)) # h.entries THEN "table_inv"
  ELSE "ok"

\* The scheme a valid pair at LBA l describes: its entries are those the table
\* holds, read behind the header.
gpt_to_schem(d, l) ==
  GptSchem(d[l].id, d[l].first, d[l].last,
           [i \in DOMAIN d[l].entries |-> PartOf(d[d[l].table_lba + i])])

\* The primary copy wins; the secondary is looked up where the primary says,
\* or at the last LBA of the image when there is no valid primary.
gpt_load(d, n) ==
  LET prim    == gpt_pair_load(d, hdr_lba_prim)
      lba_sec == IF prim = "ok" THEN d[hdr_lba_prim].alt_lba ELSE hdr_lba_sec(n)
      sec     == gpt_pair_load(d, lba_sec)
  IN  IF "fatal" \in {prim, sec} THEN Fatal
      ELSE IF prim = "ok" THEN gpt_to_schem(d, hdr_lba_prim)
      ELSE IF sec = "ok" THEN gpt_to_schem(d, lba_sec)
      ELSE NoScheme

\* The boot signature is all a load asks of an MBR.
mbr_load(d) ==
  IF d[0].kind = "mbr" THEN MbrSchem(d[0].types) ELSE NoScheme

schem_mbr_is_prot(m) == m.types[0] = "prot"

\* schem_init_mbr and schem_mbr_set_prot: one partition over the whole image.
ProtectiveMbr ==
  MbrSchem([i \in 0 .. mbr_max_part_cnt - 1 |-> IF i = 0 THEN "prot" ELSE "none"])

EmptyMbr == MbrSchem([i \in 0 .. mbr_max_part_cnt - 1 |-> "none"])

\* BUG variant: only an MBR that was found is replaced.
MbrBesideFound(m, g) ==
  IF g # NoScheme /\ m # NoScheme /\ ~schem_mbr_is_prot(m)
  THEN ProtectiveMbr ELSE m

\* The MBR schem_ctx_load keeps beside the GPT it found.
MbrBeside(m, g) ==
  IF g # NoScheme /\ (m = NoScheme \/ ~schem_mbr_is_prot(m))
  THEN ProtectiveMbr ELSE m

-----------------------------------------------------------------------------
(* Saving: the stores of each routine, as a sequence of [lba, val].        *)

Put(l, v) == [lba |-> l, val |-> v]

\* gpt_table_write: all entries of the table, in order.
TablePuts(table_lba, h) ==
  [k \in 1 .. part_cnt(h) |-> Put(table_lba + k - 1, h.entries[k - 1])]

\* mbr_write replaces the partitions one by one; the boot signature, last,
\* changes nothing when there was one, and makes the sector an MBR otherwise.
mbr_save_puts(d, m) ==
  IF d[0].kind = "mbr"
  THEN [k \in 1 .. mbr_max_part_cnt |->
          Put(0, MbrSchem([i \in 0 .. mbr_max_part_cnt - 1 |->
                             IF i < k THEN m.types[i] ELSE d[0].types[i]]))]
  ELSE <<Put(0, m)>>

\* gpt_hdr_write: the signature comes first, and makes an erased header whole
\* again before the fields behind it are replaced.  Over the same header no
\* field changes.
gpt_hdr_puts(d, l, h) ==
  LET old == HdrIn(d[l]) IN
  (IF d[l].kind = "erased" THEN <<Put(l, old)>> ELSE <<>>)
    \o (IF old = h THEN <<>> ELSE <<Put(l, Junk), Put(l, h)>>)

\* BUG variant: the table is taken to be right when the header is.
gpt_pair_puts_by_hdr(d, l, table_lba, h) ==
  IF d[l] = h THEN <<>> ELSE gpt_hdr_puts(d, l, h) \o TablePuts(table_lba, h)

\* gpt_pair_save: the header and then the table.
gpt_pair_puts(d, l, table_lba, h) ==
  gpt_hdr_puts(d, l, h) \o TablePuts(table_lba, h)

\* BUG variant: the primary copy first.
gpt_save_puts_prim_first(d, n, g) ==
  LET prim == GptHdr(hdr_lba_prim, hdr_lba_sec(n), table_lba_prim, g)
      sec  == GptHdr(hdr_lba_sec(n), hdr_lba_prim, table_lba_sec(n), g)
  IN  gpt_pair_puts(d, hdr_lba_prim, table_lba_prim, prim)
        \o gpt_pair_puts(d, hdr_lba_sec(n), table_lba_sec(n), sec)

\* gpt_save: the secondary copy first.
gpt_save_puts(d, n, g) ==
  LET prim == GptHdr(hdr_lba_prim, hdr_lba_sec(n), table_lba_prim, g)
      sec  == GptHdr(hdr_lba_sec(n), hdr_lba_prim, table_lba_sec(n), g)
  IN  gpt_pair_puts(d, hdr_lba_sec(n), table_lba_sec(n), sec)
        \o gpt_pair_puts(d, hdr_lba_prim, table_lba_prim, prim)

\* A sector whose first eight bytes were zeroed, whatever it held: a header
\* loses its signature, an entry a part of its type; nothing was in a sector
\* of zeroes, or where a header lost its signature before.
Wiped(sec) ==
  CASE sec.kind = "hdr"                -> Erased(sec)
    [] sec.kind = "ent" /\ sec # Zero -> Junk
    [] OTHER                           -> sec

\* BUG variant: the backup is left behind.
gpt_remove_puts_prim(d, n) == <<Put(hdr_lba_prim, Wiped(d[hdr_lba_prim]))>>

\* schem_remove_gpt: erase the two signatures, where a GPT of an image of
\* this size has them.
gpt_remove_puts(d, n) ==
  <<Put(hdr_lba_prim, Wiped(d[hdr_lba_prim])),
    Put(hdr_lba_sec(n), Wiped(d[hdr_lba_sec(n)]))>>
=============================================================================
