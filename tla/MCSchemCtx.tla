---------------------------- MODULE MCSchemCtx ------------------------------
(* Instances of SchemCtx for TLC: ranges and images to start from.         *)
EXTENDS SchemCtx, TLC

CONSTANT DiskChoice   \* "blank", "any" or "short", see MCInitDisks

MinSize == CHOOSE n \in Sizes : \A m \in Sizes : n <= m

\* The usable sectors of the smallest image, and the one a larger one adds.
MCRanges == {<<first_usable_lba, first_usable_lba + 1>>,
             <<first_usable_lba + 2, first_usable_lba + 2>>}

\* No action tells one GUID from another.
MCSymmetry == Permutations(Ids)

ZeroDisk == [l \in Lbas |-> Zero]

\* A GPT of cnt entries written by another tool; the last one has partition p.
Foreign(cnt, first, last, p) ==
  GptSchem("foreign", first, last,
           [i \in 0 .. cnt - 1 |-> IF i = cnt - 1 THEN p ELSE Unused])

\* Its primary copy alone, and no protective MBR.
Primary(cnt, last, p) ==
  LET h == GptHdr(1, MinSize - 1, 2, Foreign(cnt, first_usable_lba, last, p))
  IN  [l \in Lbas |-> CASE l = 0 -> EmptyMbr
                        [] l = 1 -> h
                        [] l \in 2 .. cnt + 1 -> h.entries[l - 2]
                        [] OTHER -> Zero]

\* Copies of one entry; every sector between them is usable, and the last of
\* those is in a partition.
Short ==
  LET n == MinSize
      g == Foreign(1, 3, n - 3, <<n - 3, n - 3>>)
  IN  [l \in Lbas |-> CASE l = 0 -> ProtectiveMbr
                        [] l = 1 -> GptHdr(1, n - 1, 2, g)
                        [] l = n - 1 -> GptHdr(n - 1, 1, n - 2, g)
                        [] l \in {2, n - 2} -> Ent(g.tab[0])
                        [] OTHER -> Zero]

\* Any two copies on the largest image, valid or not, that agree or not, under
\* any MBR; their partitions would fit the smallest one.
AnyDisks ==
  LET n      == MaxSize
      parts  == {p \in MCRanges : p[2] <= last_usable_lba(MinSize)} \cup {Unused}
      gpts   == {GptSchem(id, first_usable_lba, last_usable_lba(n), t) :
                   id \in Ids, t \in [0 .. gpt_max_part_cnt - 1 -> parts]}
      prims  == {GptHdr(1, n - 1, 2, g) : g \in gpts}
      secs_  == {GptHdr(n - 1, 1, table_lba_sec(n), g) : g \in gpts}
      tables == {[k \in 1 .. gpt_max_part_cnt |-> Ent(g.tab[k - 1])] : g \in gpts}
  IN  {[l \in Lbas |->
          CASE l = 0     -> m
            [] l = 1     -> p
            [] l = n - 1 -> s
            [] l \in 2 .. gpt_max_part_cnt + 1 -> tp[l - 1]
            [] l \in table_lba_sec(n) .. n - 2 -> ts[l - table_lba_sec(n) + 1]
            [] OTHER     -> Zero] :
        m \in MbrSchemes \cup {Zero}, p \in prims \cup {Zero}, s \in secs_ \cup {Zero},
        tp \in tables, ts \in tables}

MCInitDisks ==
  CASE DiskChoice = "blank" -> {[size |-> MinSize, sectors |-> ZeroDisk]}
    [] DiskChoice = "any"   ->
         {[size |-> MaxSize, sectors |-> d] : d \in AnyDisks} \cup
         {[size |-> MinSize,
           sectors |-> Primary(c, last_usable_lba(MinSize),
                               <<first_usable_lba, first_usable_lba + 1>>)] :
            c \in 1 .. gpt_max_part_cnt + 1} \cup
         {[size |-> MinSize,
           sectors |-> Primary(gpt_max_part_cnt, MinSize - 2,
                               <<first_usable_lba + 2, first_usable_lba + 2>>)]}
    [] DiskChoice = "short" -> {[size |-> MinSize, sectors |-> Short]}

\* Bound of a run: a write begins when the stores of earlier, failed ones have
\* reached the medium.
WriteWhenSettled == pc = "cmd" /\ pc' = "saving" => Settled
=============================================================================
