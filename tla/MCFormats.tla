----------------------------- MODULE MCFormats ------------------------------
(* The inputs of Formats for TLC.                                          *)
EXTENDS Formats

MCGeometries == {<<255, 63>>, <<16, 63>>, <<255, 1>>, <<1, 63>>, <<1, 1>>, <<7, 17>>}

\* The edges of sectors, tracks, cylinders, of 8 and of 10 bits of cylinders.
MCChsLbas ==
  [g \in MCGeometries |->
     LET cyl == g[1] * g[2] IN
     {l \in UNION {{e - 1, e, e + 1} :
                     e \in {0, g[2], cyl, 255 * cyl, 256 * cyl, 511 * cyl, 768 * cyl,
                            1023 * cyl, 1024 * cyl, 2048 * cyl}} : l >= 0}]

\* Below, at and above what 32 bits can address.
MCImgSecs == {5, Pu32Limit - 1, Pu32Limit, Pu32Limit + 1, 3 * Pu32Limit}

MCMbrValues == {0, 1, 2, Pu32Limit \div 2, Pu32Limit - 1}

MCOldBytes ==
  [head : {"used"}, bytes : [NameBytes -> 0 .. CharByte - 1]]

MCGptSig == [b \in SigArea |-> 1 + (b % (Byte - 1))]

MCGuids ==
  LET zero == [time_lo |-> 0, time_mid |-> 0, time_hi_ver |-> 0,
               cl_seq_hi_res |-> 0, cl_seq_lo |-> 0, nodes |-> [i \in 0 .. 5 |-> 0]]
  IN  {zero, [zero EXCEPT !.cl_seq_hi_res = 1], [zero EXCEPT !.cl_seq_lo = Byte - 1]}
        \cup {[zero EXCEPT !.time_lo = v] : v \in {1, Byte, Byte^4 - 1}}
        \cup {[zero EXCEPT !.time_mid = v] : v \in {1, Byte, Byte^2 - 1}}
        \cup {[zero EXCEPT !.time_hi_ver = v] : v \in {1, Byte, Byte^2 - 1}}
        \cup {[zero EXCEPT !.nodes[i] = Byte - 1] : i \in 0 .. 5}

\* Headers with one field of every value of bytes and the edges of its width.
MCHeaders ==
  LET small == {Byte^k : k \in 0 .. 3} \cup {Byte^4 - 1}
      large == {Byte^k : k \in 0 .. 7} \cup {Byte^8 - 1}
      Field == [rev |-> small, hdr_sz |-> small \cup {92},
                my_lba |-> large, alt_lba |-> large, first_usable_lba |-> large,
                last_usable_lba |-> large, part_table_lba |-> large,
                part_table_entry_cnt |-> small \cup {128}, part_entry_sz |-> small,
                part_table_crc32 |-> small, disk_guid |-> MCGuids]
      usual == [rev |-> Byte^2, hdr_sz |-> 92, hdr_crc32 |-> 0, my_lba |-> 1,
                alt_lba |-> 9, first_usable_lba |-> 34, last_usable_lba |-> 77,
                disk_guid |-> CHOOSE g \in MCGuids : g.time_lo = Byte,
                part_table_lba |-> 2, part_table_entry_cnt |-> 128,
                part_entry_sz |-> 128, part_table_crc32 |-> Byte + 1]
  IN  UNION {{[usual EXCEPT ![f] = v] : v \in Field[f]} : f \in DOMAIN Field}

MCMessages ==
  {<<>>, [i \in 1 .. 9 |-> 48 + i], <<0, 0, 0, 0>>} \cup {<<b>> : b \in 0 .. 255}
    \cup {<<a, b>> : a \in {1, 69, 128, 255}, b \in {0, 70, 255}}

MCOffsets == {0, 1, 2, 7, 8, 33, 100}
MCCounts  == {1, 2, 4, 8, 32, 40}

MCNumbers == 0 .. PlbaLimit - 1

MCRanges == {<<1, 5>>, <<3, 20>>, <<7, 255>>, <<9, 4>>}
=============================================================================
