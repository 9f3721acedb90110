----------------------------- MODULE MbrSector ------------------------------
(***************************************************************************)
(* The partitions of an MBR scheme and the sector that stores them (mbr.c):*)
(* a scheme has the first and last sector of a partition, in plba; the MBR *)
(* has its first sector and its length, in 32 bits each, with the same in  *)
(* CHS beside them.  A pu32 variable has the width of a plba where long has *)
(* 64 bits; what it stores on the image has 32.                            *)
(***************************************************************************)
EXTENDS Memutils, ImgCtx

CONSTANTS
  hpc, spt    \* geometry of the image context

mbr_max_part_cnt == 4

\* One more than the largest plba and the largest 32-bit value.
Pu64Limit == Power[8]
Pu32Limit == Power[4]

EmptyPart == [type |-> 0, start_lba |-> 0, end_lba |-> 0, boot_ind |-> 0]

ZeroMbrPart ==
  [boot_ind |-> 0, start_chs |-> 0, type |-> 0, end_chs |-> 0,
   start_lba |-> 0, sz_lba |-> 0]

part_type_prot == Byte - 1     \* 0xEE in the code

\* BUG variant: the size of the image is the only limit.
mbr_last_usable_uncapped(secs) == secs - 1

\* mbr_init_schem: sectors behind the reach of 32 bits are not used.
mbr_last_usable(secs) == IF secs - 1 > Pu32Limit - 1 THEN Pu32Limit - 1 ELSE secs - 1

-----------------------------------------------------------------------------

\* mbr_from_schem, for one partition.
mbr_part_from_schem(part) ==
  IF part.type = 0 THEN ZeroMbrPart
  ELSE LET is_prot == part.type = part_type_prot IN
       [type      |-> part.type,
        start_lba |-> part.start_lba,
        sz_lba    |-> (part.end_lba - part.start_lba + 1) % Pu64Limit,
        start_chs |-> lba_to_chs(hpc, spt, part.start_lba, is_prot),
        end_chs   |-> lba_to_chs(hpc, spt, part.end_lba, is_prot),
        boot_ind  |-> part.boot_ind]

\* mbr_to_schem, for one partition.
mbr_part_to_schem(mp) ==
  IF mp.type = 0 THEN EmptyPart
  ELSE [type      |-> mp.type,
        start_lba |-> mp.start_lba,
        end_lba   |-> (mp.start_lba + mp.sz_lba - 1) % Pu64Limit,
        boot_ind  |-> mp.boot_ind]

mbr_part_write(buf, off, mp) ==
  LET booted == write_pu(buf, off, 1, mp.boot_ind)
      begun  == write_pu(booted, off + 1, 3, mp.start_chs)
      typed  == write_pu(begun, off + 4, 1, mp.type)
      ended  == write_pu(typed, off + 5, 3, mp.end_chs)
      placed == write_pu(ended, off + 8, 4, mp.start_lba)
  IN  write_pu(placed, off + 12, 4, mp.sz_lba)

mbr_part_read(buf, off) ==
  [boot_ind  |-> read_pu(buf, off, 1),
   start_chs |-> read_pu(buf, off + 1, 3),
   type      |-> read_pu(buf, off + 4, 1),
   end_chs   |-> read_pu(buf, off + 5, 3),
   start_lba |-> read_pu(buf, off + 8, 4),
   sz_lba    |-> read_pu(buf, off + 12, 4)]

\* The bytes of the sector, and those of it that are another program's: the
\* bootstrap code, and a field this program gives no meaning.
MbrArea  == 0 .. 511
CodeArea == 0 .. 439 \cup 444 .. 445

boot_sig == Power[2] - 1         \* 0xAA55 in the code

\* mbr_write: disk signature, partitions, boot signature.
mbr_write(buf, disk_sig, parts) ==
  LET signed == write_pu(buf, 440, 4, disk_sig)
      first  == mbr_part_write(signed, 446, parts[1])
      second == mbr_part_write(first, 462, parts[2])
      third  == mbr_part_write(second, 478, parts[3])
      fourth == mbr_part_write(third, 494, parts[4])
  IN  write_pu(fourth, 510, 2, boot_sig)

mbr_is_present(buf) == read_pu(buf, 510, 2) = boot_sig

mbr_read(buf) == [i \in 1 .. mbr_max_part_cnt |-> mbr_part_read(buf, 446 + 16 * (i - 1))]
=============================================================================
