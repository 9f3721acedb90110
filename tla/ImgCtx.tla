------------------------------- MODULE ImgCtx -------------------------------
(***************************************************************************)
(* An image context (libpartman/src/img_ctx.c): its defaults, which values *)
(* it may have, sector arithmetic and CHS addresses.  The fields of struct *)
(* img_ctx that the arithmetic reads are parameters of its operators:      *)
(* align is the partition alignment in sectors, sec_sz the sector size in  *)
(* bytes, hpc the heads per cylinder, spt the sectors per track.  All are  *)
(* positive: img_ctx_init stores defaults, and img_init keeps them when an *)
(* option is 0.                                                            *)
(***************************************************************************)
EXTENDS Integers

\* Bytes to sectors, rounded down, or up when round_up.
byte_to_lba(sec_sz, bytes, round_up) ==
  bytes \div sec_sz + (IF round_up /\ bytes % sec_sz # 0 THEN 1 ELSE 0)

\* The alignment boundary at or below lba, or at or above it when next_aligned.
lba_align(align, lba, next_aligned) ==
  (lba \div align) * align
    + (IF next_aligned /\ lba % align # 0 THEN align ELSE 0)

-----------------------------------------------------------------------------

\* The context of an image of img_sz bytes.  The alignment of 1 MiB is counted
\* in sectors of the default size.
img_ctx_init(img_sz) ==
  [img_sz |-> img_sz, sec_sz |-> 512, align |-> 1048576 \div 512,
   hpc |-> 255, spt |-> 63]

img_min_sz == 512 * 1024

\* BUG variant: an image of any size is good.
img_ctx_validate_any_size(ctx) ==
  /\ ctx.sec_sz \in {512, 1024, 2048, 4096}
  /\ ctx.hpc >= 1
  /\ ctx.spt \in 1 .. 63

\* The powers of two from 512 to 4096 are the sector sizes.
img_ctx_validate(ctx) ==
  /\ ctx.img_sz >= img_min_sz
  /\ ctx.sec_sz \in {512, 1024, 2048, 4096}
  /\ ctx.hpc >= 1
  /\ ctx.spt \in 1 .. 63

-----------------------------------------------------------------------------
(* CHS addresses, packed in 24 bits as an MBR stores them.                 *)

\* Cylinder (low 8 bits, then its high 2), sector (6 bits), head (8 bits).
chs_tuple_to_int(c, h, s) ==
  (c % 256) * 65536 + ((c \div 256) % 4) * 16384 + (s % 64) * 256 + (h % 256)

\* The largest sector the geometry can address.
chs_max_lba(hpc, spt) == (1023 * hpc + (hpc - 1)) * spt + (spt - 1)

\* BUG variant: only the cylinder is cut to what fits.
lba_to_chs_wrap(hpc, spt, lba, protective_limit) ==
  chs_tuple_to_int(lba \div (hpc * spt), (lba \div spt) % hpc,
                   (lba % spt) + 1)

\* A sector the geometry cannot address saturates; a protective partition has
\* a limit of its own.
lba_to_chs(hpc, spt, lba, protective_limit) ==
  LET max_lba == chs_max_lba(hpc, spt)
      l       == IF lba > max_lba THEN max_lba ELSE lba
  IN  IF lba > max_lba /\ protective_limit THEN chs_tuple_to_int(1023, 255, 63)
      ELSE chs_tuple_to_int(l \div (hpc * spt), (l \div spt) % hpc,
                            (l % spt) + 1)
=============================================================================
