----------------------------- MODULE GptHeader ------------------------------
(***************************************************************************)
(* The bytes of a GPT header, and what its checksum is computed from       *)
(* (gpt.c); the GUID in it (guid.c).  The code lists the fields three      *)
(* times: to store them, to read them, and to compute the checksum.        *)
(* A checksum is the content it is computed from, a sequence of bytes.     *)
(***************************************************************************)
EXTENDS Memutils, Sequences

CONSTANT GptSig   \* the bytes of GPT_SIG, "EFI PART"

SigArea == 0 .. 7

\* gpt_hdr_sz
HdrArea == 0 .. 91

\* Where a header keeps its own checksum.
CrcArea == 16 .. 19

ASSUME SigAssumption == GptSig \in [SigArea -> 1 .. Byte - 1]

-----------------------------------------------------------------------------
(* GUIDs: fields of 4, 2, 2, 1 and 1 bytes, and six bytes.                 *)

Guid ==
  [time_lo : Pu(4), time_mid : Pu(2), time_hi_ver : Pu(2),
   cl_seq_hi_res : Pu(1), cl_seq_lo : Pu(1), nodes : [0 .. 5 -> Pu(1)]]

guid_write(buf, off, guid) ==
  LET fields == write_pu(write_pu(write_pu(write_pu(write_pu(buf,
                  off, 4, guid.time_lo), off + 4, 2, guid.time_mid),
                  off + 6, 2, guid.time_hi_ver), off + 8, 1, guid.cl_seq_hi_res),
                  off + 9, 1, guid.cl_seq_lo)
  IN  [b \in DOMAIN buf |-> IF b \in off + 10 .. off + 15
                            THEN guid.nodes[b - off - 10] % Byte ELSE fields[b]]

guid_read(buf, off) ==
  [time_lo       |-> read_pu(buf, off, 4),
   time_mid      |-> read_pu(buf, off + 4, 2),
   time_hi_ver   |-> read_pu(buf, off + 6, 2),
   cl_seq_hi_res |-> buf[off + 8],
   cl_seq_lo     |-> buf[off + 9],
   nodes         |-> [i \in 0 .. 5 |-> buf[off + 10 + i]]]

\* crc32_compute8 to crc32_compute64: the bytes of a field, lowest first.
CrcBytes(width, i) == [k \in 1 .. width |-> ByteOf(i, k - 1)]

guid_crc(guid) ==
  CrcBytes(4, guid.time_lo) \o CrcBytes(2, guid.time_mid)
    \o CrcBytes(2, guid.time_hi_ver) \o CrcBytes(1, guid.cl_seq_hi_res)
    \o CrcBytes(1, guid.cl_seq_lo) \o [i \in 1 .. 6 |-> guid.nodes[i - 1]]

-----------------------------------------------------------------------------
(* Headers.                                                                *)

GptHdr ==
  [rev : Pu(4), hdr_sz : Pu(4), hdr_crc32 : Pu(4),
   my_lba : Pu(8), alt_lba : Pu(8),
   first_usable_lba : Pu(8), last_usable_lba : Pu(8), disk_guid : Guid,
   part_table_lba : Pu(8), part_table_entry_cnt : Pu(4),
   part_entry_sz : Pu(4), part_table_crc32 : Pu(4)]

gpt_is_present(buf) == \A b \in SigArea : buf[b] = GptSig[b]

\* BUG variant: as many bytes as the string has with the 0 at its end.
gpt_hdr_erase_sig_sizeof(buf) == [b \in DOMAIN buf |-> IF b \in 0 .. 8 THEN 0 ELSE buf[b]]

gpt_hdr_erase_sig(buf) == [b \in DOMAIN buf |-> IF b \in SigArea THEN 0 ELSE buf[b]]

\* The first stores of gpt_hdr_write.
WithSig(buf) == [b \in DOMAIN buf |-> IF b \in SigArea THEN GptSig[b] ELSE buf[b]]

gpt_hdr_write(buf, h) ==
  LET versioned == write_pu(write_pu(WithSig(buf), 8, 4, h.rev), 12, 4, h.hdr_sz)
      checked   == write_pu(write_pu(versioned, 16, 4, h.hdr_crc32), 20, 4, 0)
      placed    == write_pu(write_pu(checked, 24, 8, h.my_lba), 32, 8, h.alt_lba)
      bounded   == write_pu(write_pu(placed, 40, 8, h.first_usable_lba),
                            48, 8, h.last_usable_lba)
      named     == guid_write(bounded, 56, h.disk_guid)
      tabled    == write_pu(write_pu(named, 72, 8, h.part_table_lba),
                            80, 4, h.part_table_entry_cnt)
  IN  write_pu(write_pu(tabled, 84, 4, h.part_entry_sz), 88, 4, h.part_table_crc32)

gpt_hdr_read(buf) ==
  [rev                  |-> read_pu(buf, 8, 4),
   hdr_sz               |-> read_pu(buf, 12, 4),
   hdr_crc32            |-> read_pu(buf, 16, 4),
   my_lba               |-> read_pu(buf, 24, 8),
   alt_lba              |-> read_pu(buf, 32, 8),
   first_usable_lba     |-> read_pu(buf, 40, 8),
   last_usable_lba      |-> read_pu(buf, 48, 8),
   disk_guid            |-> guid_read(buf, 56),
   part_table_lba       |-> read_pu(buf, 72, 8),
   part_table_entry_cnt |-> read_pu(buf, 80, 4),
   part_entry_sz        |-> read_pu(buf, 84, 4),
   part_table_crc32     |-> read_pu(buf, 88, 4)]

\* BUG variant: the reserved field is left out, as the checksum is not.
gpt_hdr_crc_packed(h) ==
  [i \in 1 .. 8 |-> GptSig[i - 1]]
    \o CrcBytes(4, h.rev) \o CrcBytes(4, h.hdr_sz) \o CrcBytes(4, 0)
    \o CrcBytes(8, h.my_lba) \o CrcBytes(8, h.alt_lba)
    \o CrcBytes(8, h.first_usable_lba) \o CrcBytes(8, h.last_usable_lba)
    \o guid_crc(h.disk_guid)
    \o CrcBytes(8, h.part_table_lba) \o CrcBytes(4, h.part_table_entry_cnt)
    \o CrcBytes(4, h.part_entry_sz) \o CrcBytes(4, h.part_table_crc32)

\* gpt_hdr_crc_create: the fields in order, zeroes for the checksum and for
\* the reserved field behind it.
gpt_hdr_crc(h) ==
  [i \in 1 .. 8 |-> GptSig[i - 1]]
    \o CrcBytes(4, h.rev) \o CrcBytes(4, h.hdr_sz)
    \o CrcBytes(4, 0) \o CrcBytes(4, 0)
    \o CrcBytes(8, h.my_lba) \o CrcBytes(8, h.alt_lba)
    \o CrcBytes(8, h.first_usable_lba) \o CrcBytes(8, h.last_usable_lba)
    \o guid_crc(h.disk_guid)
    \o CrcBytes(8, h.part_table_lba) \o CrcBytes(4, h.part_table_entry_cnt)
    \o CrcBytes(4, h.part_entry_sz) \o CrcBytes(4, h.part_table_crc32)
=============================================================================
