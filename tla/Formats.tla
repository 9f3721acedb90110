------------------------------ MODULE Formats -------------------------------
(***************************************************************************)
(* The pure routines of partman, called one at a time with every input of  *)
(* the sets below: CHS addresses, the MBR sector, the bytes of a GPT entry *)
(* and header, the CRC, mapping sectors, and the answer to a prompt for a  *)
(* sector.                                                                 *)
(* call is the last call, its inputs and its result.                       *)
(***************************************************************************)
EXTENDS MbrSector, GptEntry, GptHeader, ScanSector, PageMap, Crc32

CONSTANTS
  Geometries,    \* <<heads per cylinder, sectors per track>>
  ChsLbas,       \* sectors to convert, as functions of a geometry's size
  ImgSecs,       \* image sizes, in sectors
  MbrValues,     \* 32-bit values an MBR of another program may have
  OldBytes,      \* what a buffer holds before it is written
  Headers,       \* GPT headers, without their checksums
  Messages,      \* sequences of bytes to take a checksum of
  PageSizes, SectorSizes, Offsets, Counts,    \* of what is mapped
  Numbers, Ranges                             \* typed, and asked for

ASSUME InputsAssumption ==
  /\ \A g \in Geometries : /\ g[1] \in 1 .. 255 /\ g[2] \in 1 .. 63
                            /\ ChsLbas[g] \subseteq Nat
  /\ \A b \in OldBytes : /\ b = [head |-> b.head, bytes |-> b.bytes]
                          /\ b.bytes \in [NameBytes -> 0 .. CharByte - 1]
  /\ ImgSecs \subseteq Nat \ {0} /\ MbrValues \subseteq Pu(4)
  /\ Headers \subseteq GptHdr /\ Messages \subseteq Seq(0 .. 255)
  /\ PageSizes \subseteq Nat \ {0} /\ SectorSizes \subseteq Nat \ {0}
  /\ Offsets \subseteq Nat /\ Counts \subseteq Nat \ {0}
  /\ Numbers \subseteq 0 .. PlbaLimit - 1
  /\ \A r \in Ranges : /\ r[1] \in 1 .. PlbaLimit - 1
                       /\ r[2] \in 1 .. PlbaLimit - 1

VARIABLE call

NoCall == [fn |-> "none"]

Init == call = NoCall

-----------------------------------------------------------------------------

CallChs ==
  \E g \in Geometries, prot \in BOOLEAN :
    \E lba \in ChsLbas[g] :
      call' = [fn |-> "chs", geom |-> g, lba |-> lba, prot |-> prot,
               res |-> lba_to_chs(g[1], g[2], lba, prot)]

\* Partitions a dialog can leave in an MBR on an image of n sectors: the edges
\* of the usable ones.
CreatedParts(n) ==
  LET last == mbr_last_usable(n)
      near == {l \in {1, 2, last - 1, last} : l >= 1}
  IN  {[type |-> t, start_lba |-> s, end_lba |-> e, boot_ind |-> b] :
         t \in {1, part_type_prot}, b \in {0, Byte \div 2}, s \in near, e \in near}

\* Partitions that were loaded from an MBR.
LoadedParts ==
  {mbr_part_to_schem([boot_ind |-> 0, start_chs |-> 0, type |-> 1, end_chs |-> 0,
                      start_lba |-> s, sz_lba |-> z]) : s \in MbrValues, z \in MbrValues}

InOrder(parts) == {p \in parts : p.start_lba <= p.end_lba}

MbrCall(parts, old, buf) ==
  [fn |-> "mbr", parts |-> parts, present |-> mbr_is_present(buf),
   sig |-> read_pu(buf, 440, 4), kept |-> {b \in MbrArea : buf[b] = old[b]},
   res |-> [k \in 1 .. mbr_max_part_cnt |-> mbr_part_to_schem(mbr_read(buf)[k])]]

\* schem_save_mbr and then schem_load_mbr: the partition is one of four.
CallMbr ==
  \E p \in (UNION {InOrder(CreatedParts(n)) : n \in ImgSecs}) \cup LoadedParts,
     i \in 1 .. mbr_max_part_cnt, old \in {0, Byte - 1} :
    LET parts == [k \in 1 .. mbr_max_part_cnt |-> IF k = i THEN p ELSE EmptyPart]
        sec   == [b \in MbrArea |-> old]
        buf   == mbr_write(sec, Byte + 1,
                           [k \in 1 .. mbr_max_part_cnt |-> mbr_part_from_schem(parts[k])])
    IN  call' = MbrCall(parts, sec, buf)

\* An entry is loaded from one buffer, saved to another, and loaded again.
CallEntry ==
  \E src \in OldBytes, dst \in OldBytes :
    LET entry == gpt_part_ent_read(src) IN
    call' = [fn |-> "entry", src |-> src, entry |-> entry,
             same |-> gpt_part_ent_write(src, entry),
             again |-> gpt_part_ent_read(gpt_part_ent_write(dst, entry))]

\* An entry another program wrote, as the UEFI specification says.
CallForeign ==
  \E name \in [0 .. NameLen - 1 -> Chars] :
    LET buf == [head |-> "used", bytes |-> UcsBytes(name)] IN
    call' = [fn |-> "foreign", crc |-> BytesCrc(buf),
             res |-> gpt_part_ent_crc(gpt_part_ent_read(buf))]

\* A header is stored over a sector of bytes old, and its signature erased.
CallHeader ==
  \E h \in Headers, old \in 0 .. Byte - 1, crc \in {0, Power[4] - 1} :
    LET hdr == [h EXCEPT !.hdr_crc32 = crc]
        buf == gpt_hdr_write([b \in 0 .. 95 |-> old], hdr)
    IN  call' = [fn |-> "header", hdr |-> hdr, old |-> old, buf |-> buf,
                 crc |-> gpt_hdr_crc(hdr), erased |-> gpt_hdr_erase_sig(buf)]

CallCrc ==
  \E msg \in Messages : call' = [fn |-> "crc", msg |-> msg, res |-> crc32(msg)]

\* Sectors are mapped, and unmapped.
CallMap ==
  \E pg \in PageSizes, sec_sz \in SectorSizes, lba \in Offsets, cnt \in Counts :
    LET off == lba * sec_sz
        len == cnt * sec_sz
        m   == map_secs(pg, off, len)
        u   == unmap_secs(pg, m.reg, off, len)
    IN  call' = [fn |-> "map", pg |-> pg, off |-> off, len |-> len, map |-> m, unmap |-> u,
                 gone |-> munmap_end(pg, u.addr, u.len)]

CallPrompt ==
  \E r \in Ranges, sec_sz \in SectorSizes, n \in Numbers, sign \in Signs, unit \in Units :
    \E mv \in ModVals(unit) :
      call' = [fn |-> "prompt", start |-> r[1], end |-> r[2], sec_sz |-> sec_sz,
               sign |-> sign, n |-> n, unit |-> unit,
               res |-> prompt_sector_ext(r[1], r[2], sec_sz, sign, n, unit, mv)]

Return == call # NoCall /\ call' = NoCall

Next ==
  \/ call = NoCall /\ (CallChs \/ CallMbr \/ CallEntry \/ CallForeign \/ CallHeader
                         \/ CallCrc \/ CallMap \/ CallPrompt)
  \/ Return

Spec == Init /\ [][Next]_call

-----------------------------------------------------------------------------
(* Properties.                                                             *)

\* A CHS address as firmware takes it apart.
CylinderOf(x) == (x \div 65536) + 256 * ((x \div 16384) % 4)
HeadOf(x)     == x % 256
SectorOf(x)   == (x \div 256) % 64

\* Firmware that multiplies a CHS address out again gets the sector it stands
\* for, in the geometry's own ranges.  A sector that is too large becomes
\* (1023, 255, 63) in a protective partition, and the last one of the geometry
\* in others: it is the (1023, 254, 63) that img_ctx.c:107 and src/README.md:34
\* say is used for 255 heads and 63 sectors only.
ChsAddresses ==
  call.fn = "chs" =>
    LET H   == call.geom[1]
        S   == call.geom[2]
        chs == <<CylinderOf(call.res), HeadOf(call.res), SectorOf(call.res)>>
    IN  IF call.lba < 1024 * H * S
        THEN /\ chs[1] <= 1023 /\ chs[2] < H /\ chs[3] \in 1 .. S
             /\ (chs[1] * H + chs[2]) * S + chs[3] - 1 = call.lba
        ELSE chs = IF call.prot THEN <<1023, 255, 63>> ELSE <<1023, H - 1, S>>

\* No partition a dialog leaves or a load finds is changed by a write, although
\* the MBR has 32 bits where the scheme has 64, and a length where the scheme
\* has an end; its neighbours stay empty, the sector is an MBR, and the boot
\* code in front of the table is the one that was there.
MbrKeepsParts ==
  call.fn = "mbr" =>
    /\ call.present /\ call.sig = Byte + 1 /\ call.res = call.parts
    /\ CodeArea \subseteq call.kept

\* An entry that was loaded keeps all its bytes when it is saved where it was:
\* what the name's layout loses on reading is what writing leaves alone.
ResaveKeepsBytes ==
  call.fn = "entry" => call.same = call.src

\* An entry that was loaded and is saved to the other copy, over whatever was
\* there, is the same for this program when it is loaded again, and so the
\* table passes the checksum that was stored with it.
ReloadKeepsEntry ==
  call.fn = "entry" => call.again = call.entry

\* "Partition entry array CRC32 checksum" (gpt.c:95): the checksum of a table
\* another program wrote is the one computed here.
ForeignTableAccepted ==
  call.fn = "foreign" => call.res = call.crc

\* The checksum of a header is that of the bytes it is stored as, with zeroes
\* in its own place: another program computes the same.
HeaderChecksumsBytes ==
  call.fn = "header" =>
    /\ Len(call.crc) = 92
    /\ \A b \in HdrArea : call.crc[b + 1] = IF b \in CrcArea THEN 0 ELSE call.buf[b]

\* A removed header is not found, but all of it is still there: once the
\* signature is stored again, by a save that stops behind it, it is the header
\* that was removed (GptDisk relies on it).  Nothing behind it is touched.
ErasedHeaderKept ==
  call.fn = "header" =>
    /\ gpt_is_present(call.buf) /\ ~gpt_is_present(call.erased)
    /\ gpt_hdr_read(WithSig(call.erased)) = call.hdr
    /\ \A b \in DOMAIN call.buf \ HdrArea : call.erased[b] = call.old

\* The remainder of a message, divided by the generator a bit at a time.
Remainder(msg) ==
  LET rem[k \in 0 .. Len(msg)] ==
        IF k = 0 THEN Ones(32) ELSE ShiftBits(Xor(rem[k - 1], Bits(msg[k])), 8)
  IN  rem[Len(msg)]

\* The checksum, a byte at a time with a table that is computed from itself, is
\* the remainder of the division by the generator polynomial, complemented.
CrcIsDivision ==
  call.fn = "crc" => call.res = Xor(Ones(32), Remainder(call.msg))

\* It is the CRC-32 that other programs compute: that of "123456789" is
\* 0xCBF43926.
CrcOfOthers ==
  call.fn = "crc" /\ call.msg = [i \in 1 .. 9 |-> 48 + i] =>
    call.res = {1, 2, 5, 8, 11, 12, 13, 18, 20, 21, 22, 23, 24, 25, 27, 30, 31}

\* A mapping begins on a page and covers the sectors asked for, with no page
\* too many, and the address returned is that of the first sector.
MapCovers ==
  call.fn = "map" =>
    LET m == call.map IN
    /\ m.addr % call.pg = 0 /\ m.len % call.pg = 0
    /\ m.reg = call.off
    /\ m.addr <= call.off /\ call.off < m.addr + call.pg
    /\ call.off + call.len <= m.addr + m.len
    /\ m.addr + m.len - call.pg < call.off + call.len

\* What is unmapped begins where the mapping does, and is no more than it: munmap
\* neither fails nor takes a page of another mapping.
UnmapsOwn ==
  call.fn = "map" =>
    /\ call.unmap.addr = call.map.addr
    /\ call.unmap.len > 0
    /\ call.gone <= call.map.addr + call.map.len

\* What a line asks for, in integers.
Asked ==
  LET size == IF call.unit = "none" THEN call.n
              ELSE (call.n * UnitBytes[call.unit]) \div call.sec_sz
  IN  CASE call.sign = "none" -> call.n
        [] call.sign = "+"    -> call.start - 1 + size
        [] call.sign = "-"    -> call.end - size

\* The size fits a plba, and its unit an int.
Fits ==
  call.unit = "none" \/ /\ call.unit \in DOMAIN UnitBytes
                        /\ UnitBytes[call.unit] < IntLimit
                        /\ call.n * UnitBytes[call.unit] < PlbaLimit

\* An answer that is taken is the sector that was asked for, within the range:
\* a sum or a difference that wraps is never taken for another.
AnswerAsked ==
  call.fn = "prompt" /\ call.res.ok /\ Fits =>
    /\ call.res.lba = Asked
    /\ call.start <= call.res.lba /\ call.res.lba <= call.end
=============================================================================
