--------------------------- MODULE Formats_proofs ---------------------------
(***************************************************************************)
(* Theorems about the pure routines, for every width, page size, geometry  *)
(* and input: what Formats checks on small ones.                           *)
(***************************************************************************)
EXTENDS Formats, ImgCtx_proofs, WellFoundedInduction, SequenceTheorems

\* A property of the last call holds when the call it is about makes it hold.
LEMMA CallNames ==
  /\ NoCall.fn = "none"
  /\ CallChs     => call'.fn = "chs"
  /\ CallMbr     => call'.fn = "mbr"
  /\ CallEntry   => call'.fn = "entry"
  /\ CallForeign => call'.fn = "foreign"
  /\ CallHeader  => call'.fn = "header"
  /\ CallCrc     => call'.fn = "crc"
  /\ CallMap     => call'.fn = "map"
  /\ CallPrompt  => call'.fn = "prompt"
<1>1. NoCall.fn = "none"
  BY DEF NoCall
<1>2. CallChs => call'.fn = "chs"
  BY DEF CallChs
<1>3. CallMbr => call'.fn = "mbr"
  <2>1. CallMbr => \E parts, sec, buf : call' = MbrCall(parts, sec, buf)
    BY Zenon DEF CallMbr
  <2>2. \A parts, sec, buf : MbrCall(parts, sec, buf).fn = "mbr"
    BY DEF MbrCall
  <2> QED
    BY <2>1, <2>2
<1>4. CallEntry => call'.fn = "entry"
  BY DEF CallEntry
<1>5. CallForeign => call'.fn = "foreign"
  BY DEF CallForeign
<1>6. CallHeader => call'.fn = "header"
  BY DEF CallHeader
<1>7. CallCrc => call'.fn = "crc"
  BY DEF CallCrc
<1>8. CallMap => call'.fn = "map"
  BY DEF CallMap
<1>9. CallPrompt => call'.fn = "prompt"
  BY DEF CallPrompt
<1> QED
  BY <1>1, <1>2, <1>3, <1>4, <1>5, <1>6, <1>7, <1>8, <1>9

LEMMA Calls ==
  ASSUME [Next]_call, call' # call, call' # NoCall
  PROVE  \/ CallChs \/ CallMbr \/ CallEntry \/ CallForeign \/ CallHeader
         \/ CallCrc \/ CallMap \/ CallPrompt
  BY DEF Next, Return

-----------------------------------------------------------------------------
(* A typed sector.                                                         *)

\* The size a line with a unit stands for does not wrap when it fits.
LEMMA SizeFits ==
  ASSUME NEW n \in Nat, n < PlbaLimit, NEW unit, NEW mv \in ModVals(unit),
         NEW sec_sz \in Nat \ {0},
         unit = "none" \/ /\ unit \in DOMAIN UnitBytes
                          /\ UnitBytes[unit] < IntLimit
                          /\ n * UnitBytes[unit] < PlbaLimit
  PROVE  /\ InSectors(n, unit, mv, sec_sz) \in 0 .. PlbaLimit - 1
         /\ InSectors(n, unit, mv, sec_sz)
              = (IF unit = "none" THEN n ELSE (n * UnitBytes[unit]) \div sec_sz)
<1>0. PlbaLimit \in Nat \ {0}
  BY WidthAssumption
<1>1. CASE unit = "none"
  BY <1>0, <1>1 DEF InSectors
<1>2. CASE unit # "none"
  <2>1. mv = UnitBytes[unit] /\ UnitBytes[unit] \in Nat
    <3>1. DOMAIN UnitBytes = {"K", "M", "G", "T", "P"}
      BY DEF UnitBytes
    <3>2. Kilo \in Nat
      BY WidthAssumption
    <3>3. \A a, b \in Nat : a * b \in Nat
      BY Z3
    <3> DEFINE k2 == Kilo * Kilo
               k3 == k2 * Kilo
               k4 == k3 * Kilo
               k5 == k4 * Kilo
    <3>4. k2 \in Nat /\ k3 \in Nat /\ k4 \in Nat /\ k5 \in Nat
      BY <3>2, <3>3
    <3>5. UnitBytes[unit] \in {Kilo, k2, k3, k4, k5}
      BY <1>2, <3>1 DEF UnitBytes
    <3> QED
      BY <1>2, <3>2, <3>4, <3>5 DEF ModVals
  <2> DEFINE bytes == n * UnitBytes[unit]
  <2>2. bytes \in 0 .. PlbaLimit - 1
    BY <1>0, <1>2, <2>1, Z3
  <2>3. bytes % PlbaLimit = bytes
    BY <1>0, <2>2, Wraps
  <2>4. bytes \div sec_sz \in Nat /\ bytes \div sec_sz <= bytes
    <3> HIDE DEF bytes
    <3> DEFINE q == bytes \div sec_sz
    <3>1. q \in Nat /\ bytes % sec_sz \in Nat /\ bytes = sec_sz * q + (bytes % sec_sz)
      BY <1>0, <2>2, Division
    <3> HIDE DEF q
    <3>2. sec_sz * q >= q
      BY <3>1, Z3
    <3>3. q <= bytes
      BY <3>1, <3>2, Z3
    <3> QED
      BY <3>1, <3>3 DEF q
  <2> QED
    BY <1>0, <1>2, <2>1, <2>2, <2>3, <2>4 DEF InSectors
<1> QED
  BY <1>1, <1>2

\* A sum or difference that wraps lies outside of the range.
LEMMA OffsetInRange ==
  ASSUME NEW start \in 1 .. PlbaLimit - 1, NEW end \in 1 .. PlbaLimit - 1,
         NEW size \in 0 .. PlbaLimit - 1, NEW sign \in {"none", "+", "-"},
         start <= Offset(sign, size, start, end), Offset(sign, size, start, end) <= end
  PROVE  Offset(sign, size, start, end) =
           CASE sign = "none" -> size
             [] sign = "+"    -> start - 1 + size
             [] sign = "-"    -> end - size
<1>0. PlbaLimit \in Nat \ {0}
  BY WidthAssumption
<1>1. CASE sign = "none"
  BY <1>1 DEF Offset
<1>2. CASE sign = "+"
  <2> DEFINE x == size + start - 1
  <2>1. /\ x = size + start - 1
        /\ x \in 0 .. PlbaLimit - 1 \/ x \in PlbaLimit .. 2 * PlbaLimit - 1
        /\ Offset(sign, size, start, end) = x % PlbaLimit
    BY <1>0, <1>2 DEF Offset
  <2> HIDE DEF x
  <2>2. x \in Int /\ (x % PlbaLimit = x \/ x % PlbaLimit = x - PlbaLimit)
    <3>1. x \in Int
      BY <1>0, <2>1
    <3>2. /\ x \in 0 .. PlbaLimit - 1 => x % PlbaLimit = x
          /\ x \in PlbaLimit .. 2 * PlbaLimit - 1 => x % PlbaLimit = x - PlbaLimit
          /\ x \in -PlbaLimit .. -1 => x % PlbaLimit = x + PlbaLimit
      BY <1>0, <3>1, Wraps
    <3> QED
      BY <2>1, <3>1, <3>2
  <2>3. x % PlbaLimit = x
    BY <1>0, <2>1, <2>2
  <2> QED
    BY <1>0, <1>2, <2>1, <2>3
<1>3. CASE sign = "-"
  <2> DEFINE x == end - size
  <2>1. /\ x = end - size
        /\ x \in 0 .. PlbaLimit - 1 \/ x \in -PlbaLimit .. -1
        /\ Offset(sign, size, start, end) = x % PlbaLimit
    BY <1>0, <1>3 DEF Offset
  <2> HIDE DEF x
  <2>2. x \in Int /\ (x % PlbaLimit = x \/ x % PlbaLimit = x + PlbaLimit)
    <3>1. x \in Int
      BY <1>0, <2>1
    <3>2. /\ x \in 0 .. PlbaLimit - 1 => x % PlbaLimit = x
          /\ x \in PlbaLimit .. 2 * PlbaLimit - 1 => x % PlbaLimit = x - PlbaLimit
          /\ x \in -PlbaLimit .. -1 => x % PlbaLimit = x + PlbaLimit
      BY <1>0, <3>1, Wraps
    <3> QED
      BY <2>1, <3>1, <3>2
  <2>3. x % PlbaLimit = x
    BY <1>0, <2>1, <2>2
  <2> QED
    BY <1>0, <1>3, <2>1, <2>3
<1> QED
  BY <1>1, <1>2, <1>3

\* An answer that is taken is the sector that was asked for, as long as the
\* size that was typed can be represented, whatever the width.
THEOREM AnswersAsked == Spec => []AnswerAsked
<1>1. Init => AnswerAsked
  BY CallNames DEF Init, AnswerAsked
<1>2. AnswerAsked /\ [Next]_call => AnswerAsked'
  <2> SUFFICES ASSUME AnswerAsked, [Next]_call, call'.fn = "prompt", call' # call,
                      call'.res.ok, Fits'
               PROVE  /\ call'.res.lba = Asked'
                      /\ call'.start <= call'.res.lba /\ call'.res.lba <= call'.end
    BY DEF AnswerAsked, Asked, Fits
  <2>1. CallPrompt
    BY Calls, CallNames
  <2>2. PICK r \in Ranges, sec_sz \in SectorSizes, n \in Numbers, sign \in Signs,
             unit \in Units :
          \E mv \in ModVals(unit) :
          call' = [fn |-> "prompt", start |-> r[1], end |-> r[2], sec_sz |-> sec_sz,
                   sign |-> sign, n |-> n, unit |-> unit,
                   res |-> prompt_sector_ext(r[1], r[2], sec_sz, sign, n, unit, mv)]
    BY <2>1 DEF CallPrompt
  <2>3. PICK mv \in ModVals(unit) :
          call' = [fn |-> "prompt", start |-> r[1], end |-> r[2], sec_sz |-> sec_sz,
                   sign |-> sign, n |-> n, unit |-> unit,
                   res |-> prompt_sector_ext(r[1], r[2], sec_sz, sign, n, unit, mv)]
    BY <2>2
  <2> DEFINE start == r[1]
             end   == r[2]
             size  == InSectors(n, unit, mv, sec_sz)
             lba   == Offset(sign, size, start, end)
  <2>4. /\ start \in 1 .. PlbaLimit - 1 /\ end \in 1 .. PlbaLimit - 1
        /\ n \in Nat /\ n < PlbaLimit /\ sec_sz \in Nat \ {0} /\ PlbaLimit \in Nat
    BY InputsAssumption, WidthAssumption
  <2>5. /\ sign # "other" /\ ~(lba < start) /\ ~(lba > end)
        /\ call'.res.lba = lba
    BY <2>3 DEF prompt_sector_ext, Refused
  <2>6. unit = "none" \/ /\ unit \in DOMAIN UnitBytes
                         /\ UnitBytes[unit] < IntLimit
                         /\ n * UnitBytes[unit] < PlbaLimit
    BY <2>3 DEF Fits
  <2>7. /\ size \in 0 .. PlbaLimit - 1
        /\ size = (IF unit = "none" THEN n ELSE (n * UnitBytes[unit]) \div sec_sz)
    BY <2>4, <2>6, SizeFits
  <2>8. sign \in {"none", "+", "-"} /\ (sign = "none" => unit = "none")
    BY <2>3, <2>5 DEF Signs, prompt_sector_ext, Refused
  <2>9. lba \in 0 .. PlbaLimit - 1
    <3> HIDE DEF size, start, end
    <3>1. n \in Int /\ size \in Int /\ start \in Int /\ end \in Int
      BY <2>4, <2>7
    <3>2. /\ (size + start - 1) % PlbaLimit \in 0 .. PlbaLimit - 1
          /\ (end - size) % PlbaLimit \in 0 .. PlbaLimit - 1
      BY <3>1, WidthAssumption, Z3
    <3> QED
      BY <2>7, <2>8, <3>2 DEF Offset
  <2>10. start <= lba /\ lba <= end
    <3> HIDE DEF size, start, end, lba
    <3> QED
      BY <2>4, <2>5, <2>9
  <2>11. lba = CASE sign = "none" -> size
                [] sign = "+"    -> start - 1 + size
                [] sign = "-"    -> end - size
    <3> HIDE DEF size, start, end
    <3> QED
      BY <2>4, <2>7, <2>8, <2>10, OffsetInRange
  <2>12. /\ call'.sign = sign /\ call'.unit = unit /\ call'.n = n
         /\ call'.sec_sz = sec_sz /\ call'.start = start /\ call'.end = end
    BY <2>3
  <2>13. Asked' = CASE sign = "none" -> n
                    [] sign = "+"    -> start - 1 + size
                    [] sign = "-"    -> end - size
    BY <2>7, <2>12 DEF Asked
  <2>14. call'.res.lba = Asked'
    <3> HIDE DEF size, start, end
    <3> QED
      BY <2>5, <2>7, <2>8, <2>11, <2>13
  <2> QED
    <3> HIDE DEF size, start, end, lba
    <3> QED
      BY <2>5, <2>10, <2>12, <2>14
<1> QED
  BY <1>1, <1>2, PTL DEF Spec
-----------------------------------------------------------------------------
(* Mapped sectors.                                                         *)

\* Rounding bytes up to pages.
LEMMA PagesUp ==
  ASSUME NEW pg \in Nat \ {0}, NEW b \in Nat \ {0}
  PROVE  /\ byte_to_page(pg, b, TRUE) \in Nat \ {0}
         /\ b <= byte_to_page(pg, b, TRUE) * pg
         /\ byte_to_page(pg, b, TRUE) * pg < b + pg
<1> DEFINE q == b \div pg
           r == b % pg
<1>1. q \in Nat /\ r \in 0 .. pg - 1 /\ b = pg * q + r
  BY Division
<1> DEFINE z == pg * q
           p == byte_to_page(pg, b, TRUE)
<1>2. p = q + (IF r # 0 THEN 1 ELSE 0)
  BY DEF byte_to_page
<1> HIDE DEF q, r, p
<1>3. /\ z \in Nat /\ b = z + r
      /\ q * pg = z /\ (q + 1) * pg = z + pg
      /\ q = 0 => z = 0
  BY <1>1, Z3
<1> HIDE DEF z
<1>4. p \in Nat \ {0} /\ b <= p * pg /\ p * pg < b + pg
  <2>1. CASE r = 0
    <3>1. p = q /\ p * pg = z
      <4>1. p = q
        BY <1>1, <1>2, <2>1
      <4> QED
        BY <1>3, <4>1
    <3> QED
      BY <1>1, <1>3, <2>1, <3>1
  <2>2. CASE r # 0
    <3>1. p = q + 1 /\ p * pg = z + pg
      BY <1>2, <1>3, <2>2
    <3> QED
      BY <1>1, <1>3, <2>2, <3>1
  <2> QED
    BY <2>1, <2>2
<1> QED
  BY <1>4 DEF p

\* The offset of a mapping is the page its first byte is in.
LEMMA PagesDown ==
  ASSUME NEW pg \in Nat \ {0}, NEW b \in Nat
  PROVE  /\ page_to_byte(pg, byte_to_page(pg, b, FALSE)) \in Nat
         /\ page_to_byte(pg, byte_to_page(pg, b, FALSE)) % pg = 0
         /\ page_to_byte(pg, byte_to_page(pg, b, FALSE)) <= b
         /\ b < page_to_byte(pg, byte_to_page(pg, b, FALSE)) + pg
<1> DEFINE q == b \div pg
           r == b % pg
<1>1. q \in Nat /\ r \in 0 .. pg - 1 /\ b = pg * q + r
  BY Division
<1> DEFINE z == page_to_byte(pg, byte_to_page(pg, b, FALSE))
<1>2. z = q * pg
  BY <1>1 DEF byte_to_page, page_to_byte
<1> HIDE DEF q, r, z
<1>3. z = pg * q + 0 /\ pg * q + 0 \in Nat /\ b = z + r
  BY <1>1, <1>2, Z3
<1>4. (pg * q + 0) % pg = 0
  BY <1>1, DivisionUnique
<1>5. z \in Nat /\ z % pg = 0
  BY <1>3, <1>4
<1>6. z <= b /\ b < z + pg
  BY <1>1, <1>3, <1>5
<1> QED
  BY <1>5, <1>6 DEF z

\* A mapping of any range of bytes is what MapCovers and UnmapsOwn ask for.
LEMMA Mapped ==
  ASSUME NEW pg \in Nat \ {0}, NEW off \in Nat, NEW len \in Nat \ {0}
  PROVE  LET m == map_secs(pg, off, len)
             u == unmap_secs(pg, m.reg, off, len)
         IN  /\ m.addr % pg = 0 /\ m.len % pg = 0
             /\ m.reg = off
             /\ m.addr <= off /\ off < m.addr + pg
             /\ off + len <= m.addr + m.len
             /\ m.addr + m.len - pg < off + len
             /\ u.addr = m.addr /\ u.len > 0
             /\ munmap_end(pg, u.addr, u.len) <= m.addr + m.len
<1> DEFINE low   == page_to_byte(pg, byte_to_page(pg, off, FALSE))
           pages == map_len_pages(pg, off, len)
           m     == map_secs(pg, off, len)
           u     == unmap_secs(pg, m.reg, off, len)
<1>1. low \in Nat /\ low % pg = 0 /\ low <= off /\ off < low + pg
  BY PagesDown
<1>2. pages = byte_to_page(pg, len + (off - low), TRUE)
  BY DEF map_len_pages
<1>3. m.addr = low /\ m.len = pages * pg /\ m.reg = low + (off - low)
  BY DEF map_secs, page_to_byte
<1>4. u.addr = m.reg - (off - low) /\ u.len = pages
  BY DEF unmap_secs
<1> HIDE DEF low, pages, m, u
<1>5. len + (off - low) \in Nat \ {0}
  BY <1>1
<1>6. /\ pages \in Nat \ {0}
      /\ len + (off - low) <= pages * pg /\ pages * pg < len + (off - low) + pg
  BY <1>2, <1>5, PagesUp
<1>7. pages * pg = pg * pages + 0 /\ pages * pg \in Nat /\ pages <= pages * pg
  BY <1>6, Z3
<1>8. (pg * pages + 0) % pg = 0
  <2>1. pages \in Nat /\ 0 \in 0 .. pg - 1
    BY <1>6
  <2> QED
    BY ONLY <2>1, pg \in Nat \ {0}, DivisionUnique
<1>9. munmap_end(pg, u.addr, u.len) <= m.addr + m.len
  <2> DEFINE k == byte_to_page(pg, pages, TRUE)
  <2>1. k \in Nat /\ k * pg < pages + pg
    BY <1>6, PagesUp
  <2>2. munmap_end(pg, u.addr, u.len) = u.addr + k * pg
    BY <1>4 DEF munmap_end, page_to_byte
  <2> HIDE DEF k
  <2>3. k <= pages
    <3>1. ASSUME k >= pages + 1 PROVE FALSE
      <4>1. k * pg >= (pages + 1) * pg
        BY <1>6, <2>1, <3>1, Z3
      <4>2. (pages + 1) * pg = pages * pg + pg
        BY <1>6, Z3
      <4> QED
        BY <1>6, <1>7, <2>1, <4>1, <4>2, Z3
    <3> QED
      BY <1>6, <2>1, <3>1
  <2>4. k * pg <= pages * pg /\ k * pg \in Nat
    BY <1>6, <2>1, <2>3, Z3
  <2> QED
    BY <1>1, <1>3, <1>4, <1>7, <2>2, <2>4
<1>10. /\ m.addr % pg = 0 /\ m.len % pg = 0 /\ m.reg = off
       /\ m.addr <= off /\ off < m.addr + pg
       /\ off + len <= m.addr + m.len
       /\ m.addr + m.len - pg < off + len
       /\ u.addr = m.addr /\ u.len > 0
  BY <1>1, <1>3, <1>4, <1>6, <1>7, <1>8
<1> QED
  BY <1>9, <1>10 DEF m, u

\* Whatever the sector size and the page size are, a mapping covers the sectors
\* asked for and begins on a page, and what is unmapped lies within it.
THEOREM MappingsFit == Spec => [](MapCovers /\ UnmapsOwn)
<1> DEFINE P == MapCovers /\ UnmapsOwn
<1>1. Init => P
  BY CallNames DEF Init, MapCovers, UnmapsOwn
<1>2. P /\ [Next]_call => P'
  <2>1. ASSUME P, call' = call PROVE P'
    BY <2>1 DEF MapCovers, UnmapsOwn
  <2>2. ASSUME [Next]_call, call'.fn = "map", call' # call PROVE P'
    <3>1. PICK pg \in PageSizes, sec_sz \in SectorSizes, lba \in Offsets, cnt \in Counts :
            LET off == lba * sec_sz
                len == cnt * sec_sz
                m   == map_secs(pg, off, len)
                u   == unmap_secs(pg, m.reg, off, len)
            IN  call' = [fn |-> "map", pg |-> pg, off |-> off, len |-> len, map |-> m,
                         unmap |-> u, gone |-> munmap_end(pg, u.addr, u.len)]
      BY <2>2, Calls, CallNames DEF CallMap
    <3>2. pg \in Nat \ {0} /\ lba * sec_sz \in Nat /\ cnt * sec_sz \in Nat \ {0}
      <4>1. /\ pg \in Nat \ {0} /\ sec_sz \in Nat \ {0}
            /\ lba \in Nat /\ cnt \in Nat \ {0}
        BY InputsAssumption
      <4> QED
        BY <4>1, Z3
    <3> DEFINE off == lba * sec_sz
               len == cnt * sec_sz
               m   == map_secs(pg, off, len)
               u   == unmap_secs(pg, m.reg, off, len)
    <3>3. /\ call'.pg = pg /\ call'.off = off /\ call'.len = len
          /\ call'.map = m /\ call'.unmap = u
          /\ call'.gone = munmap_end(pg, u.addr, u.len)
      BY <3>1
    <3> HIDE DEF off, len
    <3>4. /\ m.addr % pg = 0 /\ m.len % pg = 0
          /\ m.reg = off
          /\ m.addr <= off /\ off < m.addr + pg
          /\ off + len <= m.addr + m.len
          /\ m.addr + m.len - pg < off + len
          /\ u.addr = m.addr /\ u.len > 0
          /\ munmap_end(pg, u.addr, u.len) <= m.addr + m.len
      BY <3>2, Mapped DEF off, len
    <3> HIDE DEF m, u
    <3> QED
      BY <3>3, <3>4 DEF MapCovers, UnmapsOwn
  <2>3. ASSUME call'.fn # "map" PROVE P'
    BY <2>3 DEF MapCovers, UnmapsOwn
  <2> QED
    BY <2>1, <2>2, <2>3
<1> QED
  BY <1>1, <1>2, PTL DEF Spec
-----------------------------------------------------------------------------
(* The name of a GPT entry.                                                *)

\* The two bytes of a character that was read.
LEMMA CharBytes ==
  ASSUME NEW low \in 0 .. CharByte - 1, NEW high \in 0 .. CharByte - 1
  PROVE  Low(low + CharByte * high) = low /\ High(low + CharByte * high) = high
<1>1. CharByte \in Nat \ {0}
  BY NameAssumption
<1>2. high \in Nat /\ low + CharByte * high = CharByte * high + low
  BY <1>1, Z3
<1>3. (CharByte * high + low) \div CharByte = high /\ (CharByte * high + low) % CharByte = low
  BY <1>1, <1>2, DivisionUnique
<1> QED
  BY <1>2, <1>3 DEF Low, High

\* Writing what was read gives back the bytes up to the high byte of the last
\* character, over whatever is behind them.
LEMMA WrittenBytes ==
  ASSUME NEW src, src.bytes \in [NameBytes -> 0 .. CharByte - 1], NEW buf
  PROVE  gpt_part_ent_write(buf, gpt_part_ent_read(src)) =
           [head  |-> src.head,
            bytes |-> [b \in NameBytes |-> IF b <= NameLen THEN src.bytes[b]
                                           ELSE buf.bytes[b]]]
<1> DEFINE e == gpt_part_ent_read(src)
<1>0. NameLen \in Nat \ {0}
  BY NameAssumption
<1> DEFINE W(b) == CASE b < NameLen -> Low(e.name[b])
                     [] b = NameLen -> High(e.name[NameLen - 1])
                     [] b > NameLen -> buf.bytes[b]
           V(b) == IF b <= NameLen THEN src.bytes[b] ELSE buf.bytes[b]
<1>1. /\ e.head = src.head
      /\ \A i \in 0 .. NameLen - 1 :
           e.name[i] = src.bytes[i] + CharByte * src.bytes[i + 1]
  BY DEF gpt_part_ent_read
<1> HIDE DEF e
<1>2. ASSUME NEW i \in 0 .. NameLen - 1
      PROVE  Low(e.name[i]) = src.bytes[i] /\ High(e.name[i]) = src.bytes[i + 1]
  <2>1. i \in NameBytes /\ i + 1 \in NameBytes
    BY <1>0 DEF NameBytes
  <2>2. src.bytes[i] \in 0 .. CharByte - 1 /\ src.bytes[i + 1] \in 0 .. CharByte - 1
    BY <2>1
  <2> QED
    BY <1>1, <2>2, CharBytes
<1>3. ASSUME NEW b \in NameBytes
      PROVE  W(b) = V(b)
  <2>0. b \in Nat /\ NameLen - 1 \in 0 .. NameLen - 1 /\ (NameLen - 1) + 1 = NameLen
    BY <1>0 DEF NameBytes
  <2>1. CASE b < NameLen
    <3>1. Low(e.name[b]) = src.bytes[b]
      BY <1>0, <1>2, <2>0, <2>1
    <3> QED
      BY <1>0, <2>0, <2>1, <3>1
  <2>2. CASE b = NameLen
    <3>1. High(e.name[NameLen - 1]) = src.bytes[(NameLen - 1) + 1]
      BY <1>2, <2>0
    <3> QED
      BY <1>0, <2>0, <2>2, <3>1
  <2>3. CASE b > NameLen
    BY <1>0, <2>0, <2>3
  <2> QED
    BY <1>0, <2>0, <2>1, <2>2, <2>3
<1>4. gpt_part_ent_write(buf, e) =
        [head |-> src.head, bytes |-> [b \in NameBytes |-> W(b)]]
  BY <1>1 DEF gpt_part_ent_write
<1>5. [b \in NameBytes |-> W(b)] = [b \in NameBytes |-> V(b)]
  <2> HIDE DEF W, V
  <2> QED
    BY <1>3
<1>6. gpt_part_ent_write(buf, e) =
        [head |-> src.head, bytes |-> [b \in NameBytes |-> V(b)]]
  <2> HIDE DEF W, V
  <2> QED
    BY <1>4, <1>5
<1> QED
  BY <1>6 DEF e

LEMMA EntryReloaded ==
  ASSUME NEW src, src = [head |-> src.head, bytes |-> src.bytes],
         src.bytes \in [NameBytes -> 0 .. CharByte - 1], NEW dst
  PROVE  /\ gpt_part_ent_write(src, gpt_part_ent_read(src)) = src
         /\ gpt_part_ent_read(gpt_part_ent_write(dst, gpt_part_ent_read(src)))
              = gpt_part_ent_read(src)
<1>1. gpt_part_ent_write(src, gpt_part_ent_read(src)) = src
  <2>1. [b \in NameBytes |-> IF b <= NameLen THEN src.bytes[b] ELSE src.bytes[b]] = src.bytes
    OBVIOUS
  <2> QED
    BY <2>1, WrittenBytes
<1>2. gpt_part_ent_read(gpt_part_ent_write(dst, gpt_part_ent_read(src)))
        = gpt_part_ent_read(src)
  <2> DEFINE w == [head  |-> src.head,
                   bytes |-> [b \in NameBytes |-> IF b <= NameLen THEN src.bytes[b]
                                                  ELSE dst.bytes[b]]]
  <2>1. gpt_part_ent_write(dst, gpt_part_ent_read(src)) = w
    BY WrittenBytes
  <2>2. w.head = src.head /\ \A i \in 0 .. NameLen - 1 : /\ w.bytes[i] = src.bytes[i]
                                                         /\ w.bytes[i + 1] = src.bytes[i + 1]
    <3>1. NameLen \in Nat \ {0}
      BY NameAssumption
    <3>2. \A i \in 0 .. NameLen - 1 : /\ i \in NameBytes /\ i + 1 \in NameBytes
                                      /\ i <= NameLen /\ i + 1 <= NameLen
      BY <3>1 DEF NameBytes
    <3> QED
      BY <3>2
  <2> HIDE DEF w
  <2>3. gpt_part_ent_read(w) = gpt_part_ent_read(src)
    BY <2>2 DEF gpt_part_ent_read
  <2> QED
    BY <2>1, <2>3
<1> QED
  BY <1>1, <1>2

\* Reading and writing an entry lose nothing for this program, for every length
\* of a name: the bytes it does not read are the ones it does not write.
THEOREM EntriesSurvive == Spec => [](ResaveKeepsBytes /\ ReloadKeepsEntry)
<1> DEFINE P == ResaveKeepsBytes /\ ReloadKeepsEntry
<1>1. Init => P
  BY CallNames DEF Init, ResaveKeepsBytes, ReloadKeepsEntry
<1>2. P /\ [Next]_call => P'
  <2>1. ASSUME P, call' = call PROVE P'
    BY <2>1 DEF ResaveKeepsBytes, ReloadKeepsEntry
  <2>2. ASSUME [Next]_call, call'.fn = "entry", call' # call PROVE P'
    <3>1. PICK src \in OldBytes, dst \in OldBytes :
            LET entry == gpt_part_ent_read(src) IN
            call' = [fn |-> "entry", src |-> src, entry |-> entry,
                     same |-> gpt_part_ent_write(src, entry),
                     again |-> gpt_part_ent_read(gpt_part_ent_write(dst, entry))]
      BY <2>2, Calls, CallNames DEF CallEntry
    <3>2. /\ src = [head |-> src.head, bytes |-> src.bytes]
          /\ src.bytes \in [NameBytes -> 0 .. CharByte - 1]
      BY InputsAssumption
    <3>3. /\ gpt_part_ent_write(src, gpt_part_ent_read(src)) = src
          /\ gpt_part_ent_read(gpt_part_ent_write(dst, gpt_part_ent_read(src)))
               = gpt_part_ent_read(src)
      BY ONLY <3>2, EntryReloaded
    <3> QED
      BY <3>1, <3>3 DEF ResaveKeepsBytes, ReloadKeepsEntry
  <2>3. ASSUME call'.fn # "entry" PROVE P'
    BY <2>3 DEF ResaveKeepsBytes, ReloadKeepsEntry
  <2> QED
    BY <2>1, <2>2, <2>3
<1> QED
  BY <1>1, <1>2, PTL DEF Spec
-----------------------------------------------------------------------------
(* CHS addresses.                                                          *)

\* The 24 bits hold a cylinder up to 1023, a head up to 255, a sector up to 63.
LEMMA Unpack ==
  ASSUME NEW c \in 0 .. 1023, NEW h \in 0 .. 255, NEW s \in 0 .. 63,
         NEW y, y = chs_tuple_to_int(c, h, s)
  PROVE  CylinderOf(y) = c /\ HeadOf(y) = h /\ SectorOf(y) = s
<1> DEFINE low  == c % 256
           high == c \div 256
<1>1. low \in Nat /\ low < 256 /\ high \in Nat /\ high < 4 /\ c = low + 256 * high
  BY SMT
<1>2. high % 4 = high /\ s % 64 = s /\ h % 256 = h
  BY <1>1, SMT
<1> HIDE DEF low, high
<1> DEFINE x == low * 65536 + high * 16384 + s * 256 + h
<1>3. y = x
  BY <1>1, <1>2 DEF chs_tuple_to_int, low, high
<1>4. x \div 65536 = low
  BY <1>1, SMT
<1>5. x \div 16384 = 4 * low + high
  BY <1>1, SMT
<1>6. (4 * low + high) % 4 = high
  BY <1>1, SMT
<1>7. x \div 256 = 64 * (4 * low + high) + s
  BY <1>1, SMT
<1>8. (64 * (4 * low + high) + s) % 64 = s
  BY <1>1, SMT
<1>9. x % 256 = h
  BY <1>1, SMT
<1> HIDE DEF x
<1>10. CylinderOf(y) = c
  BY <1>1, <1>3, <1>4, <1>5, <1>6 DEF CylinderOf
<1>11. HeadOf(y) = h
  BY <1>3, <1>9 DEF HeadOf
<1>12. SectorOf(y) = s
  BY <1>3, <1>7, <1>8 DEF SectorOf
<1> QED
  BY <1>10, <1>11, <1>12

InTracks(H, S, l) ==
  /\ (l \div S) % H \in 0 .. H - 1 /\ l % S \in 0 .. S - 1
  /\ l \div (H * S) \in Nat
  /\ ((l \div (H * S)) * H + ((l \div S) % H)) * S + (l % S) = l
  /\ l < 1024 * (H * S) => l \div (H * S) <= 1023

\* Dividing by tracks and then by heads is dividing by cylinders.
LEMMA Tracks ==
  ASSUME NEW H \in Nat \ {0}, NEW S \in Nat \ {0}, NEW l \in Nat
  PROVE  InTracks(H, S, l)
<1> DEFINE q == l \div S
           r == l % S
           c == q \div H
           h == q % H
<1>1. q \in Nat /\ r \in 0 .. S - 1 /\ l = S * q + r
  BY Division
<1> HIDE DEF q, r
<1>2. c \in Nat /\ h \in 0 .. H - 1 /\ q = H * c + h
  BY <1>1, Division
<1> HIDE DEF c, h
<1>3. l = (H * S) * c + (S * h + r) /\ l = (c * H + h) * S + r
  BY <1>1, <1>2, Z3
<1>4. H * S \in Nat \ {0} /\ S * h + r \in 0 .. (H * S) - 1
  <2>1. H * S \in Nat \ {0} /\ S * h \in Nat
    BY <1>2, Z3
  <2>2. S * h <= S * (H - 1) /\ S * (H - 1) = H * S - S
    BY <1>2, Z3
  <2> QED
    BY <1>1, <2>1, <2>2, Z3
<1>5. l \div (H * S) = c
  <2> DEFINE d == H * S
             t == S * h + r
  <2>1. d \in Nat \ {0} /\ t \in 0 .. d - 1 /\ l = d * c + t
    BY <1>3, <1>4
  <2> HIDE DEF d, t
  <2>2. l \div d = c
    BY <1>2, <2>1, DivisionUnique
  <2> QED
    BY <2>2 DEF d
<1>6. l < 1024 * (H * S) => c <= 1023
  <2> DEFINE d == H * S
  <2>1. d \in Nat \ {0} /\ l >= d * c
    BY <1>2, <1>3, <1>4, Z3
  <2> HIDE DEF d
  <2>2. c >= 1024 => d * c >= 1024 * d
    BY <1>2, <2>1, Z3
  <2>3. l < 1024 * d => c <= 1023
    <3>1. d * c \in Nat
      BY <1>2, <2>1, Z3
    <3> QED
      BY <1>2, <2>1, <2>2, <3>1, Z3
  <2> QED
    BY <2>3 DEF d
<1> QED
  BY <1>1, <1>2, <1>3, <1>5, <1>6 DEF InTracks, q, r, h

IsLast(H, S, c, h, s) ==
  /\ H \in Nat \ {0} /\ S \in Nat \ {0}
  /\ c \in 0 .. 1023 /\ h \in 0 .. H - 1 /\ s \in 1 .. S
  /\ (c * H + h) * S + s - 1 = 1024 * H * S - 1

\* The last sector of the last track has one address.
LEMMA LastTrack ==
  ASSUME NEW H, NEW S, NEW c, NEW h, NEW s, IsLast(H, S, c, h, s)
  PROVE  c = 1023 /\ h = H - 1 /\ s = S
<1>0. /\ H \in Nat \ {0} /\ S \in Nat \ {0}
      /\ c \in 0 .. 1023 /\ h \in 0 .. H - 1 /\ s \in 1 .. S
      /\ (c * H + h) * S + s - 1 = 1024 * H * S - 1
  BY DEF IsLast
<1> DEFINE a == c * H + h
           b == 1024 * H
<1>1. a \in Nat /\ b \in Nat \ {0} /\ a <= b - 1 /\ (c # 1023 => a < b - 1)
  <2>1. c * H \in Nat /\ c * H <= 1023 * H /\ (c # 1023 => c * H <= 1022 * H)
    <3>1. c # 1023 => c <= 1022
      BY <1>0
    <3> QED
      BY <1>0, <3>1, Z3
  <2> QED
    BY <1>0, <2>1
<1>2. a * S + s = b * S
  <2>1. a * S \in Int /\ 1024 * H * S \in Int
    BY <1>0, <1>1, Z3
  <2> QED
    BY <1>0, <2>1
<1>3. a = b - 1 /\ s = S
  <2> HIDE DEF a, b
  <2>1. a <= b - 2 => a * S <= b * S - 2 * S
    BY <1>0, <1>1, Z3
  <2>2. a = b - 1 => a * S = b * S - S
    BY <1>0, <1>1, Z3
  <2>3. a * S \in Nat /\ b * S \in Nat
    BY <1>0, <1>1, Z3
  <2> QED
    BY <1>0, <1>1, <1>2, <2>1, <2>2, <2>3
<1>4. c = 1023
  BY <1>1, <1>3
<1> QED
  BY <1>0, <1>3, <1>4

\* An address that is in the geometry's reach stands for its sector, and one
\* that is not for the last one of the geometry, or for the mark of a protective
\* partition.
THEOREM AddressesRight == Spec => []ChsAddresses
<1>1. Init => ChsAddresses
  BY CallNames DEF Init, ChsAddresses
<1>2. ChsAddresses /\ [Next]_call => ChsAddresses'
  <2>1. ASSUME ChsAddresses, call' = call PROVE ChsAddresses'
    BY <2>1 DEF ChsAddresses
  <2>2. ASSUME [Next]_call, call'.fn = "chs", call' # call PROVE ChsAddresses'
    <3>1. PICK g \in Geometries, prot \in BOOLEAN : \E lba \in ChsLbas[g] :
            call' = [fn |-> "chs", geom |-> g, lba |-> lba, prot |-> prot,
                     res |-> lba_to_chs(g[1], g[2], lba, prot)]
      BY <2>2, Calls, CallNames DEF CallChs
    <3>2. PICK lba \in ChsLbas[g] :
            call' = [fn |-> "chs", geom |-> g, lba |-> lba, prot |-> prot,
                     res |-> lba_to_chs(g[1], g[2], lba, prot)]
      BY <3>1
    <3> DEFINE H    == g[1]
               S    == g[2]
               last == 1024 * H * S - 1
               x    == lba_to_chs(H, S, lba, prot)
               l    == IF lba > last THEN last ELSE lba
    <3>3. H \in 1 .. 255 /\ S \in 1 .. 63 /\ lba \in Nat
      BY InputsAssumption
    <3>4. call'.geom[1] = H /\ call'.geom[2] = S /\ call'.lba = lba
          /\ call'.prot = prot /\ call'.res = x
      BY <3>2
    <3> HIDE DEF H, S
    <3>5. chs_max_lba(H, S) = last /\ last \in Nat /\ l \in Nat /\ l < 1024 * (H * S)
          /\ l = (IF lba < last THEN lba ELSE last)
      <4>1. chs_max_lba(H, S) = last
        BY <3>3, Z3 DEF chs_max_lba
      <4>2. H * S \in Nat \ {0} /\ last = 1024 * (H * S) - 1
        BY <3>3, Z3
      <4> HIDE DEF last
      <4> QED
        BY <3>3, <4>1, <4>2
    <3>6. CASE prot /\ lba > last
      <4>1. x = chs_tuple_to_int(1023, 255, 63)
        BY <3>5, <3>6 DEF lba_to_chs
      <4> HIDE DEF x, last
      <4>2. CylinderOf(x) = 1023 /\ HeadOf(x) = 255 /\ SectorOf(x) = 63
        <5>1. chs_tuple_to_int(1023, 255, 63) = 16777215
          BY Z3 DEF chs_tuple_to_int
        <5>2. /\ CylinderOf(16777215) = 1023 /\ HeadOf(16777215) = 255
              /\ SectorOf(16777215) = 63
          BY Z3 DEF CylinderOf, HeadOf, SectorOf
        <5> QED
          BY ONLY <4>1, <5>1, <5>2
      <4> QED
        <5>1. ~(lba < 1024 * H * S)
          BY <3>3, <3>5, <3>6 DEF last
        <5> QED
          BY <3>4, <3>6, <4>2, <5>1 DEF ChsAddresses
    <3>7. CASE ~(prot /\ lba > last)
      <4> DEFINE c == l \div (H * S)
                 h == (l \div S) % H
                 s == (l % S) + 1
      <4>1. x = chs_tuple_to_int(c, h, s)
        <5> HIDE DEF last
        <5> QED
          BY <3>5, <3>7 DEF lba_to_chs
      <4>2. /\ c \in 0 .. 1023 /\ h \in 0 .. H - 1 /\ s \in 1 .. S
            /\ (c * H + h) * S + s - 1 = l
        <5> HIDE DEF l
        <5>1. /\ h \in 0 .. H - 1 /\ l % S \in 0 .. S - 1
              /\ c \in Nat /\ (c * H + h) * S + (l % S) = l /\ c <= 1023
          <6>1. H \in Nat \ {0} /\ S \in Nat \ {0} /\ l \in Nat /\ l < 1024 * (H * S)
            BY <3>3, <3>5
          <6>2. InTracks(H, S, l)
            BY ONLY <6>1, Tracks
          <6> QED
            BY ONLY <6>1, <6>2 DEF InTracks
        <5> HIDE DEF c, h
        <5>2. (c * H + h) * S \in Nat
          BY <3>3, <5>1, Z3
        <5> QED
          BY <3>3, <5>1, <5>2
      <4> HIDE DEF c, h, s, x, l, last
      <4>3. CylinderOf(x) = c /\ HeadOf(x) = h /\ SectorOf(x) = s
        <5>1. c \in 0 .. 1023 /\ h \in 0 .. 255 /\ s \in 0 .. 63
          BY <3>3, <4>2
        <5> QED
          BY ONLY <4>1, <5>1, Unpack, Zenon
      <4>4. ASSUME lba <= last
            PROVE  /\ CylinderOf(x) <= 1023 /\ HeadOf(x) < H /\ SectorOf(x) \in 1 .. S
                   /\ (CylinderOf(x) * H + HeadOf(x)) * S + SectorOf(x) - 1 = lba
        BY <3>3, <3>5, <4>2, <4>3, <4>4
      <4>5. ASSUME lba > last
            PROVE  CylinderOf(x) = 1023 /\ HeadOf(x) = H - 1 /\ SectorOf(x) = S
        <5>1. l = last
          BY <3>3, <3>5, <4>5
        <5>2. IsLast(H, S, c, h, s)
          BY <3>3, <4>2, <5>1 DEF last, IsLast
        <5>3. c = 1023 /\ h = H - 1 /\ s = S
          BY <5>2, LastTrack, Z3
        <5> QED
          BY <4>3, <5>3
      <4>6. lba <= last <=> lba < 1024 * H * S
        BY <3>3, <3>5 DEF last
      <4>7. lba > last => ~prot /\ ~(lba < 1024 * H * S)
        BY <3>3, <3>5, <3>7, <4>6
      <4>8. CASE lba <= last
        BY <3>4, <4>4, <4>6, <4>8 DEF ChsAddresses
      <4>9. CASE lba > last
        BY <3>4, <4>5, <4>7, <4>9 DEF ChsAddresses
      <4> QED
        BY <3>3, <3>5, <4>8, <4>9
    <3> QED
      BY <3>6, <3>7
  <2>3. ASSUME call'.fn # "chs" PROVE ChsAddresses'
    BY <2>3 DEF ChsAddresses
  <2> QED
    BY <2>1, <2>2, <2>3
<1> QED
  BY <1>1, <1>2, PTL DEF Spec

-----------------------------------------------------------------------------
(* Induction, for sets, and the functions it defines.                      *)

LEMMA Induction ==
  ASSUME NEW S, 0 \in S, \A n \in S \cap Nat : n + 1 \in S
  PROVE  Nat \subseteq S
<1> SUFFICES ASSUME Nat \ S # {} PROVE FALSE
  OBVIOUS
<1> DEFINE R == OpToRel(<, Nat)
<1>1. IsWellFoundedOn(R, Nat)
  BY NatLessThanWellFounded
<1>2. \A x, y \in Nat : y < x => <<y, x>> \in R
  BY DEF OpToRel
<1> HIDE DEF R
<1>3. PICK x \in Nat \ S : \A y \in Nat \ S : ~(<<y, x>> \in R)
  BY <1>1, WFMin
<1>4. x # 0 /\ x - 1 \in Nat /\ x - 1 < x /\ (x - 1) + 1 = x
  OBVIOUS
<1>5. x - 1 \in S
  BY <1>2, <1>3, <1>4
<1> QED
  BY <1>3, <1>4, <1>5

\* What a recursive definition says of each value in terms of the one before.
Steps(f, start, step, n) ==
  /\ f[0] = start
  /\ \A k \in 1 .. n : f[k] = step[<<f[k - 1], k>>]

LEMMA FunctionExists ==
  ASSUME NEW V, NEW start \in V, NEW step \in [V \X (Nat \ {0}) -> V]
  PROVE  \A n \in Nat : \E f \in [0 .. n -> V] : Steps(f, start, step, n)
<1> DEFINE S == {n \in Nat : \E f \in [0 .. n -> V] : Steps(f, start, step, n)}
<1>1. 0 \in S
  <2> DEFINE f == [k \in 0 .. 0 |-> start]
  <2>1. f \in [0 .. 0 -> V] /\ Steps(f, start, step, 0)
    BY DEF Steps
  <2> QED
    BY <2>1
<1>2. ASSUME NEW n \in S PROVE n + 1 \in S
  <2>1. n \in Nat
    OBVIOUS
  <2>2. PICK f \in [0 .. n -> V] : Steps(f, start, step, n)
    OBVIOUS
  <2> DEFINE v == step[<<f[n], n + 1>>]
             g == [k \in 0 .. n + 1 |-> IF k = n + 1 THEN v ELSE f[k]]
  <2>3. v \in V
    BY <2>1
  <2>4. g \in [0 .. n + 1 -> V]
    BY <2>1, <2>3
  <2>5. g[0] = start
    BY <2>1, <2>2 DEF Steps
  <2>6. ASSUME NEW k \in 1 .. n + 1 PROVE g[k] = step[<<g[k - 1], k>>]
    <3>1. k \in Nat /\ k - 1 \in 0 .. n /\ g[k - 1] = f[k - 1]
      BY <2>1
    <3>2. CASE k = n + 1
      BY <2>1, <3>1, <3>2
    <3>3. CASE k # n + 1
      BY <2>1, <2>2, <3>1, <3>3 DEF Steps
    <3> QED
      BY <3>2, <3>3
  <2>7. Steps(g, start, step, n + 1)
    BY <2>5, <2>6 DEF Steps
  <2> QED
    BY <2>1, <2>4, <2>7
<1> HIDE DEF S
<1>3. Nat \subseteq S
  BY <1>1, <1>2, Induction
<1> QED
  BY <1>3 DEF S

-----------------------------------------------------------------------------
(* Little-endian fields.                                                   *)

LEMMA Powers == /\ Power[0] = 1
                /\ \A k \in Nat : Power[k + 1] = Byte * Power[k]
                /\ \A k \in Nat : Power[k] \in Nat \ {0}
<1> DEFINE Is(f) == f = [k \in Nat |-> IF k = 0 THEN 1 ELSE Byte * f[k - 1]]
<1>0. Byte \in Nat /\ Byte > 1
  BY ByteAssumption
<1> DEFINE step == [p \in Nat \X (Nat \ {0}) |-> Byte * p[1]]
<1>1. step \in [Nat \X (Nat \ {0}) -> Nat]
  BY <1>0, Z3
<1>2. \A n \in Nat : \E f \in [0 .. n -> Nat] : Steps(f, 1, step, n)
  BY <1>1, FunctionExists
<1> DEFINE to == [n \in Nat |-> CHOOSE f \in [0 .. n -> Nat] : Steps(f, 1, step, n)]
<1> HIDE DEF step
<1>3. \A n \in Nat : to[n] \in [0 .. n -> Nat] /\ Steps(to[n], 1, step, n)
  BY <1>2
<1> HIDE DEF to
<1>4. ASSUME NEW n \in Nat, NEW m \in Nat, n <= m
      PROVE  \A k \in 0 .. n : to[n][k] = to[m][k]
  <2> DEFINE S == {k \in Nat : k <= n => to[n][k] = to[m][k]}
  <2>1. 0 \in S
    BY <1>3 DEF Steps
  <2>2. ASSUME NEW k \in S PROVE k + 1 \in S
    <3>1. k \in Nat
      OBVIOUS
    <3>2. CASE k + 1 <= n
      <4>1. k + 1 \in 1 .. n /\ k + 1 \in 1 .. m /\ (k + 1) - 1 = k /\ to[n][k] = to[m][k]
        BY <1>4, <3>1, <3>2
      <4>2. to[n][k + 1] = step[<<to[n][k], k + 1>>] /\ to[m][k + 1] = step[<<to[m][k], k + 1>>]
        BY <1>3, <4>1 DEF Steps
      <4> QED
        BY <3>1, <4>1, <4>2
    <3> QED
      BY <3>1, <3>2
  <2> HIDE DEF S
  <2>3. Nat \subseteq S
    BY <2>1, <2>2, Induction
  <2> QED
    BY <2>3 DEF S
<1> DEFINE h == [n \in Nat |-> to[n][n]]
<1>5. \A n \in Nat : h[n] \in Nat
  BY <1>3
<1>6. h[0] = 1
  BY <1>3 DEF Steps
<1>7. ASSUME NEW n \in Nat, n # 0 PROVE h[n] = Byte * h[n - 1]
  <2>1. n - 1 \in Nat /\ n \in 1 .. n
    BY <1>7
  <2>2. h[n] = step[<<to[n][n - 1], n>>] /\ to[n][n - 1] = h[n - 1]
    BY <1>3, <1>4, <2>1 DEF Steps
  <2>3. h[n - 1] \in Nat
    BY <1>5, <2>1
  <2> QED
    BY <1>7, <2>2, <2>3 DEF step
<1>8. Is(h)
  <2>1. \A n \in Nat : h[n] = IF n = 0 THEN 1 ELSE Byte * h[n - 1]
    BY <1>6, <1>7
  <2> QED
    BY <2>1
<1>9. Is(Power)
  <2>1. Power = CHOOSE f : Is(f)
    BY DEF Power
  <2> HIDE DEF Is, h
  <2> QED
    BY <1>8, <2>1
<1>10. \A n \in Nat : Power[n] = IF n = 0 THEN 1 ELSE Byte * Power[n - 1]
  BY <1>9
<1>11. /\ Power[0] = 1
       /\ \A k \in Nat : Power[k + 1] = Byte * Power[k]
  BY <1>10
<1>12. \A k \in Nat : Power[k] \in Nat \ {0}
  <2> DEFINE S == {k \in Nat : Power[k] \in Nat \ {0}}
  <2>1. 0 \in S
    BY <1>11
  <2>2. ASSUME NEW k \in S PROVE k + 1 \in S
    <3>1. k \in Nat /\ Power[k] \in Nat \ {0} /\ Power[k + 1] = Byte * Power[k]
      BY <1>11
    <3>2. Byte * Power[k] \in Nat \ {0}
      BY <1>0, <3>1, Z3
    <3> QED
      BY <3>1, <3>2
  <2> HIDE DEF S
  <2>3. Nat \subseteq S
    BY <2>1, <2>2, Induction
  <2> QED
    BY <2>3 DEF S
<1> QED
  BY <1>11, <1>12

\* What reading does, one byte after the other.
ReadBytes(buf, off, width) ==
  \E value \in [0 .. width -> Nat] :
    /\ value[0] = 0 /\ read_pu(buf, off, width) = value[width]
    /\ \A k \in 0 .. width - 1 : value[k + 1] = value[k] + buf[off + k] * Power[k]

HasBytes(buf, off, width) == \A k \in 0 .. width - 1 : buf[off + k] \in Nat

LEMMA Reads ==
  ASSUME NEW buf, NEW off \in Nat, NEW width \in Nat, HasBytes(buf, off, width)
  PROVE  ReadBytes(buf, off, width)
<1> DEFINE Is(f) == f = [k \in 0 .. width |->
                           IF k = 0 THEN 0 ELSE f[k - 1] + buf[off + k - 1] * Power[k - 1]]
           step == [p \in Nat \X (Nat \ {0}) |->
                      IF p[2] \in 1 .. width
                      THEN p[1] + buf[off + p[2] - 1] * Power[p[2] - 1] ELSE 0]
<1>0. \A k \in 1 .. width : /\ k \in Nat \ {0} /\ k - 1 \in 0 .. width - 1
                            /\ k - 1 \in 0 .. width
                            /\ buf[off + k - 1] * Power[k - 1] \in Nat
  <2> SUFFICES ASSUME NEW k \in 1 .. width
               PROVE  /\ k \in Nat \ {0} /\ k - 1 \in 0 .. width - 1
                      /\ k - 1 \in 0 .. width
                      /\ buf[off + k - 1] * Power[k - 1] \in Nat
    OBVIOUS
  <2>1. k \in Nat \ {0} /\ k - 1 \in 0 .. width - 1 /\ k - 1 \in 0 .. width
        /\ off + k - 1 = off + (k - 1) /\ k - 1 \in Nat
    OBVIOUS
  <2>2. buf[off + k - 1] \in Nat /\ Power[k - 1] \in Nat
    BY <2>1, Powers DEF HasBytes
  <2>3. \A a, b \in Nat : a * b \in Nat
    BY Z3
  <2> QED
    BY <2>1, <2>2, <2>3
<1>1. step \in [Nat \X (Nat \ {0}) -> Nat]
  <2>1. ASSUME NEW p \in Nat \X (Nat \ {0})
        PROVE  (IF p[2] \in 1 .. width
                THEN p[1] + buf[off + p[2] - 1] * Power[p[2] - 1] ELSE 0) \in Nat
    <3> DEFINE x == buf[off + p[2] - 1] * Power[p[2] - 1]
    <3>1. p[2] \in 1 .. width => x \in Nat
      BY <1>0
    <3> HIDE DEF x
    <3> QED
      BY <3>1 DEF x
  <2> QED
    BY <2>1
<1>2. PICK h \in [0 .. width -> Nat] : Steps(h, 0, step, width)
  BY <1>1, FunctionExists
<1>3. ASSUME NEW k \in 1 .. width
      PROVE  h[k] = h[k - 1] + buf[off + k - 1] * Power[k - 1]
  <2>1. h[k] = step[<<h[k - 1], k>>] /\ h[k - 1] \in Nat /\ k \in Nat \ {0}
    BY <1>0, <1>2 DEF Steps
  <2> QED
    BY <2>1
<1>4. Is(h)
  <2> HIDE DEF step
  <2>1. \A k \in 0 .. width :
          h[k] = IF k = 0 THEN 0 ELSE h[k - 1] + buf[off + k - 1] * Power[k - 1]
    <3> SUFFICES ASSUME NEW k \in 0 .. width
                 PROVE  h[k] = IF k = 0 THEN 0 ELSE h[k - 1] + buf[off + k - 1] * Power[k - 1]
      OBVIOUS
    <3>1. k = 0 \/ k \in 1 .. width
      OBVIOUS
    <3> QED
      BY <1>2, <1>3, <3>1 DEF Steps
  <2> QED
    BY <2>1
<1> DEFINE f == CHOOSE g : Is(g)
<1>5. read_pu(buf, off, width) = f[width]
  BY DEF read_pu
<1>6. Is(f)
  <2> HIDE DEF Is
  <2> QED
    BY <1>4
<1> HIDE DEF f
<1>7. /\ f = [k \in 0 .. width |-> f[k]]
      /\ \A k \in 0 .. width :
           f[k] = IF k = 0 THEN 0 ELSE f[k - 1] + buf[off + k - 1] * Power[k - 1]
  BY <1>6
<1> DEFINE T(k) == buf[off + k - 1] * Power[k - 1]
<1>8. \A k \in 1 .. width : f[k] = f[k - 1] + T(k) /\ T(k) \in Nat
  <2>1. \A k \in 1 .. width : k \in 0 .. width /\ k # 0
    OBVIOUS
  <2> QED
    BY <1>0, <1>7, <2>1
<1> HIDE DEF T
<1>13. f[0] = 0
  <2>1. 0 \in 0 .. width
    OBVIOUS
  <2> QED
    BY <1>7, <2>1
<1> DEFINE S == {k \in Nat : k <= width => f[k] \in Nat}
<1>9. 0 \in S
  BY <1>13
<1>10. ASSUME NEW k \in S PROVE k + 1 \in S
  <2>1. k \in Nat
    OBVIOUS
  <2>2. CASE k + 1 <= width
    <3>1. k + 1 \in 1 .. width /\ (k + 1) - 1 = k /\ f[k] \in Nat
      BY <2>1, <2>2
    <3>2. f[k + 1] = f[k] + T(k + 1) /\ T(k + 1) \in Nat
      BY <1>8, <3>1
    <3> QED
      BY <2>1, <3>1, <3>2
  <2> QED
    BY <2>1, <2>2
<1> HIDE DEF S
<1>11. Nat \subseteq S
  BY <1>9, <1>10, Induction
<1>12. f \in [0 .. width -> Nat]
  <2>1. \A k \in 0 .. width : f[k] \in Nat
    BY <1>11 DEF S
  <2> QED
    BY <1>7, <2>1
<1>14. ASSUME NEW k \in 0 .. width - 1 PROVE f[k + 1] = f[k] + buf[off + k] * Power[k]
  <2>1. k + 1 \in 1 .. width /\ (k + 1) - 1 = k /\ off + (k + 1) - 1 = off + k
    OBVIOUS
  <2>2. T(k + 1) = buf[off + k] * Power[k]
    BY <2>1 DEF T
  <2>3. f[k + 1] = f[k] + T(k + 1)
    BY <1>8, <2>1
  <2> QED
    BY <2>2, <2>3
<1> QED
  BY <1>5, <1>12, <1>13, <1>14 DEF ReadBytes

\* The field of a buffer that holds v.
Holds(buf, off, width, v) == \A k \in 0 .. width - 1 : buf[off + k] = ByteOf(v, k)

LEMMA Bytes ==
  ASSUME NEW v \in Nat, NEW k \in Nat
  PROVE  /\ ByteOf(v, k) \in 0 .. Byte - 1
         /\ v % Power[k] \in Nat /\ v % Power[k + 1] = (v % Power[k]) + ByteOf(v, k) * Power[k]
<1>0. Byte \in Nat \ {0}
  BY ByteAssumption
<1> DEFINE P == Power[k]
           q == v \div P
           r == v % P
           c == q \div Byte
           b == q % Byte
<1>1. P \in Nat \ {0} /\ Power[k + 1] = Byte * P
  BY Powers
<1> HIDE DEF P
<1>2. q \in Nat /\ r \in 0 .. P - 1 /\ v = P * q + r
  BY <1>1, Division
<1> HIDE DEF q, r
<1>3. c \in Nat /\ b \in 0 .. Byte - 1 /\ q = Byte * c + b
  BY <1>0, <1>2, Division
<1> HIDE DEF c, b
<1>4. v = (Byte * P) * c + (b * P + r) /\ Byte * P \in Nat \ {0}
  BY <1>0, <1>1, <1>2, <1>3, Z3
<1>5. b * P + r \in 0 .. (Byte * P) - 1
  <2>1. b * P \in Nat /\ b * P <= (Byte - 1) * P /\ (Byte - 1) * P = Byte * P - P
    BY <1>0, <1>1, <1>3, Z3
  <2> QED
    BY <1>1, <1>2, <1>4, <2>1
<1>6. v % (Byte * P) = b * P + r
  <2> DEFINE M == Byte * P
             t == b * P + r
  <2>1. M \in Nat \ {0} /\ t \in 0 .. M - 1 /\ v = M * c + t
    BY <1>4, <1>5
  <2> HIDE DEF M, t
  <2>2. v % M = t
    BY <1>3, <2>1, DivisionUnique
  <2> QED
    BY <2>2 DEF M, t
<1>7. b * P + r = r + b * P
  BY <1>1, <1>2, <1>3, Z3
<1>8. b = ByteOf(v, k)
  BY DEF ByteOf, b, q, P
<1> QED
  BY <1>1, <1>2, <1>3, <1>6, <1>7, <1>8 DEF r, P

\* A field is read as it was stored.
LEMMA FieldRead ==
  ASSUME NEW buf, NEW off \in Nat, NEW width \in Nat, NEW v \in Pu(width),
         Holds(buf, off, width, v)
  PROVE  read_pu(buf, off, width) = v
<1>0. v \in Nat /\ v < Power[width] /\ Power[width] \in Nat \ {0}
  BY Powers DEF Pu
<1>1. \A k \in 0 .. width - 1 : k \in Nat /\ buf[off + k] = ByteOf(v, k)
                                /\ buf[off + k] \in Nat
  <2> SUFFICES ASSUME NEW k \in 0 .. width - 1
               PROVE  k \in Nat /\ buf[off + k] = ByteOf(v, k) /\ buf[off + k] \in Nat
    OBVIOUS
  <2>1. k \in Nat /\ buf[off + k] = ByteOf(v, k)
    BY DEF Holds
  <2>2. ByteOf(v, k) \in 0 .. Byte - 1
    BY <1>0, <2>1, Bytes
  <2> QED
    BY <2>1, <2>2
<1>2. PICK value \in [0 .. width -> Nat] :
        /\ value[0] = 0 /\ read_pu(buf, off, width) = value[width]
        /\ \A k \in 0 .. width - 1 : value[k + 1] = value[k] + buf[off + k] * Power[k]
  <2>1. HasBytes(buf, off, width)
    BY <1>1 DEF HasBytes
  <2>2. ReadBytes(buf, off, width)
    BY <2>1, Reads
  <2> QED
    BY <2>2 DEF ReadBytes
<1> DEFINE S == {k \in Nat : k <= width => value[k] = v % Power[k]}
<1>3. 0 \in S
  <2>1. v % 1 = 0
    BY <1>0
  <2> QED
    BY <1>2, <2>1, Powers
<1>4. ASSUME NEW k \in S PROVE k + 1 \in S
  <2>1. k \in Nat
    OBVIOUS
  <2>2. CASE k + 1 <= width
    <3>1. k \in 0 .. width - 1 /\ value[k] = v % Power[k]
      BY <2>1, <2>2
    <3>2. value[k + 1] = value[k] + ByteOf(v, k) * Power[k]
      BY <1>1, <1>2, <3>1
    <3>3. v % Power[k + 1] = (v % Power[k]) + ByteOf(v, k) * Power[k]
      BY <1>0, <2>1, Bytes
    <3>4. value[k + 1] = v % Power[k + 1]
      BY <3>1, <3>2, <3>3
    <3> QED
      BY <2>1, <3>4
  <2> QED
    BY <2>1, <2>2
<1> HIDE DEF S
<1>5. Nat \subseteq S
  BY <1>3, <1>4, Induction
<1>6. value[width] = v % Power[width]
  BY <1>5 DEF S
<1>7. v % Power[width] = v
  <2> DEFINE L == Power[width]
  <2>1. L \in Nat \ {0} /\ v \in Int /\ v \in 0 .. L - 1
    BY <1>0
  <2> HIDE DEF L
  <2>2. v % L = v
    BY <2>1, Wraps
  <2> QED
    BY <2>2 DEF L
<1> QED
  BY <1>2, <1>6, <1>7

-----------------------------------------------------------------------------
(* Fields that are stored one behind the other.                            *)

\* All of a that lies below lo, or at hi and above, is as in b.
Around(a, b, lo, hi) == \A x \in DOMAIN b : x < lo \/ hi <= x => a[x] = b[x]

\* What a buffer ends as says what its last field is, and its earlier ones.
LEMMA FieldBefore ==
  ASSUME NEW buf, DOMAIN buf \subseteq Nat, NEW off \in Nat, NEW width \in Nat, NEW v,
         \A k \in 0 .. width - 1 : off + k \in DOMAIN buf,
         NEW hi \in Nat, off + width <= hi,
         NEW final, Around(final, write_pu(buf, off, width, v), off + width, hi)
  PROVE  Holds(final, off, width, v) /\ Around(final, buf, off, hi)
<1> DEFINE after == write_pu(buf, off, width, v)
<1>1. /\ DOMAIN after = DOMAIN buf /\ Holds(after, off, width, v)
      /\ \A b \in DOMAIN buf : b \notin off .. off + width - 1 => after[b] = buf[b]
  <2>1. \A k \in 0 .. width - 1 : off + k \in off .. off + width - 1 /\ (off + k) - off = k
    OBVIOUS
  <2> QED
    BY <2>1 DEF write_pu, Holds
<1>2. \A x \in DOMAIN buf : x < off + width \/ hi <= x => final[x] = after[x]
  BY <1>1 DEF Around
<1> HIDE DEF after
<1>3. Holds(final, off, width, v)
  <2>1. ASSUME NEW k \in 0 .. width - 1 PROVE final[off + k] = ByteOf(v, k)
    <3>1. off + k \in DOMAIN buf /\ off + k < off + width
      OBVIOUS
    <3>2. after[off + k] = ByteOf(v, k)
      BY <1>1 DEF Holds
    <3> QED
      BY <1>2, <3>1, <3>2
  <2> QED
    BY <2>1 DEF Holds
<1>4. ASSUME NEW x \in DOMAIN buf, x < off \/ hi <= x PROVE final[x] = buf[x]
  <2>1. x \in Nat /\ x \notin off .. off + width - 1 /\ (x < off + width \/ hi <= x)
    BY <1>4
  <2> QED
    BY <1>1, <1>2, <2>1
<1> QED
  BY <1>3, <1>4 DEF Around

\* A buffer with all offsets from low to high.
Buffer(buf, low, high) == DOMAIN buf = low .. high

LEMMA FieldEnds ==
  ASSUME NEW low \in Nat, NEW high \in Nat, NEW buf, Buffer(buf, low, high),
         NEW off \in Nat, NEW width \in Nat, NEW v, NEW hi \in Nat,
         low <= off, off + width <= hi, hi <= high + 1
  PROVE  /\ Buffer(write_pu(buf, off, width, v), low, high)
         /\ \A final : Around(final, write_pu(buf, off, width, v), off + width, hi) =>
              Holds(final, off, width, v) /\ Around(final, buf, off, hi)
<1>1. DOMAIN buf \subseteq Nat /\ \A k \in 0 .. width - 1 : off + k \in DOMAIN buf
  BY DEF Buffer
<1>2. ASSUME NEW final, Around(final, write_pu(buf, off, width, v), off + width, hi)
      PROVE  Holds(final, off, width, v) /\ Around(final, buf, off, hi)
  BY <1>1, <1>2, FieldBefore
<1>3. Buffer(write_pu(buf, off, width, v), low, high)
  BY DEF Buffer, write_pu
<1> QED
  BY <1>2, <1>3

-----------------------------------------------------------------------------
(* GUIDs and headers.                                                      *)

GuidHeld(buf, off, guid) ==
  /\ Holds(buf, off, 4, guid.time_lo) /\ Holds(buf, off + 4, 2, guid.time_mid)
  /\ Holds(buf, off + 6, 2, guid.time_hi_ver) /\ Holds(buf, off + 8, 1, guid.cl_seq_hi_res)
  /\ Holds(buf, off + 9, 1, guid.cl_seq_lo)
  /\ \A i \in 0 .. 5 : buf[off + 10 + i] = guid.nodes[i]

LEMMA OneByte == Power[1] = Byte /\ Pu(1) = 0 .. Byte - 1
<1>1. Power[0 + 1] = Byte * Power[0] /\ Power[0] = 1 /\ Byte \in Nat
  BY Powers, ByteAssumption
<1>2. Byte * 1 = Byte
  BY <1>1, Z3
<1> QED
  BY <1>1, <1>2 DEF Pu

LEMMA GuidEnds ==
  ASSUME NEW low \in Nat, NEW high \in Nat, NEW buf, Buffer(buf, low, high),
         NEW off \in Nat, NEW guid \in Guid, NEW hi \in Nat,
         low <= off, off + 16 <= hi, hi <= high + 1
  PROVE  /\ Buffer(guid_write(buf, off, guid), low, high)
         /\ \A final : Around(final, guid_write(buf, off, guid), off + 16, hi) =>
              GuidHeld(final, off, guid) /\ Around(final, buf, off, hi)
<1> DEFINE b1 == write_pu(buf, off, 4, guid.time_lo)
           b2 == write_pu(b1, off + 4, 2, guid.time_mid)
           b3 == write_pu(b2, off + 6, 2, guid.time_hi_ver)
           b4 == write_pu(b3, off + 8, 1, guid.cl_seq_hi_res)
           b5 == write_pu(b4, off + 9, 1, guid.cl_seq_lo)
           after == guid_write(buf, off, guid)
<1>1. after = [b \in DOMAIN buf |-> IF b \in off + 10 .. off + 15
                                    THEN guid.nodes[b - off - 10] % Byte ELSE b5[b]]
  BY DEF guid_write
<1> HIDE DEF after
<1>2. /\ Buffer(b1, low, high)
      /\ \A final : Around(final, b1, off + 4, hi) =>
           Holds(final, off, 4, guid.time_lo) /\ Around(final, buf, off, hi)
  BY FieldEnds
<1> HIDE DEF b1
<1>3. /\ Buffer(b2, low, high)
      /\ \A final : Around(final, b2, off + 6, hi) =>
           Holds(final, off + 4, 2, guid.time_mid) /\ Around(final, b1, off + 4, hi)
  <2>1. (off + 4) + 2 = off + 6 /\ off + 4 \in Nat /\ low <= off + 4 /\ off + 6 <= hi
    OBVIOUS
  <2> QED
    BY <1>2, <2>1, FieldEnds
<1> HIDE DEF b2
<1>4. /\ Buffer(b3, low, high)
      /\ \A final : Around(final, b3, off + 8, hi) =>
           Holds(final, off + 6, 2, guid.time_hi_ver) /\ Around(final, b2, off + 6, hi)
  <2>1. (off + 6) + 2 = off + 8 /\ off + 6 \in Nat /\ low <= off + 6 /\ off + 8 <= hi
    OBVIOUS
  <2> QED
    BY <1>3, <2>1, FieldEnds
<1> HIDE DEF b3
<1>5. /\ Buffer(b4, low, high)
      /\ \A final : Around(final, b4, off + 9, hi) =>
           Holds(final, off + 8, 1, guid.cl_seq_hi_res) /\ Around(final, b3, off + 8, hi)
  <2>1. (off + 8) + 1 = off + 9 /\ off + 8 \in Nat /\ low <= off + 8 /\ off + 9 <= hi
    OBVIOUS
  <2> QED
    BY <1>4, <2>1, FieldEnds
<1> HIDE DEF b4
<1>6. /\ Buffer(b5, low, high)
      /\ \A final : Around(final, b5, off + 10, hi) =>
           Holds(final, off + 9, 1, guid.cl_seq_lo) /\ Around(final, b4, off + 9, hi)
  <2>1. (off + 9) + 1 = off + 10 /\ off + 9 \in Nat /\ low <= off + 9 /\ off + 10 <= hi
    OBVIOUS
  <2> QED
    BY <1>5, <2>1, FieldEnds
<1> HIDE DEF b5
<1>7. Buffer(after, low, high)
  BY <1>1 DEF Buffer
<1>8. ASSUME NEW final, Around(final, after, off + 16, hi)
      PROVE  GuidHeld(final, off, guid) /\ Around(final, buf, off, hi)
  <2>1. \A x \in low .. high : x < off + 16 \/ hi <= x =>
          final[x] = IF x \in off + 10 .. off + 15
                     THEN guid.nodes[x - off - 10] % Byte ELSE b5[x]
    BY <1>1, <1>7, <1>8 DEF Around, Buffer
  <2>2. Around(final, b5, off + 10, hi)
    <3>1. ASSUME NEW x \in low .. high, x < off + 10 \/ hi <= x PROVE final[x] = b5[x]
      BY <2>1, <3>1
    <3> QED
      BY <1>6, <3>1 DEF Around, Buffer
  <2>3. ASSUME NEW i \in 0 .. 5 PROVE final[off + 10 + i] = guid.nodes[i]
    <3>1. /\ off + 10 + i \in low .. high /\ off + 10 + i \in off + 10 .. off + 15
          /\ off + 10 + i < off + 16 /\ (off + 10 + i) - off - 10 = i
      OBVIOUS
    <3>2. guid.nodes[i] \in 0 .. Byte - 1 /\ Byte \in Nat \ {0}
      <4>1. guid.nodes \in [0 .. 5 -> Pu(1)]
        BY DEF Guid
      <4>2. guid.nodes[i] \in Pu(1)
        BY <4>1
      <4>3. guid.nodes[i] \in 0 .. Power[1] - 1
        BY <4>2 DEF Pu
      <4>4. Power[1] = Byte
        BY OneByte
      <4> QED
        BY <4>3, <4>4, ByteAssumption
    <3>3. guid.nodes[i] % Byte = guid.nodes[i]
      <4> DEFINE x == guid.nodes[i]
      <4> HIDE DEF x
      <4>1. x \in 0 .. Byte - 1 /\ x \in Int /\ Byte \in Nat \ {0}
        BY <3>2 DEF x
      <4>2. x % Byte = x
        BY <4>1, Wraps
      <4> QED
        BY <4>2 DEF x
    <3>4. final[off + 10 + i] = guid.nodes[(off + 10 + i) - off - 10] % Byte
      BY <2>1, <3>1
    <3> QED
      BY <3>1, <3>3, <3>4
  <2>4. Around(final, b4, off + 9, hi) /\ Holds(final, off + 9, 1, guid.cl_seq_lo)
    BY <1>6, <2>2
  <2>5. Around(final, b3, off + 8, hi) /\ Holds(final, off + 8, 1, guid.cl_seq_hi_res)
    BY <1>5, <2>4
  <2>6. Around(final, b2, off + 6, hi) /\ Holds(final, off + 6, 2, guid.time_hi_ver)
    BY <1>4, <2>5
  <2>7. Around(final, b1, off + 4, hi) /\ Holds(final, off + 4, 2, guid.time_mid)
    BY <1>3, <2>6
  <2>8. Around(final, buf, off, hi) /\ Holds(final, off, 4, guid.time_lo)
    BY <1>2, <2>7
  <2> QED
    BY <2>3, <2>4, <2>5, <2>6, <2>7, <2>8 DEF GuidHeld
<1> QED
  BY <1>7, <1>8 DEF after

\* All fields of a header are where it is stored.
HdrHeld(buf, h) ==
  /\ \A b \in SigArea : buf[b] = GptSig[b]
  /\ Holds(buf, 8, 4, h.rev)
  /\ Holds(buf, 12, 4, h.hdr_sz)
  /\ Holds(buf, 16, 4, h.hdr_crc32)
  /\ Holds(buf, 20, 4, 0)
  /\ Holds(buf, 24, 8, h.my_lba)
  /\ Holds(buf, 32, 8, h.alt_lba)
  /\ Holds(buf, 40, 8, h.first_usable_lba)
  /\ Holds(buf, 48, 8, h.last_usable_lba)
  /\ GuidHeld(buf, 56, h.disk_guid)
  /\ Holds(buf, 72, 8, h.part_table_lba)
  /\ Holds(buf, 80, 4, h.part_table_entry_cnt)
  /\ Holds(buf, 84, 4, h.part_entry_sz)
  /\ Holds(buf, 88, 4, h.part_table_crc32)

LEMMA HdrWritten ==
  ASSUME NEW old, Buffer(old, 0, 95), NEW h \in GptHdr
  PROVE  LET buf == gpt_hdr_write(old, h)
         IN  /\ Buffer(buf, 0, 95) /\ HdrHeld(buf, h)
             /\ \A b \in 92 .. 95 : buf[b] = old[b]
             /\ buf = [b \in DOMAIN buf |-> buf[b]]
<1> DEFINE s0 == WithSig(old)
           s1 == write_pu(s0, 8, 4, h.rev)
           s2 == write_pu(s1, 12, 4, h.hdr_sz)
           s3 == write_pu(s2, 16, 4, h.hdr_crc32)
           s4 == write_pu(s3, 20, 4, 0)
           s5 == write_pu(s4, 24, 8, h.my_lba)
           s6 == write_pu(s5, 32, 8, h.alt_lba)
           s7 == write_pu(s6, 40, 8, h.first_usable_lba)
           s8 == write_pu(s7, 48, 8, h.last_usable_lba)
           s9 == guid_write(s8, 56, h.disk_guid)
           s10 == write_pu(s9, 72, 8, h.part_table_lba)
           s11 == write_pu(s10, 80, 4, h.part_table_entry_cnt)
           s12 == write_pu(s11, 84, 4, h.part_entry_sz)
           s13 == write_pu(s12, 88, 4, h.part_table_crc32)
<1>0. Buffer(s0, 0, 95) /\ \A b \in 0 .. 95 : s0[b] = IF b \in SigArea THEN GptSig[b] ELSE old[b]
  BY DEF WithSig, Buffer
<1>g. h.disk_guid \in Guid
  BY DEF GptHdr
<1>w. gpt_hdr_write(old, h) = s13
  BY DEF gpt_hdr_write
<1> HIDE DEF s0
<1>1. /\ Buffer(s1, 0, 95)
      /\ \A final : Around(final, s1, 12, 92) => Holds(final, 8, 4, h.rev) /\ Around(final, s0, 8, 92)
  <2>1. 8 + 4 = 12
    OBVIOUS
  <2>2. Buffer(s0, 0, 95)
    BY <1>0
  <2>3. 0 \in Nat /\ 95 \in Nat /\ 92 \in Nat /\ 8 \in Nat /\ 4 \in Nat
    OBVIOUS
  <2> QED
    BY ONLY <2>1, <2>2, <2>3, FieldEnds
<1> HIDE DEF s1
<1>2. /\ Buffer(s2, 0, 95)
      /\ \A final : Around(final, s2, 16, 92) => Holds(final, 12, 4, h.hdr_sz) /\ Around(final, s1, 12, 92)
  <2>1. 12 + 4 = 16
    OBVIOUS
  <2>2. Buffer(s1, 0, 95)
    BY <1>1
  <2>3. 0 \in Nat /\ 95 \in Nat /\ 92 \in Nat /\ 12 \in Nat /\ 4 \in Nat
    OBVIOUS
  <2> QED
    BY ONLY <2>1, <2>2, <2>3, FieldEnds
<1> HIDE DEF s2
<1>3. /\ Buffer(s3, 0, 95)
      /\ \A final : Around(final, s3, 20, 92) => Holds(final, 16, 4, h.hdr_crc32) /\ Around(final, s2, 16, 92)
  <2>1. 16 + 4 = 20
    OBVIOUS
  <2>2. Buffer(s2, 0, 95)
    BY <1>2
  <2>3. 0 \in Nat /\ 95 \in Nat /\ 92 \in Nat /\ 16 \in Nat /\ 4 \in Nat
    OBVIOUS
  <2> QED
    BY ONLY <2>1, <2>2, <2>3, FieldEnds
<1> HIDE DEF s3
<1>4. /\ Buffer(s4, 0, 95)
      /\ \A final : Around(final, s4, 24, 92) => Holds(final, 20, 4, 0) /\ Around(final, s3, 20, 92)
  <2>1. 20 + 4 = 24
    OBVIOUS
  <2>2. Buffer(s3, 0, 95)
    BY <1>3
  <2>3. 0 \in Nat /\ 95 \in Nat /\ 92 \in Nat /\ 20 \in Nat /\ 4 \in Nat
    OBVIOUS
  <2> QED
    BY ONLY <2>1, <2>2, <2>3, FieldEnds
<1> HIDE DEF s4
<1>5. /\ Buffer(s5, 0, 95)
      /\ \A final : Around(final, s5, 32, 92) => Holds(final, 24, 8, h.my_lba) /\ Around(final, s4, 24, 92)
  <2>1. 24 + 8 = 32
    OBVIOUS
  <2>2. Buffer(s4, 0, 95)
    BY <1>4
  <2>3. 0 \in Nat /\ 95 \in Nat /\ 92 \in Nat /\ 24 \in Nat /\ 8 \in Nat
    OBVIOUS
  <2> QED
    BY ONLY <2>1, <2>2, <2>3, FieldEnds
<1> HIDE DEF s5
<1>6. /\ Buffer(s6, 0, 95)
      /\ \A final : Around(final, s6, 40, 92) => Holds(final, 32, 8, h.alt_lba) /\ Around(final, s5, 32, 92)
  <2>1. 32 + 8 = 40
    OBVIOUS
  <2>2. Buffer(s5, 0, 95)
    BY <1>5
  <2>3. 0 \in Nat /\ 95 \in Nat /\ 92 \in Nat /\ 32 \in Nat /\ 8 \in Nat
    OBVIOUS
  <2> QED
    BY ONLY <2>1, <2>2, <2>3, FieldEnds
<1> HIDE DEF s6
<1>7. /\ Buffer(s7, 0, 95)
      /\ \A final : Around(final, s7, 48, 92) => Holds(final, 40, 8, h.first_usable_lba) /\ Around(final, s6, 40, 92)
  <2>1. 40 + 8 = 48
    OBVIOUS
  <2>2. Buffer(s6, 0, 95)
    BY <1>6
  <2>3. 0 \in Nat /\ 95 \in Nat /\ 92 \in Nat /\ 40 \in Nat /\ 8 \in Nat
    OBVIOUS
  <2> QED
    BY ONLY <2>1, <2>2, <2>3, FieldEnds
<1> HIDE DEF s7
<1>8. /\ Buffer(s8, 0, 95)
      /\ \A final : Around(final, s8, 56, 92) => Holds(final, 48, 8, h.last_usable_lba) /\ Around(final, s7, 48, 92)
  <2>1. 48 + 8 = 56
    OBVIOUS
  <2>2. Buffer(s7, 0, 95)
    BY <1>7
  <2>3. 0 \in Nat /\ 95 \in Nat /\ 92 \in Nat /\ 48 \in Nat /\ 8 \in Nat
    OBVIOUS
  <2> QED
    BY ONLY <2>1, <2>2, <2>3, FieldEnds
<1> HIDE DEF s8
<1>9. /\ Buffer(s9, 0, 95)
      /\ \A final : Around(final, s9, 72, 92) => GuidHeld(final, 56, h.disk_guid) /\ Around(final, s8, 56, 92)
  <2>1. 56 + 16 = 72
    OBVIOUS
  <2>2. Buffer(s8, 0, 95)
    BY <1>8
  <2>3. 0 \in Nat /\ 95 \in Nat /\ 92 \in Nat /\ 56 \in Nat /\ 16 \in Nat
    OBVIOUS
  <2> QED
    BY ONLY <1>g, <2>1, <2>2, <2>3, GuidEnds
<1> HIDE DEF s9
<1>10. /\ Buffer(s10, 0, 95)
      /\ \A final : Around(final, s10, 80, 92) => Holds(final, 72, 8, h.part_table_lba) /\ Around(final, s9, 72, 92)
  <2>1. 72 + 8 = 80
    OBVIOUS
  <2>2. Buffer(s9, 0, 95)
    BY <1>9
  <2>3. 0 \in Nat /\ 95 \in Nat /\ 92 \in Nat /\ 72 \in Nat /\ 8 \in Nat
    OBVIOUS
  <2> QED
    BY ONLY <2>1, <2>2, <2>3, FieldEnds
<1> HIDE DEF s10
<1>11. /\ Buffer(s11, 0, 95)
      /\ \A final : Around(final, s11, 84, 92) => Holds(final, 80, 4, h.part_table_entry_cnt) /\ Around(final, s10, 80, 92)
  <2>1. 80 + 4 = 84
    OBVIOUS
  <2>2. Buffer(s10, 0, 95)
    BY <1>10
  <2>3. 0 \in Nat /\ 95 \in Nat /\ 92 \in Nat /\ 80 \in Nat /\ 4 \in Nat
    OBVIOUS
  <2> QED
    BY ONLY <2>1, <2>2, <2>3, FieldEnds
<1> HIDE DEF s11
<1>12. /\ Buffer(s12, 0, 95)
      /\ \A final : Around(final, s12, 88, 92) => Holds(final, 84, 4, h.part_entry_sz) /\ Around(final, s11, 84, 92)
  <2>1. 84 + 4 = 88
    OBVIOUS
  <2>2. Buffer(s11, 0, 95)
    BY <1>11
  <2>3. 0 \in Nat /\ 95 \in Nat /\ 92 \in Nat /\ 84 \in Nat /\ 4 \in Nat
    OBVIOUS
  <2> QED
    BY ONLY <2>1, <2>2, <2>3, FieldEnds
<1> HIDE DEF s12
<1>13. /\ Buffer(s13, 0, 95)
      /\ \A final : Around(final, s13, 92, 92) => Holds(final, 88, 4, h.part_table_crc32) /\ Around(final, s12, 88, 92)
  <2>1. 88 + 4 = 92
    OBVIOUS
  <2>2. Buffer(s12, 0, 95)
    BY <1>12
  <2>3. 0 \in Nat /\ 95 \in Nat /\ 92 \in Nat /\ 88 \in Nat /\ 4 \in Nat
    OBVIOUS
  <2> QED
    BY ONLY <2>1, <2>2, <2>3, FieldEnds
<1>f. s13 = [b \in DOMAIN s13 |-> s13[b]]
  BY DEF write_pu
<1> HIDE DEF s13
<1>14. Around(s13, s13, 92, 92)
  BY DEF Around
<1>15. Holds(s13, 88, 4, h.part_table_crc32) /\ Around(s13, s12, 88, 92)
  BY <1>13, <1>14
<1>16. Holds(s13, 84, 4, h.part_entry_sz) /\ Around(s13, s11, 84, 92)
  BY <1>12, <1>15
<1>17. Holds(s13, 80, 4, h.part_table_entry_cnt) /\ Around(s13, s10, 80, 92)
  BY <1>11, <1>16
<1>18. Holds(s13, 72, 8, h.part_table_lba) /\ Around(s13, s9, 72, 92)
  BY <1>10, <1>17
<1>19. GuidHeld(s13, 56, h.disk_guid) /\ Around(s13, s8, 56, 92)
  BY <1>9, <1>18
<1>20. Holds(s13, 48, 8, h.last_usable_lba) /\ Around(s13, s7, 48, 92)
  BY <1>8, <1>19
<1>21. Holds(s13, 40, 8, h.first_usable_lba) /\ Around(s13, s6, 40, 92)
  BY <1>7, <1>20
<1>22. Holds(s13, 32, 8, h.alt_lba) /\ Around(s13, s5, 32, 92)
  BY <1>6, <1>21
<1>23. Holds(s13, 24, 8, h.my_lba) /\ Around(s13, s4, 24, 92)
  BY <1>5, <1>22
<1>24. Holds(s13, 20, 4, 0) /\ Around(s13, s3, 20, 92)
  BY <1>4, <1>23
<1>25. Holds(s13, 16, 4, h.hdr_crc32) /\ Around(s13, s2, 16, 92)
  BY <1>3, <1>24
<1>26. Holds(s13, 12, 4, h.hdr_sz) /\ Around(s13, s1, 12, 92)
  BY <1>2, <1>25
<1>27. Holds(s13, 8, 4, h.rev) /\ Around(s13, s0, 8, 92)
  BY <1>1, <1>26
<1>28. /\ \A b \in SigArea : s13[b] = GptSig[b]
      /\ \A b \in 92 .. 95 : s13[b] = old[b]
  <2>1. \A b \in 0 .. 95 : b < 8 \/ 92 <= b => s13[b] = s0[b]
    BY <1>0, <1>27 DEF Around, Buffer
  <2> QED
    BY <1>0, <2>1 DEF SigArea
<1>29. HdrHeld(s13, h)
  BY <1>15, <1>16, <1>17, <1>18, <1>19, <1>20, <1>21, <1>22, <1>23, <1>24, <1>25, <1>26, <1>27, <1>28 DEF HdrHeld
<1> QED
  BY <1>w, <1>f, <1>13, <1>28, <1>29

LEMMA ByteIs == ASSUME NEW v \in Pu(1) PROVE ByteOf(v, 0) = v
<1>1. v \in 0 .. Byte - 1
  <2>1. v \in 0 .. Power[1] - 1 /\ Power[1] = Byte
    BY OneByte DEF Pu
  <2> QED
    BY <2>1
<1>2. Byte \in Nat \ {0} /\ v \in Nat /\ v \in Int
  BY <1>1, ByteAssumption
<1>3. v % Byte = v
  BY <1>1, <1>2, Wraps
<1>4. v \div 1 = v
  BY <1>2
<1> QED
  BY <1>3, <1>4, Powers DEF ByteOf

LEMMA GuidRead ==
  ASSUME NEW buf, NEW off \in Nat, NEW guid \in Guid, GuidHeld(buf, off, guid)
  PROVE  guid_read(buf, off) = guid
<1>1. /\ guid.time_lo \in Pu(4) /\ guid.time_mid \in Pu(2) /\ guid.time_hi_ver \in Pu(2)
      /\ guid.cl_seq_hi_res \in Pu(1) /\ guid.cl_seq_lo \in Pu(1)
      /\ guid.nodes \in [0 .. 5 -> Pu(1)]
      /\ guid = [time_lo |-> guid.time_lo, time_mid |-> guid.time_mid,
                 time_hi_ver |-> guid.time_hi_ver, cl_seq_hi_res |-> guid.cl_seq_hi_res,
                 cl_seq_lo |-> guid.cl_seq_lo, nodes |-> guid.nodes]
  BY DEF Guid
<1>2. off + 4 \in Nat /\ off + 6 \in Nat /\ 4 \in Nat /\ 2 \in Nat
  OBVIOUS
<1>3. read_pu(buf, off, 4) = guid.time_lo
  BY <1>1, <1>2, FieldRead DEF GuidHeld
<1>4. read_pu(buf, off + 4, 2) = guid.time_mid
  BY <1>1, <1>2, FieldRead DEF GuidHeld
<1>5. read_pu(buf, off + 6, 2) = guid.time_hi_ver
  BY <1>1, <1>2, FieldRead DEF GuidHeld
<1>6. buf[off + 8] = guid.cl_seq_hi_res /\ buf[off + 9] = guid.cl_seq_lo
  <2>1. buf[(off + 8) + 0] = ByteOf(guid.cl_seq_hi_res, 0)
        /\ buf[(off + 9) + 0] = ByteOf(guid.cl_seq_lo, 0)
    <3>1. 0 \in 0 .. 1 - 1
      OBVIOUS
    <3> QED
      BY <3>1 DEF GuidHeld, Holds
  <2>2. (off + 8) + 0 = off + 8 /\ (off + 9) + 0 = off + 9
    OBVIOUS
  <2> QED
    BY <1>1, <2>1, <2>2, ByteIs
<1>7. [i \in 0 .. 5 |-> buf[off + 10 + i]] = guid.nodes
  BY <1>1 DEF GuidHeld
<1> QED
  BY <1>1, <1>3, <1>4, <1>5, <1>6, <1>7 DEF guid_read

LEMMA HdrRead ==
  ASSUME NEW buf, NEW h \in GptHdr, HdrHeld(buf, h)
  PROVE  gpt_hdr_read(buf) = h
<1>1. /\ h.rev \in Pu(4) /\ h.hdr_sz \in Pu(4) /\ h.hdr_crc32 \in Pu(4)
      /\ h.my_lba \in Pu(8) /\ h.alt_lba \in Pu(8) /\ h.first_usable_lba \in Pu(8)
      /\ h.last_usable_lba \in Pu(8) /\ h.disk_guid \in Guid
      /\ h.part_table_lba \in Pu(8) /\ h.part_table_entry_cnt \in Pu(4)
      /\ h.part_entry_sz \in Pu(4) /\ h.part_table_crc32 \in Pu(4)
      /\ h = [rev |-> h.rev, hdr_sz |-> h.hdr_sz, hdr_crc32 |-> h.hdr_crc32,
              my_lba |-> h.my_lba, alt_lba |-> h.alt_lba,
              first_usable_lba |-> h.first_usable_lba,
              last_usable_lba |-> h.last_usable_lba, disk_guid |-> h.disk_guid,
              part_table_lba |-> h.part_table_lba,
              part_table_entry_cnt |-> h.part_table_entry_cnt,
              part_entry_sz |-> h.part_entry_sz, part_table_crc32 |-> h.part_table_crc32]
  BY DEF GptHdr
<1>2. /\ Holds(buf, 8, 4, h.rev) /\ Holds(buf, 12, 4, h.hdr_sz) /\ Holds(buf, 16, 4, h.hdr_crc32)
      /\ Holds(buf, 24, 8, h.my_lba) /\ Holds(buf, 32, 8, h.alt_lba)
      /\ Holds(buf, 40, 8, h.first_usable_lba) /\ Holds(buf, 48, 8, h.last_usable_lba)
      /\ Holds(buf, 72, 8, h.part_table_lba) /\ Holds(buf, 80, 4, h.part_table_entry_cnt)
      /\ Holds(buf, 84, 4, h.part_entry_sz) /\ Holds(buf, 88, 4, h.part_table_crc32)
      /\ GuidHeld(buf, 56, h.disk_guid)
  BY DEF HdrHeld
<1>3. /\ \A off \in Nat : \A v \in Pu(4) : Holds(buf, off, 4, v) => read_pu(buf, off, 4) = v
      /\ \A off \in Nat : \A v \in Pu(8) : Holds(buf, off, 8, v) => read_pu(buf, off, 8) = v
  BY FieldRead
<1>4. /\ read_pu(buf, 8, 4) = h.rev /\ read_pu(buf, 12, 4) = h.hdr_sz
      /\ read_pu(buf, 16, 4) = h.hdr_crc32 /\ read_pu(buf, 80, 4) = h.part_table_entry_cnt
  BY <1>1, <1>2, <1>3
<1>5. read_pu(buf, 84, 4) = h.part_entry_sz /\ read_pu(buf, 88, 4) = h.part_table_crc32
  BY <1>1, <1>2, <1>3
<1>6. read_pu(buf, 24, 8) = h.my_lba /\ read_pu(buf, 32, 8) = h.alt_lba
  BY <1>1, <1>2, <1>3
<1>7. read_pu(buf, 40, 8) = h.first_usable_lba /\ read_pu(buf, 48, 8) = h.last_usable_lba
  BY <1>1, <1>2, <1>3
<1>8. read_pu(buf, 72, 8) = h.part_table_lba
  BY <1>1, <1>2, <1>3
<1>9. guid_read(buf, 56) = h.disk_guid
  BY <1>1, <1>2, GuidRead
<1> QED
  BY <1>1, <1>4, <1>5, <1>6, <1>7, <1>8, <1>9 DEF gpt_hdr_read

\* What is left of a header that was erased is the header.
LEMMA HdrErased ==
  ASSUME NEW old, Buffer(old, 0, 95), NEW h \in GptHdr
  PROVE  LET buf    == gpt_hdr_write(old, h)
             erased == gpt_hdr_erase_sig(buf)
         IN  /\ gpt_is_present(buf) /\ ~gpt_is_present(erased)
             /\ gpt_hdr_read(WithSig(erased)) = h
             /\ \A b \in DOMAIN buf \ HdrArea : erased[b] = old[b]
<1> DEFINE buf    == gpt_hdr_write(old, h)
           erased == gpt_hdr_erase_sig(buf)
<1>1. /\ Buffer(buf, 0, 95) /\ HdrHeld(buf, h)
      /\ \A b \in 92 .. 95 : buf[b] = old[b]
      /\ buf = [b \in DOMAIN buf |-> buf[b]]
  BY HdrWritten
<1> HIDE DEF buf
<1>2. erased = [b \in DOMAIN buf |-> IF b \in SigArea THEN 0 ELSE buf[b]]
  BY DEF gpt_hdr_erase_sig
<1> HIDE DEF erased
<1>3. gpt_is_present(buf)
  BY <1>1 DEF HdrHeld, gpt_is_present
<1>4. ~gpt_is_present(erased)
  <2>1. 0 \in SigArea /\ 0 \in DOMAIN buf
    BY <1>1 DEF SigArea, Buffer
  <2>2. erased[0] = 0 /\ GptSig[0] \in 1 .. Byte - 1
    BY <1>2, <2>1, SigAssumption
  <2> QED
    BY <2>1, <2>2, ByteAssumption DEF gpt_is_present
<1>5. WithSig(erased) = buf
  <2>1. WithSig(erased) = [b \in DOMAIN buf |-> IF b \in SigArea THEN GptSig[b] ELSE erased[b]]
    BY <1>2 DEF WithSig
  <2>2. \A b \in DOMAIN buf : (IF b \in SigArea THEN GptSig[b] ELSE erased[b]) = buf[b]
    BY <1>1, <1>2 DEF HdrHeld
  <2> QED
    BY <1>1, <2>1, <2>2
<1>6. gpt_hdr_read(WithSig(erased)) = h
  BY <1>1, <1>5, HdrRead
<1>7. \A b \in DOMAIN buf \ HdrArea : erased[b] = old[b]
  BY <1>1, <1>2 DEF Buffer, HdrArea, SigArea
<1> QED
  BY <1>3, <1>4, <1>6, <1>7 DEF buf, erased

-----------------------------------------------------------------------------
(* What a checksum is computed from.                                       *)

\* The bytes of a sequence that a field fills.
Feeds(s, off, width, v) == \A k \in 0 .. width - 1 : s[off + k + 1] = ByteOf(v, k)

Begins(final, s, n) == \A i \in 1 .. n : final[i] = s[i]

\* What follows the first n elements of final is u.
Follows(final, n, u, m) == \A i \in 1 .. m : final[n + i] = u[i]

Stream(s, n) == s \in Seq(Nat) /\ Len(s) = n

LEMMA ByteNat == \A v, k \in Nat : ByteOf(v, k) \in Nat
<1> SUFFICES ASSUME NEW v \in Nat, NEW k \in Nat PROVE ByteOf(v, k) \in Nat
  OBVIOUS
<1>1. ByteOf(v, k) \in 0 .. Byte - 1
  BY Bytes
<1> QED
  BY <1>1, ByteAssumption

LEMMA Streams == ASSUME NEW n \in Nat, NEW u \in [1 .. n -> Nat] PROVE Stream(u, n)
<1>1. u \in Seq(Nat)
  BY SeqDef
<1>2. Len(u) \in Nat /\ DOMAIN u = 1 .. Len(u)
  BY <1>1, LenProperties
<1>3. DOMAIN u = 1 .. n
  OBVIOUS
<1> DEFINE l == Len(u)
<1> HIDE DEF l
<1>4. 1 .. l = 1 .. n /\ l \in Nat
  BY <1>2, <1>3 DEF l
<1>5. l <= n
  <2>1. l \in 1 .. l \/ l = 0
    BY <1>4
  <2> QED
    BY <1>4, <2>1
<1>6. n <= l
  <2>1. n \in 1 .. n \/ n = 0
    OBVIOUS
  <2> QED
    BY <1>4, <2>1
<1> QED
  BY <1>1, <1>4, <1>5, <1>6 DEF Stream, l

\* t is s with u behind it.
Appends(t, s, n, u, m) ==
  /\ Stream(t, n + m)
  /\ \A final : Begins(final, t, n + m) => Begins(final, s, n) /\ Follows(final, n, u, m)

LEMMA StreamEnds ==
  ASSUME NEW n \in Nat, NEW s, Stream(s, n), NEW m \in Nat, NEW u, Stream(u, m)
  PROVE  Appends(s \o u, s, n, u, m)
<1> DEFINE t == s \o u
<1>1. /\ t \in Seq(Nat) /\ Len(t) = n + m
      /\ \A i \in 1 .. n : t[i] = s[i]
      /\ \A i \in 1 .. m : t[n + i] = u[i]
  <2>1. s \in Seq(Nat) /\ u \in Seq(Nat) /\ Len(s) = n /\ Len(u) = m
    BY DEF Stream
  <2>2. /\ t \in Seq(Nat) /\ Len(t) = Len(s) + Len(u)
        /\ \A i \in 1 .. Len(s) + Len(u) :
             t[i] = IF i <= Len(s) THEN s[i] ELSE u[i - Len(s)]
    BY <2>1, ConcatProperties
  <2> HIDE DEF t
  <2>3. \A i \in 1 .. n : i \in 1 .. n + m /\ i <= n
    OBVIOUS
  <2>4. \A i \in 1 .. m : n + i \in 1 .. n + m /\ ~(n + i <= n) /\ (n + i) - n = i
    OBVIOUS
  <2> QED
    BY <2>1, <2>2, <2>3, <2>4
<1> HIDE DEF t
<1>2. ASSUME NEW final, Begins(final, t, n + m)
      PROVE  Begins(final, s, n) /\ Follows(final, n, u, m)
  <2>1. ASSUME NEW i \in 1 .. n PROVE final[i] = s[i]
    <3>1. i \in 1 .. n + m
      OBVIOUS
    <3> QED
      BY <1>1, <1>2, <3>1 DEF Begins
  <2>2. ASSUME NEW i \in 1 .. m PROVE final[n + i] = u[i]
    <3>1. n + i \in 1 .. n + m
      OBVIOUS
    <3> QED
      BY <1>1, <1>2, <3>1 DEF Begins
  <2> QED
    BY <2>1, <2>2 DEF Begins, Follows
<1>3. Stream(t, n + m)
  BY <1>1 DEF Stream
<1> QED
  BY <1>2, <1>3 DEF t, Appends

\* t is s with a field behind it.
AppendsField(t, s, n, width, v) ==
  /\ Stream(t, n + width)
  /\ \A final : Begins(final, t, n + width) => Begins(final, s, n) /\ Feeds(final, n, width, v)

LEMMA FieldFed ==
  ASSUME NEW n \in Nat, NEW s, Stream(s, n), NEW width \in Nat, NEW v \in Nat
  PROVE  AppendsField(s \o CrcBytes(width, v), s, n, width, v)
<1> DEFINE u == CrcBytes(width, v)
<1>1. u = [k \in 1 .. width |-> ByteOf(v, k - 1)]
  BY DEF CrcBytes
<1> HIDE DEF u
<1>2. Stream(u, width)
  <2>1. ASSUME NEW k \in 1 .. width PROVE ByteOf(v, k - 1) \in Nat
    <3>1. k - 1 \in Nat
      OBVIOUS
    <3> QED
      BY <3>1, ByteNat
  <2>2. u \in [1 .. width -> Nat]
    BY <1>1, <2>1
  <2> QED
    BY <2>2, Streams
<1>3. ASSUME NEW final, Begins(final, s \o u, n + width)
      PROVE  Begins(final, s, n) /\ Feeds(final, n, width, v)
  <2>1. Begins(final, s, n) /\ Follows(final, n, u, width)
    BY <1>2, <1>3, StreamEnds DEF Appends
  <2>2. ASSUME NEW k \in 0 .. width - 1 PROVE final[n + k + 1] = ByteOf(v, k)
    <3>1. k + 1 \in 1 .. width /\ n + (k + 1) = n + k + 1 /\ (k + 1) - 1 = k
      OBVIOUS
    <3>2. final[n + (k + 1)] = u[k + 1] /\ u[k + 1] = ByteOf(v, (k + 1) - 1)
      BY <1>1, <2>1, <3>1 DEF Follows
    <3> QED
      BY <3>1, <3>2
  <2> QED
    BY <2>1, <2>2 DEF Feeds
<1> QED
  BY <1>2, <1>3, StreamEnds DEF u, Appends, AppendsField

LEMMA GuidFed ==
  ASSUME NEW guid \in Guid
  PROVE  LET s == guid_crc(guid)
         IN  /\ Stream(s, 16)
             /\ Feeds(s, 0, 4, guid.time_lo)
             /\ Feeds(s, 4, 2, guid.time_mid)
             /\ Feeds(s, 6, 2, guid.time_hi_ver)
             /\ Feeds(s, 8, 1, guid.cl_seq_hi_res)
             /\ Feeds(s, 9, 1, guid.cl_seq_lo)
             /\ \A i \in 0 .. 5 : s[10 + i + 1] = guid.nodes[i]
<1> DEFINE
           c0 == CrcBytes(4, guid.time_lo)
           c1 == c0 \o CrcBytes(2, guid.time_mid)
           c2 == c1 \o CrcBytes(2, guid.time_hi_ver)
           c3 == c2 \o CrcBytes(1, guid.cl_seq_hi_res)
           c4 == c3 \o CrcBytes(1, guid.cl_seq_lo)
           u  == [i \in 1 .. 6 |-> guid.nodes[i - 1]]
           s  == guid_crc(guid)
<1>g. /\ guid.time_lo \in Nat /\ guid.time_mid \in Nat /\ guid.time_hi_ver \in Nat
      /\ guid.cl_seq_hi_res \in Nat /\ guid.cl_seq_lo \in Nat
      /\ \A i \in 0 .. 5 : guid.nodes[i] \in Nat
  <2>1. Pu(4) \subseteq Nat /\ Pu(2) \subseteq Nat /\ Pu(1) \subseteq Nat
    BY DEF Pu
  <2>2. /\ guid.time_lo \in Pu(4) /\ guid.time_mid \in Pu(2) /\ guid.time_hi_ver \in Pu(2)
        /\ guid.cl_seq_hi_res \in Pu(1) /\ guid.cl_seq_lo \in Pu(1)
        /\ guid.nodes \in [0 .. 5 -> Pu(1)]
    BY DEF Guid
  <2> QED
    BY <2>1, <2>2
<1>s. s = c4 \o u
  BY DEF guid_crc
<1> HIDE DEF s
<1>0. Stream(c0, 4) /\ \A final : Begins(final, c0, 4) => Feeds(final, 0, 4, guid.time_lo)
  <2>1. 0 \in Nat /\ 4 \in Nat /\ 0 + 4 = 4 /\ <<>> \in [1 .. 0 -> Nat]
    OBVIOUS
  <2>2. Stream(<<>>, 0)
    BY <2>1, Streams
  <2>3. AppendsField(<<>> \o CrcBytes(4, guid.time_lo), <<>>, 0, 4, guid.time_lo)
    BY ONLY <1>g, <2>1, <2>2, FieldFed
  <2>4. <<>> \o c0 = c0
    <3>1. c0 \in [1 .. 4 -> Nat]
      <4> SUFFICES ASSUME NEW k \in 1 .. 4 PROVE ByteOf(guid.time_lo, k - 1) \in Nat
        BY DEF CrcBytes
      <4>1. k - 1 \in Nat
        OBVIOUS
      <4> QED
        BY <1>g, <4>1, ByteNat
    <3>2. c0 \in Seq(Nat)
      <4> HIDE DEF c0
      <4>1. Stream(c0, 4)
        BY <2>1, <3>1, Streams
      <4> QED
        BY <4>1 DEF Stream
    <3> HIDE DEF c0
    <3> QED
      BY <3>2, ConcatEmptySeq
  <2> QED
    BY <2>1, <2>3, <2>4 DEF AppendsField
<1> HIDE DEF c0
<1>1. /\ Stream(c1, 6)
      /\ \A final : Begins(final, c1, 6) =>
           Begins(final, c0, 4) /\ Feeds(final, 4, 2, guid.time_mid)
  <2>1. 4 + 2 = 6 /\ 4 \in Nat /\ 2 \in Nat
    OBVIOUS
  <2>2. Stream(c0, 4)
    BY <1>0
  <2>3. AppendsField(c0 \o CrcBytes(2, guid.time_mid), c0, 4, 2, guid.time_mid)
    BY ONLY <1>g, <2>1, <2>2, FieldFed
  <2> QED
    BY <2>1, <2>3 DEF AppendsField
<1> HIDE DEF c1
<1>2. /\ Stream(c2, 8)
      /\ \A final : Begins(final, c2, 8) =>
           Begins(final, c1, 6) /\ Feeds(final, 6, 2, guid.time_hi_ver)
  <2>1. 6 + 2 = 8 /\ 6 \in Nat /\ 2 \in Nat
    OBVIOUS
  <2>2. Stream(c1, 6)
    BY <1>1
  <2>3. AppendsField(c1 \o CrcBytes(2, guid.time_hi_ver), c1, 6, 2, guid.time_hi_ver)
    BY ONLY <1>g, <2>1, <2>2, FieldFed
  <2> QED
    BY <2>1, <2>3 DEF AppendsField
<1> HIDE DEF c2
<1>3. /\ Stream(c3, 9)
      /\ \A final : Begins(final, c3, 9) =>
           Begins(final, c2, 8) /\ Feeds(final, 8, 1, guid.cl_seq_hi_res)
  <2>1. 8 + 1 = 9 /\ 8 \in Nat /\ 1 \in Nat
    OBVIOUS
  <2>2. Stream(c2, 8)
    BY <1>2
  <2>3. AppendsField(c2 \o CrcBytes(1, guid.cl_seq_hi_res), c2, 8, 1, guid.cl_seq_hi_res)
    BY ONLY <1>g, <2>1, <2>2, FieldFed
  <2> QED
    BY <2>1, <2>3 DEF AppendsField
<1> HIDE DEF c3
<1>4. /\ Stream(c4, 10)
      /\ \A final : Begins(final, c4, 10) =>
           Begins(final, c3, 9) /\ Feeds(final, 9, 1, guid.cl_seq_lo)
  <2>1. 9 + 1 = 10 /\ 9 \in Nat /\ 1 \in Nat
    OBVIOUS
  <2>2. Stream(c3, 9)
    BY <1>3
  <2>3. AppendsField(c3 \o CrcBytes(1, guid.cl_seq_lo), c3, 9, 1, guid.cl_seq_lo)
    BY ONLY <1>g, <2>1, <2>2, FieldFed
  <2> QED
    BY <2>1, <2>3 DEF AppendsField
<1> HIDE DEF c4
<1>5. Stream(u, 6)
  <2>1. \A i \in 1 .. 6 : i - 1 \in 0 .. 5 /\ guid.nodes[i - 1] \in Nat
    BY <1>g
  <2>2. u \in [1 .. 6 -> Nat]
    BY <2>1
  <2> HIDE DEF u
  <2>3. 6 \in Nat
    OBVIOUS
  <2> QED
    BY <2>2, <2>3, Streams
<1>6. \A i \in 0 .. 5 : i + 1 \in 1 .. 6 /\ u[i + 1] = guid.nodes[i] /\ 10 + (i + 1) = 10 + i + 1
  OBVIOUS
<1> HIDE DEF u
<1>7. /\ Stream(s, 16)
      /\ Begins(s, s, 16) => Begins(s, c4, 10) /\ Follows(s, 10, u, 6)
  <2>1. 10 + 6 = 16 /\ 10 \in Nat /\ 6 \in Nat /\ Stream(c4, 10)
    BY <1>4
  <2> HIDE DEF c4
  <2>2. Appends(c4 \o u, c4, 10, u, 6)
    BY ONLY <1>5, <2>1, StreamEnds
  <2> QED
    BY <1>s, <2>1, <2>2 DEF Appends
<1>8. Begins(s, c4, 10) /\ Follows(s, 10, u, 6)
  BY <1>7 DEF Begins
<1>9. Begins(s, c3, 9) /\ Feeds(s, 9, 1, guid.cl_seq_lo)
  BY <1>4, <1>8
<1>10. Begins(s, c2, 8) /\ Feeds(s, 8, 1, guid.cl_seq_hi_res)
  BY <1>3, <1>9
<1>11. Begins(s, c1, 6) /\ Feeds(s, 6, 2, guid.time_hi_ver)
  BY <1>2, <1>10
<1>12. Begins(s, c0, 4) /\ Feeds(s, 4, 2, guid.time_mid)
  BY <1>1, <1>11
<1>13. Feeds(s, 0, 4, guid.time_lo)
  BY <1>0, <1>12
<1>14. \A i \in 0 .. 5 : s[10 + i + 1] = guid.nodes[i]
  BY <1>6, <1>8 DEF Follows
<1> QED
  BY <1>7, <1>9, <1>10, <1>11, <1>12, <1>13, <1>14 DEF s

\* All fields of a header are what its checksum is computed from.
HdrFed(s, h) ==
  /\ \A b \in SigArea : s[b + 1] = GptSig[b]
  /\ Feeds(s, 8, 4, h.rev)
  /\ Feeds(s, 12, 4, h.hdr_sz)
  /\ Feeds(s, 16, 4, 0)
  /\ Feeds(s, 20, 4, 0)
  /\ Feeds(s, 24, 8, h.my_lba)
  /\ Feeds(s, 32, 8, h.alt_lba)
  /\ Feeds(s, 40, 8, h.first_usable_lba)
  /\ Feeds(s, 48, 8, h.last_usable_lba)
  /\ Follows(s, 56, guid_crc(h.disk_guid), 16)
  /\ Feeds(s, 72, 8, h.part_table_lba)
  /\ Feeds(s, 80, 4, h.part_table_entry_cnt)
  /\ Feeds(s, 84, 4, h.part_entry_sz)
  /\ Feeds(s, 88, 4, h.part_table_crc32)

LEMMA HdrStreamed ==
  ASSUME NEW h \in GptHdr
  PROVE  LET s == gpt_hdr_crc(h) IN Stream(s, 92) /\ HdrFed(s, h)
<1> DEFINE
           s0 == [i \in 1 .. 8 |-> GptSig[i - 1]]
           s1 == s0 \o CrcBytes(4, h.rev)
           s2 == s1 \o CrcBytes(4, h.hdr_sz)
           s3 == s2 \o CrcBytes(4, 0)
           s4 == s3 \o CrcBytes(4, 0)
           s5 == s4 \o CrcBytes(8, h.my_lba)
           s6 == s5 \o CrcBytes(8, h.alt_lba)
           s7 == s6 \o CrcBytes(8, h.first_usable_lba)
           s8 == s7 \o CrcBytes(8, h.last_usable_lba)
           s9 == s8 \o guid_crc(h.disk_guid)
           s10 == s9 \o CrcBytes(8, h.part_table_lba)
           s11 == s10 \o CrcBytes(4, h.part_table_entry_cnt)
           s12 == s11 \o CrcBytes(4, h.part_entry_sz)
           s13 == s12 \o CrcBytes(4, h.part_table_crc32)
<1>t. Pu(4) \subseteq Nat /\ Pu(8) \subseteq Nat
  BY DEF Pu
<1>g. /\ h.rev \in Nat /\ h.hdr_sz \in Nat /\ h.my_lba \in Nat /\ h.alt_lba \in Nat
      /\ h.first_usable_lba \in Nat /\ h.last_usable_lba \in Nat /\ h.disk_guid \in Guid
      /\ h.part_table_lba \in Nat /\ h.part_table_entry_cnt \in Nat
      /\ h.part_entry_sz \in Nat /\ h.part_table_crc32 \in Nat /\ 0 \in Nat
  <2>1. /\ h.rev \in Pu(4) /\ h.hdr_sz \in Pu(4) /\ h.my_lba \in Pu(8) /\ h.alt_lba \in Pu(8)
        /\ h.first_usable_lba \in Pu(8) /\ h.last_usable_lba \in Pu(8) /\ h.disk_guid \in Guid
        /\ h.part_table_lba \in Pu(8) /\ h.part_table_entry_cnt \in Pu(4)
        /\ h.part_entry_sz \in Pu(4) /\ h.part_table_crc32 \in Pu(4)
    BY DEF GptHdr
  <2> QED
    BY <1>t, <2>1
<1>u. Stream(guid_crc(h.disk_guid), 16)
  BY <1>g, GuidFed
<1>w. gpt_hdr_crc(h) = s13
  BY DEF gpt_hdr_crc
<1>0. Stream(s0, 8) /\ \A b \in SigArea : s0[b + 1] = GptSig[b] /\ b + 1 \in 1 .. 8
  <2>1. \A i \in 1 .. 8 : i - 1 \in SigArea
    BY DEF SigArea
  <2>2. \A b \in SigArea : b + 1 \in 1 .. 8 /\ (b + 1) - 1 = b /\ GptSig[b] \in Nat
    BY SigAssumption, ByteAssumption DEF SigArea
  <2>3. s0 \in [1 .. 8 -> Nat]
    BY <2>1, <2>2
  <2>4. 8 \in Nat
    OBVIOUS
  <2>5. Stream(s0, 8)
    <3> HIDE DEF s0
    <3> QED
      BY <2>3, <2>4, Streams
  <2> QED
    BY <2>2, <2>5
<1> HIDE DEF s0
<1>1. /\ Stream(s1, 12)
      /\ \A final : Begins(final, s1, 12) =>
           Begins(final, s0, 8) /\ Feeds(final, 8, 4, h.rev)
  <2>1. 8 + 4 = 12 /\ 8 \in Nat /\ 4 \in Nat
    OBVIOUS
  <2>2. Stream(s0, 8)
    BY <1>0
  <2>v. h.rev \in Nat
    BY <1>g
  <2>3. AppendsField(s1, s0, 8, 4, h.rev)
    BY <2>v, <2>1, <2>2, FieldFed
  <2> QED
    BY <2>1, <2>3 DEF AppendsField
<1> HIDE DEF s1
<1>2. /\ Stream(s2, 16)
      /\ \A final : Begins(final, s2, 16) =>
           Begins(final, s1, 12) /\ Feeds(final, 12, 4, h.hdr_sz)
  <2>1. 12 + 4 = 16 /\ 12 \in Nat /\ 4 \in Nat
    OBVIOUS
  <2>2. Stream(s1, 12)
    BY <1>1
  <2>v. h.hdr_sz \in Nat
    BY <1>g
  <2>3. AppendsField(s2, s1, 12, 4, h.hdr_sz)
    BY <2>v, <2>1, <2>2, FieldFed
  <2> QED
    BY <2>1, <2>3 DEF AppendsField
<1> HIDE DEF s2
<1>3. /\ Stream(s3, 20)
      /\ \A final : Begins(final, s3, 20) =>
           Begins(final, s2, 16) /\ Feeds(final, 16, 4, 0)
  <2>1. 16 + 4 = 20 /\ 16 \in Nat /\ 4 \in Nat
    OBVIOUS
  <2>2. Stream(s2, 16)
    BY <1>2
  <2>v. 0 \in Nat
    BY <1>g
  <2>3. AppendsField(s3, s2, 16, 4, 0)
    BY <2>v, <2>1, <2>2, FieldFed
  <2> QED
    BY <2>1, <2>3 DEF AppendsField
<1> HIDE DEF s3
<1>4. /\ Stream(s4, 24)
      /\ \A final : Begins(final, s4, 24) =>
           Begins(final, s3, 20) /\ Feeds(final, 20, 4, 0)
  <2>1. 20 + 4 = 24 /\ 20 \in Nat /\ 4 \in Nat
    OBVIOUS
  <2>2. Stream(s3, 20)
    BY <1>3
  <2>v. 0 \in Nat
    BY <1>g
  <2>3. AppendsField(s4, s3, 20, 4, 0)
    BY <2>v, <2>1, <2>2, FieldFed
  <2> QED
    BY <2>1, <2>3 DEF AppendsField
<1> HIDE DEF s4
<1>5. /\ Stream(s5, 32)
      /\ \A final : Begins(final, s5, 32) =>
           Begins(final, s4, 24) /\ Feeds(final, 24, 8, h.my_lba)
  <2>1. 24 + 8 = 32 /\ 24 \in Nat /\ 8 \in Nat
    OBVIOUS
  <2>2. Stream(s4, 24)
    BY <1>4
  <2>v. h.my_lba \in Nat
    BY <1>g
  <2>3. AppendsField(s5, s4, 24, 8, h.my_lba)
    BY <2>v, <2>1, <2>2, FieldFed
  <2> QED
    BY <2>1, <2>3 DEF AppendsField
<1> HIDE DEF s5
<1>6. /\ Stream(s6, 40)
      /\ \A final : Begins(final, s6, 40) =>
           Begins(final, s5, 32) /\ Feeds(final, 32, 8, h.alt_lba)
  <2>1. 32 + 8 = 40 /\ 32 \in Nat /\ 8 \in Nat
    OBVIOUS
  <2>2. Stream(s5, 32)
    BY <1>5
  <2>v. h.alt_lba \in Nat
    BY <1>g
  <2>3. AppendsField(s6, s5, 32, 8, h.alt_lba)
    BY <2>v, <2>1, <2>2, FieldFed
  <2> QED
    BY <2>1, <2>3 DEF AppendsField
<1> HIDE DEF s6
<1>7. /\ Stream(s7, 48)
      /\ \A final : Begins(final, s7, 48) =>
           Begins(final, s6, 40) /\ Feeds(final, 40, 8, h.first_usable_lba)
  <2>1. 40 + 8 = 48 /\ 40 \in Nat /\ 8 \in Nat
    OBVIOUS
  <2>2. Stream(s6, 40)
    BY <1>6
  <2>v. h.first_usable_lba \in Nat
    BY <1>g
  <2>3. AppendsField(s7, s6, 40, 8, h.first_usable_lba)
    BY <2>v, <2>1, <2>2, FieldFed
  <2> QED
    BY <2>1, <2>3 DEF AppendsField
<1> HIDE DEF s7
<1>8. /\ Stream(s8, 56)
      /\ \A final : Begins(final, s8, 56) =>
           Begins(final, s7, 48) /\ Feeds(final, 48, 8, h.last_usable_lba)
  <2>1. 48 + 8 = 56 /\ 48 \in Nat /\ 8 \in Nat
    OBVIOUS
  <2>2. Stream(s7, 48)
    BY <1>7
  <2>v. h.last_usable_lba \in Nat
    BY <1>g
  <2>3. AppendsField(s8, s7, 48, 8, h.last_usable_lba)
    BY <2>v, <2>1, <2>2, FieldFed
  <2> QED
    BY <2>1, <2>3 DEF AppendsField
<1> HIDE DEF s8
<1>9. /\ Stream(s9, 72)
      /\ \A final : Begins(final, s9, 72) =>
           Begins(final, s8, 56) /\ Follows(final, 56, guid_crc(h.disk_guid), 16)
  <2>1. 56 + 16 = 72 /\ 56 \in Nat /\ 16 \in Nat
    OBVIOUS
  <2>2. Stream(s8, 56)
    BY <1>8
  <2>3. Appends(s9, s8, 56, guid_crc(h.disk_guid), 16)
    BY <1>u, <2>1, <2>2, StreamEnds
  <2> QED
    BY <2>1, <2>3 DEF Appends
<1> HIDE DEF s9
<1>10. /\ Stream(s10, 80)
      /\ \A final : Begins(final, s10, 80) =>
           Begins(final, s9, 72) /\ Feeds(final, 72, 8, h.part_table_lba)
  <2>1. 72 + 8 = 80 /\ 72 \in Nat /\ 8 \in Nat
    OBVIOUS
  <2>2. Stream(s9, 72)
    BY <1>9
  <2>v. h.part_table_lba \in Nat
    BY <1>g
  <2>3. AppendsField(s10, s9, 72, 8, h.part_table_lba)
    BY <2>v, <2>1, <2>2, FieldFed
  <2> QED
    BY <2>1, <2>3 DEF AppendsField
<1> HIDE DEF s10
<1>11. /\ Stream(s11, 84)
      /\ \A final : Begins(final, s11, 84) =>
           Begins(final, s10, 80) /\ Feeds(final, 80, 4, h.part_table_entry_cnt)
  <2>1. 80 + 4 = 84 /\ 80 \in Nat /\ 4 \in Nat
    OBVIOUS
  <2>2. Stream(s10, 80)
    BY <1>10
  <2>v. h.part_table_entry_cnt \in Nat
    BY <1>g
  <2>3. AppendsField(s11, s10, 80, 4, h.part_table_entry_cnt)
    BY <2>v, <2>1, <2>2, FieldFed
  <2> QED
    BY <2>1, <2>3 DEF AppendsField
<1> HIDE DEF s11
<1>12. /\ Stream(s12, 88)
      /\ \A final : Begins(final, s12, 88) =>
           Begins(final, s11, 84) /\ Feeds(final, 84, 4, h.part_entry_sz)
  <2>1. 84 + 4 = 88 /\ 84 \in Nat /\ 4 \in Nat
    OBVIOUS
  <2>2. Stream(s11, 84)
    BY <1>11
  <2>v. h.part_entry_sz \in Nat
    BY <1>g
  <2>3. AppendsField(s12, s11, 84, 4, h.part_entry_sz)
    BY <2>v, <2>1, <2>2, FieldFed
  <2> QED
    BY <2>1, <2>3 DEF AppendsField
<1> HIDE DEF s12
<1>13. /\ Stream(s13, 92)
      /\ \A final : Begins(final, s13, 92) =>
           Begins(final, s12, 88) /\ Feeds(final, 88, 4, h.part_table_crc32)
  <2>1. 88 + 4 = 92 /\ 88 \in Nat /\ 4 \in Nat
    OBVIOUS
  <2>2. Stream(s12, 88)
    BY <1>12
  <2>v. h.part_table_crc32 \in Nat
    BY <1>g
  <2>3. AppendsField(s13, s12, 88, 4, h.part_table_crc32)
    BY <2>v, <2>1, <2>2, FieldFed
  <2> QED
    BY <2>1, <2>3 DEF AppendsField
<1> HIDE DEF s13
<1>14. Begins(s13, s13, 92)
  BY DEF Begins
<1>15. Begins(s13, s12, 88) /\ Feeds(s13, 88, 4, h.part_table_crc32)
  BY <1>13, <1>14
<1>16. Begins(s13, s11, 84) /\ Feeds(s13, 84, 4, h.part_entry_sz)
  BY <1>12, <1>15
<1>17. Begins(s13, s10, 80) /\ Feeds(s13, 80, 4, h.part_table_entry_cnt)
  BY <1>11, <1>16
<1>18. Begins(s13, s9, 72) /\ Feeds(s13, 72, 8, h.part_table_lba)
  BY <1>10, <1>17
<1>19. Begins(s13, s8, 56) /\ Follows(s13, 56, guid_crc(h.disk_guid), 16)
  BY <1>9, <1>18
<1>20. Begins(s13, s7, 48) /\ Feeds(s13, 48, 8, h.last_usable_lba)
  BY <1>8, <1>19
<1>21. Begins(s13, s6, 40) /\ Feeds(s13, 40, 8, h.first_usable_lba)
  BY <1>7, <1>20
<1>22. Begins(s13, s5, 32) /\ Feeds(s13, 32, 8, h.alt_lba)
  BY <1>6, <1>21
<1>23. Begins(s13, s4, 24) /\ Feeds(s13, 24, 8, h.my_lba)
  BY <1>5, <1>22
<1>24. Begins(s13, s3, 20) /\ Feeds(s13, 20, 4, 0)
  BY <1>4, <1>23
<1>25. Begins(s13, s2, 16) /\ Feeds(s13, 16, 4, 0)
  BY <1>3, <1>24
<1>26. Begins(s13, s1, 12) /\ Feeds(s13, 12, 4, h.hdr_sz)
  BY <1>2, <1>25
<1>27. Begins(s13, s0, 8) /\ Feeds(s13, 8, 4, h.rev)
  BY <1>1, <1>26
<1>28. \A b \in SigArea : s13[b + 1] = GptSig[b]
  BY <1>0, <1>27 DEF Begins
<1>29. HdrFed(s13, h)
  BY <1>15, <1>16, <1>17, <1>18, <1>19, <1>20, <1>21, <1>22, <1>23, <1>24, <1>25, <1>26, <1>27, <1>28 DEF HdrFed
<1> QED
  BY <1>w, <1>13, <1>29

\* From lo to hi, a checksum is computed from the bytes of a buffer.
Same(buf, s, lo, hi) == \A b \in lo .. hi : s[b + 1] = buf[b]

LEMMA FieldSame ==
  ASSUME NEW buf, NEW s, NEW off \in Nat, NEW width \in Nat, NEW v,
         Holds(buf, off, width, v), Feeds(s, off, width, v)
  PROVE  Same(buf, s, off, off + width - 1)
<1> SUFFICES ASSUME NEW b \in off .. off + width - 1 PROVE s[b + 1] = buf[b]
  BY DEF Same
<1> DEFINE k == b - off
<1>1. k \in 0 .. width - 1 /\ off + k = b
  OBVIOUS
<1> HIDE DEF k
<1>2. buf[off + k] = ByteOf(v, k) /\ s[off + k + 1] = ByteOf(v, k)
  BY <1>1 DEF Holds, Feeds
<1> QED
  BY <1>1, <1>2

LEMMA GuidSame ==
  ASSUME NEW buf, NEW s, NEW off \in Nat, NEW guid \in Guid,
         GuidHeld(buf, off, guid), Follows(s, off, guid_crc(guid), 16)
  PROVE  Same(buf, s, off, off + 15)
<1> DEFINE u == guid_crc(guid)
<1>g. /\ Stream(u, 16)
      /\ Feeds(u, 0, 4, guid.time_lo)
      /\ Feeds(u, 4, 2, guid.time_mid)
      /\ Feeds(u, 6, 2, guid.time_hi_ver)
      /\ Feeds(u, 8, 1, guid.cl_seq_hi_res)
      /\ Feeds(u, 9, 1, guid.cl_seq_lo)
      /\ \A i \in 0 .. 5 : u[10 + i + 1] = guid.nodes[i]
  BY GuidFed
<1>s. \A i \in 1 .. 16 : s[off + i] = u[i]
  BY DEF Follows
<1> HIDE DEF u
<1>1. \A b \in off .. off + 3 : s[b + 1] = buf[b]
  <2>1. Holds(buf, off, 4, guid.time_lo)
    BY DEF GuidHeld
  <2>2. ASSUME NEW k \in 0 .. 4 - 1 PROVE s[(off) + k + 1] = ByteOf(guid.time_lo, k)
    <3>1. 0 + k + 1 \in 1 .. 16 /\ off + (0 + k + 1) = (off) + k + 1
      OBVIOUS
    <3>2. s[off + (0 + k + 1)] = u[0 + k + 1] /\ u[0 + k + 1] = ByteOf(guid.time_lo, k)
      BY <1>g, <1>s, <3>1 DEF Feeds
    <3> QED
      BY <3>1, <3>2
  <2>3. Feeds(s, off, 4, guid.time_lo)
    BY <2>2 DEF Feeds
  <2>4. off \in Nat /\ 4 \in Nat /\ (off) + 4 - 1 = off + 3
    OBVIOUS
  <2>5. Same(buf, s, off, (off) + 4 - 1)
    BY <2>1, <2>3, <2>4, FieldSame
  <2> QED
    BY <2>4, <2>5 DEF Same
<1>2. \A b \in off + 4 .. off + 5 : s[b + 1] = buf[b]
  <2>1. Holds(buf, off + 4, 2, guid.time_mid)
    BY DEF GuidHeld
  <2>2. ASSUME NEW k \in 0 .. 2 - 1 PROVE s[(off + 4) + k + 1] = ByteOf(guid.time_mid, k)
    <3>1. 4 + k + 1 \in 1 .. 16 /\ off + (4 + k + 1) = (off + 4) + k + 1
      OBVIOUS
    <3>2. s[off + (4 + k + 1)] = u[4 + k + 1] /\ u[4 + k + 1] = ByteOf(guid.time_mid, k)
      BY <1>g, <1>s, <3>1 DEF Feeds
    <3> QED
      BY <3>1, <3>2
  <2>3. Feeds(s, off + 4, 2, guid.time_mid)
    BY <2>2 DEF Feeds
  <2>4. off + 4 \in Nat /\ 2 \in Nat /\ (off + 4) + 2 - 1 = off + 5
    OBVIOUS
  <2>5. Same(buf, s, off + 4, (off + 4) + 2 - 1)
    BY <2>1, <2>3, <2>4, FieldSame
  <2> QED
    BY <2>4, <2>5 DEF Same
<1>3. \A b \in off + 6 .. off + 7 : s[b + 1] = buf[b]
  <2>1. Holds(buf, off + 6, 2, guid.time_hi_ver)
    BY DEF GuidHeld
  <2>2. ASSUME NEW k \in 0 .. 2 - 1 PROVE s[(off + 6) + k + 1] = ByteOf(guid.time_hi_ver, k)
    <3>1. 6 + k + 1 \in 1 .. 16 /\ off + (6 + k + 1) = (off + 6) + k + 1
      OBVIOUS
    <3>2. s[off + (6 + k + 1)] = u[6 + k + 1] /\ u[6 + k + 1] = ByteOf(guid.time_hi_ver, k)
      BY <1>g, <1>s, <3>1 DEF Feeds
    <3> QED
      BY <3>1, <3>2
  <2>3. Feeds(s, off + 6, 2, guid.time_hi_ver)
    BY <2>2 DEF Feeds
  <2>4. off + 6 \in Nat /\ 2 \in Nat /\ (off + 6) + 2 - 1 = off + 7
    OBVIOUS
  <2>5. Same(buf, s, off + 6, (off + 6) + 2 - 1)
    BY <2>1, <2>3, <2>4, FieldSame
  <2> QED
    BY <2>4, <2>5 DEF Same
<1>4. \A b \in off + 8 .. off + 8 : s[b + 1] = buf[b]
  <2>1. Holds(buf, off + 8, 1, guid.cl_seq_hi_res)
    BY DEF GuidHeld
  <2>2. ASSUME NEW k \in 0 .. 1 - 1 PROVE s[(off + 8) + k + 1] = ByteOf(guid.cl_seq_hi_res, k)
    <3>1. 8 + k + 1 \in 1 .. 16 /\ off + (8 + k + 1) = (off + 8) + k + 1
      OBVIOUS
    <3>2. s[off + (8 + k + 1)] = u[8 + k + 1] /\ u[8 + k + 1] = ByteOf(guid.cl_seq_hi_res, k)
      BY <1>g, <1>s, <3>1 DEF Feeds
    <3> QED
      BY <3>1, <3>2
  <2>3. Feeds(s, off + 8, 1, guid.cl_seq_hi_res)
    BY <2>2 DEF Feeds
  <2>4. off + 8 \in Nat /\ 1 \in Nat /\ (off + 8) + 1 - 1 = off + 8
    OBVIOUS
  <2>5. Same(buf, s, off + 8, (off + 8) + 1 - 1)
    BY <2>1, <2>3, <2>4, FieldSame
  <2> QED
    BY <2>4, <2>5 DEF Same
<1>5. \A b \in off + 9 .. off + 9 : s[b + 1] = buf[b]
  <2>1. Holds(buf, off + 9, 1, guid.cl_seq_lo)
    BY DEF GuidHeld
  <2>2. ASSUME NEW k \in 0 .. 1 - 1 PROVE s[(off + 9) + k + 1] = ByteOf(guid.cl_seq_lo, k)
    <3>1. 9 + k + 1 \in 1 .. 16 /\ off + (9 + k + 1) = (off + 9) + k + 1
      OBVIOUS
    <3>2. s[off + (9 + k + 1)] = u[9 + k + 1] /\ u[9 + k + 1] = ByteOf(guid.cl_seq_lo, k)
      BY <1>g, <1>s, <3>1 DEF Feeds
    <3> QED
      BY <3>1, <3>2
  <2>3. Feeds(s, off + 9, 1, guid.cl_seq_lo)
    BY <2>2 DEF Feeds
  <2>4. off + 9 \in Nat /\ 1 \in Nat /\ (off + 9) + 1 - 1 = off + 9
    OBVIOUS
  <2>5. Same(buf, s, off + 9, (off + 9) + 1 - 1)
    BY <2>1, <2>3, <2>4, FieldSame
  <2> QED
    BY <2>4, <2>5 DEF Same
<1>6. \A b \in off + 10 .. off + 15 : s[b + 1] = buf[b]
  <2> SUFFICES ASSUME NEW b \in off + 10 .. off + 15 PROVE s[b + 1] = buf[b]
    OBVIOUS
  <2> DEFINE i == b - off - 10
  <2>1. i \in 0 .. 5 /\ off + 10 + i = b /\ 10 + i + 1 \in 1 .. 16 /\ off + (10 + i + 1) = b + 1
    OBVIOUS
  <2> HIDE DEF i
  <2>2. buf[off + 10 + i] = guid.nodes[i] /\ u[10 + i + 1] = guid.nodes[i]
        /\ s[off + (10 + i + 1)] = u[10 + i + 1]
    BY <1>g, <1>s, <2>1 DEF GuidHeld
  <2> QED
    BY <2>1, <2>2
<1>7. ASSUME NEW b \in off .. off + 15
      PROVE  \/ b \in off .. off + 3 \/ b \in off + 4 .. off + 5 \/ b \in off + 6 .. off + 7
             \/ b \in off + 8 .. off + 8 \/ b \in off + 9 .. off + 9
             \/ b \in off + 10 .. off + 15
  OBVIOUS
<1> QED
  BY <1>1, <1>2, <1>3, <1>4, <1>5, <1>6, <1>7 DEF Same

\* The code lists the fields once to store them and once to compute the
\* checksum: it lists the same ones, in the same places.
LEMMA HdrSummed ==
  ASSUME NEW buf, NEW s, NEW h \in GptHdr, HdrHeld(buf, h), HdrFed(s, h)
  PROVE  \A b \in HdrArea : s[b + 1] = IF b \in CrcArea THEN 0 ELSE buf[b]
<1>0. \A b \in 0 .. 7 : s[b + 1] = buf[b]
  BY DEF HdrHeld, HdrFed, SigArea
<1>1. \A b \in 8 .. 11 : s[b + 1] = buf[b]
  <2>1. Holds(buf, 8, 4, h.rev) /\ Feeds(s, 8, 4, h.rev)
    BY DEF HdrHeld, HdrFed
  <2>2. 8 \in Nat /\ 4 \in Nat /\ 8 + 4 - 1 = 11
    OBVIOUS
  <2>3. Same(buf, s, 8, 8 + 4 - 1)
    BY <2>1, <2>2, FieldSame
  <2> QED
    BY <2>2, <2>3 DEF Same
<1>2. \A b \in 12 .. 15 : s[b + 1] = buf[b]
  <2>1. Holds(buf, 12, 4, h.hdr_sz) /\ Feeds(s, 12, 4, h.hdr_sz)
    BY DEF HdrHeld, HdrFed
  <2>2. 12 \in Nat /\ 4 \in Nat /\ 12 + 4 - 1 = 15
    OBVIOUS
  <2>3. Same(buf, s, 12, 12 + 4 - 1)
    BY <2>1, <2>2, FieldSame
  <2> QED
    BY <2>2, <2>3 DEF Same
<1>3. \A b \in 16 .. 19 : s[b + 1] = 0
  <2> SUFFICES ASSUME NEW b \in 16 .. 19 PROVE s[b + 1] = 0
    OBVIOUS
  <2> DEFINE k == b - 16
  <2>1. k \in 0 .. 4 - 1 /\ 16 + k + 1 = b + 1 /\ k \in Nat
    OBVIOUS
  <2> HIDE DEF k
  <2>2. s[16 + k + 1] = ByteOf(0, k)
    BY <2>1 DEF HdrFed, Feeds
  <2>3. ByteOf(0, k) = 0
    <3> DEFINE P == Power[k]
    <3>1. P \in Nat \ {0} /\ Byte \in Nat \ {0}
      BY <2>1, Powers, ByteAssumption
    <3> HIDE DEF P
    <3>2. 0 \div P = 0
      <4>1. 0 = P * 0 + 0 /\ 0 \in 0 .. P - 1 /\ 0 \in Nat
        BY <3>1, Z3
      <4> QED
        BY <3>1, <4>1, DivisionUnique
    <3>3. 0 % Byte = 0
      <4>1. 0 \in Int /\ 0 \in 0 .. Byte - 1
        BY <3>1
      <4> QED
        BY <3>1, <4>1, Wraps
    <3> QED
      BY <3>2, <3>3 DEF ByteOf, P
  <2> QED
    BY <2>1, <2>2, <2>3
<1>4. \A b \in 20 .. 23 : s[b + 1] = buf[b]
  <2>1. Holds(buf, 20, 4, 0) /\ Feeds(s, 20, 4, 0)
    BY DEF HdrHeld, HdrFed
  <2>2. 20 \in Nat /\ 4 \in Nat /\ 20 + 4 - 1 = 23
    OBVIOUS
  <2>3. Same(buf, s, 20, 20 + 4 - 1)
    BY <2>1, <2>2, FieldSame
  <2> QED
    BY <2>2, <2>3 DEF Same
<1>5. \A b \in 24 .. 31 : s[b + 1] = buf[b]
  <2>1. Holds(buf, 24, 8, h.my_lba) /\ Feeds(s, 24, 8, h.my_lba)
    BY DEF HdrHeld, HdrFed
  <2>2. 24 \in Nat /\ 8 \in Nat /\ 24 + 8 - 1 = 31
    OBVIOUS
  <2>3. Same(buf, s, 24, 24 + 8 - 1)
    BY <2>1, <2>2, FieldSame
  <2> QED
    BY <2>2, <2>3 DEF Same
<1>6. \A b \in 32 .. 39 : s[b + 1] = buf[b]
  <2>1. Holds(buf, 32, 8, h.alt_lba) /\ Feeds(s, 32, 8, h.alt_lba)
    BY DEF HdrHeld, HdrFed
  <2>2. 32 \in Nat /\ 8 \in Nat /\ 32 + 8 - 1 = 39
    OBVIOUS
  <2>3. Same(buf, s, 32, 32 + 8 - 1)
    BY <2>1, <2>2, FieldSame
  <2> QED
    BY <2>2, <2>3 DEF Same
<1>7. \A b \in 40 .. 47 : s[b + 1] = buf[b]
  <2>1. Holds(buf, 40, 8, h.first_usable_lba) /\ Feeds(s, 40, 8, h.first_usable_lba)
    BY DEF HdrHeld, HdrFed
  <2>2. 40 \in Nat /\ 8 \in Nat /\ 40 + 8 - 1 = 47
    OBVIOUS
  <2>3. Same(buf, s, 40, 40 + 8 - 1)
    BY <2>1, <2>2, FieldSame
  <2> QED
    BY <2>2, <2>3 DEF Same
<1>8. \A b \in 48 .. 55 : s[b + 1] = buf[b]
  <2>1. Holds(buf, 48, 8, h.last_usable_lba) /\ Feeds(s, 48, 8, h.last_usable_lba)
    BY DEF HdrHeld, HdrFed
  <2>2. 48 \in Nat /\ 8 \in Nat /\ 48 + 8 - 1 = 55
    OBVIOUS
  <2>3. Same(buf, s, 48, 48 + 8 - 1)
    BY <2>1, <2>2, FieldSame
  <2> QED
    BY <2>2, <2>3 DEF Same
<1>9. \A b \in 56 .. 71 : s[b + 1] = buf[b]
  <2> DEFINE n    == 56
             guid == h.disk_guid
  <2>1. GuidHeld(buf, n, guid) /\ Follows(s, n, guid_crc(guid), 16)
    BY DEF HdrHeld, HdrFed
  <2>2. n \in Nat /\ guid \in Guid /\ n = 56 /\ n + 15 = 71
    BY DEF GptHdr
  <2> HIDE DEF n, guid
  <2>3. Same(buf, s, n, n + 15)
    BY <2>1, <2>2, GuidSame
  <2> QED
    BY <2>2, <2>3 DEF Same
<1>10. \A b \in 72 .. 79 : s[b + 1] = buf[b]
  <2>1. Holds(buf, 72, 8, h.part_table_lba) /\ Feeds(s, 72, 8, h.part_table_lba)
    BY DEF HdrHeld, HdrFed
  <2>2. 72 \in Nat /\ 8 \in Nat /\ 72 + 8 - 1 = 79
    OBVIOUS
  <2>3. Same(buf, s, 72, 72 + 8 - 1)
    BY <2>1, <2>2, FieldSame
  <2> QED
    BY <2>2, <2>3 DEF Same
<1>11. \A b \in 80 .. 83 : s[b + 1] = buf[b]
  <2>1. Holds(buf, 80, 4, h.part_table_entry_cnt) /\ Feeds(s, 80, 4, h.part_table_entry_cnt)
    BY DEF HdrHeld, HdrFed
  <2>2. 80 \in Nat /\ 4 \in Nat /\ 80 + 4 - 1 = 83
    OBVIOUS
  <2>3. Same(buf, s, 80, 80 + 4 - 1)
    BY <2>1, <2>2, FieldSame
  <2> QED
    BY <2>2, <2>3 DEF Same
<1>12. \A b \in 84 .. 87 : s[b + 1] = buf[b]
  <2>1. Holds(buf, 84, 4, h.part_entry_sz) /\ Feeds(s, 84, 4, h.part_entry_sz)
    BY DEF HdrHeld, HdrFed
  <2>2. 84 \in Nat /\ 4 \in Nat /\ 84 + 4 - 1 = 87
    OBVIOUS
  <2>3. Same(buf, s, 84, 84 + 4 - 1)
    BY <2>1, <2>2, FieldSame
  <2> QED
    BY <2>2, <2>3 DEF Same
<1>13. \A b \in 88 .. 91 : s[b + 1] = buf[b]
  <2>1. Holds(buf, 88, 4, h.part_table_crc32) /\ Feeds(s, 88, 4, h.part_table_crc32)
    BY DEF HdrHeld, HdrFed
  <2>2. 88 \in Nat /\ 4 \in Nat /\ 88 + 4 - 1 = 91
    OBVIOUS
  <2>3. Same(buf, s, 88, 88 + 4 - 1)
    BY <2>1, <2>2, FieldSame
  <2> QED
    BY <2>2, <2>3 DEF Same
<1>14. ASSUME NEW b \in HdrArea, b \notin CrcArea PROVE s[b + 1] = buf[b]
  <2>1. b \in 0 .. 91 /\ b \notin 16 .. 19
    BY <1>14 DEF HdrArea, CrcArea
  <2>2. CASE b \in 0 .. 47
    <3>1. b \in 0 .. 7 \/ b \in 8 .. 11 \/ b \in 12 .. 15 \/ b \in 20 .. 23 \/ b \in 24 .. 31 \/ b \in 32 .. 39 \/ b \in 40 .. 47
      BY <2>1, <2>2
    <3> QED
      BY <3>1, <1>0, <1>1, <1>2, <1>4, <1>5, <1>6, <1>7
  <2>3. CASE b \in 48 .. 91
    <3>1. \/ b \in 48 .. 55 \/ b \in 56 .. 71 \/ b \in 72 .. 79 \/ b \in 80 .. 83 \/ b \in 84 .. 87 \/ b \in 88 .. 91
      BY <2>3
    <3> QED
      BY <3>1, <1>8, <1>9, <1>10, <1>11, <1>12, <1>13
  <2> QED
    BY <2>1, <2>2, <2>3
<1> QED
  BY <1>3, <1>14 DEF CrcArea


HeaderCall(h, old, buf) ==
  [fn |-> "header", hdr |-> h, old |-> old, buf |-> buf,
   crc |-> gpt_hdr_crc(h), erased |-> gpt_hdr_erase_sig(buf)]

LEMMA HdrCalled ==
  ASSUME CallHeader
  PROVE  \E h \in GptHdr, old \in 0 .. Byte - 1 :
           call' = HeaderCall(h, old, gpt_hdr_write([b \in 0 .. 95 |-> old], h))
<1>1. PICK g \in Headers, old \in 0 .. Byte - 1, crc \in {0, Power[4] - 1} :
        LET hdr == [g EXCEPT !.hdr_crc32 = crc]
            buf == gpt_hdr_write([b \in 0 .. 95 |-> old], hdr)
        IN  call' = [fn |-> "header", hdr |-> hdr, old |-> old, buf |-> buf,
                     crc |-> gpt_hdr_crc(hdr), erased |-> gpt_hdr_erase_sig(buf)]
  BY DEF CallHeader
<1> DEFINE h == [g EXCEPT !.hdr_crc32 = crc]
<1>2. h \in GptHdr
  <2>1. g \in GptHdr
    BY InputsAssumption
  <2>2. crc \in Pu(4)
    <3>1. 4 \in Nat
      OBVIOUS
    <3>2. Power[4] \in Nat \ {0}
      BY <3>1, Powers
    <3> QED
      BY <3>2 DEF Pu
  <2> QED
    BY <2>1, <2>2 DEF GptHdr
<1>3. call' = HeaderCall(h, old, gpt_hdr_write([b \in 0 .. 95 |-> old], h))
  BY <1>1 DEF HeaderCall
<1> HIDE DEF h
<1> QED
  BY <1>2, <1>3

\* The checksum stored in a header is that of the bytes it is stored as, for
\* every header: no field is left out, doubled, or taken in another width.
THEOREM ChecksumOfBytes == Spec => []HeaderChecksumsBytes
<1>1. Init => HeaderChecksumsBytes
  BY CallNames DEF Init, HeaderChecksumsBytes
<1>2. HeaderChecksumsBytes /\ [Next]_call => HeaderChecksumsBytes'
  <2>1. ASSUME HeaderChecksumsBytes, call' = call PROVE HeaderChecksumsBytes'
    BY <2>1 DEF HeaderChecksumsBytes
  <2>2. ASSUME [Next]_call, call'.fn = "header", call' # call PROVE HeaderChecksumsBytes'
    <3>1. CallHeader
      BY <2>2, Calls, CallNames
    <3>2. PICK h \in GptHdr, old \in 0 .. Byte - 1 :
            call' = HeaderCall(h, old, gpt_hdr_write([b \in 0 .. 95 |-> old], h))
      BY <3>1, HdrCalled
    <3> DEFINE buf == gpt_hdr_write([b \in 0 .. 95 |-> old], h)
    <3>3. Buffer([b \in 0 .. 95 |-> old], 0, 95)
      BY DEF Buffer
    <3>4. HdrHeld(buf, h)
      BY <3>3, HdrWritten
    <3> HIDE DEF buf
    <3>5. Stream(gpt_hdr_crc(h), 92) /\ HdrFed(gpt_hdr_crc(h), h)
      BY HdrStreamed
    <3>6. \A b \in HdrArea : gpt_hdr_crc(h)[b + 1] = IF b \in CrcArea THEN 0 ELSE buf[b]
      BY <3>4, <3>5, HdrSummed
    <3>7. call'.crc = gpt_hdr_crc(h) /\ call'.buf = buf
      BY <3>2 DEF HeaderCall, buf
    <3> QED
      BY <3>5, <3>6, <3>7 DEF HeaderChecksumsBytes, Stream
  <2>3. ASSUME call'.fn # "header" PROVE HeaderChecksumsBytes'
    BY <2>3 DEF HeaderChecksumsBytes
  <2> QED
    BY <2>1, <2>2, <2>3
<1> QED
  BY <1>1, <1>2, PTL DEF Spec

\* Erasing the signature hides a header and loses nothing of it, for every
\* header: all fields are read back as they were stored.
THEOREM RemovedHeadersKept == Spec => []ErasedHeaderKept
<1>1. Init => ErasedHeaderKept
  BY CallNames DEF Init, ErasedHeaderKept
<1>2. ErasedHeaderKept /\ [Next]_call => ErasedHeaderKept'
  <2>1. ASSUME ErasedHeaderKept, call' = call PROVE ErasedHeaderKept'
    BY <2>1 DEF ErasedHeaderKept
  <2>2. ASSUME [Next]_call, call'.fn = "header", call' # call PROVE ErasedHeaderKept'
    <3>1. CallHeader
      BY <2>2, Calls, CallNames
    <3>2. PICK h \in GptHdr, old \in 0 .. Byte - 1 :
            call' = HeaderCall(h, old, gpt_hdr_write([b \in 0 .. 95 |-> old], h))
      BY <3>1, HdrCalled
    <3> DEFINE blank == [b \in 0 .. 95 |-> old]
               buf   == gpt_hdr_write(blank, h)
    <3>3. Buffer(blank, 0, 95) /\ \A b \in 0 .. 95 : blank[b] = old
      BY DEF Buffer
    <3>4. call' = HeaderCall(h, old, buf)
      BY <3>2
    <3> HIDE DEF blank
    <3>5. Buffer(buf, 0, 95)
      BY <3>3, HdrWritten
    <3>6. /\ gpt_is_present(buf) /\ ~gpt_is_present(gpt_hdr_erase_sig(buf))
          /\ gpt_hdr_read(WithSig(gpt_hdr_erase_sig(buf))) = h
          /\ \A b \in DOMAIN buf \ HdrArea : gpt_hdr_erase_sig(buf)[b] = blank[b]
      BY <3>3, HdrErased
    <3> HIDE DEF buf
    <3>7. call'.buf = buf /\ call'.erased = gpt_hdr_erase_sig(buf) /\ call'.hdr = h
          /\ call'.old = old
      BY <3>4 DEF HeaderCall
    <3>8. \A b \in DOMAIN buf \ HdrArea : gpt_hdr_erase_sig(buf)[b] = old
      BY <3>3, <3>5, <3>6 DEF Buffer
    <3> QED
      BY <3>6, <3>7, <3>8 DEF ErasedHeaderKept
  <2>3. ASSUME call'.fn # "header" PROVE ErasedHeaderKept'
    BY <2>3 DEF ErasedHeaderKept
  <2> QED
    BY <2>1, <2>2, <2>3
<1> QED
  BY <1>1, <1>2, PTL DEF Spec

LEMMA Widths ==
  /\ \A n \in Nat : Power[n] \in Nat /\ Power[n + 1] >= 2 * Power[n]
  /\ Pu32Limit \in Nat /\ Pu32Limit >= 16
  /\ Pu64Limit \in Nat /\ Pu64Limit >= 2 * Pu32Limit
  /\ Byte + 1 \in Pu(4) /\ boot_sig \in Pu(2)
<1>0. Byte \in Nat /\ Byte >= 2
  BY ByteAssumption
<1>1. ASSUME NEW n \in Nat
      PROVE  Power[n] \in Nat /\ Power[n + 1] >= 2 * Power[n]
  <2> DEFINE P == Power[n]
  <2>1. P \in Nat \ {0} /\ Power[n + 1] = Byte * P
    BY Powers
  <2> HIDE DEF P
  <2>2. Byte * P >= 2 * P
    BY <1>0, <2>1, Z3
  <2> QED
    BY <2>1, <2>2 DEF P
<1>2. /\ Power[1] \in Nat /\ Power[2] \in Nat /\ Power[3] \in Nat /\ Power[4] \in Nat
      /\ Power[5] \in Nat /\ Power[6] \in Nat /\ Power[7] \in Nat /\ Power[8] \in Nat
  BY <1>1
<1>3. /\ Power[1 + 1] >= 2 * Power[1] /\ Power[2 + 1] >= 2 * Power[2]
      /\ Power[3 + 1] >= 2 * Power[3] /\ Power[4 + 1] >= 2 * Power[4]
      /\ Power[5 + 1] >= 2 * Power[5] /\ Power[6 + 1] >= 2 * Power[6]
      /\ Power[7 + 1] >= 2 * Power[7] /\ Power[1] = Byte
  BY <1>1, OneByte
<1>4. /\ Power[2] >= 2 * Byte /\ Power[3] >= 2 * Power[2] /\ Power[4] >= 2 * Power[3]
      /\ Power[5] >= 2 * Power[4] /\ Power[6] >= 2 * Power[5] /\ Power[7] >= 2 * Power[6]
      /\ Power[8] >= 2 * Power[7]
  BY <1>3
<1>5. Power[4] >= 16 /\ Power[4] >= 8 * Byte /\ Power[8] >= 2 * Power[4] /\ Power[2] >= 4
  BY <1>0, <1>2, <1>4
<1> QED
  BY <1>0, <1>1, <1>2, <1>5 DEF Pu32Limit, Pu64Limit, Pu, boot_sig

-----------------------------------------------------------------------------
(* The MBR.                                                                *)

\* The fields of a partition that this program reads.
PartHeld(buf, off, mp) ==
  /\ Holds(buf, off, 1, mp.boot_ind) /\ Holds(buf, off + 4, 1, mp.type)
  /\ Holds(buf, off + 8, 4, mp.start_lba) /\ Holds(buf, off + 12, 4, mp.sz_lba)

LEMMA PartEnds ==
  ASSUME NEW low \in Nat, NEW high \in Nat, NEW buf, Buffer(buf, low, high),
         NEW off \in Nat, NEW mp, NEW hi \in Nat,
         low <= off, off + 16 <= hi, hi <= high + 1
  PROVE  /\ Buffer(mbr_part_write(buf, off, mp), low, high)
         /\ \A final : Around(final, mbr_part_write(buf, off, mp), off + 16, hi) =>
              PartHeld(final, off, mp) /\ Around(final, buf, off, hi)
<1> DEFINE b1 == write_pu(buf, off, 1, mp.boot_ind)
           b2 == write_pu(b1, off + 1, 3, mp.start_chs)
           b3 == write_pu(b2, off + 4, 1, mp.type)
           b4 == write_pu(b3, off + 5, 3, mp.end_chs)
           b5 == write_pu(b4, off + 8, 4, mp.start_lba)
           b6 == write_pu(b5, off + 12, 4, mp.sz_lba)
<1>0. mbr_part_write(buf, off, mp) = b6
  BY DEF mbr_part_write
<1>1. /\ Buffer(b1, low, high)
      /\ \A final : Around(final, b1, off + 1, hi) =>
           Holds(final, off, 1, mp.boot_ind) /\ Around(final, buf, off, hi)
  BY FieldEnds
<1> HIDE DEF b1
<1>2. /\ Buffer(b2, low, high)
      /\ \A final : Around(final, b2, off + 4, hi) => Around(final, b1, off + 1, hi)
  <2>1. (off + 1) + 3 = off + 4 /\ off + 1 \in Nat /\ low <= off + 1 /\ off + 4 <= hi
    OBVIOUS
  <2> QED
    BY <1>1, <2>1, FieldEnds
<1> HIDE DEF b2
<1>3. /\ Buffer(b3, low, high)
      /\ \A final : Around(final, b3, off + 5, hi) =>
           Holds(final, off + 4, 1, mp.type) /\ Around(final, b2, off + 4, hi)
  <2>1. (off + 4) + 1 = off + 5 /\ off + 4 \in Nat /\ low <= off + 4 /\ off + 5 <= hi
    OBVIOUS
  <2> QED
    BY <1>2, <2>1, FieldEnds
<1> HIDE DEF b3
<1>4. /\ Buffer(b4, low, high)
      /\ \A final : Around(final, b4, off + 8, hi) => Around(final, b3, off + 5, hi)
  <2>1. (off + 5) + 3 = off + 8 /\ off + 5 \in Nat /\ low <= off + 5 /\ off + 8 <= hi
    OBVIOUS
  <2> QED
    BY <1>3, <2>1, FieldEnds
<1> HIDE DEF b4
<1>5. /\ Buffer(b5, low, high)
      /\ \A final : Around(final, b5, off + 12, hi) =>
           Holds(final, off + 8, 4, mp.start_lba) /\ Around(final, b4, off + 8, hi)
  <2>1. (off + 8) + 4 = off + 12 /\ off + 8 \in Nat /\ low <= off + 8 /\ off + 12 <= hi
    OBVIOUS
  <2> QED
    BY <1>4, <2>1, FieldEnds
<1> HIDE DEF b5
<1>6. /\ Buffer(b6, low, high)
      /\ \A final : Around(final, b6, off + 16, hi) =>
           Holds(final, off + 12, 4, mp.sz_lba) /\ Around(final, b5, off + 12, hi)
  <2>1. (off + 12) + 4 = off + 16 /\ off + 12 \in Nat /\ low <= off + 12
    OBVIOUS
  <2> QED
    BY <1>5, <2>1, FieldEnds
<1> HIDE DEF b6
<1>7. ASSUME NEW final, Around(final, b6, off + 16, hi)
      PROVE  PartHeld(final, off, mp) /\ Around(final, buf, off, hi)
  <2>1. Holds(final, off + 12, 4, mp.sz_lba) /\ Around(final, b5, off + 12, hi)
    BY <1>6, <1>7
  <2>2. Holds(final, off + 8, 4, mp.start_lba) /\ Around(final, b4, off + 8, hi)
    BY <1>5, <2>1
  <2>3. Around(final, b3, off + 5, hi)
    BY <1>4, <2>2
  <2>4. Holds(final, off + 4, 1, mp.type) /\ Around(final, b2, off + 4, hi)
    BY <1>3, <2>3
  <2>5. Around(final, b1, off + 1, hi)
    BY <1>2, <2>4
  <2>6. Holds(final, off, 1, mp.boot_ind) /\ Around(final, buf, off, hi)
    BY <1>1, <2>5
  <2> QED
    BY <2>1, <2>2, <2>4, <2>6 DEF PartHeld
<1> QED
  BY <1>0, <1>6, <1>7

SectorHeld(buf, sig, mps) ==
  /\ Holds(buf, 440, 4, sig) /\ Holds(buf, 510, 2, boot_sig)
  /\ PartHeld(buf, 446, mps[1]) /\ PartHeld(buf, 462, mps[2])
  /\ PartHeld(buf, 478, mps[3]) /\ PartHeld(buf, 494, mps[4])

LEMMA SectorWritten ==
  ASSUME NEW old, Buffer(old, 0, 511), NEW sig, NEW mps
  PROVE  /\ SectorHeld(mbr_write(old, sig, mps), sig, mps)
         /\ \A b \in CodeArea : mbr_write(old, sig, mps)[b] = old[b]
<1> DEFINE s1 == write_pu(old, 440, 4, sig)
           s2 == mbr_part_write(s1, 446, mps[1])
           s3 == mbr_part_write(s2, 462, mps[2])
           s4 == mbr_part_write(s3, 478, mps[3])
           s5 == mbr_part_write(s4, 494, mps[4])
           s6 == write_pu(s5, 510, 2, boot_sig)
           t  == boot_sig
<1>0. mbr_write(old, sig, mps) = s6
  BY DEF mbr_write
<1> HIDE DEF t
<1>n. /\ 0 \in Nat /\ 440 \in Nat /\ 511 \in Nat /\ 512 \in Nat /\ 446 \in Nat /\ 462 \in Nat /\ 478 \in Nat
      /\ 494 \in Nat /\ 510 \in Nat /\ 4 \in Nat /\ 2 \in Nat /\ 511 + 1 = 512
      /\ 440 + 4 = 444 /\ 446 + 16 = 462 /\ 462 + 16 = 478 /\ 478 + 16 = 494 /\ 494 + 16 = 510
      /\ 510 + 2 = 512
  OBVIOUS
<1>1. /\ Buffer(s1, 0, 511)
      /\ \A final : Around(final, s1, 444, 512) =>
           Holds(final, 440, 4, sig) /\ Around(final, old, 440, 512)
  BY <1>n, FieldEnds
<1>s. s1[444] = old[444] /\ s1[445] = old[445]
  BY DEF Buffer, write_pu
<1> HIDE DEF s1
<1>2. /\ Buffer(s2, 0, 511)
      /\ \A final : Around(final, s2, 462, 512) =>
           PartHeld(final, 446, mps[1]) /\ Around(final, s1, 446, 512)
  BY <1>1, <1>n, PartEnds
<1> HIDE DEF s2
<1>3. /\ Buffer(s3, 0, 511)
      /\ \A final : Around(final, s3, 478, 512) =>
           PartHeld(final, 462, mps[2]) /\ Around(final, s2, 462, 512)
  BY <1>2, <1>n, PartEnds
<1> HIDE DEF s3
<1>4. /\ Buffer(s4, 0, 511)
      /\ \A final : Around(final, s4, 494, 512) =>
           PartHeld(final, 478, mps[3]) /\ Around(final, s3, 478, 512)
  BY <1>3, <1>n, PartEnds
<1> HIDE DEF s4
<1>5. /\ Buffer(s5, 0, 511)
      /\ \A final : Around(final, s5, 510, 512) =>
           PartHeld(final, 494, mps[4]) /\ Around(final, s4, 494, 512)
  BY <1>4, <1>n, PartEnds
<1> HIDE DEF s5
<1>6. \A final : Around(final, s6, 512, 512) =>
           Holds(final, 510, 2, boot_sig) /\ Around(final, s5, 510, 512)
  BY <1>5, <1>n, FieldEnds DEF t
<1> HIDE DEF s6
<1>7. Around(s6, s6, 512, 512)
  BY DEF Around
<1>8. Holds(s6, 510, 2, boot_sig) /\ Around(s6, s5, 510, 512)
  BY <1>6, <1>7
<1>9. PartHeld(s6, 494, mps[4]) /\ Around(s6, s4, 494, 512)
  BY <1>5, <1>8
<1>10. PartHeld(s6, 478, mps[3]) /\ Around(s6, s3, 478, 512)
  BY <1>4, <1>9
<1>11. PartHeld(s6, 462, mps[2]) /\ Around(s6, s2, 462, 512)
  BY <1>3, <1>10
<1>12. PartHeld(s6, 446, mps[1]) /\ Around(s6, s1, 446, 512)
  BY <1>2, <1>11
<1>i. \A x \in 0 .. 511 : x < 446 => s6[x] = s1[x]
  <2>1. DOMAIN s1 = 0 .. 511 /\ Around(s6, s1, 446, 512)
    BY <1>1, <1>12 DEF Buffer
  <2> QED
    BY <2>1 DEF Around
<1>13. Around(s6, s1, 444, 512)
  <2>1. DOMAIN s1 = 0 .. 511
    BY <1>1 DEF Buffer
  <2>2. \A x \in 0 .. 511 : x < 444 \/ 512 <= x => s6[x] = s1[x]
    BY <1>i
  <2> QED
    BY <2>1, <2>2 DEF Around
<1>14. Holds(s6, 440, 4, sig) /\ Around(s6, old, 440, 512)
  BY <1>1, <1>13
<1>15. ASSUME NEW b \in CodeArea PROVE s6[b] = old[b]
  <2>1. CASE b \in 0 .. 439
    <3>1. b \in DOMAIN old /\ b < 440
      BY <2>1 DEF Buffer
    <3> QED
      BY <1>14, <3>1 DEF Around
  <2>2. CASE b \in 444 .. 445
    <3>1. b \in 0 .. 511 /\ b < 446 /\ (b = 444 \/ b = 445)
      BY <2>2
    <3> QED
      BY <1>i, <1>s, <3>1
  <2> QED
    BY <2>1, <2>2 DEF CodeArea
<1> QED
  BY <1>0, <1>8, <1>9, <1>10, <1>11, <1>12, <1>14, <1>15 DEF SectorHeld

LEMMA PartRead ==
  ASSUME NEW buf, NEW off \in Nat, NEW mp, PartHeld(buf, off, mp),
         mp.boot_ind \in Pu(1), mp.type \in Pu(1),
         mp.start_lba \in Pu(4), mp.sz_lba \in Pu(4)
  PROVE  LET got == mbr_part_read(buf, off)
         IN  /\ got.boot_ind = mp.boot_ind /\ got.type = mp.type
             /\ got.start_lba = mp.start_lba /\ got.sz_lba = mp.sz_lba
<1>1. off + 4 \in Nat /\ off + 8 \in Nat /\ off + 12 \in Nat /\ 1 \in Nat /\ 4 \in Nat
  OBVIOUS
<1>2. read_pu(buf, off, 1) = mp.boot_ind
  BY <1>1, FieldRead DEF PartHeld
<1>3. read_pu(buf, off + 4, 1) = mp.type
  BY <1>1, FieldRead DEF PartHeld
<1>4. read_pu(buf, off + 8, 4) = mp.start_lba
  BY <1>1, FieldRead DEF PartHeld
<1>5. read_pu(buf, off + 12, 4) = mp.sz_lba
  BY <1>1, FieldRead DEF PartHeld
<1> QED
  BY <1>2, <1>3, <1>4, <1>5 DEF mbr_part_read

\* A partition an MBR has room for: of an end and a length each gives the other.
Storable(p) ==
  LET sz == (p.end_lba - p.start_lba + 1) % Pu64Limit IN
  /\ p = [type |-> p.type, start_lba |-> p.start_lba, end_lba |-> p.end_lba,
          boot_ind |-> p.boot_ind]
  /\ p.type \in Pu(1) /\ p.type # 0 /\ p.boot_ind \in Pu(1)
  /\ p.start_lba \in Pu(4) /\ sz \in Pu(4)
  /\ (p.start_lba + sz - 1) % Pu64Limit = p.end_lba

LEMMA PartKept ==
  ASSUME NEW p, Storable(p) \/ p = EmptyPart, NEW buf, NEW off \in Nat,
         PartHeld(buf, off, mbr_part_from_schem(p))
  PROVE  mbr_part_to_schem(mbr_part_read(buf, off)) = p
<1> DEFINE mp  == mbr_part_from_schem(p)
           got == mbr_part_read(buf, off)
           sz  == (p.end_lba - p.start_lba + 1) % Pu64Limit
<1>1. CASE p = EmptyPart
  <2>1. mp.type = 0 /\ mp.boot_ind = 0 /\ mp.start_lba = 0 /\ mp.sz_lba = 0
    BY <1>1 DEF mbr_part_from_schem, EmptyPart, ZeroMbrPart
  <2>2. 0 \in Pu(1) /\ 0 \in Pu(4)
    <3>1. 1 \in Nat /\ 4 \in Nat
      OBVIOUS
    <3> QED
      BY <3>1, Powers DEF Pu
  <2> HIDE DEF mp, got
  <2>3. got.type = 0
    BY <2>1, <2>2, PartRead DEF mp, got
  <2> QED
    BY <1>1, <2>3 DEF mbr_part_to_schem, got
<1>2. CASE Storable(p)
  <2>1. /\ p = [type |-> p.type, start_lba |-> p.start_lba, end_lba |-> p.end_lba,
                boot_ind |-> p.boot_ind]
        /\ p.type \in Pu(1) /\ p.type # 0 /\ p.boot_ind \in Pu(1)
        /\ p.start_lba \in Pu(4) /\ sz \in Pu(4)
        /\ (p.start_lba + sz - 1) % Pu64Limit = p.end_lba
    BY <1>2 DEF Storable
  <2>2. /\ mp.type = p.type /\ mp.boot_ind = p.boot_ind
        /\ mp.start_lba = p.start_lba /\ mp.sz_lba = sz
    <3> HIDE DEF sz
    <3> QED
      BY <2>1 DEF mbr_part_from_schem, sz
  <2> HIDE DEF mp, got, sz
  <2>3. /\ got.type = p.type /\ got.boot_ind = p.boot_ind
        /\ got.start_lba = p.start_lba /\ got.sz_lba = sz
    BY <2>1, <2>2, PartRead DEF mp, got
  <2>4. mbr_part_to_schem(got) =
          [type |-> p.type, start_lba |-> p.start_lba,
           end_lba |-> (p.start_lba + sz - 1) % Pu64Limit, boot_ind |-> p.boot_ind]
    BY <2>1, <2>3 DEF mbr_part_to_schem
  <2> QED
    BY <2>1, <2>4 DEF got
<1> QED
  BY <1>1, <1>2

LEMMA CreatedStorable ==
  ASSUME NEW n \in Nat \ {0}, NEW p \in InOrder(CreatedParts(n))
  PROVE  Storable(p)
<1> DEFINE last == mbr_last_usable(n)
           L4   == Pu32Limit
           L8   == Pu64Limit
<1>1. L4 \in Nat /\ L4 >= 16 /\ L8 \in Nat /\ L8 >= 2 * L4
  BY Widths
<1>2. last \in 0 .. L4 - 1
  BY <1>1 DEF mbr_last_usable
<1>3. PICK t \in {1, part_type_prot}, b \in {0, Byte \div 2},
           s \in {1, 2, last - 1, last}, e \in {1, 2, last - 1, last} :
        /\ p = [type |-> t, start_lba |-> s, end_lba |-> e, boot_ind |-> b]
        /\ 1 <= s /\ 1 <= e /\ s <= e
  <2> HIDE DEF last
  <2> QED
    BY DEF InOrder, CreatedParts, last
<1>4. Pu(1) = 0 .. Byte - 1 /\ Pu(4) = 0 .. L4 - 1
  BY OneByte DEF Pu, Pu32Limit
<1>5. t \in Pu(1) /\ t # 0 /\ b \in Pu(1)
  BY <1>3, <1>4, ByteAssumption DEF part_type_prot
<1> HIDE DEF last, L4, L8
<1>6. s \in 1 .. L4 - 1 /\ e \in 1 .. L4 - 1 /\ s <= e
  BY <1>1, <1>2, <1>3
<1> DEFINE d == e - s + 1
<1>7. d \in 1 .. L4 - 1 /\ d \in 0 .. L8 - 1 /\ s + d - 1 = e /\ e \in 0 .. L8 - 1
      /\ L8 \in Nat \ {0}
  BY <1>1, <1>6
<1> HIDE DEF d
<1>8. d % L8 = d /\ e % L8 = e
  <2>1. d \in Int /\ e \in Int
    BY <1>1, <1>6, <1>7
  <2> QED
    BY <1>7, <2>1, Wraps
<1>9. p.type = t /\ p.boot_ind = b /\ p.start_lba = s /\ p.end_lba = e
  BY <1>3
<1>10. (p.end_lba - p.start_lba + 1) % L8 = d /\ (p.start_lba + d - 1) % L8 = e
  BY <1>7, <1>8, <1>9 DEF d
<1>11. d \in Pu(4) /\ s \in Pu(4)
  BY <1>1, <1>4, <1>6, <1>7
<1> QED
  BY <1>3, <1>5, <1>9, <1>10, <1>11 DEF Storable, L8

LEMMA LoadedStorable ==
  ASSUME NEW p \in LoadedParts
  PROVE  Storable(p)
<1> DEFINE L4 == Pu32Limit
           L8 == Pu64Limit
<1>1. L4 \in Nat /\ L4 >= 16 /\ L8 \in Nat /\ L8 >= 2 * L4
  BY Widths
<1>2. PICK s \in MbrValues, z \in MbrValues :
        p = mbr_part_to_schem([boot_ind |-> 0, start_chs |-> 0, type |-> 1, end_chs |-> 0,
                               start_lba |-> s, sz_lba |-> z])
  BY DEF LoadedParts
<1> DEFINE e == (s + z - 1) % Pu64Limit
<1>3. p = [type |-> 1, start_lba |-> s, end_lba |-> e, boot_ind |-> 0]
  BY <1>2 DEF mbr_part_to_schem
<1>4. Pu(1) = 0 .. Byte - 1 /\ Pu(4) = 0 .. L4 - 1
  BY OneByte DEF Pu, Pu32Limit
<1>5. s \in Pu(4) /\ z \in Pu(4) /\ 1 \in Pu(1) /\ 0 \in Pu(1)
  BY <1>4, InputsAssumption, ByteAssumption
<1> HIDE DEF L4
<1>6. s \in 0 .. L4 - 1 /\ z \in 0 .. L4 - 1
  BY <1>4, <1>5
<1>7. p.type = 1 /\ p.boot_ind = 0 /\ p.start_lba = s /\ p.end_lba = e
  BY <1>3
<1>8. (e - s + 1) % L8 = z
  <2>1. e = (s + z - 1) % L8
    OBVIOUS
  <2> HIDE DEF L8, e
  <2>2. CASE s + z >= 1
    <3> DEFINE x == s + z - 1
    <3>1. x \in 0 .. L8 - 1 /\ x \in Int /\ L8 \in Nat \ {0} /\ z \in 0 .. L8 - 1 /\ z \in Int
      BY <1>1, <1>6, <2>2
    <3> HIDE DEF x
    <3>2. x % L8 = x /\ z % L8 = z
      BY <3>1, Wraps
    <3>3. e - s + 1 = z
      BY <1>6, <2>1, <3>2 DEF x
    <3> QED
      BY <3>2, <3>3
  <2>3. CASE s = 0 /\ z = 0
    <3>1. (-1) \in Int /\ L8 \in Nat \ {0} /\ (-1) < 0 /\ -L8 <= -1 /\ 0 \in 0 .. L8 - 1
      BY <1>1
    <3>2. (-1) % L8 = L8 - 1
      BY <3>1, Wraps
    <3>3. s + z - 1 = -1
      BY <2>3
    <3>4. e = L8 - 1 /\ e - s + 1 = L8
      BY <1>1, <2>1, <2>3, <3>2, <3>3
    <3>5. L8 % L8 = 0
      BY <1>1, <3>1, Wraps
    <3> QED
      BY <2>3, <3>4, <3>5
  <2> QED
    BY <1>6, <2>2, <2>3
<1> HIDE DEF e
<1>9. /\ (p.end_lba - p.start_lba + 1) % L8 = z
      /\ (p.start_lba + z - 1) % L8 = e
  <2>1. (s + z - 1) % L8 = e
    BY DEF e
  <2> HIDE DEF L8
  <2> QED
    BY <1>7, <1>8, <2>1
<1> QED
  BY <1>3, <1>5, <1>7, <1>9 DEF Storable

LEMMA MbrRead ==
  ASSUME NEW parts, parts = [k \in 1 .. mbr_max_part_cnt |-> parts[k]],
         \A k \in 1 .. mbr_max_part_cnt : Storable(parts[k]) \/ parts[k] = EmptyPart,
         NEW buf, NEW sig \in Pu(4),
         SectorHeld(buf, sig, [k \in 1 .. mbr_max_part_cnt |-> mbr_part_from_schem(parts[k])])
  PROVE  /\ mbr_is_present(buf) /\ read_pu(buf, 440, 4) = sig
         /\ [k \in 1 .. mbr_max_part_cnt |-> mbr_part_to_schem(mbr_read(buf)[k])] = parts
<1> DEFINE mps == [k \in 1 .. mbr_max_part_cnt |-> mbr_part_from_schem(parts[k])]
<1>0. 1 .. mbr_max_part_cnt = {1, 2, 3, 4}
  BY DEF mbr_max_part_cnt
<1>1. /\ mps[1] = mbr_part_from_schem(parts[1]) /\ mps[2] = mbr_part_from_schem(parts[2])
      /\ mps[3] = mbr_part_from_schem(parts[3]) /\ mps[4] = mbr_part_from_schem(parts[4])
  BY <1>0
<1>2. /\ Holds(buf, 440, 4, sig) /\ Holds(buf, 510, 2, boot_sig)
      /\ PartHeld(buf, 446, mps[1]) /\ PartHeld(buf, 462, mps[2])
      /\ PartHeld(buf, 478, mps[3]) /\ PartHeld(buf, 494, mps[4])
  BY DEF SectorHeld
<1> HIDE DEF mps
<1>3. 440 \in Nat /\ 510 \in Nat /\ 4 \in Nat /\ 2 \in Nat /\ boot_sig \in Pu(2)
  BY Widths
<1>4. read_pu(buf, 440, 4) = sig
  BY <1>2, <1>3, FieldRead
<1>5. read_pu(buf, 510, 2) = boot_sig
  <2> DEFINE v == boot_sig
  <2>1. v \in Pu(2) /\ Holds(buf, 510, 2, v)
    BY <1>2, <1>3
  <2> HIDE DEF v
  <2>2. read_pu(buf, 510, 2) = v
    BY <1>3, <2>1, FieldRead
  <2> QED
    BY <2>2 DEF v
<1>6. ASSUME NEW k \in 1 .. mbr_max_part_cnt
      PROVE  mbr_part_to_schem(mbr_read(buf)[k]) = parts[k]
  <2> DEFINE off == 446 + 16 * (k - 1)
  <2>1. off \in Nat /\ PartHeld(buf, off, mbr_part_from_schem(parts[k]))
    <3>1. CASE k = 1
      BY <1>1, <1>2, <3>1
    <3>2. CASE k = 2
      BY <1>1, <1>2, <3>2
    <3>3. CASE k = 3
      BY <1>1, <1>2, <3>3
    <3>4. CASE k = 4
      BY <1>1, <1>2, <3>4
    <3> QED
      BY <1>0, <3>1, <3>2, <3>3, <3>4
  <2>2. mbr_read(buf)[k] = mbr_part_read(buf, off)
    BY DEF mbr_read
  <2> HIDE DEF off
  <2>3. mbr_part_to_schem(mbr_part_read(buf, off)) = parts[k]
    BY <2>1, PartKept
  <2> QED
    BY <2>2, <2>3
<1>7. [k \in 1 .. mbr_max_part_cnt |-> mbr_part_to_schem(mbr_read(buf)[k])]
        = [k \in 1 .. mbr_max_part_cnt |-> parts[k]]
  BY <1>6
<1> QED
  BY <1>4, <1>5, <1>7 DEF mbr_is_present

\* A partition of an MBR is the same after any number of saves and loads,
\* although a save drops half of the bits of its first sector, and computes a
\* length from its last one that a load has to undo; the boot code, and every
\* other byte that is not this program's, stays what it was.
THEOREM MbrSurvives == Spec => []MbrKeepsParts
<1>1. Init => MbrKeepsParts
  BY CallNames DEF Init, MbrKeepsParts
<1>2. MbrKeepsParts /\ [Next]_call => MbrKeepsParts'
  <2>1. ASSUME MbrKeepsParts, call' = call PROVE MbrKeepsParts'
    BY <2>1 DEF MbrKeepsParts
  <2>2. ASSUME [Next]_call, call'.fn = "mbr", call' # call PROVE MbrKeepsParts'
    <3>1. CallMbr
      BY <2>2, Calls, CallNames
    <3>2. PICK p \in (UNION {InOrder(CreatedParts(n)) : n \in ImgSecs}) \cup LoadedParts,
               i \in 1 .. mbr_max_part_cnt, old \in {0, Byte - 1} :
            LET parts == [k \in 1 .. mbr_max_part_cnt |-> IF k = i THEN p ELSE EmptyPart]
                sec   == [b \in MbrArea |-> old]
                buf   == mbr_write(sec, Byte + 1,
                           [k \in 1 .. mbr_max_part_cnt |-> mbr_part_from_schem(parts[k])])
            IN  call' = MbrCall(parts, sec, buf)
      BY <3>1, Zenon DEF CallMbr
    <3>3. Storable(p)
      <4>1. CASE p \in LoadedParts
        BY <4>1, LoadedStorable
      <4>2. CASE p \in UNION {InOrder(CreatedParts(n)) : n \in ImgSecs}
        <5>1. PICK n \in ImgSecs : p \in InOrder(CreatedParts(n))
          BY <4>2
        <5>2. n \in Nat \ {0}
          BY InputsAssumption
        <5> QED
          BY <5>1, <5>2, CreatedStorable
      <4> QED
        BY <4>1, <4>2
    <3> DEFINE parts == [k \in 1 .. mbr_max_part_cnt |-> IF k = i THEN p ELSE EmptyPart]
               mps   == [k \in 1 .. mbr_max_part_cnt |-> mbr_part_from_schem(parts[k])]
               blank == [b \in MbrArea |-> old]
               sig   == Byte + 1
               buf   == mbr_write(blank, sig, mps)
    <3>4. call' = MbrCall(parts, blank, buf)
      BY <3>2
    <3>5. Buffer(blank, 0, 511)
      BY DEF Buffer, MbrArea
    <3>6. sig \in Pu(4)
      BY Widths
    <3> HIDE DEF blank, sig
    <3>7. SectorHeld(buf, sig, mps) /\ \A b \in CodeArea : buf[b] = blank[b]
      <4> HIDE DEF mps
      <4> QED
        BY <3>5, SectorWritten
    <3>8. /\ parts = [k \in 1 .. mbr_max_part_cnt |-> parts[k]]
          /\ \A k \in 1 .. mbr_max_part_cnt : Storable(parts[k]) \/ parts[k] = EmptyPart
      BY <3>3
    <3> HIDE DEF parts, buf
    <3>9. /\ mbr_is_present(buf) /\ read_pu(buf, 440, 4) = sig
          /\ [k \in 1 .. mbr_max_part_cnt |-> mbr_part_to_schem(mbr_read(buf)[k])] = parts
      BY <3>6, <3>7, <3>8, MbrRead
    <3>10. /\ call'.present = mbr_is_present(buf) /\ call'.sig = read_pu(buf, 440, 4)
           /\ call'.parts = parts /\ call'.kept = {b \in MbrArea : buf[b] = blank[b]}
           /\ call'.res =
                [k \in 1 .. mbr_max_part_cnt |-> mbr_part_to_schem(mbr_read(buf)[k])]
      BY <3>4 DEF MbrCall
    <3>11. CodeArea \subseteq MbrArea
      BY DEF CodeArea, MbrArea
    <3>12. CodeArea \subseteq call'.kept
      BY <3>7, <3>10, <3>11
    <3> QED
      BY <3>9, <3>10, <3>12 DEF MbrKeepsParts, sig
  <2>3. ASSUME call'.fn # "mbr" PROVE MbrKeepsParts'
    BY <2>3 DEF MbrKeepsParts
  <2> QED
    BY <2>1, <2>2, <2>3
<1> QED
  BY <1>1, <1>2, PTL DEF Spec

-----------------------------------------------------------------------------
(* The CRC.                                                                *)

Word == SUBSET Ones(32)

LEMMA XorDefined ==
  /\ \A x, y, i : i \in Xor(x, y) <=> ~(i \in x <=> i \in y)
  /\ \A x \in Word, n \in Nat : \A i : i \in ShiftRight(x, n) <=> i \in Nat /\ i + n \in x
  /\ \A x, y \in Word : Xor(x, y) \in Word
  /\ \A x \in Word, n \in Nat : ShiftRight(x, n) \in Word
<1>1. \A x, y, i : i \in Xor(x, y) <=> ~(i \in x <=> i \in y)
  BY DEF Xor
<1>2. ASSUME NEW x \in Word, NEW n \in Nat, NEW i
      PROVE  i \in ShiftRight(x, n) <=> i \in Nat /\ i + n \in x
  <2>1. \A j \in x : j \in 0 .. 31
    BY DEF Word, Ones
  <2>2. i \in ShiftRight(x, n) <=> \E j \in x : j >= n /\ i = j - n
    BY DEF ShiftRight
  <2>3. ASSUME NEW j \in x, j >= n, i = j - n PROVE i \in Nat /\ i + n \in x
    <3>1. j \in Int /\ (j - n) + n = j
      BY <2>1
    <3> QED
      BY <2>3, <3>1
  <2>4. ASSUME i \in Nat, i + n \in x PROVE \E j \in x : j >= n /\ i = j - n
    <3>1. i + n >= n /\ i = (i + n) - n
      BY <2>4
    <3> QED
      BY <2>4, <3>1
  <2> QED
    BY <2>2, <2>3, <2>4
<1>3. \A x, y \in Word : Xor(x, y) \in Word
  BY DEF Xor, Word
<1>4. ASSUME NEW x \in Word, NEW n \in Nat PROVE ShiftRight(x, n) \in Word
  <2>1. ASSUME NEW i \in ShiftRight(x, n) PROVE i \in Ones(32)
    <3>1. i \in Nat /\ i + n \in x
      BY <1>2
    <3>2. i + n \in 0 .. 32 - 1
      BY <3>1 DEF Word, Ones
    <3> QED
      BY <3>1, <3>2 DEF Ones
  <2> QED
    BY <2>1 DEF Word
<1> QED
  BY <1>1, <1>2, <1>3, <1>4

LEMMA BitStep ==
  /\ \A x \in Word : ShiftBit(x) \in Word
  /\ \A x, y \in Word : ShiftBit(Xor(x, y)) = Xor(ShiftBit(x), ShiftBit(y))
  /\ \A x \in Word : 0 \notin x => ShiftBit(x) = ShiftRight(x, 1)
<1>0. Poly \in Word /\ {} \in Word
  BY DEF Poly, Word, Ones
<1>1. ASSUME NEW x \in Word PROVE ShiftBit(x) \in Word
  BY <1>0, XorDefined DEF ShiftBit
<1>2. ASSUME NEW x \in Word
      PROVE  \A i : i \in ShiftBit(x) <=>
                      ~((i \in Nat /\ i + 1 \in x) <=> (0 \in x /\ i \in Poly))
  BY XorDefined DEF ShiftBit
<1>3. ASSUME NEW x \in Word, NEW y \in Word
      PROVE  ShiftBit(Xor(x, y)) = Xor(ShiftBit(x), ShiftBit(y))
  <2>1. Xor(x, y) \in Word
    BY XorDefined
  <2>2. ASSUME NEW i
        PROVE  i \in ShiftBit(Xor(x, y)) <=> i \in Xor(ShiftBit(x), ShiftBit(y))
    <3>1. i \in Xor(ShiftBit(x), ShiftBit(y)) <=> ~(i \in ShiftBit(x) <=> i \in ShiftBit(y))
      BY XorDefined
    <3>2. /\ i + 1 \in Xor(x, y) <=> ~(i + 1 \in x <=> i + 1 \in y)
          /\ 0 \in Xor(x, y) <=> ~(0 \in x <=> 0 \in y)
      BY XorDefined
    <3>3. /\ i \in ShiftBit(x) <=> ~((i \in Nat /\ i + 1 \in x) <=> (0 \in x /\ i \in Poly))
          /\ i \in ShiftBit(y) <=> ~((i \in Nat /\ i + 1 \in y) <=> (0 \in y /\ i \in Poly))
          /\ i \in ShiftBit(Xor(x, y)) <=>
               ~((i \in Nat /\ i + 1 \in Xor(x, y)) <=> (0 \in Xor(x, y) /\ i \in Poly))
      BY <1>2, <2>1
    <3> QED
      BY ONLY <3>1, <3>2, <3>3
  <2> QED
    BY <2>2
<1>4. ASSUME NEW x \in Word, 0 \notin x PROVE ShiftBit(x) = ShiftRight(x, 1)
  BY <1>4 DEF ShiftBit, Xor
<1> QED
  BY <1>1, <1>3, <1>4

LEMMA UpTo8 ==
  ASSUME NEW S, 0 \in S, \A n \in 0 .. 7 : n \in S => n + 1 \in S
  PROVE  0 .. 8 \subseteq S
<1> DEFINE T == {n \in Nat : n <= 8 => n \in S}
<1>1. 0 \in T
  OBVIOUS
<1>2. \A n \in T \cap Nat : n + 1 \in T
  OBVIOUS
<1> HIDE DEF T
<1>3. Nat \subseteq T
  BY <1>1, <1>2, Induction
<1> QED
  BY <1>3 DEF T

LEMMA ShiftSteps ==
  ASSUME NEW x \in Word
  PROVE  /\ ShiftBits(x, 0) = x
         /\ \A n \in 0 .. 8 : ShiftBits(x, n) \in Word
         /\ \A n \in 0 .. 7 : ShiftBits(x, n + 1) = ShiftBit(ShiftBits(x, n))
<1> DEFINE Is(f) == f = [k \in 0 .. 8 |-> IF k = 0 THEN x ELSE ShiftBit(f[k - 1])]
           step == [p \in Word \X (Nat \ {0}) |-> ShiftBit(p[1])]
<1>1. step \in [Word \X (Nat \ {0}) -> Word]
  BY BitStep
<1>2. PICK h \in [0 .. 8 -> Word] : Steps(h, x, step, 8)
  BY <1>1, FunctionExists
<1>3. ASSUME NEW k \in 1 .. 8 PROVE h[k] = ShiftBit(h[k - 1])
  <2>1. h[k] = step[<<h[k - 1], k>>] /\ h[k - 1] \in Word /\ k \in Nat \ {0}
    BY <1>2 DEF Steps
  <2> QED
    BY <2>1
<1>4. Is(h)
  <2> HIDE DEF step
  <2>1. \A k \in 0 .. 8 : h[k] = IF k = 0 THEN x ELSE ShiftBit(h[k - 1])
    <3> SUFFICES ASSUME NEW k \in 0 .. 8
                 PROVE  h[k] = IF k = 0 THEN x ELSE ShiftBit(h[k - 1])
      OBVIOUS
    <3>1. k = 0 \/ k \in 1 .. 8
      OBVIOUS
    <3> QED
      BY <1>2, <1>3, <3>1 DEF Steps
  <2> QED
    BY <2>1
<1> DEFINE f == CHOOSE g : Is(g)
<1>5. \A n : ShiftBits(x, n) = f[n]
  BY DEF ShiftBits
<1>6. Is(f)
  <2> HIDE DEF Is
  <2> QED
    BY <1>4
<1> HIDE DEF f, step
<1>7. f[0] = x /\ \A k \in 1 .. 8 : f[k] = ShiftBit(f[k - 1])
  <2>1. \A k \in 0 .. 8 : f[k] = IF k = 0 THEN x ELSE ShiftBit(f[k - 1])
    BY <1>6
  <2>2. 0 \in 0 .. 8 /\ \A k \in 1 .. 8 : k \in 0 .. 8 /\ k # 0
    OBVIOUS
  <2> QED
    BY <2>1, <2>2
<1>8. ASSUME NEW n \in 0 .. 7 PROVE f[n + 1] = ShiftBit(f[n])
  <2>1. n + 1 \in 1 .. 8 /\ (n + 1) - 1 = n
    OBVIOUS
  <2>2. f[n + 1] = ShiftBit(f[(n + 1) - 1])
    BY <1>7, <2>1
  <2> QED
    BY <2>1, <2>2
<1> DEFINE S == {n \in Nat : f[n] \in Word}
<1>9. 0 \in S
  BY <1>7
<1>10. \A n \in 0 .. 7 : n \in S => n + 1 \in S
  BY <1>8, BitStep
<1> HIDE DEF S
<1>11. 0 .. 8 \subseteq S
  BY <1>9, <1>10, UpTo8
<1>12. \A n \in 0 .. 8 : f[n] \in Word
  BY <1>11 DEF S
<1> QED
  BY <1>5, <1>7, <1>8, <1>12

\* The division takes sums apart.
LEMMA ShiftsAdd ==
  ASSUME NEW x \in Word, NEW y \in Word, NEW n \in 0 .. 8
  PROVE  ShiftBits(Xor(x, y), n) = Xor(ShiftBits(x, n), ShiftBits(y, n))
<1> DEFINE z == Xor(x, y)
           S == {k \in Nat : ShiftBits(z, k) = Xor(ShiftBits(x, k), ShiftBits(y, k))}
<1>1. z \in Word
  BY XorDefined
<1>2. 0 \in S
  BY <1>1, ShiftSteps
<1> HIDE DEF z
<1>3. ASSUME NEW k \in 0 .. 7, k \in S PROVE k + 1 \in S
  <2>0. k \in 0 .. 8 /\ k + 1 \in Nat
    OBVIOUS
  <2>1. /\ ShiftBits(z, k + 1) = ShiftBit(ShiftBits(z, k))
        /\ ShiftBits(x, k + 1) = ShiftBit(ShiftBits(x, k)) /\ ShiftBits(x, k) \in Word
        /\ ShiftBits(y, k + 1) = ShiftBit(ShiftBits(y, k)) /\ ShiftBits(y, k) \in Word
    BY <1>1, <2>0, ShiftSteps
  <2>2. ShiftBits(z, k) = Xor(ShiftBits(x, k), ShiftBits(y, k))
    BY <1>3
  <2>3. ShiftBit(Xor(ShiftBits(x, k), ShiftBits(y, k))) =
          Xor(ShiftBit(ShiftBits(x, k)), ShiftBit(ShiftBits(y, k)))
    BY <2>1, BitStep
  <2>4. ShiftBits(z, k + 1) = Xor(ShiftBits(x, k + 1), ShiftBits(y, k + 1))
    BY <2>1, <2>2, <2>3
  <2> QED
    BY <2>0, <2>4
<1> HIDE DEF S
<1>4. 0 .. 8 \subseteq S
  BY <1>2, <1>3, UpTo8
<1> QED
  BY <1>4 DEF S, z

\* Bits that no step of the division reaches are only shifted.
LEMMA ShiftsHigh ==
  ASSUME NEW x \in Word, \A i \in x : i \notin 0 .. 7
  PROVE  ShiftBits(x, 8) = ShiftRight(x, 8)
<1> DEFINE S == {k \in Nat : ShiftBits(x, k) = ShiftRight(x, k)}
<1>1. 0 \in S
  <2>1. \A i : i \in ShiftRight(x, 0) <=> i \in Nat /\ i + 0 \in x
    BY XorDefined
  <2>2. \A i \in x : i \in Nat /\ i + 0 = i
    BY DEF Word, Ones
  <2>3. ShiftRight(x, 0) = x
    <3>1. ASSUME NEW i \in ShiftRight(x, 0) PROVE i \in x
      BY <2>1
    <3>2. ASSUME NEW i \in x PROVE i \in ShiftRight(x, 0)
      BY <2>1, <2>2
    <3> QED
      BY <3>1, <3>2
  <2> QED
    BY <2>3, ShiftSteps
<1>2. ASSUME NEW k \in 0 .. 7, k \in S PROVE k + 1 \in S
  <2> DEFINE r == ShiftRight(x, k)
  <2>0. k \in Nat /\ k + 1 \in Nat /\ 1 \in Nat
    OBVIOUS
  <2>1. r \in Word /\ \A i : i \in r <=> i \in Nat /\ i + k \in x
    BY <2>0, XorDefined
  <2>2. ShiftBits(x, k + 1) = ShiftBit(r)
    BY <1>2, ShiftSteps
  <2> HIDE DEF r
  <2>3. 0 \notin r
    BY <2>1
  <2>4. ShiftBit(r) = ShiftRight(r, 1)
    BY <2>1, <2>3, BitStep
  <2>5. ASSUME NEW i PROVE i \in ShiftRight(r, 1) <=> i \in ShiftRight(x, k + 1)
    <3>1. i \in ShiftRight(r, 1) <=> i \in Nat /\ i + 1 \in r
      BY <2>0, <2>1, XorDefined
    <3>2. i + 1 \in r <=> i + 1 \in Nat /\ (i + 1) + k \in x
      BY <2>1
    <3>3. i \in ShiftRight(x, k + 1) <=> i \in Nat /\ i + (k + 1) \in x
      BY <2>0, XorDefined
    <3>4. i \in Nat => i + 1 \in Nat /\ (i + 1) + k = i + (k + 1)
      OBVIOUS
    <3> QED
      BY <3>1, <3>2, <3>3, <3>4
  <2>6. ShiftRight(r, 1) = ShiftRight(x, k + 1)
    BY <2>5
  <2> QED
    BY <2>0, <2>2, <2>4, <2>6
<1> HIDE DEF S
<1>3. 0 .. 8 \subseteq S
  BY <1>1, <1>2, UpTo8
<1> QED
  BY <1>3 DEF S

\* A row of the table, which is computed from bit 0, is what its own bit leaves.
LEMMA RowShifts ==
  ASSUME NEW k \in 0 .. 7
  PROVE  crc_row(k) = ShiftBits({k}, 8)
<1>0. {k} \in Word /\ {0} \in Word
  BY DEF Word, Ones
<1> DEFINE At(j) == ShiftBits({k}, j) = {k - j}
           S == {j \in Nat : j <= k => At(j)}
<1>1. 0 \in S
  BY <1>0, ShiftSteps
<1> HIDE DEF At
<1>2. ASSUME NEW j \in 0 .. 7, j \in S PROVE j + 1 \in S
  <2>1. CASE j + 1 <= k
    <3> DEFINE w == {k - j}
    <3>0. ShiftBits({k}, j) = w
      <4>1. j \in S /\ j <= k
        BY <1>2, <2>1
      <4>2. At(j)
        BY <4>1
      <4> QED
        BY <4>2 DEF At
    <3>1. ShiftBits({k}, j + 1) = ShiftBit(w)
      <4>1. ShiftBits({k}, j + 1) = ShiftBit(ShiftBits({k}, j))
        BY <1>0, ShiftSteps
      <4> QED
        BY <3>0, <4>1
    <3>2. w \in Word /\ 0 \notin w
      BY <2>1 DEF Word, Ones
    <3>3. \A i : i \in w <=> i = k - j
      OBVIOUS
    <3> HIDE DEF w
    <3>4. ShiftBit(w) = ShiftRight(w, 1)
      BY <3>2, BitStep
    <3>5. \A i : i \in ShiftRight(w, 1) <=> i \in Nat /\ i + 1 \in w
      BY <3>2, XorDefined
    <3>6. ASSUME NEW i PROVE i \in ShiftRight(w, 1) <=> i = k - (j + 1)
      <4>1. i \in Nat => (i + 1 = k - j <=> i = k - (j + 1))
        OBVIOUS
      <4>2. i = k - (j + 1) => i \in Nat
        BY <2>1
      <4> QED
        BY <3>3, <3>5, <4>1, <4>2
    <3>7. ShiftRight(w, 1) = {k - (j + 1)}
      BY <3>6
    <3>8. At(j + 1)
      BY <3>1, <3>4, <3>7 DEF At
    <3> QED
      BY <3>8
  <2>2. CASE ~(j + 1 <= k)
    BY <2>2
  <2> QED
    BY <2>1, <2>2
<1> HIDE DEF S
<1>3. 0 .. 8 \subseteq S
  BY <1>1, <1>2, UpTo8
<1>4. ShiftBits({k}, k) = {0}
  <2>1. k \in S
    BY <1>3
  <2> QED
    BY <2>1 DEF S, At
<1> DEFINE T == {j \in Nat : k + j <= 8 => ShiftBits({k}, k + j) = ShiftBits({0}, j)}
<1>5. 0 \in T
  <2>1. ShiftBits({0}, 0) = {0} /\ k + 0 = k
    BY <1>0, ShiftSteps
  <2> QED
    BY <1>4, <2>1
<1>6. ASSUME NEW j \in 0 .. 7, j \in T PROVE j + 1 \in T
  <2>1. CASE k + (j + 1) <= 8
    <3>1. k + j \in 0 .. 7 /\ k + (j + 1) = (k + j) + 1 /\ k + j <= 8
      BY <2>1
    <3>2. ShiftBits({k}, (k + j) + 1) = ShiftBit(ShiftBits({k}, k + j))
      BY <1>0, <3>1, ShiftSteps
    <3>3. ShiftBits({0}, j + 1) = ShiftBit(ShiftBits({0}, j))
      BY <1>0, ShiftSteps
    <3>4. ShiftBits({k}, k + j) = ShiftBits({0}, j)
      BY <1>6, <3>1
    <3>5. ShiftBits({k}, k + (j + 1)) = ShiftBits({0}, j + 1)
      BY <3>1, <3>2, <3>3, <3>4
    <3> QED
      BY <3>5
  <2>2. CASE ~(k + (j + 1) <= 8)
    BY <2>2
  <2> QED
    BY <2>1, <2>2
<1> HIDE DEF T
<1>7. 0 .. 8 \subseteq T
  BY <1>5, <1>6, UpTo8
<1>8. 8 - k \in T /\ k + (8 - k) = 8
  BY <1>7
<1>9. ShiftBits({k}, 8) = ShiftBits({0}, 8 - k)
  BY <1>8 DEF T
<1> QED
  BY <1>9 DEF crc_row

Value(b0, b1, b2, b3, b4, b5, b6, b7) ==
  b0 + b1 * 2 + b2 * 4 + b3 * 8 + b4 * 16 + b5 * 32 + b6 * 64 + b7 * 128

LEMMA Powers2 == /\ 2^0 = 1 /\ 2^1 = 2 /\ 2^2 = 4 /\ 2^3 = 8
                 /\ 2^4 = 16 /\ 2^5 = 32 /\ 2^6 = 64 /\ 2^7 = 128
  BY Z3

HasDigits(v, b0, b1, b2, b3, b4, b5, b6, b7) ==
  /\ v \in 0 .. 255
  /\ (v \div 1) % 2 = b0 /\ (v \div 2) % 2 = b1
  /\ (v \div 4) % 2 = b2 /\ (v \div 8) % 2 = b3
  /\ (v \div 16) % 2 = b4 /\ (v \div 32) % 2 = b5
  /\ (v \div 64) % 2 = b6 /\ (v \div 128) % 2 = b7

LEMMA Digits ==
  ASSUME NEW b0 \in 0 .. 1, NEW b1 \in 0 .. 1, NEW b2 \in 0 .. 1, NEW b3 \in 0 .. 1,
         NEW b4 \in 0 .. 1, NEW b5 \in 0 .. 1, NEW b6 \in 0 .. 1, NEW b7 \in 0 .. 1
  PROVE  HasDigits(Value(b0, b1, b2, b3, b4, b5, b6, b7), b0, b1, b2, b3, b4, b5, b6, b7)
<1> DEFINE v == Value(b0, b1, b2, b3, b4, b5, b6, b7)
<1>0. v \in 0 .. 255
  BY Z3 DEF Value
<1>1. (v \div 1) % 2 = b0
  BY Z3 DEF Value
<1>2. (v \div 2) % 2 = b1
  BY Z3 DEF Value
<1>3. (v \div 4) % 2 = b2
  BY Z3 DEF Value
<1>4. (v \div 8) % 2 = b3
  BY Z3 DEF Value
<1>5. (v \div 16) % 2 = b4
  BY Z3 DEF Value
<1>6. (v \div 32) % 2 = b5
  BY Z3 DEF Value
<1>7. (v \div 64) % 2 = b6
  BY Z3 DEF Value
<1>8. (v \div 128) % 2 = b7
  BY Z3 DEF Value
<1> HIDE DEF v
<1>9. HasDigits(v, b0, b1, b2, b3, b4, b5, b6, b7)
  BY <1>0, <1>1, <1>2, <1>3, <1>4, <1>5, <1>6, <1>7, <1>8 DEF HasDigits
<1> QED
  BY <1>9 DEF v

LEMMA BitsOf ==
  ASSUME NEW n \in 0 .. 255
  PROVE  /\ Bits(n) \subseteq 0 .. 7
         /\ 0 \in Bits(n) <=> (n \div 1) % 2 = 1
         /\ 1 \in Bits(n) <=> (n \div 2) % 2 = 1
         /\ 2 \in Bits(n) <=> (n \div 4) % 2 = 1
         /\ 3 \in Bits(n) <=> (n \div 8) % 2 = 1
         /\ 4 \in Bits(n) <=> (n \div 16) % 2 = 1
         /\ 5 \in Bits(n) <=> (n \div 32) % 2 = 1
         /\ 6 \in Bits(n) <=> (n \div 64) % 2 = 1
         /\ 7 \in Bits(n) <=> (n \div 128) % 2 = 1
<1>1. /\ Bits(n) \subseteq 0 .. 7
      /\ \A i \in 0 .. 7 : i \in Bits(n) <=> (n \div 2^i) % 2 = 1
  BY DEF Bits
<1>2. 0 \in 0 .. 7 /\ 1 \in 0 .. 7 /\ 2 \in 0 .. 7 /\ 3 \in 0 .. 7
      /\ 4 \in 0 .. 7 /\ 5 \in 0 .. 7 /\ 6 \in 0 .. 7 /\ 7 \in 0 .. 7
  OBVIOUS
<1>3. /\ 0 \in Bits(n) <=> (n \div 2^0) % 2 = 1
      /\ 1 \in Bits(n) <=> (n \div 2^1) % 2 = 1
      /\ 2 \in Bits(n) <=> (n \div 2^2) % 2 = 1
      /\ 3 \in Bits(n) <=> (n \div 2^3) % 2 = 1
      /\ 4 \in Bits(n) <=> (n \div 2^4) % 2 = 1
      /\ 5 \in Bits(n) <=> (n \div 2^5) % 2 = 1
      /\ 6 \in Bits(n) <=> (n \div 2^6) % 2 = 1
      /\ 7 \in Bits(n) <=> (n \div 2^7) % 2 = 1
  BY <1>1, <1>2, Zenon
<1> QED
  BY <1>1, <1>3, Powers2

LEMMA Undigits ==
  ASSUME NEW n \in 0 .. 255
  PROVE  n = Value(n % 2, (n \div 2) % 2, (n \div 4) % 2, (n \div 8) % 2,
                   (n \div 16) % 2, (n \div 32) % 2, (n \div 64) % 2, (n \div 128) % 2)
<1> DEFINE q1 == n \div 2
           q2 == n \div 4
           q3 == n \div 8
           q4 == n \div 16
           q5 == n \div 32
           q6 == n \div 64
           q7 == n \div 128
<1>1. /\ q1 \in Nat /\ n = 2 * q1 + (n % 2)
      /\ q2 \in Nat /\ q1 = 2 * q2 + (q1 % 2)
  BY Z3
<1>2. /\ q3 \in Nat /\ q2 = 2 * q3 + (q2 % 2)
      /\ q4 \in Nat /\ q3 = 2 * q4 + (q3 % 2)
  BY Z3
<1>3. /\ q5 \in Nat /\ q4 = 2 * q5 + (q4 % 2)
      /\ q6 \in Nat /\ q5 = 2 * q6 + (q5 % 2)
  BY Z3
<1>4. q7 \in Nat /\ q6 = 2 * q7 + (q6 % 2) /\ q7 = q7 % 2
  BY Z3
<1> HIDE DEF q1, q2, q3, q4, q5, q6, q7
<1>5. /\ n % 2 \in Int /\ q1 % 2 \in Int /\ q2 % 2 \in Int /\ q3 % 2 \in Int
      /\ q4 % 2 \in Int /\ q5 % 2 \in Int /\ q6 % 2 \in Int /\ q7 % 2 \in Int
  BY <1>1, <1>2, <1>3, <1>4
<1>6. n = Value(n % 2, q1 % 2, q2 % 2, q3 % 2, q4 % 2, q5 % 2, q6 % 2, q7 % 2)
  <2> DEFINE r0 == n % 2
             r1 == q1 % 2
             r2 == q2 % 2
             r3 == q3 % 2
             r4 == q4 % 2
             r5 == q5 % 2
             r6 == q6 % 2
             r7 == q7 % 2
  <2> HIDE DEF r0, r1, r2, r3, r4, r5, r6, r7
  <2>1. /\ r0 \in Int /\ r1 \in Int /\ r2 \in Int /\ r3 \in Int
        /\ r4 \in Int /\ r5 \in Int /\ r6 \in Int /\ r7 \in Int
    BY <1>5 DEF r0, r1, r2, r3, r4, r5, r6, r7
  <2>2. /\ n = 2 * q1 + r0 /\ q1 = 2 * q2 + r1 /\ q2 = 2 * q3 + r2 /\ q3 = 2 * q4 + r3
        /\ q4 = 2 * q5 + r4 /\ q5 = 2 * q6 + r5 /\ q6 = 2 * q7 + r6 /\ q7 = r7
    BY <1>1, <1>2, <1>3, <1>4 DEF r0, r1, r2, r3, r4, r5, r6, r7
  <2>3. n = Value(r0, r1, r2, r3, r4, r5, r6, r7)
    BY <1>1, <1>2, <1>3, <1>4, <2>1, <2>2 DEF Value
  <2> QED
    BY <2>3 DEF r0, r1, r2, r3, r4, r5, r6, r7
<1> QED
  BY <1>6 DEF q1, q2, q3, q4, q5, q6, q7

Bit(c, i) == IF i \in c THEN 1 ELSE 0

ValueOf(c) == Value(Bit(c, 0), Bit(c, 1), Bit(c, 2), Bit(c, 3),
                    Bit(c, 4), Bit(c, 5), Bit(c, 6), Bit(c, 7))

LEMMA Indices ==
  /\ \A c : /\ IndexOf(c) = ValueOf(c) /\ IndexOf(c) \in 0 .. 255
            /\ Bits(IndexOf(c)) = c \cap (0 .. 7)
  /\ \A n \in 0 .. 255 : IndexOf(Bits(n)) = n
<1>1. ASSUME NEW c PROVE IndexOf(c) = ValueOf(c)
  <2> DEFINE value(i) == IF i \in c THEN 2^i ELSE 0
  <2>0. value(0) = Bit(c, 0) * 1 /\ value(0) \in Nat
    BY Powers2 DEF Bit
  <2>1. value(1) = Bit(c, 1) * 2 /\ value(1) \in Nat
    BY Powers2 DEF Bit
  <2>2. value(2) = Bit(c, 2) * 4 /\ value(2) \in Nat
    BY Powers2 DEF Bit
  <2>3. value(3) = Bit(c, 3) * 8 /\ value(3) \in Nat
    BY Powers2 DEF Bit
  <2>4. value(4) = Bit(c, 4) * 16 /\ value(4) \in Nat
    BY Powers2 DEF Bit
  <2>5. value(5) = Bit(c, 5) * 32 /\ value(5) \in Nat
    BY Powers2 DEF Bit
  <2>6. value(6) = Bit(c, 6) * 64 /\ value(6) \in Nat
    BY Powers2 DEF Bit
  <2>7. value(7) = Bit(c, 7) * 128 /\ value(7) \in Nat
    BY Powers2 DEF Bit
  <2>8. IndexOf(c) = value(0) + value(1) + value(2) + value(3)
                       + value(4) + value(5) + value(6) + value(7)
    BY DEF IndexOf
  <2>9. \A i : Bit(c, i) \in 0 .. 1
    BY DEF Bit
  <2> HIDE DEF value
  <2>10. Bit(c, 0) * 1 = Bit(c, 0)
    BY <2>9
  <2> QED
    BY <2>0, <2>1, <2>2, <2>3, <2>4, <2>5, <2>6, <2>7, <2>8, <2>10 DEF ValueOf, Value
<1>2. ASSUME NEW c PROVE IndexOf(c) \in 0 .. 255 /\ Bits(IndexOf(c)) = c \cap (0 .. 7)
  <2> DEFINE v == ValueOf(c)
  <2>1. /\ Bit(c, 0) \in 0 .. 1 /\ Bit(c, 1) \in 0 .. 1 /\ Bit(c, 2) \in 0 .. 1
        /\ Bit(c, 3) \in 0 .. 1 /\ Bit(c, 4) \in 0 .. 1 /\ Bit(c, 5) \in 0 .. 1
        /\ Bit(c, 6) \in 0 .. 1 /\ Bit(c, 7) \in 0 .. 1
    BY DEF Bit
  <2>2. HasDigits(v, Bit(c, 0), Bit(c, 1), Bit(c, 2), Bit(c, 3),
                     Bit(c, 4), Bit(c, 5), Bit(c, 6), Bit(c, 7))
    BY <2>1, Digits DEF ValueOf
  <2> HIDE DEF v
  <2>3. Bits(v) \subseteq 0 .. 7
    BY <2>2, BitsOf DEF HasDigits
  <2>4. 0 \in Bits(v) <=> 0 \in c
    <3>1. 0 \in Bits(v) <=> (v \div 1) % 2 = 1
      BY <2>2, BitsOf DEF HasDigits
    <3>2. Bit(c, 0) = 1 <=> 0 \in c
      BY DEF Bit
    <3> QED
      BY <2>2, <3>1, <3>2 DEF HasDigits
  <2>5. 1 \in Bits(v) <=> 1 \in c
    <3>1. 1 \in Bits(v) <=> (v \div 2) % 2 = 1
      BY <2>2, BitsOf DEF HasDigits
    <3>2. Bit(c, 1) = 1 <=> 1 \in c
      BY DEF Bit
    <3> QED
      BY <2>2, <3>1, <3>2 DEF HasDigits
  <2>6. 2 \in Bits(v) <=> 2 \in c
    <3>1. 2 \in Bits(v) <=> (v \div 4) % 2 = 1
      BY <2>2, BitsOf DEF HasDigits
    <3>2. Bit(c, 2) = 1 <=> 2 \in c
      BY DEF Bit
    <3> QED
      BY <2>2, <3>1, <3>2 DEF HasDigits
  <2>7. 3 \in Bits(v) <=> 3 \in c
    <3>1. 3 \in Bits(v) <=> (v \div 8) % 2 = 1
      BY <2>2, BitsOf DEF HasDigits
    <3>2. Bit(c, 3) = 1 <=> 3 \in c
      BY DEF Bit
    <3> QED
      BY <2>2, <3>1, <3>2 DEF HasDigits
  <2>8. 4 \in Bits(v) <=> 4 \in c
    <3>1. 4 \in Bits(v) <=> (v \div 16) % 2 = 1
      BY <2>2, BitsOf DEF HasDigits
    <3>2. Bit(c, 4) = 1 <=> 4 \in c
      BY DEF Bit
    <3> QED
      BY <2>2, <3>1, <3>2 DEF HasDigits
  <2>9. 5 \in Bits(v) <=> 5 \in c
    <3>1. 5 \in Bits(v) <=> (v \div 32) % 2 = 1
      BY <2>2, BitsOf DEF HasDigits
    <3>2. Bit(c, 5) = 1 <=> 5 \in c
      BY DEF Bit
    <3> QED
      BY <2>2, <3>1, <3>2 DEF HasDigits
  <2>10. 6 \in Bits(v) <=> 6 \in c
    <3>1. 6 \in Bits(v) <=> (v \div 64) % 2 = 1
      BY <2>2, BitsOf DEF HasDigits
    <3>2. Bit(c, 6) = 1 <=> 6 \in c
      BY DEF Bit
    <3> QED
      BY <2>2, <3>1, <3>2 DEF HasDigits
  <2>11. 7 \in Bits(v) <=> 7 \in c
    <3>1. 7 \in Bits(v) <=> (v \div 128) % 2 = 1
      BY <2>2, BitsOf DEF HasDigits
    <3>2. Bit(c, 7) = 1 <=> 7 \in c
      BY DEF Bit
    <3> QED
      BY <2>2, <3>1, <3>2 DEF HasDigits
  <2>12. ASSUME NEW i \in 0 .. 7 PROVE i \in Bits(v) <=> i \in c
    <3>1. i = 0 \/ i = 1 \/ i = 2 \/ i = 3 \/ i = 4 \/ i = 5 \/ i = 6 \/ i = 7
      OBVIOUS
    <3> QED
      BY <3>1, <2>4, <2>5, <2>6, <2>7, <2>8, <2>9, <2>10, <2>11
  <2>13. Bits(v) = c \cap (0 .. 7)
    BY <2>3, <2>12
  <2> QED
    BY <1>1, <2>2, <2>13 DEF v, HasDigits
<1>3. ASSUME NEW n \in 0 .. 255 PROVE IndexOf(Bits(n)) = n
  <2> DEFINE c == Bits(n)
  <2>0. Bit(c, 0) = n % 2
    <3>1. 0 \in c <=> (n \div 1) % 2 = 1
      BY BitsOf
    <3>2. n % 2 \in {0, 1} /\ n % 2 = (n \div 1) % 2
      OBVIOUS
    <3> QED
      BY <3>1, <3>2 DEF Bit
  <2>1. Bit(c, 1) = (n \div 2) % 2
    <3>1. 1 \in c <=> (n \div 2) % 2 = 1
      BY BitsOf
    <3>2. (n \div 2) % 2 \in {0, 1} /\ (n \div 2) % 2 = (n \div 2) % 2
      OBVIOUS
    <3> QED
      BY <3>1, <3>2 DEF Bit
  <2>2. Bit(c, 2) = (n \div 4) % 2
    <3>1. 2 \in c <=> (n \div 4) % 2 = 1
      BY BitsOf
    <3>2. (n \div 4) % 2 \in {0, 1} /\ (n \div 4) % 2 = (n \div 4) % 2
      OBVIOUS
    <3> QED
      BY <3>1, <3>2 DEF Bit
  <2>3. Bit(c, 3) = (n \div 8) % 2
    <3>1. 3 \in c <=> (n \div 8) % 2 = 1
      BY BitsOf
    <3>2. (n \div 8) % 2 \in {0, 1} /\ (n \div 8) % 2 = (n \div 8) % 2
      OBVIOUS
    <3> QED
      BY <3>1, <3>2 DEF Bit
  <2>4. Bit(c, 4) = (n \div 16) % 2
    <3>1. 4 \in c <=> (n \div 16) % 2 = 1
      BY BitsOf
    <3>2. (n \div 16) % 2 \in {0, 1} /\ (n \div 16) % 2 = (n \div 16) % 2
      OBVIOUS
    <3> QED
      BY <3>1, <3>2 DEF Bit
  <2>5. Bit(c, 5) = (n \div 32) % 2
    <3>1. 5 \in c <=> (n \div 32) % 2 = 1
      BY BitsOf
    <3>2. (n \div 32) % 2 \in {0, 1} /\ (n \div 32) % 2 = (n \div 32) % 2
      OBVIOUS
    <3> QED
      BY <3>1, <3>2 DEF Bit
  <2>6. Bit(c, 6) = (n \div 64) % 2
    <3>1. 6 \in c <=> (n \div 64) % 2 = 1
      BY BitsOf
    <3>2. (n \div 64) % 2 \in {0, 1} /\ (n \div 64) % 2 = (n \div 64) % 2
      OBVIOUS
    <3> QED
      BY <3>1, <3>2 DEF Bit
  <2>7. Bit(c, 7) = (n \div 128) % 2
    <3>1. 7 \in c <=> (n \div 128) % 2 = 1
      BY BitsOf
    <3>2. (n \div 128) % 2 \in {0, 1} /\ (n \div 128) % 2 = (n \div 128) % 2
      OBVIOUS
    <3> QED
      BY <3>1, <3>2 DEF Bit
  <2>8. ValueOf(c) = Value(n % 2, (n \div 2) % 2, (n \div 4) % 2, (n \div 8) % 2,
                           (n \div 16) % 2, (n \div 32) % 2, (n \div 64) % 2, (n \div 128) % 2)
    <3> HIDE DEF c
    <3> QED
      BY <2>0, <2>1, <2>2, <2>3, <2>4, <2>5, <2>6, <2>7 DEF ValueOf
  <2>9. ValueOf(c) = n
    BY <2>8, Undigits
  <2> QED
    BY <1>1, <2>9
<1> QED
  BY <1>1, <1>2, <1>3

\* Without one of its bits, a number is less by the value of that bit.
LEMMA LessBit ==
  ASSUME NEW n \in 0 .. 255, NEW i \in Bits(n)
  PROVE  n - 2^i \in 0 .. n - 1 /\ Bits(n - 2^i) = Bits(n) \ {i}
<1> DEFINE c == Bits(n)
           d == c \ {i}
<1>0. i \in 0 .. 7 /\ ValueOf(c) = n /\ c \subseteq 0 .. 7
  BY BitsOf, Indices
<1>1. i \in c /\ i \notin d /\ \A j : j # i => (j \in d <=> j \in c)
  OBVIOUS
<1> HIDE DEF c, d
<1>2. Bit(c, i) = 1 /\ Bit(d, i) = 0 /\ \A j : j # i => Bit(d, j) = Bit(c, j)
  BY <1>1 DEF Bit
<1>3. /\ Bit(c, 0) \in 0 .. 1 /\ Bit(c, 1) \in 0 .. 1 /\ Bit(c, 2) \in 0 .. 1
      /\ Bit(c, 3) \in 0 .. 1 /\ Bit(c, 4) \in 0 .. 1 /\ Bit(c, 5) \in 0 .. 1
      /\ Bit(c, 6) \in 0 .. 1 /\ Bit(c, 7) \in 0 .. 1
  BY DEF Bit
<1>4. ValueOf(d) = ValueOf(c) - 2^i /\ 2^i \in 1 .. 128
  <2>0. CASE i = 0
    <3>1. 2^i = 1
      BY <2>0, Powers2
    <3>2. Bit(c, 0) = 1 /\ Bit(d, 0) = 0
      BY <1>2, <2>0
    <3>3. Bit(d, 1) = Bit(c, 1) /\ Bit(d, 2) = Bit(c, 2) /\ Bit(d, 3) = Bit(c, 3)
      BY <1>2, <2>0
    <3>4. Bit(d, 4) = Bit(c, 4) /\ Bit(d, 5) = Bit(c, 5) /\ Bit(d, 6) = Bit(c, 6) /\ Bit(d, 7) = Bit(c, 7)
      BY <1>2, <2>0
    <3> QED
      BY <1>3, <3>1, <3>2, <3>3, <3>4 DEF ValueOf, Value
  <2>1. CASE i = 1
    <3>1. 2^i = 2
      BY <2>1, Powers2
    <3>2. Bit(c, 1) = 1 /\ Bit(d, 1) = 0
      BY <1>2, <2>1
    <3>3. Bit(d, 0) = Bit(c, 0) /\ Bit(d, 2) = Bit(c, 2) /\ Bit(d, 3) = Bit(c, 3)
      BY <1>2, <2>1
    <3>4. Bit(d, 4) = Bit(c, 4) /\ Bit(d, 5) = Bit(c, 5) /\ Bit(d, 6) = Bit(c, 6) /\ Bit(d, 7) = Bit(c, 7)
      BY <1>2, <2>1
    <3> QED
      BY <1>3, <3>1, <3>2, <3>3, <3>4 DEF ValueOf, Value
  <2>2. CASE i = 2
    <3>1. 2^i = 4
      BY <2>2, Powers2
    <3>2. Bit(c, 2) = 1 /\ Bit(d, 2) = 0
      BY <1>2, <2>2
    <3>3. Bit(d, 0) = Bit(c, 0) /\ Bit(d, 1) = Bit(c, 1) /\ Bit(d, 3) = Bit(c, 3)
      BY <1>2, <2>2
    <3>4. Bit(d, 4) = Bit(c, 4) /\ Bit(d, 5) = Bit(c, 5) /\ Bit(d, 6) = Bit(c, 6) /\ Bit(d, 7) = Bit(c, 7)
      BY <1>2, <2>2
    <3> QED
      BY <1>3, <3>1, <3>2, <3>3, <3>4 DEF ValueOf, Value
  <2>3. CASE i = 3
    <3>1. 2^i = 8
      BY <2>3, Powers2
    <3>2. Bit(c, 3) = 1 /\ Bit(d, 3) = 0
      BY <1>2, <2>3
    <3>3. Bit(d, 0) = Bit(c, 0) /\ Bit(d, 1) = Bit(c, 1) /\ Bit(d, 2) = Bit(c, 2)
      BY <1>2, <2>3
    <3>4. Bit(d, 4) = Bit(c, 4) /\ Bit(d, 5) = Bit(c, 5) /\ Bit(d, 6) = Bit(c, 6) /\ Bit(d, 7) = Bit(c, 7)
      BY <1>2, <2>3
    <3> QED
      BY <1>3, <3>1, <3>2, <3>3, <3>4 DEF ValueOf, Value
  <2>4. CASE i = 4
    <3>1. 2^i = 16
      BY <2>4, Powers2
    <3>2. Bit(c, 4) = 1 /\ Bit(d, 4) = 0
      BY <1>2, <2>4
    <3>3. Bit(d, 0) = Bit(c, 0) /\ Bit(d, 1) = Bit(c, 1) /\ Bit(d, 2) = Bit(c, 2) /\ Bit(d, 3) = Bit(c, 3)
      BY <1>2, <2>4
    <3>4. Bit(d, 5) = Bit(c, 5) /\ Bit(d, 6) = Bit(c, 6) /\ Bit(d, 7) = Bit(c, 7)
      BY <1>2, <2>4
    <3> QED
      BY <1>3, <3>1, <3>2, <3>3, <3>4 DEF ValueOf, Value
  <2>5. CASE i = 5
    <3>1. 2^i = 32
      BY <2>5, Powers2
    <3>2. Bit(c, 5) = 1 /\ Bit(d, 5) = 0
      BY <1>2, <2>5
    <3>3. Bit(d, 0) = Bit(c, 0) /\ Bit(d, 1) = Bit(c, 1) /\ Bit(d, 2) = Bit(c, 2) /\ Bit(d, 3) = Bit(c, 3)
      BY <1>2, <2>5
    <3>4. Bit(d, 4) = Bit(c, 4) /\ Bit(d, 6) = Bit(c, 6) /\ Bit(d, 7) = Bit(c, 7)
      BY <1>2, <2>5
    <3> QED
      BY <1>3, <3>1, <3>2, <3>3, <3>4 DEF ValueOf, Value
  <2>6. CASE i = 6
    <3>1. 2^i = 64
      BY <2>6, Powers2
    <3>2. Bit(c, 6) = 1 /\ Bit(d, 6) = 0
      BY <1>2, <2>6
    <3>3. Bit(d, 0) = Bit(c, 0) /\ Bit(d, 1) = Bit(c, 1) /\ Bit(d, 2) = Bit(c, 2) /\ Bit(d, 3) = Bit(c, 3)
      BY <1>2, <2>6
    <3>4. Bit(d, 4) = Bit(c, 4) /\ Bit(d, 5) = Bit(c, 5) /\ Bit(d, 7) = Bit(c, 7)
      BY <1>2, <2>6
    <3> QED
      BY <1>3, <3>1, <3>2, <3>3, <3>4 DEF ValueOf, Value
  <2>7. CASE i = 7
    <3>1. 2^i = 128
      BY <2>7, Powers2
    <3>2. Bit(c, 7) = 1 /\ Bit(d, 7) = 0
      BY <1>2, <2>7
    <3>3. Bit(d, 0) = Bit(c, 0) /\ Bit(d, 1) = Bit(c, 1) /\ Bit(d, 2) = Bit(c, 2) /\ Bit(d, 3) = Bit(c, 3)
      BY <1>2, <2>7
    <3>4. Bit(d, 4) = Bit(c, 4) /\ Bit(d, 5) = Bit(c, 5) /\ Bit(d, 6) = Bit(c, 6)
      BY <1>2, <2>7
    <3> QED
      BY <1>3, <3>1, <3>2, <3>3, <3>4 DEF ValueOf, Value
  <2> QED
    BY <1>0, <2>0, <2>1, <2>2, <2>3, <2>4, <2>5, <2>6, <2>7
<1>5. IndexOf(d) = n - 2^i /\ IndexOf(d) \in 0 .. 255 /\ Bits(IndexOf(d)) = d \cap (0 .. 7)
  BY <1>0, <1>4, Indices
<1>6. d \cap (0 .. 7) = d
  BY <1>0 DEF d
<1> QED
  BY <1>4, <1>5, <1>6 DEF c, d

LEMMA LowBits == ASSUME NEW n \in 1 .. 255 PROVE LowBit(n) \in Bits(n)
<1> DEFINE Least(i) == n % 2^i = 0 /\ (n \div 2^i) % 2 = 1
<1>0. n % 2^0 = 0
  BY Powers2
<1>1. n % 2^0 = 0 => Least(0) \/ n % 2^1 = 0
  <2>1. n % 1 = 0 => (n \div 1) % 2 = 1 \/ n % 2 = 0
    BY Z3
  <2> QED
    BY <2>1, Powers2
<1>2. n % 2^1 = 0 => Least(1) \/ n % 2^2 = 0
  <2>1. n % 2 = 0 => (n \div 2) % 2 = 1 \/ n % 4 = 0
    BY Z3
  <2> QED
    BY <2>1, Powers2
<1>3. n % 2^2 = 0 => Least(2) \/ n % 2^3 = 0
  <2>1. n % 4 = 0 => (n \div 4) % 2 = 1 \/ n % 8 = 0
    BY Z3
  <2> QED
    BY <2>1, Powers2
<1>4. n % 2^3 = 0 => Least(3) \/ n % 2^4 = 0
  <2>1. n % 8 = 0 => (n \div 8) % 2 = 1 \/ n % 16 = 0
    BY Z3
  <2> QED
    BY <2>1, Powers2
<1>5. n % 2^4 = 0 => Least(4) \/ n % 2^5 = 0
  <2>1. n % 16 = 0 => (n \div 16) % 2 = 1 \/ n % 32 = 0
    BY Z3
  <2> QED
    BY <2>1, Powers2
<1>6. n % 2^5 = 0 => Least(5) \/ n % 2^6 = 0
  <2>1. n % 32 = 0 => (n \div 32) % 2 = 1 \/ n % 64 = 0
    BY Z3
  <2> QED
    BY <2>1, Powers2
<1>7. n % 2^6 = 0 => Least(6) \/ n % 2^7 = 0
  <2>1. n % 64 = 0 => (n \div 64) % 2 = 1 \/ n % 128 = 0
    BY Z3
  <2> QED
    BY <2>1, Powers2
<1>8. n % 2^7 = 0 => Least(7) \/ FALSE
  <2>1. n % 128 = 0 => (n \div 128) % 2 = 1 \/ FALSE
    BY Z3
  <2> QED
    BY <2>1, Powers2
<1> HIDE DEF Least
<1>9. \E i \in 0 .. 7 : Least(i)
  BY <1>0, <1>1, <1>2, <1>3, <1>4, <1>5, <1>6, <1>7, <1>8
<1>10. LowBit(n) \in 0 .. 7 /\ Least(LowBit(n))
  <2>1. LowBit(n) = CHOOSE i \in 0 .. 7 : Least(i)
    BY DEF LowBit, Least
  <2> QED
    BY <1>9, <2>1
<1> QED
  BY <1>10 DEF Bits, Least

\* The table, which is computed from itself, holds a whole byte's division.
LEMMA TableEntries ==
  ASSUME NEW n \in 0 .. 255
  PROVE  crc_table[n] = ShiftBits(Bits(n), 8)
<1> DEFINE Is(f) == f = [k \in 0 .. 255 |-> IF k = 0 THEN {}
                                            ELSE Xor(crc_row(LowBit(k)), f[k - 2^LowBit(k)])]
           whole == [k \in 0 .. 255 |-> ShiftBits(Bits(k), 8)]
<1>1. whole[0] = {}
  <2>1. 0 \in 0 .. 255 /\ {} \in Word
    BY DEF Word
  <2>2. Bits(0) = {}
    <3>1. \A k : Bit({}, k) = 0
      BY DEF Bit
    <3>2. Value(0, 0, 0, 0, 0, 0, 0, 0) = 0
      BY DEF Value
    <3>3. ValueOf({}) = 0
      BY <3>1, <3>2 DEF ValueOf
    <3>4. IndexOf({}) = 0
      BY <3>3, Indices
    <3>5. Bits(IndexOf({})) = {} \cap (0 .. 7)
      BY Indices
    <3> QED
      BY <3>4, <3>5
  <2>3. ShiftBits({}, 8) = ShiftRight({}, 8)
    BY <2>1, ShiftsHigh
  <2>4. ShiftRight({}, 8) = {}
    BY DEF ShiftRight
  <2> QED
    BY <2>1, <2>2, <2>3, <2>4
<1>2. ASSUME NEW k \in 1 .. 255
      PROVE  /\ k - 2^LowBit(k) \in 0 .. k - 1
             /\ whole[k] = Xor(crc_row(LowBit(k)), whole[k - 2^LowBit(k)])
  <2> DEFINE i == LowBit(k)
             c == Bits(k)
             d == c \ {i}
             m == k - 2^i
  <2>1. i \in c /\ c \subseteq 0 .. 7 /\ k \in 0 .. 255
    BY LowBits, BitsOf
  <2>2. m \in 0 .. k - 1 /\ Bits(m) = d
    BY <2>1, LessBit
  <2> HIDE DEF c, i, m
  <2>3. c = Xor({i}, d)
    BY <2>1 DEF Xor
  <2>4. i \in 0 .. 7 /\ {i} \in Word /\ d \in Word /\ 8 \in 0 .. 8
    BY <2>1 DEF Word, Ones
  <2>5. crc_row(i) = ShiftBits({i}, 8)
    BY <2>4, RowShifts
  <2> HIDE DEF d
  <2>6. ShiftBits(Xor({i}, d), 8) = Xor(ShiftBits({i}, 8), ShiftBits(d, 8))
    BY <2>4, ShiftsAdd
  <2>7. whole[k] = ShiftBits(c, 8) /\ whole[m] = ShiftBits(Bits(m), 8)
    BY <2>1, <2>2 DEF c
  <2> HIDE DEF whole
  <2>8. whole[k] = Xor(crc_row(i), whole[m])
    BY <2>2, <2>3, <2>5, <2>6, <2>7
  <2> QED
    BY <2>2, <2>8 DEF m, i
<1>3. Is(whole)
  <2>1. ASSUME NEW k \in 0 .. 255
        PROVE  whole[k] = IF k = 0 THEN {}
                          ELSE Xor(crc_row(LowBit(k)), whole[k - 2^LowBit(k)])
    <3> HIDE DEF whole
    <3>1. k = 0 \/ k \in 1 .. 255
      OBVIOUS
    <3> QED
      BY <1>1, <1>2, <3>1
  <2> DEFINE F(k) == IF k = 0 THEN {}
                     ELSE Xor(crc_row(LowBit(k)), whole[k - 2^LowBit(k)])
  <2>2. whole = [k \in 0 .. 255 |-> whole[k]]
    OBVIOUS
  <2>3. \A k \in 0 .. 255 : whole[k] = F(k)
    BY <2>1
  <2> HIDE DEF whole, F
  <2>4. whole = [k \in 0 .. 255 |-> F(k)]
    BY <2>2, <2>3
  <2> QED
    BY <2>4 DEF F
<1> DEFINE entry == CHOOSE f : Is(f)
<1>4. crc_table[n] = entry[n]
  BY DEF crc_table
<1>5. Is(entry)
  <2> HIDE DEF Is, whole
  <2> QED
    BY <1>3
<1> HIDE DEF entry, whole
<1>6. /\ entry[0] = {}
      /\ \A k \in 1 .. 255 : entry[k] = Xor(crc_row(LowBit(k)), entry[k - 2^LowBit(k)])
  <2>1. \A k \in 0 .. 255 : entry[k] = IF k = 0 THEN {}
                                       ELSE Xor(crc_row(LowBit(k)), entry[k - 2^LowBit(k)])
    BY <1>5
  <2>2. 0 \in 0 .. 255 /\ \A k \in 1 .. 255 : k \in 0 .. 255 /\ k # 0
    OBVIOUS
  <2> QED
    BY <2>1, <2>2
<1> DEFINE S == {k \in Nat : \A j \in 0 .. 255 : j <= k => entry[j] = whole[j]}
<1>7. 0 \in S
  <2>1. ASSUME NEW j \in 0 .. 255, j <= 0 PROVE entry[j] = whole[j]
    <3>1. j = 0
      BY <2>1
    <3> QED
      BY <3>1, <1>1, <1>6
  <2> QED
    BY <2>1
<1>8. ASSUME NEW k \in S PROVE k + 1 \in S
  <2>0. k \in Nat /\ k + 1 \in Nat
    OBVIOUS
  <2>1. ASSUME NEW j \in 0 .. 255, j <= k + 1 PROVE entry[j] = whole[j]
    <3>1. CASE j <= k
      BY <3>1
    <3>2. CASE j = k + 1
      <4> DEFINE m == j - 2^LowBit(j)
      <4>1. j \in 1 .. 255
        BY <2>0, <3>2
      <4>2. m \in 0 .. j - 1 /\ whole[j] = Xor(crc_row(LowBit(j)), whole[m])
        BY <1>2, <4>1
      <4>3. entry[j] = Xor(crc_row(LowBit(j)), entry[m])
        BY <1>6, <4>1
      <4> HIDE DEF m
      <4>4. m \in 0 .. 255 /\ m <= k
        BY <2>0, <3>2, <4>1, <4>2
      <4>5. entry[m] = whole[m]
        BY <4>4
      <4> QED
        BY <4>2, <4>3, <4>5
    <3> QED
      BY <2>0, <2>1, <3>1, <3>2
  <2> QED
    BY <2>0, <2>1
<1> HIDE DEF S
<1>9. Nat \subseteq S
  BY <1>7, <1>8, Induction
<1>10. entry[n] = whole[n]
  <2>1. 255 \in S
    BY <1>9
  <2>2. \A j \in 0 .. 255 : j <= 255 => entry[j] = whole[j]
    BY <2>1 DEF S
  <2> QED
    BY <2>2
<1> QED
  BY <1>4, <1>10 DEF whole

\* A byte at a time is 8 bits at a time.
LEMMA ByteDivided ==
  ASSUME NEW c \in Word, NEW b \in 0 .. 255
  PROVE  /\ crc32_compute8(c, b) = ShiftBits(Xor(c, Bits(b)), 8)
         /\ crc32_compute8(c, b) \in Word
<1> DEFINE x  == Xor(c, Bits(b))
           lo == x \cap (0 .. 7)
           hi == x \ (0 .. 7)
<1>1. x \in Word
  <2>1. Bits(b) \in Word
    <3>1. Bits(b) \subseteq 0 .. 7
      BY BitsOf
    <3> QED
      BY <3>1 DEF Word, Ones
  <2> QED
    BY <2>1, XorDefined
<1>2. crc32_compute8(c, b) = Xor(ShiftRight(x, 8), crc_table[IndexOf(x)])
  BY DEF crc32_compute8
<1> HIDE DEF x
<1>3. lo \in Word /\ hi \in Word /\ x = Xor(hi, lo) /\ \A i \in hi : i \notin 0 .. 7
  BY <1>1 DEF Word, Xor
<1>4. crc_table[IndexOf(x)] = ShiftBits(lo, 8)
  BY Indices, TableEntries
<1>5. ShiftRight(x, 8) = ShiftRight(hi, 8)
  <2>1. \A i : i \in ShiftRight(x, 8) <=> i \in Nat /\ i + 8 \in x
    BY <1>1, XorDefined
  <2>2. \A i : i \in ShiftRight(hi, 8) <=> i \in Nat /\ i + 8 \in hi
    BY <1>3, XorDefined
  <2>3. \A i \in Nat : i + 8 \in hi <=> i + 8 \in x
    OBVIOUS
  <2> HIDE DEF hi
  <2>4. \A i : i \in ShiftRight(x, 8) <=> i \in ShiftRight(hi, 8)
    BY <2>1, <2>2, <2>3
  <2> QED
    BY <2>4
<1> HIDE DEF lo, hi
<1>6. ShiftBits(hi, 8) = ShiftRight(hi, 8)
  BY <1>3, ShiftsHigh
<1>7. ShiftBits(Xor(hi, lo), 8) = Xor(ShiftBits(hi, 8), ShiftBits(lo, 8))
  BY <1>3, ShiftsAdd
<1>8. crc32_compute8(c, b) = ShiftBits(x, 8)
  BY <1>2, <1>3, <1>4, <1>5, <1>6, <1>7
<1>9. ShiftBits(x, 8) \in Word
  BY <1>1, ShiftSteps
<1> QED
  BY <1>8, <1>9 DEF x

\* Two functions that are computed alike from the same value on are the same.
LEMMA Alike ==
  ASSUME NEW n \in Nat, NEW f, NEW g, f[0] = g[0],
         \A k \in 1 .. n : f[k - 1] = g[k - 1] => f[k] = g[k]
  PROVE  f[n] = g[n]
<1> DEFINE S == {k \in Nat : k <= n => f[k] = g[k]}
<1>1. 0 \in S
  OBVIOUS
<1>2. ASSUME NEW k \in S PROVE k + 1 \in S
  <2>1. k \in Nat /\ k + 1 \in Nat /\ (k + 1) - 1 = k
    OBVIOUS
  <2>2. ASSUME k + 1 <= n PROVE f[k + 1] = g[k + 1]
    <3>1. k + 1 \in 1 .. n /\ f[k] = g[k]
      BY <2>1, <2>2
    <3>2. f[(k + 1) - 1] = g[(k + 1) - 1]
      BY <2>1, <3>1
    <3> QED
      BY <3>1, <3>2
  <2> QED
    BY <2>1, <2>2
<1> HIDE DEF S
<1>3. Nat \subseteq S
  BY <1>1, <1>2, Induction
<1> QED
  BY <1>3 DEF S

\* h is the register of the division, from its start to its last byte.
Divides(h, msg) ==
  /\ h[0] = Ones(32)
  /\ \A k \in 1 .. Len(msg) : h[k] = ShiftBits(Xor(h[k - 1], Bits(msg[k])), 8)
  /\ Remainder(msg) = h[Len(msg)]

LEMMA MessageDivided ==
  ASSUME NEW msg \in Seq(0 .. 255)
  PROVE  /\ crc32(msg) = Xor(Ones(32), Remainder(msg))
         /\ \E h : Divides(h, msg)
<1> DEFINE n == Len(msg)
           step == [p \in Word \X (Nat \ {0}) |->
                      IF p[2] \in 1 .. n THEN ShiftBits(Xor(p[1], Bits(msg[p[2]])), 8) ELSE {}]
           IsCrc(f) == f = [k \in 0 .. n |-> IF k = 0 THEN crc32_init
                                             ELSE crc32_compute8(f[k - 1], msg[k])]
           IsRem(f) == f = [k \in 0 .. n |-> IF k = 0 THEN Ones(32)
                                             ELSE ShiftBits(Xor(f[k - 1], Bits(msg[k])), 8)]
           crc == CHOOSE f : IsCrc(f)
           rem == CHOOSE f : IsRem(f)
<1>0. /\ crc32(msg) = crc32_finalize(crc[n])
      /\ Remainder(msg) = rem[n]
  BY DEF crc32, Remainder
<1>1. n \in Nat /\ \A k \in 1 .. n : msg[k] \in 0 .. 255
  BY LenProperties, ElementOfSeq
<1> HIDE DEF n
<1>2. \A c \in Word : \A k \in 1 .. n :
        /\ crc32_compute8(c, msg[k]) = ShiftBits(Xor(c, Bits(msg[k])), 8)
        /\ crc32_compute8(c, msg[k]) \in Word
  BY <1>1, ByteDivided
<1>3. Ones(32) \in Word /\ {} \in Word /\ crc32_init = Ones(32)
  BY DEF Word, crc32_init
<1>4. step \in [Word \X (Nat \ {0}) -> Word]
  <2>1. ASSUME NEW p \in Word \X (Nat \ {0})
        PROVE  (IF p[2] \in 1 .. n THEN ShiftBits(Xor(p[1], Bits(msg[p[2]])), 8) ELSE {}) \in Word
    <3>1. p[1] \in Word
      OBVIOUS
    <3>2. p[2] \in 1 .. n => ShiftBits(Xor(p[1], Bits(msg[p[2]])), 8) \in Word
      BY <1>2, <3>1
    <3> QED
      BY <1>3, <3>2
  <2> QED
    BY <2>1
<1>5. PICK h \in [0 .. n -> Word] : Steps(h, Ones(32), step, n)
  BY <1>1, <1>3, <1>4, FunctionExists
<1>6. h[0] = Ones(32) /\ \A k \in 1 .. n : /\ h[k] = ShiftBits(Xor(h[k - 1], Bits(msg[k])), 8)
                                           /\ h[k] = crc32_compute8(h[k - 1], msg[k])
  <2>1. ASSUME NEW k \in 1 .. n
        PROVE  /\ h[k] = ShiftBits(Xor(h[k - 1], Bits(msg[k])), 8)
               /\ h[k] = crc32_compute8(h[k - 1], msg[k])
    <3>1. k \in Nat \ {0} /\ k - 1 \in 0 .. n /\ h[k - 1] \in Word
      BY <1>1
    <3>2. h[k] = step[<<h[k - 1], k>>]
      BY <1>5 DEF Steps
    <3>3. h[k] = ShiftBits(Xor(h[k - 1], Bits(msg[k])), 8)
      BY <3>1, <3>2
    <3> QED
      BY <1>2, <3>1, <3>3
  <2> QED
    BY <1>5, <2>1 DEF Steps
<1> HIDE DEF step
<1>7. IsCrc(h) /\ IsRem(h)
  <2>1. \A k \in 0 .. n : k = 0 \/ k \in 1 .. n
    BY <1>1
  <2>2. \A k \in 0 .. n : h[k] = IF k = 0 THEN crc32_init
                                 ELSE crc32_compute8(h[k - 1], msg[k])
    BY <1>3, <1>6, <2>1
  <2>3. \A k \in 0 .. n : h[k] = IF k = 0 THEN Ones(32)
                                 ELSE ShiftBits(Xor(h[k - 1], Bits(msg[k])), 8)
    BY <1>6, <2>1
  <2>4. IsCrc(h)
    BY <2>2
  <2>5. IsRem(h)
    BY <2>3
  <2> QED
    BY <2>4, <2>5
<1>8. IsCrc(crc) /\ IsRem(rem)
  <2> HIDE DEF IsCrc, IsRem
  <2> QED
    BY <1>7
<1> HIDE DEF crc, rem
<1>9. 0 \in 0 .. n /\ \A k \in 1 .. n : k \in 0 .. n /\ k # 0
  BY <1>1
<1>10. /\ crc[0] = crc32_init
       /\ \A k \in 1 .. n : crc[k] = crc32_compute8(crc[k - 1], msg[k])
  <2>1. \A k \in 0 .. n : crc[k] = IF k = 0 THEN crc32_init
                                   ELSE crc32_compute8(crc[k - 1], msg[k])
    BY <1>8
  <2> QED
    BY <1>9, <2>1
<1>11. /\ rem[0] = Ones(32)
       /\ \A k \in 1 .. n : rem[k] = ShiftBits(Xor(rem[k - 1], Bits(msg[k])), 8)
  <2>1. \A k \in 0 .. n : rem[k] = IF k = 0 THEN Ones(32)
                                   ELSE ShiftBits(Xor(rem[k - 1], Bits(msg[k])), 8)
    BY <1>8
  <2> QED
    BY <1>9, <2>1
<1>12. crc[n] = h[n]
  <2>1. \A k \in 1 .. n : crc[k - 1] = h[k - 1] => crc[k] = h[k]
    BY <1>6, <1>10
  <2>2. crc[0] = h[0]
    BY <1>3, <1>6, <1>10
  <2> QED
    BY <1>1, <2>1, <2>2, Alike
<1>13. rem[n] = h[n]
  <2>1. \A k \in 1 .. n : rem[k - 1] = h[k - 1] => rem[k] = h[k]
    BY <1>6, <1>11
  <2>2. rem[0] = h[0]
    BY <1>6, <1>11
  <2> QED
    BY <1>1, <2>1, <2>2, Alike
<1>14. \A x : crc32_finalize(x) = Xor(Ones(32), x)
  BY DEF crc32_finalize, Xor
<1>15. Divides(h, msg)
  BY <1>0, <1>6, <1>13 DEF Divides, n
<1> QED
  BY <1>0, <1>12, <1>13, <1>14, <1>15

\* Whatever the message and its length are, the table gives the remainder of its
\* division by the generator polynomial: no entry of it is computed too early,
\* from another that is still 0.
THEOREM CrcDivides == Spec => []CrcIsDivision
<1>1. Init => CrcIsDivision
  BY CallNames DEF Init, CrcIsDivision
<1>2. CrcIsDivision /\ [Next]_call => CrcIsDivision'
  <2>1. ASSUME CrcIsDivision, call' = call PROVE CrcIsDivision'
    BY <2>1 DEF CrcIsDivision
  <2>2. ASSUME [Next]_call, call'.fn = "crc", call' # call PROVE CrcIsDivision'
    <3>1. CallCrc
      BY <2>2, Calls, CallNames
    <3>2. PICK msg \in Messages : call' = [fn |-> "crc", msg |-> msg, res |-> crc32(msg)]
      BY <3>1 DEF CallCrc
    <3>3. msg \in Seq(0 .. 255)
      BY InputsAssumption
    <3>4. crc32(msg) = Xor(Ones(32), Remainder(msg))
      BY <3>3, MessageDivided
    <3>5. call'.msg = msg /\ call'.res = crc32(msg)
      BY <3>2
    <3> QED
      BY <3>4, <3>5 DEF CrcIsDivision
  <2>3. ASSUME call'.fn # "crc" PROVE CrcIsDivision'
    BY <2>3 DEF CrcIsDivision
  <2> QED
    BY <2>1, <2>2, <2>3
<1> QED
  BY <1>1, <1>2, PTL DEF Spec

-----------------------------------------------------------------------------
(* A known checksum.                                                       *)

\* The rows of the table in positions of bits: what its own bit leaves of each
\* of the lowest 8.
Row0 == {1, 2, 4, 7, 12, 13, 16, 17, 18, 24, 25, 26, 28, 29, 30}
Row1 == {2, 3, 5, 8, 13, 14, 17, 18, 19, 25, 26, 27, 29, 30, 31}
Row2 == {0, 3, 4, 10, 14, 15, 16, 18, 19, 21, 22, 24, 25, 26}
Row3 == {1, 4, 5, 11, 15, 16, 17, 19, 20, 22, 23, 25, 26, 27}
Row4 == {2, 5, 6, 12, 16, 17, 18, 20, 21, 23, 24, 26, 27, 28}
Row5 == {3, 6, 7, 13, 17, 18, 19, 21, 22, 24, 25, 27, 28, 29}
Row6 == {4, 7, 8, 14, 18, 19, 20, 22, 23, 25, 26, 28, 29, 30}
Row7 == Poly

\* Two sets of positions that have the same ones of the 32.
SameBits(a, b) == \A i \in 0 .. 31 : i \in a <=> i \in b

LEMMA Extension ==
  ASSUME NEW a \in Word, NEW b \in Word, SameBits(a, b) PROVE a = b
<1>1. a \subseteq 0 .. 31 /\ b \subseteq 0 .. 31
  BY DEF Word, Ones
<1> QED
  BY <1>1 DEF SameBits

RowsAreWords ==
  /\ Row0 \in Word /\ Row1 \in Word /\ Row2 \in Word /\ Row3 \in Word
  /\ Row4 \in Word /\ Row5 \in Word /\ Row6 \in Word /\ Row7 \in Word

LEMMA RowWords == RowsAreWords

<1>0. Row0 \in Word
  BY DEF Row0, Word, Ones
<1>1. Row1 \in Word
  BY DEF Row1, Word, Ones
<1>2. Row2 \in Word
  BY DEF Row2, Word, Ones
<1>3. Row3 \in Word
  BY DEF Row3, Word, Ones
<1>4. Row4 \in Word
  BY DEF Row4, Word, Ones
<1>5. Row5 \in Word
  BY DEF Row5, Word, Ones
<1>6. Row6 \in Word
  BY DEF Row6, Word, Ones
<1>7. Row7 \in Word
  BY DEF Row7, Poly, Word, Ones
<1> QED
  BY <1>0, <1>1, <1>2, <1>3, <1>4, <1>5, <1>6, <1>7 DEF RowsAreWords

LEMMA BitStepIs ==
  ASSUME NEW x \in Word, NEW y \in Word,
         \A i \in 0 .. 31 : i \in y <=> ~(i + 1 \in x <=> (0 \in x /\ i \in Poly))
  PROVE  ShiftBit(x) = y
<1>0. Poly \in Word /\ {} \in Word
  BY DEF Poly, Word, Ones
<1>1. \A i : i \in ShiftBit(x) <=>
               ~((i \in Nat /\ i + 1 \in x) <=> (0 \in x /\ i \in Poly))
  <2>1. \A i : i \in ShiftRight(x, 1) <=> i \in Nat /\ i + 1 \in x
    BY ONLY 1 \in Nat, x \in Word, XorDefined
  <2>2. ShiftBit(x) = Xor(ShiftRight(x, 1), IF 0 \in x THEN Poly ELSE {})
    BY DEF ShiftBit
  <2>3. \A a, b, i : i \in Xor(a, b) <=> ~(i \in a <=> i \in b)
    BY XorDefined
  <2> QED
    BY ONLY <2>1, <2>2, <2>3
<1>2. \A i \in 0 .. 31 :
        i \in ShiftBit(x) <=> ~(i + 1 \in x <=> (0 \in x /\ i \in Poly))
  BY <1>1
<1>3. SameBits(ShiftBit(x), y)
  BY <1>2 DEF SameBits
<1> QED
  BY <1>3, BitStep, Extension

LEMMA RowsAre ==
  /\ crc_row(0) = Row0 /\ crc_row(1) = Row1 /\ crc_row(2) = Row2 /\ crc_row(3) = Row3
  /\ crc_row(4) = Row4 /\ crc_row(5) = Row5 /\ crc_row(6) = Row6 /\ crc_row(7) = Row7
<1>w. {0} \in Word /\ RowsAreWords
  BY RowWords DEF Word, Ones
<1>s. ASSUME NEW n \in 0 .. 7 PROVE ShiftBits({0}, n + 1) = ShiftBit(ShiftBits({0}, n))
  BY <1>w, ShiftSteps
<1>7. ShiftBits({0}, 1) = Row7
  <2>1. ShiftBits({0}, 0 + 1) = ShiftBit({0})
    BY <1>w, <1>s, ShiftSteps
  <2>2. ShiftBit({0}) = Row7
    BY <1>w, BitStepIs DEF Row7, RowsAreWords
  <2> QED
    BY <2>1, <2>2
<1>6. ShiftBits({0}, 2) = Row6
  <2>1. ShiftBits({0}, 1 + 1) = ShiftBit(Row7)
    BY <1>7, <1>s
  <2>2. ShiftBit(Row7) = Row6
    BY <1>w, BitStepIs DEF RowsAreWords, Row7, Row6, Poly
  <2> QED
    BY <2>1, <2>2
<1>5. ShiftBits({0}, 3) = Row5
  <2>1. ShiftBits({0}, 2 + 1) = ShiftBit(Row6)
    BY <1>6, <1>s
  <2>2. ShiftBit(Row6) = Row5
    BY <1>w, BitStepIs DEF RowsAreWords, Row6, Row5, Poly
  <2> QED
    BY <2>1, <2>2
<1>4. ShiftBits({0}, 4) = Row4
  <2>1. ShiftBits({0}, 3 + 1) = ShiftBit(Row5)
    BY <1>5, <1>s
  <2>2. ShiftBit(Row5) = Row4
    BY <1>w, BitStepIs DEF RowsAreWords, Row5, Row4, Poly
  <2> QED
    BY <2>1, <2>2
<1>3. ShiftBits({0}, 5) = Row3
  <2>1. ShiftBits({0}, 4 + 1) = ShiftBit(Row4)
    BY <1>4, <1>s
  <2>2. ShiftBit(Row4) = Row3
    BY <1>w, BitStepIs DEF RowsAreWords, Row4, Row3, Poly
  <2> QED
    BY <2>1, <2>2
<1>2. ShiftBits({0}, 6) = Row2
  <2>1. ShiftBits({0}, 5 + 1) = ShiftBit(Row3)
    BY <1>3, <1>s
  <2>2. ShiftBit(Row3) = Row2
    BY <1>w, BitStepIs DEF RowsAreWords, Row3, Row2, Poly
  <2> QED
    BY <2>1, <2>2
<1>1. ShiftBits({0}, 7) = Row1
  <2>1. ShiftBits({0}, 6 + 1) = ShiftBit(Row2)
    BY <1>2, <1>s
  <2>2. ShiftBit(Row2) = Row1
    BY <1>w, BitStepIs DEF RowsAreWords, Row2, Row1, Poly
  <2> QED
    BY <2>1, <2>2
<1>0. ShiftBits({0}, 8) = Row0
  <2>1. ShiftBits({0}, 7 + 1) = ShiftBit(Row1)
    BY <1>1, <1>s
  <2>2. ShiftBit(Row1) = Row0
    BY <1>w, BitStepIs DEF RowsAreWords, Row1, Row0, Poly
  <2> QED
    BY <2>1, <2>2
<1> QED
  BY <1>0, <1>1, <1>2, <1>3, <1>4, <1>5, <1>6, <1>7 DEF crc_row

\* Exclusive or, of truth values.
Odd(a, b) == ~(a <=> b)

\* Bit i of what 8 steps of the division leave of a word.
Reduced(x, i) ==
  LET r0 == Odd(i + 8 \in x, 0 \in x /\ i \in Row0)
      r1 == Odd(r0, 1 \in x /\ i \in Row1)
      r2 == Odd(r1, 2 \in x /\ i \in Row2)
      r3 == Odd(r2, 3 \in x /\ i \in Row3)
      r4 == Odd(r3, 4 \in x /\ i \in Row4)
      r5 == Odd(r4, 5 \in x /\ i \in Row5)
      r6 == Odd(r5, 6 \in x /\ i \in Row6)
  IN  Odd(r6, 7 \in x /\ i \in Row7)

\* One bit of the byte, and the others.
LEMMA BitApart ==
  ASSUME NEW x \in Word, NEW k \in 0 .. 7, NEW r, r = x \ {k}, NEW i
  PROVE  /\ r \in Word
         /\ i \in ShiftBits(x, 8) <=>
              Odd(i \in ShiftBits(r, 8), k \in x /\ i \in crc_row(k))
<1>1. r \in Word /\ {k} \in Word
  BY DEF Word, Ones
<1>2. CASE k \in x
  <2>1. x = Xor(r, {k})
    BY <1>2 DEF Xor
  <2>2. ShiftBits(Xor(r, {k}), 8) = Xor(ShiftBits(r, 8), ShiftBits({k}, 8))
    <3>1. 8 \in 0 .. 8
      OBVIOUS
    <3> QED
      BY ONLY <1>1, <3>1, ShiftsAdd
  <2>3. ShiftBits({k}, 8) = crc_row(k)
    BY RowShifts
  <2>4. i \in Xor(ShiftBits(r, 8), crc_row(k)) <=>
          ~(i \in ShiftBits(r, 8) <=> i \in crc_row(k))
    BY XorDefined
  <2>5. i \in ShiftBits(x, 8) <=> ~(i \in ShiftBits(r, 8) <=> i \in crc_row(k))
    BY ONLY <2>1, <2>2, <2>3, <2>4
  <2> QED
    BY <1>1, <1>2, <2>5 DEF Odd
<1>3. CASE k \notin x
  <2>1. r = x
    BY <1>3
  <2> QED
    BY <1>1, <1>3, <2>1 DEF Odd
<1> QED
  BY <1>2, <1>3

LEMMA ByteReduced ==
  ASSUME NEW x \in Word, NEW y \in Word, \A i \in 0 .. 31 : i \in y <=> Reduced(x, i)
  PROVE  ShiftBits(x, 8) = y
<1> SUFFICES ASSUME NEW i \in 0 .. 31
             PROVE  i \in ShiftBits(x, 8) <=> Reduced(x, i)
  <2>1. SameBits(ShiftBits(x, 8), y)
    BY DEF SameBits
  <2> QED
    BY <2>1, ShiftSteps, Extension
<1> DEFINE x0 == x \ {0}
           x1 == x0 \ {1}
           x2 == x1 \ {2}
           x3 == x2 \ {3}
           x4 == x3 \ {4}
           x5 == x4 \ {5}
           x6 == x5 \ {6}
           x7 == x6 \ {7}
<1>10. x0 = x \ {0}
  OBVIOUS
<1>11. x1 = x0 \ {1} /\ (1 \in x0 <=> 1 \in x)
  OBVIOUS
<1>12. x2 = x1 \ {2} /\ (2 \in x1 <=> 2 \in x)
  OBVIOUS
<1>13. x3 = x2 \ {3} /\ (3 \in x2 <=> 3 \in x)
  OBVIOUS
<1>14. x4 = x3 \ {4} /\ (4 \in x3 <=> 4 \in x)
  OBVIOUS
<1>15. x5 = x4 \ {5} /\ (5 \in x4 <=> 5 \in x)
  OBVIOUS
<1>16. x6 = x5 \ {6} /\ (6 \in x5 <=> 6 \in x)
  OBVIOUS
<1>17. x7 = x6 \ {7} /\ (7 \in x6 <=> 7 \in x)
  OBVIOUS
<1>18. (\A j \in x7 : j \notin 0 .. 7) /\ (i + 8 \in x7 <=> i + 8 \in x)
  BY DEF Word, Ones
<1> HIDE DEF x0, x1, x2, x3, x4, x5, x6, x7
<1>0. /\ x0 \in Word
      /\ i \in ShiftBits(x, 8) <=> Odd(i \in ShiftBits(x0, 8), 0 \in x /\ i \in Row0)
  <2>1. 0 \in 0 .. 7 /\ x \in Word
    BY x \in Word
  <2>2. crc_row(0) = Row0
    BY RowsAre
  <2> QED
    BY ONLY <1>10, <2>1, <2>2, BitApart
<1>1. /\ x1 \in Word
      /\ i \in ShiftBits(x0, 8) <=> Odd(i \in ShiftBits(x1, 8), 1 \in x /\ i \in Row1)
  <2>1. 1 \in 0 .. 7 /\ x0 \in Word
    BY <1>0
  <2>2. crc_row(1) = Row1
    BY RowsAre
  <2> QED
    BY ONLY <1>11, <2>1, <2>2, BitApart
<1>2. /\ x2 \in Word
      /\ i \in ShiftBits(x1, 8) <=> Odd(i \in ShiftBits(x2, 8), 2 \in x /\ i \in Row2)
  <2>1. 2 \in 0 .. 7 /\ x1 \in Word
    BY <1>1
  <2>2. crc_row(2) = Row2
    BY RowsAre
  <2> QED
    BY ONLY <1>12, <2>1, <2>2, BitApart
<1>3. /\ x3 \in Word
      /\ i \in ShiftBits(x2, 8) <=> Odd(i \in ShiftBits(x3, 8), 3 \in x /\ i \in Row3)
  <2>1. 3 \in 0 .. 7 /\ x2 \in Word
    BY <1>2
  <2>2. crc_row(3) = Row3
    BY RowsAre
  <2> QED
    BY ONLY <1>13, <2>1, <2>2, BitApart
<1>4. /\ x4 \in Word
      /\ i \in ShiftBits(x3, 8) <=> Odd(i \in ShiftBits(x4, 8), 4 \in x /\ i \in Row4)
  <2>1. 4 \in 0 .. 7 /\ x3 \in Word
    BY <1>3
  <2>2. crc_row(4) = Row4
    BY RowsAre
  <2> QED
    BY ONLY <1>14, <2>1, <2>2, BitApart
<1>5. /\ x5 \in Word
      /\ i \in ShiftBits(x4, 8) <=> Odd(i \in ShiftBits(x5, 8), 5 \in x /\ i \in Row5)
  <2>1. 5 \in 0 .. 7 /\ x4 \in Word
    BY <1>4
  <2>2. crc_row(5) = Row5
    BY RowsAre
  <2> QED
    BY ONLY <1>15, <2>1, <2>2, BitApart
<1>6. /\ x6 \in Word
      /\ i \in ShiftBits(x5, 8) <=> Odd(i \in ShiftBits(x6, 8), 6 \in x /\ i \in Row6)
  <2>1. 6 \in 0 .. 7 /\ x5 \in Word
    BY <1>5
  <2>2. crc_row(6) = Row6
    BY RowsAre
  <2> QED
    BY ONLY <1>16, <2>1, <2>2, BitApart
<1>7. /\ x7 \in Word
      /\ i \in ShiftBits(x6, 8) <=> Odd(i \in ShiftBits(x7, 8), 7 \in x /\ i \in Row7)
  <2>1. 7 \in 0 .. 7 /\ x6 \in Word
    BY <1>6
  <2>2. crc_row(7) = Row7
    BY RowsAre
  <2> QED
    BY ONLY <1>17, <2>1, <2>2, BitApart
<1>9. i \in ShiftBits(x7, 8) <=> i + 8 \in x
  <2>1. i \in ShiftRight(x7, 8) <=> i + 8 \in x7
    <3>1. \A j : j \in ShiftRight(x7, 8) <=> j \in Nat /\ j + 8 \in x7
      BY ONLY 8 \in Nat, <1>7, XorDefined
    <3> QED
      BY <3>1
  <2>2. ShiftBits(x7, 8) = ShiftRight(x7, 8)
    BY <1>7, <1>18, ShiftsHigh
  <2> QED
    BY <1>18, <2>1, <2>2
<1> QED
  BY ONLY <1>0, <1>1, <1>2, <1>3, <1>4, <1>5, <1>6, <1>7, <1>9 DEF Reduced, Odd

\* The register before each byte of "123456789", and behind the last.
CheckReg ==
  [k \in 0 .. 9 |->
     CASE k = 0 -> Ones(32)
       [] k = 1 -> {3, 6, 12, 16, 17, 21, 26, 27, 28, 29, 30}
       [] k = 2 -> {1, 4, 5, 8, 9, 11, 12, 13, 15, 18, 19, 21, 23, 28, 29, 31}
       [] k = 3 -> {0, 2, 3, 5, 10, 11, 12, 15, 16, 17, 18, 20, 21, 23, 24, 25, 26, 28, 29, 30}
       [] k = 4 -> {2, 3, 4, 6, 8, 9, 10, 11, 12, 18, 19, 20, 26, 29, 30}
       [] k = 5 -> {0, 1, 5, 6, 7, 8, 10, 14, 15, 17, 19, 26, 28, 29}
       [] k = 6 -> {1, 2, 3, 4, 7, 10, 11, 13, 16, 18, 19, 23, 25, 26, 28, 29, 30, 31}
       [] k = 7 -> {5, 6, 9, 10, 12, 15, 18, 19, 20, 21, 22, 23, 24, 25, 26, 27, 29, 31}
       [] k = 8 -> {4, 6, 8, 10, 13, 16, 17, 18, 19, 20, 24, 26, 29, 30}
       [] k = 9 -> {0, 3, 4, 6, 7, 9, 10, 14, 15, 16, 17, 19, 26, 28, 29}]

LEMMA CheckByte1 == ShiftBits(Xor(CheckReg[0], Bits(49)), 8) = CheckReg[1]
<1> DEFINE x == {1, 2, 3, 6, 7, 8, 9, 10, 11, 12, 13, 14, 15, 16, 17, 18, 19, 20, 21, 22, 23, 24, 25,
                26, 27, 28, 29, 30, 31}
           y == {3, 6, 12, 16, 17, 21, 26, 27, 28, 29, 30}
<1>1. CheckReg[0] = Ones(32) /\ CheckReg[1] = y
  BY DEF CheckReg
<1>2. Bits(49) = {0, 4, 5}
  BY BitsOf
<1>3. x \in Word /\ y \in Word
  BY DEF Word, Ones
<1>4. Xor(CheckReg[0], Bits(49)) = x
  BY <1>1, <1>2 DEF Xor, Ones
<1>5. ASSUME NEW i \in 0 .. 31 PROVE i \in y <=> Reduced(x, i)
  BY DEF Reduced, Odd, Row0, Row1, Row2, Row3, Row4, Row5, Row6, Row7, Poly
<1> HIDE DEF x, y
<1> QED
  BY <1>1, <1>3, <1>4, <1>5, ByteReduced

LEMMA CheckByte2 == ShiftBits(Xor(CheckReg[1], Bits(50)), 8) = CheckReg[2]
<1> DEFINE x == {1, 3, 4, 5, 6, 12, 16, 17, 21, 26, 27, 28, 29, 30}
           y == {1, 4, 5, 8, 9, 11, 12, 13, 15, 18, 19, 21, 23, 28, 29, 31}
<1>1. CheckReg[1] = {3, 6, 12, 16, 17, 21, 26, 27, 28, 29, 30} /\ CheckReg[2] = y
  BY DEF CheckReg
<1>2. Bits(50) = {1, 4, 5}
  BY BitsOf
<1>3. x \in Word /\ y \in Word
  BY DEF Word, Ones
<1>4. Xor(CheckReg[1], Bits(50)) = x
  BY <1>1, <1>2 DEF Xor, Ones
<1>5. ASSUME NEW i \in 0 .. 31 PROVE i \in y <=> Reduced(x, i)
  BY DEF Reduced, Odd, Row0, Row1, Row2, Row3, Row4, Row5, Row6, Row7, Poly
<1> HIDE DEF x, y
<1> QED
  BY <1>1, <1>3, <1>4, <1>5, ByteReduced

LEMMA CheckByte3 == ShiftBits(Xor(CheckReg[2], Bits(51)), 8) = CheckReg[3]
<1> DEFINE x == {0, 8, 9, 11, 12, 13, 15, 18, 19, 21, 23, 28, 29, 31}
           y == {0, 2, 3, 5, 10, 11, 12, 15, 16, 17, 18, 20, 21, 23, 24, 25, 26, 28, 29, 30}
<1>1. CheckReg[2] = {1, 4, 5, 8, 9, 11, 12, 13, 15, 18, 19, 21, 23, 28, 29, 31} /\ CheckReg[3] = y
  BY DEF CheckReg
<1>2. Bits(51) = {0, 1, 4, 5}
  BY BitsOf
<1>3. x \in Word /\ y \in Word
  BY DEF Word, Ones
<1>4. Xor(CheckReg[2], Bits(51)) = x
  BY <1>1, <1>2 DEF Xor, Ones
<1>5. ASSUME NEW i \in 0 .. 31 PROVE i \in y <=> Reduced(x, i)
  BY DEF Reduced, Odd, Row0, Row1, Row2, Row3, Row4, Row5, Row6, Row7, Poly
<1> HIDE DEF x, y
<1> QED
  BY <1>1, <1>3, <1>4, <1>5, ByteReduced

LEMMA CheckByte4 == ShiftBits(Xor(CheckReg[3], Bits(52)), 8) = CheckReg[4]
<1> DEFINE x == {0, 3, 4, 10, 11, 12, 15, 16, 17, 18, 20, 21, 23, 24, 25, 26, 28, 29, 30}
           y == {2, 3, 4, 6, 8, 9, 10, 11, 12, 18, 19, 20, 26, 29, 30}
<1>1. CheckReg[3] = {0, 2, 3, 5, 10, 11, 12, 15, 16, 17, 18, 20, 21, 23, 24, 25, 26, 28, 29, 30} /\ CheckReg[4] = y
  BY DEF CheckReg
<1>2. Bits(52) = {2, 4, 5}
  BY BitsOf
<1>3. x \in Word /\ y \in Word
  BY DEF Word, Ones
<1>4. Xor(CheckReg[3], Bits(52)) = x
  BY <1>1, <1>2 DEF Xor, Ones
<1>5. ASSUME NEW i \in 0 .. 31 PROVE i \in y <=> Reduced(x, i)
  BY DEF Reduced, Odd, Row0, Row1, Row2, Row3, Row4, Row5, Row6, Row7, Poly
<1> HIDE DEF x, y
<1> QED
  BY <1>1, <1>3, <1>4, <1>5, ByteReduced

LEMMA CheckByte5 == ShiftBits(Xor(CheckReg[4], Bits(53)), 8) = CheckReg[5]
<1> DEFINE x == {0, 3, 5, 6, 8, 9, 10, 11, 12, 18, 19, 20, 26, 29, 30}
           y == {0, 1, 5, 6, 7, 8, 10, 14, 15, 17, 19, 26, 28, 29}
<1>1. CheckReg[4] = {2, 3, 4, 6, 8, 9, 10, 11, 12, 18, 19, 20, 26, 29, 30} /\ CheckReg[5] = y
  BY DEF CheckReg
<1>2. Bits(53) = {0, 2, 4, 5}
  BY BitsOf
<1>3. x \in Word /\ y \in Word
  BY DEF Word, Ones
<1>4. Xor(CheckReg[4], Bits(53)) = x
  BY <1>1, <1>2 DEF Xor, Ones
<1>5. ASSUME NEW i \in 0 .. 31 PROVE i \in y <=> Reduced(x, i)
  BY DEF Reduced, Odd, Row0, Row1, Row2, Row3, Row4, Row5, Row6, Row7, Poly
<1> HIDE DEF x, y
<1> QED
  BY <1>1, <1>3, <1>4, <1>5, ByteReduced

LEMMA CheckByte6 == ShiftBits(Xor(CheckReg[5], Bits(54)), 8) = CheckReg[6]
<1> DEFINE x == {0, 2, 4, 6, 7, 8, 10, 14, 15, 17, 19, 26, 28, 29}
           y == {1, 2, 3, 4, 7, 10, 11, 13, 16, 18, 19, 23, 25, 26, 28, 29, 30, 31}
<1>1. CheckReg[5] = {0, 1, 5, 6, 7, 8, 10, 14, 15, 17, 19, 26, 28, 29} /\ CheckReg[6] = y
  BY DEF CheckReg
<1>2. Bits(54) = {1, 2, 4, 5}
  BY BitsOf
<1>3. x \in Word /\ y \in Word
  BY DEF Word, Ones
<1>4. Xor(CheckReg[5], Bits(54)) = x
  BY <1>1, <1>2 DEF Xor, Ones
<1>5. ASSUME NEW i \in 0 .. 31 PROVE i \in y <=> Reduced(x, i)
  BY DEF Reduced, Odd, Row0, Row1, Row2, Row3, Row4, Row5, Row6, Row7, Poly
<1> HIDE DEF x, y
<1> QED
  BY <1>1, <1>3, <1>4, <1>5, ByteReduced

LEMMA CheckByte7 == ShiftBits(Xor(CheckReg[6], Bits(55)), 8) = CheckReg[7]
<1> DEFINE x == {0, 3, 5, 7, 10, 11, 13, 16, 18, 19, 23, 25, 26, 28, 29, 30, 31}
           y == {5, 6, 9, 10, 12, 15, 18, 19, 20, 21, 22, 23, 24, 25, 26, 27, 29, 31}
<1>1. CheckReg[6] = {1, 2, 3, 4, 7, 10, 11, 13, 16, 18, 19, 23, 25, 26, 28, 29, 30, 31} /\ CheckReg[7] = y
  BY DEF CheckReg
<1>2. Bits(55) = {0, 1, 2, 4, 5}
  BY BitsOf
<1>3. x \in Word /\ y \in Word
  BY DEF Word, Ones
<1>4. Xor(CheckReg[6], Bits(55)) = x
  BY <1>1, <1>2 DEF Xor, Ones
<1>5. ASSUME NEW i \in 0 .. 31 PROVE i \in y <=> Reduced(x, i)
  BY DEF Reduced, Odd, Row0, Row1, Row2, Row3, Row4, Row5, Row6, Row7, Poly
<1> HIDE DEF x, y
<1> QED
  BY <1>1, <1>3, <1>4, <1>5, ByteReduced

LEMMA CheckByte8 == ShiftBits(Xor(CheckReg[7], Bits(56)), 8) = CheckReg[8]
<1> DEFINE x == {3, 4, 6, 9, 10, 12, 15, 18, 19, 20, 21, 22, 23, 24, 25, 26, 27, 29, 31}
           y == {4, 6, 8, 10, 13, 16, 17, 18, 19, 20, 24, 26, 29, 30}
<1>1. CheckReg[7] = {5, 6, 9, 10, 12, 15, 18, 19, 20, 21, 22, 23, 24, 25, 26, 27, 29, 31} /\ CheckReg[8] = y
  BY DEF CheckReg
<1>2. Bits(56) = {3, 4, 5}
  BY BitsOf
<1>3. x \in Word /\ y \in Word
  BY DEF Word, Ones
<1>4. Xor(CheckReg[7], Bits(56)) = x
  BY <1>1, <1>2 DEF Xor, Ones
<1>5. ASSUME NEW i \in 0 .. 31 PROVE i \in y <=> Reduced(x, i)
  BY DEF Reduced, Odd, Row0, Row1, Row2, Row3, Row4, Row5, Row6, Row7, Poly
<1> HIDE DEF x, y
<1> QED
  BY <1>1, <1>3, <1>4, <1>5, ByteReduced

LEMMA CheckByte9 == ShiftBits(Xor(CheckReg[8], Bits(57)), 8) = CheckReg[9]
<1> DEFINE x == {0, 3, 5, 6, 8, 10, 13, 16, 17, 18, 19, 20, 24, 26, 29, 30}
           y == {0, 3, 4, 6, 7, 9, 10, 14, 15, 16, 17, 19, 26, 28, 29}
<1>1. CheckReg[8] = {4, 6, 8, 10, 13, 16, 17, 18, 19, 20, 24, 26, 29, 30} /\ CheckReg[9] = y
  BY DEF CheckReg
<1>2. Bits(57) = {0, 3, 4, 5}
  BY BitsOf
<1>3. x \in Word /\ y \in Word
  BY DEF Word, Ones
<1>4. Xor(CheckReg[8], Bits(57)) = x
  BY <1>1, <1>2 DEF Xor, Ones
<1>5. ASSUME NEW i \in 0 .. 31 PROVE i \in y <=> Reduced(x, i)
  BY DEF Reduced, Odd, Row0, Row1, Row2, Row3, Row4, Row5, Row6, Row7, Poly
<1> HIDE DEF x, y
<1> QED
  BY <1>1, <1>3, <1>4, <1>5, ByteReduced

LEMMA CheckValue ==
  ASSUME NEW msg \in Seq(0 .. 255), msg = [i \in 1 .. 9 |-> 48 + i]
  PROVE  crc32(msg) =
           {1, 2, 5, 8, 11, 12, 13, 18, 20, 21, 22, 23, 24, 25, 27, 30, 31}
<1>1. Len(msg) = 9
  <2>1. DOMAIN msg = 1 .. 9
    OBVIOUS
  <2>2. DOMAIN msg = 1 .. Len(msg) /\ Len(msg) \in Nat
    BY LenProperties
  <2> QED
    BY <2>1, <2>2
<1>2. PICK h : Divides(h, msg)
  BY MessageDivided
<1>3. /\ h[0] = Ones(32) /\ Remainder(msg) = h[9]
      /\ \A k \in 1 .. 9 : h[k] = ShiftBits(Xor(h[k - 1], Bits(48 + k)), 8)
  <2>1. \A k \in 1 .. 9 : msg[k] = 48 + k
    OBVIOUS
  <2> QED
    BY <1>1, <1>2, <2>1 DEF Divides
<1>4. CheckReg[0] = Ones(32)
  BY DEF CheckReg
<1>8. h[1] = CheckReg[1]
  <2>1. h[1] = ShiftBits(Xor(h[1 - 1], Bits(48 + 1)), 8)
    BY <1>3
  <2>2. 1 - 1 = 0 /\ 48 + 1 = 49
    OBVIOUS
  <2> QED
    BY ONLY <1>3, <1>4, <2>1, <2>2, CheckByte1
<1>9. h[2] = CheckReg[2]
  <2>1. h[2] = ShiftBits(Xor(h[2 - 1], Bits(48 + 2)), 8)
    BY <1>3
  <2>2. 2 - 1 = 1 /\ 48 + 2 = 50
    OBVIOUS
  <2> QED
    BY ONLY <1>8, <2>1, <2>2, CheckByte2
<1>10. h[3] = CheckReg[3]
  <2>1. h[3] = ShiftBits(Xor(h[3 - 1], Bits(48 + 3)), 8)
    BY <1>3
  <2>2. 3 - 1 = 2 /\ 48 + 3 = 51
    OBVIOUS
  <2> QED
    BY ONLY <1>9, <2>1, <2>2, CheckByte3
<1>11. h[4] = CheckReg[4]
  <2>1. h[4] = ShiftBits(Xor(h[4 - 1], Bits(48 + 4)), 8)
    BY <1>3
  <2>2. 4 - 1 = 3 /\ 48 + 4 = 52
    OBVIOUS
  <2> QED
    BY ONLY <1>10, <2>1, <2>2, CheckByte4
<1>12. h[5] = CheckReg[5]
  <2>1. h[5] = ShiftBits(Xor(h[5 - 1], Bits(48 + 5)), 8)
    BY <1>3
  <2>2. 5 - 1 = 4 /\ 48 + 5 = 53
    OBVIOUS
  <2> QED
    BY ONLY <1>11, <2>1, <2>2, CheckByte5
<1>13. h[6] = CheckReg[6]
  <2>1. h[6] = ShiftBits(Xor(h[6 - 1], Bits(48 + 6)), 8)
    BY <1>3
  <2>2. 6 - 1 = 5 /\ 48 + 6 = 54
    OBVIOUS
  <2> QED
    BY ONLY <1>12, <2>1, <2>2, CheckByte6
<1>14. h[7] = CheckReg[7]
  <2>1. h[7] = ShiftBits(Xor(h[7 - 1], Bits(48 + 7)), 8)
    BY <1>3
  <2>2. 7 - 1 = 6 /\ 48 + 7 = 55
    OBVIOUS
  <2> QED
    BY ONLY <1>13, <2>1, <2>2, CheckByte7
<1>15. h[8] = CheckReg[8]
  <2>1. h[8] = ShiftBits(Xor(h[8 - 1], Bits(48 + 8)), 8)
    BY <1>3
  <2>2. 8 - 1 = 7 /\ 48 + 8 = 56
    OBVIOUS
  <2> QED
    BY ONLY <1>14, <2>1, <2>2, CheckByte8
<1>16. h[9] = CheckReg[9]
  <2>1. h[9] = ShiftBits(Xor(h[9 - 1], Bits(48 + 9)), 8)
    BY <1>3
  <2>2. 9 - 1 = 8 /\ 48 + 9 = 57
    OBVIOUS
  <2> QED
    BY ONLY <1>15, <2>1, <2>2, CheckByte9
<1>17. crc32(msg) = Xor(Ones(32), CheckReg[9])
  BY <1>3, <1>16, MessageDivided
<1>18. CheckReg[9] = {0, 3, 4, 6, 7, 9, 10, 14, 15, 16, 17, 19, 26, 28, 29}
  BY DEF CheckReg
<1> QED
  BY <1>17, <1>18 DEF Xor, Ones

\* Table, start value and complement together give the check value that tells the
\* CRC-32 of a GPT from others: a routine that only agreed with itself would
\* reject the GPTs of other programs, and write GPTs they reject.
THEOREM CrcIsTheirs == Spec => []CrcOfOthers
<1>1. Init => CrcOfOthers
  BY CallNames DEF Init, CrcOfOthers
<1>2. CrcOfOthers /\ [Next]_call => CrcOfOthers'
  <2>1. ASSUME CrcOfOthers, call' = call PROVE CrcOfOthers'
    BY <2>1 DEF CrcOfOthers
  <2>2. ASSUME [Next]_call, call'.fn = "crc", call' # call PROVE CrcOfOthers'
    <3>1. CallCrc
      BY <2>2, Calls, CallNames
    <3>2. PICK msg \in Messages : call' = [fn |-> "crc", msg |-> msg, res |-> crc32(msg)]
      BY <3>1 DEF CallCrc
    <3>3. msg \in Seq(0 .. 255)
      BY InputsAssumption
    <3>4. call'.msg = msg /\ call'.res = crc32(msg)
      BY <3>2
    <3> QED
      BY <3>3, <3>4, CheckValue DEF CrcOfOthers
  <2>3. ASSUME call'.fn # "crc" PROVE CrcOfOthers'
    BY <2>3 DEF CrcOfOthers
  <2> QED
    BY <2>1, <2>2, <2>3
<1> QED
  BY <1>1, <1>2, PTL DEF Spec
=============================================================================
