------------------------------- MODULE Crc32 --------------------------------
(***************************************************************************)
(* The CRC-32 of libpartman (crc32.c) at its real width.  A word is the    *)
(* set of positions of its 1 bits, so that exclusive or is the symmetric   *)
(* difference and a shift moves positions.                                 *)
(***************************************************************************)
EXTENDS Integers, Sequences

Xor(a, b)      == (a \ b) \cup (b \ a)
ShiftRight(a, n) == {i - n : i \in {j \in a : j >= n}}
Ones(n)        == 0 .. n - 1

\* The bits of a byte value.
Bits(v) == {i \in 0 .. 7 : (v \div 2^i) % 2 = 1}

\* 0xEDB88320, the reflected generator polynomial.
Poly == {5, 8, 9, 15, 19, 20, 21, 23, 24, 26, 27, 29, 30, 31}

\* One bit of the division.
ShiftBit(crc) == Xor(ShiftRight(crc, 1), IF 0 \in crc THEN Poly ELSE {})

\* n bits of it, at most the 8 of a byte.
ShiftBits(crc, n) ==
  LET after[k \in 0 .. 8] == IF k = 0 THEN crc ELSE ShiftBit(after[k - 1])
  IN  after[n]

\* The lowest bit that is set in an index of the table.
LowBit(n) == CHOOSE i \in 0 .. 7 : n % 2^i = 0 /\ (n \div 2^i) % 2 = 1

\* BUG variant: the rows are computed from the wrong end.
crc_row_ascending(k) == ShiftBits({0}, k + 1)

\* What crc32 is when crc32_init_table fills in the entries whose lowest bit
\* is k: it goes from bit 7 to bit 0, a step of the division each time.
crc_row(k) == ShiftBits({0}, 8 - k)

\* crc32_init_table: the entry at i + j is that row and the entry at j, which
\* an earlier row filled in.
crc_table ==
  LET entry[n \in 0 .. 255] ==
        IF n = 0 THEN {} ELSE Xor(crc_row(LowBit(n)), entry[n - 2^LowBit(n)])
  IN  [n \in 0 .. 255 |-> entry[n]]

\* The low byte of a word, as a number.
IndexOf(crc) ==
  LET value(i) == IF i \in crc THEN 2^i ELSE 0
  IN  value(0) + value(1) + value(2) + value(3) + value(4) + value(5) + value(6) + value(7)

\* BUG variant: the register starts with zeroes.
crc32_init_zeroes == {}

crc32_init == Ones(32)

crc32_finalize(crc) == Xor(crc, Ones(32))

\* One byte.  The table is there before its first use: crc_table[255] is 0
\* only as long as it is not.
crc32_compute8(crc, i) ==
  LET c == Xor(crc, Bits(i)) IN Xor(ShiftRight(c, 8), crc_table[IndexOf(c)])

\* The checksum of a sequence of bytes, as the callers compute it.
crc32(msg) ==
  LET crc[k \in 0 .. Len(msg)] ==
        IF k = 0 THEN crc32_init ELSE crc32_compute8(crc[k - 1], msg[k])
  IN  crc32_finalize(crc[Len(msg)])
=============================================================================
