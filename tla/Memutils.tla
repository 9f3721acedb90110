------------------------------ MODULE Memutils ------------------------------
(***************************************************************************)
(* Little-endian fields in a buffer (memutils.c).  A byte holds the values *)
(* 0 .. Byte - 1 (256 in the code); a buffer is a function from offsets to *)
(* bytes.  write_pu8 to write_pu64 and read_pu8 to read_pu64 are the two   *)
(* operators below at widths of 1 to 8 bytes.                              *)
(***************************************************************************)
EXTENDS Integers

CONSTANT Byte   \* values of a byte

ASSUME ByteAssumption == Byte \in Nat /\ Byte > 1

\* Shifting by k bytes multiplies by this.
Power[k \in Nat] == IF k = 0 THEN 1 ELSE Byte * Power[k - 1]

\* The values of a field of so many bytes.
Pu(width) == 0 .. Power[width] - 1

\* The k-th byte of i; what does not fit a field is dropped.
ByteOf(i, k) == (i \div Power[k]) % Byte

write_pu(buf, off, width, i) ==
  [b \in DOMAIN buf |->
     IF b \in off .. off + width - 1 THEN ByteOf(i, b - off) ELSE buf[b]]

read_pu(buf, off, width) ==
  LET value[k \in 0 .. width] ==
        IF k = 0 THEN 0 ELSE value[k - 1] + buf[off + k - 1] * Power[k - 1]
  IN  value[width]
=============================================================================
