----------------------------- MODULE ScanSector -----------------------------
(***************************************************************************)
(* The answer to "Last sector" (prompt_sector_ext of scan.c): a number of  *)
(* sectors, or a size with a unit, absolute or relative to the first or to *)
(* the last sector.  Sectors are unsigned and wrap at PlbaLimit.           *)
(***************************************************************************)
EXTENDS Integers

CONSTANTS
  PlbaLimit,    \* sectors and sizes are smaller (2^64)
  IntLimit,     \* the values of an int are smaller (2^31)
  Kilo,         \* the unit K (1024)
  BadShift      \* what shifting an int too far can give

ASSUME WidthAssumption ==
  /\ PlbaLimit \in Nat \ {0} /\ IntLimit \in Nat /\ Kilo \in Nat \ {0}
  /\ BadShift \subseteq 0 .. PlbaLimit - 1

Units == {"none", "K", "M", "G", "T", "P", "other"}
Signs == {"none", "+", "-", "other"}

\* Bytes in a unit, in integers.
UnitBytes ==
  [u \in {"K", "M", "G", "T", "P"} |->
     CASE u = "K" -> Kilo
       [] u = "M" -> Kilo * Kilo
       [] u = "G" -> Kilo * Kilo * Kilo
       [] u = "T" -> Kilo * Kilo * Kilo * Kilo
       [] u = "P" -> Kilo * Kilo * Kilo * Kilo * Kilo]

\* The values mod_val can have: the shift is one of an int, and undefined when
\* its result is not an int.
ModVals(u) ==
  IF u \notin DOMAIN UnitBytes THEN {0}
  ELSE IF UnitBytes[u] < IntLimit THEN {UnitBytes[u]}
  ELSE BadShift

Refused == [ok |-> FALSE, lba |-> 0]

\* What a number of bytes or sectors and a sign give, in plba.
Offset(sign, n, start, end) ==
  CASE sign = "none" -> n
    [] sign = "+"    -> (n + start - 1) % PlbaLimit
    [] sign = "-"    -> (end - n) % PlbaLimit

\* The sectors n units are.
InSectors(n, unit, mod_val, sec_sz) ==
  IF unit = "none" THEN n ELSE ((n * mod_val) % PlbaLimit) \div sec_sz

\* BUG variant: an answer that is too small is taken.
prompt_sector_ext_upper(start, end, sec_sz, sign, n, unit, mod_val) ==
  LET lba == Offset(sign, InSectors(n, unit, mod_val, sec_sz), start, end) IN
  IF \/ sign = "other"
     \/ unit # "none" /\ (sign = "none" \/ mod_val = 0)
     \/ lba > end
  THEN Refused ELSE [ok |-> TRUE, lba |-> lba]

\* A line with the number n, a sign and a unit.  An empty line is answered with
\* the default, and one without a number is refused, before this.
prompt_sector_ext(start, end, sec_sz, sign, n, unit, mod_val) ==
  LET lba == Offset(sign, InSectors(n, unit, mod_val, sec_sz), start, end) IN
  IF \/ sign = "other"
     \/ unit # "none" /\ (sign = "none" \/ mod_val = 0)
     \/ lba < start \/ lba > end
  THEN Refused ELSE [ok |-> TRUE, lba |-> lba]
=============================================================================
