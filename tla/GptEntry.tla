------------------------------ MODULE GptEntry ------------------------------
(***************************************************************************)
(* The bytes of a GPT partition entry and what its checksum is computed    *)
(* from (gpt.c).  The GUIDs, sectors and attributes that come first are    *)
(* stored and read like any little-endian field, and stand here for one    *)
(* value, head; the name behind them is a sequence of 16-bit characters.   *)
(* A checksum is the content it is computed from.                          *)
(***************************************************************************)
EXTENDS Integers

CONSTANTS
  NameLen,   \* characters of a name (36)
  CharByte   \* values of a byte (256)

ASSUME NameAssumption == NameLen \in Nat \ {0} /\ CharByte \in Nat \ {0}

NameBytes == 0 .. 2 * NameLen - 1
Chars     == 0 .. CharByte * CharByte - 1

Low(c)  == c % CharByte
High(c) == c \div CharByte

\* The name as the UEFI specification has it in an entry: two bytes a character.
UcsBytes(name) ==
  [b \in NameBytes |-> IF b % 2 = 0 THEN Low(name[b \div 2]) ELSE High(name[b \div 2])]

\* BUG variant: characters are two bytes apart on writing only.
gpt_part_ent_write_wide(buf, entry) ==
  [head |-> entry.head, bytes |-> UcsBytes(entry.name)]

\* gpt_part_ent_write over the bytes buf.  Characters are stored one byte apart,
\* first to last: each overwrites the high byte of the one before, and what is
\* behind the last stays as it was.
gpt_part_ent_write(buf, entry) ==
  [head  |-> entry.head,
   bytes |-> [b \in NameBytes |->
                CASE b < NameLen -> Low(entry.name[b])
                  [] b = NameLen -> High(entry.name[NameLen - 1])
                  [] b > NameLen -> buf.bytes[b]]]

\* BUG variant: characters are two bytes apart on reading only.
gpt_part_ent_read_wide(buf) ==
  [head |-> buf.head,
   name |-> [i \in 0 .. NameLen - 1 |->
               buf.bytes[2 * i] + CharByte * buf.bytes[2 * i + 1]]]

\* gpt_part_ent_read: characters are read one byte apart too.
gpt_part_ent_read(buf) ==
  [head |-> buf.head,
   name |-> [i \in 0 .. NameLen - 1 |->
               buf.bytes[i] + CharByte * buf.bytes[i + 1]]]

\* gpt_part_ent_crc_compute: the fields, not the bytes they were read from.
gpt_part_ent_crc(entry) == [head |-> entry.head, bytes |-> UcsBytes(entry.name)]

\* The checksum of the bytes, "Partition entry array CRC32 checksum".
BytesCrc(buf) == buf
=============================================================================
