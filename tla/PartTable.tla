----------------------------- MODULE PartTable ------------------------------
(***************************************************************************)
(* What editing a partition table promises, whatever dialog and whatever   *)
(* search produced the edit: a step rewrites a single entry, and the entry *)
(* it leaves behind is unused, keeps its old range, or lies inside the     *)
(* usable sectors and shares no sector with another used entry.            *)
(*                                                                         *)
(* An entry is [type, start, end, boot]; it is used iff its type is not    *)
(* NoType.  PartEdit is the detailed specification that implements this.   *)
(***************************************************************************)
EXTENDS Integers

CONSTANTS
  Parts,         \* indices of the table's entries
  Entries,       \* every value an entry can have
  NoType,        \* the type of an unused entry
  FirstUsable,   \* struct schem: first_usable_lba
  LastUsable,    \* struct schem: last_usable_lba
  InitTables     \* the tables a scheme can be loaded or created with

VARIABLE table

Used(p) == p.type # NoType

\* Two entries share a sector.
Intersect(p, q) == p.start <= q.end /\ q.start <= p.end

SameRange(p, q) == p.start = q.start /\ p.end = q.end

\* p may become entry i of the table.
Fits(p, i) ==
  /\ FirstUsable <= p.start
  /\ p.start <= p.end
  /\ p.end <= LastUsable
  /\ \A j \in Parts \ {i} : Used(table[j]) => ~Intersect(p, table[j])

Init == table \in InitTables

Edit(i, p) ==
  /\ Used(p) => Fits(p, i) \/ (Used(table[i]) /\ SameRange(p, table[i]))
  /\ table' = [table EXCEPT ![i] = p]

Next == \E i \in Parts, p \in Entries : Edit(i, p)

Spec == Init /\ [][Next]_table
=============================================================================
