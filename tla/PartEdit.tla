------------------------------ MODULE PartEdit ------------------------------
(***************************************************************************)
(* Editing the in-memory partition table of one scheme: the dialogs of     *)
(* src/main.c (new, resize, delete, change type, toggle boot) over the     *)
(* searches of libpartman/src/schem.c.  The two searches are loops, and    *)
(* every iteration is a step, so that their invariants and termination can *)
(* be stated; each dialog is a sequence of prompts the user may abandon.   *)
(*                                                                         *)
(* The program is sequential: nothing but the running dialog touches the   *)
(* table, and pc says where in the dialog it is.                           *)
(***************************************************************************)
EXTENDS ImgCtx

CONSTANTS
  PartCnt,       \* schem->part_cnt: entries of the table, unused ones included
  FirstUsable,   \* schem->first_usable_lba
  LastUsable,    \* schem->last_usable_lba
  MaxLba,        \* the largest value of a plba (2^64 - 1 in the code)
  Align,         \* img_ctx->align
  Types,         \* partition types
  NoType,        \* type 0 / the zero GUID: the entry is unused
  DefType,       \* the type schem_part_init_* gives a new partition
  IsMbr,         \* schem->type = schem_type_mbr
  InitTables     \* the tables editing can start from

Parts == 0 .. PartCnt - 1
Lbas  == 0 .. MaxLba

Entry == [type : Types, start : Lbas, end : Lbas, boot : BOOLEAN]

\* What memset(part, 0, sizeof(*part)) leaves (schem_part_delete).
ZeroEntry == [type |-> NoType, start |-> 0, end |-> 0, boot |-> FALSE]

ASSUME PartCntAssumption == PartCnt \in Nat \ {0}
ASSUME AlignAssumption   == Align \in Nat \ {0}
ASSUME LbaAssumption     ==
  /\ FirstUsable \in Nat \ {0}
  /\ LastUsable \in Nat
  /\ MaxLba \in Nat
  /\ FirstUsable <= LastUsable
  /\ LastUsable < MaxLba
ASSUME TypeAssumption    == {NoType, DefType} \subseteq Types /\ NoType # DefType
ASSUME SchemAssumption   == IsMbr \in BOOLEAN
ASSUME TablesAssumption  == InitTables \subseteq [Parts -> Entry]

VARIABLES
  table,     \* schem->table
  pc,        \* where the program is: "cmd", or inside pm_part_alter
  idx,       \* part_index, the entry being created or resized
  isNew,     \* is_new
  lba,       \* lba / next_lba_bound of the running search, then its result def_lba
  noAlign,   \* lba_no_align of schem_find_start_sector, 0 for none
  start,     \* start_lba, as answered
  scan       \* loop index of schem_find_last_sector

locals == <<idx, isNew, lba, noAlign, start, scan>>
vars   == <<table, pc, idx, isNew, lba, noAlign, start, scan>>

-----------------------------------------------------------------------------
(* What the searches ask of the table.                                     *)

part_is_used(p) == p.type # NoType

\* Used entries other than the one being edited.
Others(i) == {j \in Parts \ {i} : part_is_used(table[j])}

Covers(p, x) == p.start <= x /\ x <= p.end

\* BUG variant: an entry strictly inside the new range goes unnoticed.
OverlappingNoInside(s, e, ign) ==
  {j \in Others(ign) : Covers(table[j], s) \/ Covers(table[j], e)}

\* schem_find_overlap returns the first of these, or -1 when there is none.
Overlapping(s, e, ign) ==
  {j \in Others(ign) :
     \/ Covers(table[j], s)
     \/ Covers(table[j], e)
     \/ s < table[j].start /\ e > table[j].end}

\* BUG variant: the last sector of a partition counts as free.
HitOpenEnd == {j \in Others(idx) : table[j].start <= lba /\ lba < table[j].end}

\* Entries in the way of the candidate start sector, and the first in order.
Hit      == {j \in Others(idx) : Covers(table[j], lba)}
FirstHit == {j \in Hit : \A k \in Hit : j <= k}

\* part->end_lba + 1, in the width of a plba.
AfterEnd(p) == IF p.end = MaxLba THEN 0 ELSE p.end + 1

\* BUG variant: the last usable sector is never offered.
PastUsableEarly(x) == x >= LastUsable

PastUsable(x) == x > LastUsable

-----------------------------------------------------------------------------
(* Control.                                                                *)

Goto(label) == pc' = label

\* Back to the command prompt; the locals of pm_part_alter are gone.
Return ==
  /\ pc' = "cmd"
  /\ idx' = 0 /\ isNew' = FALSE
  /\ lba' = 0 /\ noAlign' = 0 /\ start' = 0 /\ scan' = 0

Init ==
  /\ table \in InitTables
  /\ pc = "cmd"
  /\ idx = 0 /\ isNew = FALSE
  /\ lba = 0 /\ noAlign = 0 /\ start = 0 /\ scan = 0

\* BUG variant: the aligned sector may lie behind the usable space.
SearchFromUnchecked(x) ==
  lba' = lba_align(Align, x, TRUE) /\ noAlign' = x

\* Try the aligned sector at or after x, keeping x itself to fall back on; x
\* at once when alignment would leave the usable sectors.
SearchFrom(x) ==
  LET a == lba_align(Align, x, TRUE) IN
  IF PastUsable(a)
  THEN lba' = x /\ noAlign' = 0
  ELSE lba' = a /\ noAlign' = x

-----------------------------------------------------------------------------
(* The dialogs that take a single prompt.                                  *)

\* 'd'
Delete(i) ==
  /\ pc = "cmd"
  /\ part_is_used(table[i])
  /\ table' = [table EXCEPT ![i] = ZeroEntry]
  /\ UNCHANGED <<pc, locals>>

\* BUG variant: an unused entry can be given a type, and keeps its old range.
ChangeTypeOfAny(i, t) ==
  /\ pc = "cmd"
  /\ table' = [table EXCEPT ![i].type = t]
  /\ UNCHANGED <<pc, locals>>

\* 't': type 0 makes the entry unused and leaves its range in place.
ChangeType(i, t) ==
  /\ pc = "cmd"
  /\ part_is_used(table[i])
  /\ table' = [table EXCEPT ![i].type = t]
  /\ UNCHANGED <<pc, locals>>

\* 'a'
ToggleBoot(i) ==
  /\ pc = "cmd"
  /\ IsMbr
  /\ part_is_used(table[i])
  /\ table' = [table EXCEPT ![i].boot = ~@]
  /\ UNCHANGED <<pc, locals>>

-----------------------------------------------------------------------------
(* 'n' and 'e': pm_part_alter.                                             *)

Alter(i, new) ==
  /\ pc = "cmd"
  /\ part_is_used(table[i]) = ~new
  /\ Goto("search")
  /\ idx' = i /\ isNew' = new
  /\ SearchFrom(FirstUsable)
  /\ UNCHANGED <<table, start, scan>>

\* BUG variant: the unaligned candidate is tried again and again.
SearchFallbackNoReset ==
  /\ pc = "search"
  /\ Hit # {}
  /\ noAlign # 0
  /\ lba' = noAlign
  /\ UNCHANGED <<table, pc, idx, isNew, noAlign, start, scan>>

\* schem_find_start_sector: the aligned candidate is taken, try the unaligned.
SearchFallback ==
  /\ pc = "search"
  /\ Hit # {}
  /\ noAlign # 0
  /\ lba' = noAlign
  /\ noAlign' = 0
  /\ UNCHANGED <<table, pc, idx, isNew, start, scan>>

\* The unaligned candidate is taken too: go on behind the partition in the way.
SearchSkip ==
  /\ pc = "search"
  /\ noAlign = 0
  /\ \E j \in FirstHit :
       /\ ~PastUsable(AfterEnd(table[j]))
       /\ SearchFrom(AfterEnd(table[j]))
  /\ UNCHANGED <<table, pc, idx, isNew, start, scan>>

\* "Unable to find free start sector"
SearchFull ==
  /\ pc = "search"
  /\ noAlign = 0
  /\ \E j \in FirstHit : PastUsable(AfterEnd(table[j]))
  /\ Return
  /\ UNCHANGED table

SearchFree ==
  /\ pc = "search"
  /\ Hit = {}
  /\ Goto("askStart")
  /\ noAlign' = 0
  /\ UNCHANGED <<table, idx, isNew, lba, start, scan>>

\* "First sector": a number in range, or an empty line for the default, which
\* prompt_range_pu64 does not range-check.
GiveStart(s) ==
  /\ pc = "askStart"
  /\ s \in (FirstUsable .. LastUsable) \cup {lba}
  /\ Goto("scan")
  /\ start' = s
  /\ lba' = LastUsable
  /\ scan' = 0
  /\ UNCHANGED <<table, idx, isNew, noAlign>>

\* BUG variant: bounded by the end of the next partition, not by its start.
NextBoundByEnd(b, j) ==
  IF j \in Others(idx) /\ table[j].start > start /\ table[j].start < b
  THEN table[j].end
  ELSE b

\* One iteration of schem_find_last_sector over entry j.
NextBound(b, j) ==
  IF j \in Others(idx) /\ table[j].start > start /\ table[j].start < b
  THEN table[j].start - 1
  ELSE b

\* The last sector of the alignment segment before the bound's.
AlignedEnd(b) ==
  LET a == lba_align(Align, b, FALSE) IN
  IF a > 0 /\ Align > 1 THEN a - 1 ELSE a

\* BUG variant: the aligned end is offered even when it is before the start.
DefaultEndUnchecked(b) ==
  IF Overlapping(start, AlignedEnd(b), idx) = {} THEN AlignedEnd(b) ELSE b

\* What schem_find_last_sector returns for the bound its loop computed.
DefaultEnd(b) ==
  IF AlignedEnd(b) >= start /\ Overlapping(start, AlignedEnd(b), idx) = {}
  THEN AlignedEnd(b)
  ELSE b

ScanEntry ==
  /\ pc = "scan"
  /\ scan < PartCnt
  /\ lba' = NextBound(lba, scan)
  /\ scan' = scan + 1
  /\ UNCHANGED <<table, pc, idx, isNew, noAlign, start>>

\* "Unable to find available last sector", or the second prompt.
ScanDone ==
  /\ pc = "scan"
  /\ scan = PartCnt
  /\ IF lba < start
     THEN Return
     ELSE /\ Goto("askEnd")
          /\ lba' = DefaultEnd(lba)
          /\ scan' = 0
          /\ UNCHANGED <<idx, isNew, noAlign, start>>
  /\ UNCHANGED table

\* The entry pm_part_alter writes: a new one is initialised first.
Altered(e) ==
  LET p == table[idx] IN
  [type  |-> IF isNew THEN DefType ELSE p.type,
   start |-> start,
   end   |-> e,
   boot  |-> IF isNew THEN FALSE ELSE p.boot]

\* "Last sector": in range or the default; refused when it overlaps.
GiveEnd(e) ==
  /\ pc = "askEnd"
  /\ e \in (start .. LastUsable) \cup {lba}
  /\ table' = IF Overlapping(start, e, idx) = {}
              THEN [table EXCEPT ![idx] = Altered(e)]
              ELSE table
  /\ Return

\* End of file or an invalid answer at either prompt.
Cancel ==
  /\ pc \in {"askStart", "askEnd"}
  /\ Return
  /\ UNCHANGED table

-----------------------------------------------------------------------------

Command ==
  \E i \in Parts :
    \/ Delete(i)
    \/ \E t \in Types : ChangeType(i, t)
    \/ ToggleBoot(i)
    \/ \E new \in BOOLEAN : Alter(i, new)

Answer ==
  \/ \E s \in Lbas : GiveStart(s)
  \/ \E e \in Lbas : GiveEnd(e)
  \/ Cancel

\* The steps the program takes by itself.
Search ==
  \/ SearchFallback \/ SearchSkip \/ SearchFull \/ SearchFree
  \/ ScanEntry \/ ScanDone

Next == Command \/ Answer \/ Search

Spec == Init /\ [][Next]_vars

\* The program is never descheduled forever; the user owes it nothing.
FairSpec == Spec /\ WF_vars(Search)

-----------------------------------------------------------------------------
(* Properties.                                                             *)

\* Every variable has the values its C type and its role allow.
TypeOK ==
  /\ table \in [Parts -> Entry]
  /\ pc \in {"cmd", "search", "askStart", "scan", "askEnd"}
  /\ idx \in Parts
  /\ isNew \in BOOLEAN
  /\ lba \in Lbas
  /\ noAlign \in Lbas
  /\ start \in Lbas
  /\ scan \in 0 .. PartCnt

Intersect(p, q) == p.start <= q.end /\ q.start <= p.end

\* The used entries of t that lie in the usable sectors and share no sector.
WellFormed(t) ==
  \A i \in Parts : part_is_used(t[i]) =>
    /\ FirstUsable <= t[i].start
    /\ t[i].start <= t[i].end
    /\ t[i].end <= LastUsable
    /\ \A j \in Parts \ {i} : part_is_used(t[j]) => ~Intersect(t[i], t[j])

\* No sequence of commands, abandoned dialogs and type changes makes two
\* partitions share a sector (schem_find_overlap guards pm_part_alter).
NoOverlap ==
  \A i, j \in Parts :
    i # j /\ part_is_used(table[i]) /\ part_is_used(table[j])
      => ~Intersect(table[i], table[j])

\* Every partition is a nonempty range of usable sectors: what the searches
\* offer as defaults is accepted unchecked, so they must stay in range.
InBounds ==
  \A i \in Parts : part_is_used(table[i]) =>
    /\ FirstUsable <= table[i].start
    /\ table[i].start <= table[i].end
    /\ table[i].end <= LastUsable

\* The sector schem_find_start_sector proposes is usable and in no partition
\* but the one being resized.
DefaultStartFree ==
  pc = "askStart" =>
    /\ FirstUsable <= lba /\ lba <= LastUsable
    /\ \A j \in Others(idx) : ~Covers(table[j], lba)

\* schem_find_last_sector proposes a sector between the start and the end of
\* the usable space, and if the partition that would make still overlaps
\* another one, it does so only in its last sector.
DefaultEndOvershoot ==
  pc = "askEnd" =>
    /\ start <= lba /\ lba <= LastUsable
    /\ (\A j \in Others(idx) : ~Covers(table[j], start)) =>
         \A j \in Overlapping(start, lba, idx) : table[j].start = lba

\* The search for a start sector reports a full table only when every usable
\* sector belongs to another partition.
FullMeansFull ==
  [][pc = "search" /\ pc' = "cmd" =>
       \A x \in FirstUsable .. LastUsable :
         \E j \in Others(idx) : Covers(table[j], x)]_vars

\* The search for a start sector knows the sectors before this one to be taken:
\* the fallback while there is one, the candidate itself otherwise.
Frontier == IF noAlign = 0 THEN lba ELSE noAlign

\* An upper bound on the iterations it has left: two for each sector from there
\* on, and none for the aligned candidate once that was tried.
SearchLeft == 2 * (LastUsable - Frontier) + (IF noAlign = 0 THEN 0 ELSE 1)

\* Every iteration of schem_find_start_sector brings its end closer, however it
\* alternates between the two candidates: none is tried a second time.
SearchAdvances ==
  [][pc = "search" /\ pc' = "search" =>
       0 <= SearchLeft' /\ SearchLeft' < SearchLeft]_vars

\* Whatever table was loaded, malformed entries included: a command never
\* makes two entries intersect that did not intersect before.
NoNewOverlap ==
  [][\A i, j \in Parts :
       i # j /\ part_is_used(table'[i]) /\ part_is_used(table'[j])
             /\ Intersect(table'[i], table'[j])
       => part_is_used(table[i]) /\ part_is_used(table[j])
          /\ Intersect(table[i], table[j])]_vars

\* The do-while loop of schem_find_start_sector ends.
SearchTerminates == (pc = "search") ~> (pc # "search")

\* The promise of the abstract specification, kept by every dialog.
Abstract == INSTANCE PartTable WITH Entries <- Entry
ImplementsTable == Abstract!Spec
=============================================================================
