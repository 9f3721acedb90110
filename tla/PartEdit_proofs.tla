-------------------------- MODULE PartEdit_proofs --------------------------
(***************************************************************************)
(* Theorems about PartEdit for every table size, alignment and set of      *)
(* initial tables.  The first parts make no assumption on the tables that  *)
(* editing starts from; the next ones assume that no used entry ends at    *)
(* the largest LBA; the last ones that entries are not backwards, or that  *)
(* they are well formed.                                                   *)
(***************************************************************************)
EXTENDS PartEdit, ImgCtx_proofs

-----------------------------------------------------------------------------
(* The operators.                                                          *)

LEMMA ConstantFacts ==
  /\ Align \in Nat \ {0}
  /\ FirstUsable \in Nat \ {0} /\ LastUsable \in Nat /\ MaxLba \in Nat
  /\ FirstUsable <= LastUsable /\ LastUsable < MaxLba
  /\ NoType \in Types /\ DefType \in Types /\ NoType # DefType
  /\ PartCnt \in Nat \ {0}
  BY PartCntAssumption, AlignAssumption, LbaAssumption, TypeAssumption

\* Both outcomes of the alignment test stay at or after x and in the usable
\* sectors, and x is either the candidate or kept to fall back on.
LEMMA SearchFromUsable ==
  ASSUME NEW x \in Nat, x <= LastUsable, SearchFrom(x)
  PROVE  /\ lba' \in Nat /\ x <= lba' /\ lba' <= LastUsable
         /\ \/ noAlign' = x
            \/ noAlign' = 0 /\ lba' = x
<1> DEFINE a == lba_align(Align, x, TRUE)
<1>1. a \in Nat /\ x <= a
  BY AlignUp, ConstantFacts
<1>2. IF a > LastUsable THEN lba' = x /\ noAlign' = 0
                        ELSE lba' = a /\ noAlign' = x
  BY DEF SearchFrom, PastUsable
<1> HIDE DEF a
<1> QED
  BY <1>1, <1>2, ConstantFacts

\* The last sector offered is at or before the bound the scan computed, and
\* not before the start when the bound is not.
LEMMA DefaultEndBounds ==
  ASSUME NEW b \in Nat, start \in Nat, start <= b
  PROVE  /\ DefaultEnd(b) \in Nat
         /\ start <= DefaultEnd(b) /\ DefaultEnd(b) <= b
         /\ \/ DefaultEnd(b) = b
            \/ Overlapping(start, DefaultEnd(b), idx) = {}
<1> DEFINE a == lba_align(Align, b, FALSE)
<1>1. a \in Nat /\ a <= b
  BY AlignDown, ConstantFacts
<1>2. AlignedEnd(b) = IF a > 0 /\ Align > 1 THEN a - 1 ELSE a
  BY DEF AlignedEnd
<1> HIDE DEF a
<1>3. AlignedEnd(b) \in Nat /\ AlignedEnd(b) <= b
  BY <1>1, <1>2, ConstantFacts
<1> QED
  BY <1>3 DEF DefaultEnd

\* What schem_find_overlap misses does not intersect, even when the entry it
\* looked at is malformed: its three tests are complete.
LEMMA OverlapTestComplete ==
  ASSUME TypeOK,
         NEW e \in Lbas, start <= e,
         Overlapping(start, e, idx) = {},
         NEW j \in Others(idx)
  PROVE  ~(start <= table[j].end /\ table[j].start <= e)
<1>1. j \in Parts /\ table[j] \in Entry
  BY DEF Others, TypeOK
<1>2. table[j].start \in Nat /\ table[j].end \in Nat /\ e \in Nat /\ start \in Nat
  BY <1>1, ConstantFacts DEF Entry, Lbas, TypeOK
<1> QED
  BY <1>2 DEF Overlapping, Covers

-----------------------------------------------------------------------------
(* Type correctness.                                                       *)

LEMMA TypeOKInit == Init => TypeOK
<1> SUFFICES ASSUME Init PROVE TypeOK
  OBVIOUS
<1>1. table \in [Parts -> Entry]
  BY TablesAssumption DEF Init
<1>2. 0 \in Parts /\ 0 \in Lbas /\ 0 \in 0 .. PartCnt
  BY ConstantFacts DEF Parts, Lbas
<1> QED
  BY <1>1, <1>2 DEF Init, TypeOK

LEMMA ReturnType ==
  ASSUME Return, table' \in [Parts -> Entry]
  PROVE  TypeOK'
<1>1. 0 \in Parts /\ 0 \in Lbas /\ 0 \in 0 .. PartCnt
  BY ConstantFacts DEF Parts, Lbas
<1> QED
  BY <1>1 DEF Return, TypeOK

LEMMA TypeOKNext == TypeOK /\ [Next]_vars => TypeOK'
<1> SUFFICES ASSUME TypeOK, [Next]_vars PROVE TypeOK'
  OBVIOUS
<1> USE DEF locals
<1>1. ASSUME NEW i \in Parts, Delete(i) PROVE TypeOK'
  <2>1. ZeroEntry \in Entry
    BY ConstantFacts DEF ZeroEntry, Entry, Lbas
  <2> QED
    BY <1>1, <2>1 DEF Delete, TypeOK
<1>2. ASSUME NEW i \in Parts, NEW t \in Types, ChangeType(i, t) PROVE TypeOK'
  <2>1. table' = [table EXCEPT ![i] = [table[i] EXCEPT !.type = t]]
    BY <1>2 DEF ChangeType
  <2>2. [table[i] EXCEPT !.type = t] \in Entry
    BY SMT DEF TypeOK, Entry
  <2> QED
    BY <1>2, <2>1, <2>2 DEF ChangeType, TypeOK
<1>3. ASSUME NEW i \in Parts, ToggleBoot(i) PROVE TypeOK'
  <2>1. table' = [table EXCEPT ![i] = [table[i] EXCEPT !.boot = ~@]]
    BY <1>3 DEF ToggleBoot
  <2>2. [table[i] EXCEPT !.boot = ~@] \in Entry
    BY DEF TypeOK, Entry
  <2> QED
    BY <1>3, <2>1, <2>2 DEF ToggleBoot, TypeOK
<1>4. ASSUME NEW i \in Parts, NEW new \in BOOLEAN, Alter(i, new) PROVE TypeOK'
  <2>1. lba' \in Lbas /\ noAlign' \in Lbas
    BY <1>4, SearchFromUsable, ConstantFacts DEF Alter, Lbas
  <2> QED
    BY <1>4, <2>1 DEF Alter, Goto, TypeOK
<1>5. CASE SearchFallback
  BY <1>5, ConstantFacts DEF SearchFallback, TypeOK, Lbas
<1>6. CASE SearchSkip
  <2>1. PICK j \in FirstHit : /\ ~PastUsable(AfterEnd(table[j]))
                              /\ SearchFrom(AfterEnd(table[j]))
    BY <1>6 DEF SearchSkip
  <2>2. j \in Parts
    BY DEF FirstHit, Hit, Others
  <2>3. AfterEnd(table[j]) \in Nat /\ AfterEnd(table[j]) <= LastUsable
    BY <2>1, <2>2, ConstantFacts DEF AfterEnd, PastUsable, TypeOK, Entry, Lbas
  <2>4. lba' \in Lbas /\ noAlign' \in Lbas
    BY <2>1, <2>3, SearchFromUsable, ConstantFacts DEF Lbas
  <2> QED
    BY <1>6, <2>4 DEF SearchSkip, TypeOK
<1>7. CASE SearchFull
  BY <1>7, ReturnType DEF SearchFull, TypeOK
<1>8. CASE SearchFree
  BY <1>8, ConstantFacts DEF SearchFree, Goto, TypeOK, Lbas
<1>9. ASSUME NEW s \in Lbas, GiveStart(s) PROVE TypeOK'
  BY <1>9, ConstantFacts DEF GiveStart, Goto, TypeOK, Lbas
<1>10. CASE ScanEntry
  <2>1. scan \in Parts
    BY <1>10, ConstantFacts DEF ScanEntry, TypeOK, Parts
  <2>2. NextBound(lba, scan) \in Lbas
    BY <2>1, ConstantFacts DEF NextBound, TypeOK, Entry, Lbas
  <2>3. scan + 1 \in 0 .. PartCnt
    BY <2>1, ConstantFacts DEF Parts
  <2> QED
    BY <1>10, <2>2, <2>3 DEF ScanEntry, TypeOK
<1>11. CASE ScanDone
  <2>1. CASE lba < start
    BY <1>11, <2>1, ReturnType DEF ScanDone, TypeOK
  <2>2. CASE ~(lba < start)
    <3>1. lba \in Nat /\ start \in Nat /\ start <= lba /\ lba <= MaxLba
      BY <2>2, ConstantFacts DEF TypeOK, Lbas
    <3>2. DefaultEnd(lba) \in Lbas
      BY <3>1, DefaultEndBounds, ConstantFacts DEF Lbas
    <3> QED
      BY <1>11, <2>2, <3>2, ConstantFacts DEF ScanDone, Goto, TypeOK
  <2> QED
    BY <2>1, <2>2
<1>12. ASSUME NEW e \in Lbas, GiveEnd(e) PROVE TypeOK'
  <2>1. Altered(e) \in Entry
    BY ConstantFacts DEF Altered, TypeOK, Entry
  <2>2. table' \in [Parts -> Entry]
    BY <1>12, <2>1 DEF GiveEnd, TypeOK
  <2> QED
    BY <1>12, <2>2, ReturnType DEF GiveEnd
<1>13. CASE Cancel
  BY <1>13, ReturnType DEF Cancel, TypeOK
<1>14. CASE UNCHANGED vars
  BY <1>14 DEF vars, TypeOK
<1> QED
  BY <1>1, <1>2, <1>3, <1>4, <1>5, <1>6, <1>7, <1>8, <1>9, <1>10, <1>11, <1>12,
     <1>13, <1>14 DEF Next, Command, Answer, Search

\* Every variable keeps the values of its C type and of its role: neither
\* search leaves the usable sectors for a value a plba cannot hold.
THEOREM TypeCorrect == Spec => []TypeOK
<1> QED
  BY TypeOKInit, TypeOKNext, PTL DEF Spec

-----------------------------------------------------------------------------
(* Editing any table at all.                                               *)

\* The range a dialog asks for is never backwards.
EndAfterStart == pc = "askEnd" => start <= lba

AnyInv == TypeOK /\ EndAfterStart

LEMMA AnyInvInductive ==
  /\ Init => AnyInv
  /\ AnyInv /\ [Next]_vars => AnyInv'
<1>1. Init => AnyInv
  BY TypeOKInit DEF Init, AnyInv, EndAfterStart
<1>2. ASSUME AnyInv, [Next]_vars PROVE EndAfterStart'
  <2> SUFFICES ASSUME pc' = "askEnd" PROVE start' <= lba'
    BY DEF EndAfterStart
  <2>1. CASE UNCHANGED vars
    BY <1>2, <2>1 DEF vars, AnyInv, EndAfterStart
  <2>2. CASE Next
    <3>1. ScanDone
      BY <1>2, <2>2 DEF Next, Command, Answer, Search, Delete, ChangeType,
           ToggleBoot, Alter, SearchFallback, SearchSkip, SearchFull,
           SearchFree, ScanEntry, GiveStart, GiveEnd, Cancel, Goto, Return,
           AnyInv, EndAfterStart, locals
    <3>2. ~(lba < start) /\ lba' = DefaultEnd(lba) /\ start' = start
      BY <3>1 DEF ScanDone, Return
    <3>3. lba \in Nat /\ start \in Nat /\ start <= lba
      BY <1>2, <3>2, ConstantFacts DEF AnyInv, TypeOK, Lbas
    <3> QED
      BY <3>2, <3>3, DefaultEndBounds
  <2> QED
    BY <1>2, <2>1, <2>2
<1> QED
  BY <1>1, <1>2, TypeOKNext DEF AnyInv

\* Two entries that no command changed are as they were.
LEMMA UntouchedPairs ==
  ASSUME TypeOK, NEW k \in Parts, NEW p,
         table' = [table EXCEPT ![k] = p],
         \* what the new entry intersects, the old one did
         \A j \in Parts \ {k} :
           part_is_used(p) /\ part_is_used(table[j]) /\ Intersect(p, table[j])
             => part_is_used(table[k]) /\ Intersect(table[k], table[j])
  PROVE  \A i, j \in Parts :
           i # j /\ part_is_used(table'[i]) /\ part_is_used(table'[j])
                 /\ Intersect(table'[i], table'[j])
           => part_is_used(table[i]) /\ part_is_used(table[j])
              /\ Intersect(table[i], table[j])
<1> SUFFICES ASSUME NEW i \in Parts, NEW j \in Parts, i # j,
                    part_is_used(table'[i]), part_is_used(table'[j]),
                    Intersect(table'[i], table'[j])
             PROVE  part_is_used(table[i]) /\ part_is_used(table[j])
                    /\ Intersect(table[i], table[j])
  OBVIOUS
<1>1. /\ table'[k] = p
      /\ \A m \in Parts \ {k} : table'[m] = table[m]
  BY DEF TypeOK
<1>2. CASE i = k
  BY <1>1, <1>2
<1>3. CASE j = k
  <2>1. Intersect(p, table[i])
    BY <1>1, <1>3 DEF Intersect
  <2>2. part_is_used(table[j]) /\ Intersect(table[j], table[i])
    BY <1>1, <1>3, <2>1
  <2> QED
    BY <1>1, <1>3, <2>2 DEF Intersect
<1>4. CASE i # k /\ j # k
  BY <1>1, <1>4
<1> QED
  BY <1>2, <1>3, <1>4

NoNewOverlapStep ==
  \A i, j \in Parts :
    i # j /\ part_is_used(table'[i]) /\ part_is_used(table'[j])
          /\ Intersect(table'[i], table'[j])
    => part_is_used(table[i]) /\ part_is_used(table[j])
       /\ Intersect(table[i], table[j])

LEMMA NoNewOverlapByNext == AnyInv /\ [Next]_vars => NoNewOverlapStep
<1> SUFFICES ASSUME AnyInv, [Next]_vars PROVE NoNewOverlapStep
  OBVIOUS
<1>t. TypeOK
  BY DEF AnyInv
<1>1. ASSUME NEW i \in Parts, Delete(i) PROVE NoNewOverlapStep
  <2>1. table' = [table EXCEPT ![i] = ZeroEntry] /\ ~part_is_used(ZeroEntry)
    BY <1>1 DEF Delete, ZeroEntry, part_is_used
  <2> QED
    BY <1>t, <2>1, UntouchedPairs DEF NoNewOverlapStep
<1>2. ASSUME NEW i \in Parts, NEW t \in Types, ChangeType(i, t)
      PROVE  NoNewOverlapStep
  <2> DEFINE p == [table[i] EXCEPT !.type = t]
  <2>1. table' = [table EXCEPT ![i] = p] /\ part_is_used(table[i])
    BY <1>2 DEF ChangeType
  <2>2. p.start = table[i].start /\ p.end = table[i].end
    BY <1>t DEF TypeOK, Entry
  <2>3. \A q : Intersect(p, q) => Intersect(table[i], q)
    BY <2>2 DEF Intersect
  <2> HIDE DEF p
  <2> QED
    BY <1>t, <2>1, <2>3, UntouchedPairs DEF NoNewOverlapStep
<1>3. ASSUME NEW i \in Parts, ToggleBoot(i) PROVE NoNewOverlapStep
  <2> DEFINE p == [table[i] EXCEPT !.boot = ~@]
  <2>1. table' = [table EXCEPT ![i] = p] /\ part_is_used(table[i])
    BY <1>3 DEF ToggleBoot
  <2>2. p.start = table[i].start /\ p.end = table[i].end
    BY <1>t DEF TypeOK, Entry
  <2>3. \A q : Intersect(p, q) => Intersect(table[i], q)
    BY <2>2 DEF Intersect
  <2> HIDE DEF p
  <2> QED
    BY <1>t, <2>1, <2>3, UntouchedPairs DEF NoNewOverlapStep
<1>4. ASSUME NEW e \in Lbas, GiveEnd(e) PROVE NoNewOverlapStep
  <2>1. CASE Overlapping(start, e, idx) = {}
    <3>1. table' = [table EXCEPT ![idx] = Altered(e)] /\ idx \in Parts
      BY <1>t, <1>4, <2>1 DEF GiveEnd, TypeOK
    <3>2. start <= e
      BY <1>4, <1>t, ConstantFacts DEF GiveEnd, AnyInv, EndAfterStart, TypeOK, Lbas
    <3>3. \A j \in Others(idx) : ~Intersect(Altered(e), table[j])
      BY <1>t, <2>1, <3>2, OverlapTestComplete DEF Intersect, Altered
    <3>4. \A j \in Parts \ {idx} :
            part_is_used(table[j]) => ~Intersect(Altered(e), table[j])
      BY <3>3 DEF Others
    <3> QED
      BY <1>t, <3>1, <3>4, UntouchedPairs DEF NoNewOverlapStep
  <2>2. CASE Overlapping(start, e, idx) # {}
    BY <1>4, <2>2 DEF GiveEnd, NoNewOverlapStep
  <2> QED
    BY <2>1, <2>2
<1>5. ASSUME UNCHANGED table PROVE NoNewOverlapStep
  BY <1>5 DEF NoNewOverlapStep
<1> QED
  BY <1>1, <1>2, <1>3, <1>4, <1>5 DEF Next, Command, Answer, Search, Alter,
     SearchFallback, SearchSkip, SearchFull, SearchFree, ScanEntry, ScanDone,
     GiveStart, Cancel, vars

\* From any table whatever, malformed entries included, no command makes two
\* entries intersect that did not: the three tests of schem_find_overlap are
\* enough, and a type change never revives an entry it does not check.
THEOREM NeverNewOverlap == Spec => NoNewOverlap
<1>1. AnyInv /\ [Next]_vars => [NoNewOverlapStep]_vars
  BY NoNewOverlapByNext
<1> QED
  BY <1>1, AnyInvInductive, PTL DEF Spec, NoNewOverlap, NoNewOverlapStep

-----------------------------------------------------------------------------
(* Editing any table whose ends have a successor: behind an entry that     *)
(* ends at the largest LBA, the next candidate wraps to 0 (schem.c:412).   *)

Bounded(t) == \A i \in Parts : part_is_used(t[i]) => t[i].end < MaxLba

InitBounded == \A t \in InitTables : Bounded(t)

SearchInv ==
  pc = "search" =>
    /\ FirstUsable <= lba /\ lba <= LastUsable
    /\ FirstUsable <= Frontier /\ Frontier <= lba
    /\ \A x \in FirstUsable .. LastUsable :
         x < Frontier => \E j \in Others(idx) : Covers(table[j], x)

\* The bound the scan has computed so far is behind no partition it has seen
\* that starts after the start sector.
ScanInv ==
  pc = "scan" =>
    /\ FirstUsable <= start /\ start <= lba /\ lba <= LastUsable
    /\ \A j \in Others(idx) :
         j < scan /\ table[j].start > start => lba <= table[j].start

\* Whatever the answers are, they are usable and in order.
AskEndInv ==
  pc = "askEnd" => FirstUsable <= start /\ start <= lba /\ lba <= LastUsable

LoadedInv ==
  TypeOK /\ Bounded(table) /\ SearchInv /\ DefaultStartFree /\ ScanInv /\ AskEndInv

\* Entry p beside the others of the table.
FitsBeside(p, k) ==
  /\ FirstUsable <= p.start /\ p.start <= p.end /\ p.end <= LastUsable
  /\ \A j \in Parts \ {k} : part_is_used(table[j]) => ~Intersect(p, table[j])

\* What a dialog may do to the table.
EditStep ==
  \/ UNCHANGED table
  \/ \E k \in Parts, p \in Entry :
       /\ table' = [table EXCEPT ![k] = p]
       /\ part_is_used(p) =>
            \/ part_is_used(table[k]) /\ p.start = table[k].start
                                      /\ p.end = table[k].end
            \/ FitsBeside(p, k)

LEMMA EditByNext ==
  ASSUME TypeOK, AskEndInv, [Next]_vars
  PROVE  EditStep
<1>1. ASSUME NEW i \in Parts, Delete(i) PROVE EditStep
  <2>1. ZeroEntry \in Entry /\ ~part_is_used(ZeroEntry)
    BY ConstantFacts DEF ZeroEntry, Entry, Lbas, part_is_used
  <2>2. table' = [table EXCEPT ![i] = ZeroEntry]
    BY <1>1 DEF Delete
  <2> QED
    BY <2>1, <2>2 DEF EditStep
<1>2. ASSUME NEW i \in Parts, NEW t \in Types, ChangeType(i, t) PROVE EditStep
  <2> DEFINE p == [table[i] EXCEPT !.type = t]
  <2>1. table' = [table EXCEPT ![i] = p] /\ part_is_used(table[i])
    BY <1>2 DEF ChangeType
  <2>2. p.start = table[i].start /\ p.end = table[i].end /\ p \in Entry
    BY DEF TypeOK, Entry
  <2> HIDE DEF p
  <2> QED
    BY <2>1, <2>2 DEF EditStep
<1>3. ASSUME NEW i \in Parts, ToggleBoot(i) PROVE EditStep
  <2> DEFINE p == [table[i] EXCEPT !.boot = ~@]
  <2>1. table' = [table EXCEPT ![i] = p] /\ part_is_used(table[i])
    BY <1>3 DEF ToggleBoot
  <2>2. p.start = table[i].start /\ p.end = table[i].end /\ p \in Entry
    BY DEF TypeOK, Entry
  <2> HIDE DEF p
  <2> QED
    BY <2>1, <2>2 DEF EditStep
<1>4. ASSUME NEW e \in Lbas, GiveEnd(e) PROVE EditStep
  <2>1. /\ FirstUsable <= start /\ start <= lba /\ lba <= LastUsable
        /\ lba \in Nat /\ start \in Nat /\ idx \in Parts
    BY <1>4, ConstantFacts DEF GiveEnd, AskEndInv, TypeOK, Lbas
  <2>2. start <= e /\ e <= LastUsable
    BY <1>4, <2>1, ConstantFacts DEF GiveEnd
  <2>3. CASE Overlapping(start, e, idx) = {}
    <3>1. table' = [table EXCEPT ![idx] = Altered(e)]
      BY <1>4, <2>3 DEF GiveEnd
    <3>2. /\ Altered(e).start = start /\ Altered(e).end = e
          /\ Altered(e) \in Entry
      BY ConstantFacts DEF Altered, TypeOK, Entry
    <3>3. \A j \in Parts \ {idx} :
            part_is_used(table[j]) => ~Intersect(Altered(e), table[j])
      BY <2>2, <2>3, <3>2, OverlapTestComplete DEF Intersect, Others
    <3>4. FitsBeside(Altered(e), idx)
      BY <2>1, <2>2, <3>2, <3>3 DEF FitsBeside
    <3> QED
      BY <2>1, <3>1, <3>2, <3>4 DEF EditStep
  <2>4. CASE Overlapping(start, e, idx) # {}
    BY <1>4, <2>4 DEF GiveEnd, EditStep
  <2> QED
    BY <2>3, <2>4
<1>5. ASSUME UNCHANGED table PROVE EditStep
  BY <1>5 DEF EditStep
<1> QED
  BY <1>1, <1>2, <1>3, <1>4, <1>5 DEF Next, Command, Answer, Search, Alter,
     SearchFallback, SearchSkip, SearchFull, SearchFree, ScanEntry, ScanDone,
     GiveStart, Cancel, vars

\* An edit leaves every entry with a range that is usable or was there before.
LEMMA EditRanges ==
  ASSUME TypeOK, EditStep, NEW i \in Parts, part_is_used(table'[i])
  PROVE  \/ /\ part_is_used(table[i])
            /\ table'[i].start = table[i].start /\ table'[i].end = table[i].end
         \/ table'[i].start <= table'[i].end /\ table'[i].end <= LastUsable
<1>1. CASE UNCHANGED table
  BY <1>1
<1>2. CASE ~UNCHANGED table
  <2>1. PICK k \in Parts, p \in Entry :
          /\ table' = [table EXCEPT ![k] = p]
          /\ part_is_used(p) =>
               \/ part_is_used(table[k]) /\ p.start = table[k].start
                                         /\ p.end = table[k].end
               \/ FitsBeside(p, k)
    BY <1>2 DEF EditStep
  <2>2. CASE i = k
    <3>1. table'[i] = p
      BY <2>1, <2>2 DEF TypeOK
    <3> QED
      BY <2>1, <2>2, <3>1 DEF FitsBeside
  <2>3. CASE i # k
    <3>1. table'[i] = table[i]
      BY <2>1, <2>3 DEF TypeOK
    <3> QED
      BY <3>1
  <2> QED
    BY <2>2, <2>3
<1> QED
  BY <1>1, <1>2

LEMMA BoundedNext ==
  ASSUME TypeOK, TypeOK', EditStep, Bounded(table)
  PROVE  Bounded(table')
<1> SUFFICES ASSUME NEW i \in Parts, part_is_used(table'[i])
             PROVE  table'[i].end < MaxLba
  BY DEF Bounded
<1>1. table'[i].end \in Nat
  BY ConstantFacts DEF TypeOK, Entry, Lbas
<1> QED
  BY <1>1, EditRanges, ConstantFacts DEF Bounded

LEMMA LoadedInit == ASSUME InitBounded PROVE Init => LoadedInv
  BY TypeOKInit DEF InitBounded, Init, LoadedInv, SearchInv, DefaultStartFree,
     ScanInv, AskEndInv

LEMMA LoadedNext == LoadedInv /\ [Next]_vars => LoadedInv'
<1> SUFFICES ASSUME LoadedInv, [Next]_vars PROVE LoadedInv'
  OBVIOUS
<1>t. TypeOK /\ TypeOK' /\ Bounded(table)
  BY TypeOKNext DEF LoadedInv
<1>b. Bounded(table')
  BY <1>t, EditByNext, BoundedNext DEF LoadedInv
<1>r. ASSUME Return PROVE LoadedInv'
  BY <1>t, <1>b, <1>r DEF Return, LoadedInv, SearchInv, DefaultStartFree,
     ScanInv, AskEndInv, Bounded
<1>c. ASSUME pc = "cmd", UNCHANGED <<pc, locals>> PROVE LoadedInv'
  BY <1>t, <1>b, <1>c DEF locals, LoadedInv, SearchInv, DefaultStartFree,
     ScanInv, AskEndInv, Bounded
<1>1. ASSUME NEW i \in Parts, Delete(i) PROVE LoadedInv'
  BY <1>1, <1>c DEF Delete
<1>2. ASSUME NEW i \in Parts, NEW t \in Types, ChangeType(i, t) PROVE LoadedInv'
  BY <1>2, <1>c DEF ChangeType
<1>3. ASSUME NEW i \in Parts, ToggleBoot(i) PROVE LoadedInv'
  BY <1>3, <1>c DEF ToggleBoot
<1>4. ASSUME NEW i \in Parts, NEW new \in BOOLEAN, Alter(i, new) PROVE LoadedInv'
  <2>1. pc' = "search" /\ table' = table
    BY <1>4 DEF Alter, Goto
  <2>2. /\ FirstUsable <= lba' /\ lba' <= LastUsable /\ lba' \in Nat
        /\ noAlign' = FirstUsable \/ (noAlign' = 0 /\ lba' = FirstUsable)
    BY <1>4, SearchFromUsable, ConstantFacts DEF Alter
  <2>3. SearchInv'
    BY <2>1, <2>2, ConstantFacts DEF SearchInv, Frontier
  <2> QED
    BY <1>t, <1>b, <2>1, <2>3 DEF LoadedInv, DefaultStartFree, ScanInv,
       AskEndInv, Bounded
<1>5. CASE SearchFallback
  <2>1. pc' = "search" /\ table' = table /\ idx' = idx /\ noAlign # 0
        /\ lba' = noAlign /\ noAlign' = 0
    BY <1>5 DEF SearchFallback
  <2>2. Others(idx)' = Others(idx)
    BY <2>1 DEF Others
  <2>3. pc = "search" /\ Frontier = noAlign /\ Frontier' = noAlign
    BY <1>5, <2>1 DEF SearchFallback, Frontier
  <2>4. SearchInv'
    BY <1>t, <2>1, <2>2, <2>3, ConstantFacts
       DEF LoadedInv, SearchInv, TypeOK, Lbas
  <2> QED
    BY <1>t, <1>b, <2>1, <2>4 DEF LoadedInv, DefaultStartFree, ScanInv,
       AskEndInv, Bounded
<1>6. CASE SearchSkip
  <2>1. PICK j \in FirstHit : /\ ~PastUsable(AfterEnd(table[j]))
                              /\ SearchFrom(AfterEnd(table[j]))
    BY <1>6 DEF SearchSkip
  <2>2. j \in Others(idx) /\ Covers(table[j], lba) /\ j \in Parts
    BY DEF FirstHit, Hit, Others
  <2>3. /\ table[j].end \in Nat /\ table[j].start \in Nat
        /\ table[j].end < MaxLba /\ lba \in Nat
        /\ table[j].start <= lba /\ lba <= table[j].end
    BY <1>t, <2>2, ConstantFacts
       DEF Bounded, Others, TypeOK, Entry, Lbas, Covers
  <2>4. AfterEnd(table[j]) = table[j].end + 1
        /\ table[j].end + 1 <= LastUsable
    BY <2>1, <2>3, ConstantFacts DEF AfterEnd, PastUsable
  <2>5. pc = "search" /\ pc' = "search" /\ noAlign = 0
        /\ table' = table /\ idx' = idx
    BY <1>6 DEF SearchSkip
  <2>6. /\ table[j].end + 1 <= lba' /\ lba' <= LastUsable /\ lba' \in Nat
        /\ Frontier' = table[j].end + 1
    BY <2>1, <2>3, <2>4, SearchFromUsable, ConstantFacts DEF Frontier
  <2>7. Others(idx)' = Others(idx)
    BY <2>5 DEF Others
  <2>8. ASSUME NEW x \in FirstUsable .. LastUsable, x < table[j].end + 1
        PROVE  \E k \in Others(idx) : Covers(table[k], x)
    <3>1. CASE x < lba
      BY <1>6, <2>5, <3>1 DEF LoadedInv, SearchInv, Frontier
    <3>2. CASE ~(x < lba)
      BY <2>2, <2>3, <2>8, <3>2, ConstantFacts DEF Covers
    <3> QED
      BY <3>1, <3>2
  <2>9. FirstUsable <= lba
    BY <2>5 DEF LoadedInv, SearchInv
  <2>10. SearchInv'
    BY <2>3, <2>5, <2>6, <2>7, <2>8, <2>9, ConstantFacts DEF SearchInv
  <2> QED
    BY <1>t, <1>b, <2>5, <2>10 DEF LoadedInv, DefaultStartFree, ScanInv,
       AskEndInv, Bounded
<1>7. CASE SearchFull
  BY <1>7, <1>r DEF SearchFull
<1>8. CASE SearchFree
  <2>1. /\ pc = "search" /\ pc' = "askStart"
        /\ table' = table /\ idx' = idx /\ lba' = lba /\ Hit = {}
    BY <1>8 DEF SearchFree, Goto
  <2>2. DefaultStartFree'
    BY <2>1 DEF LoadedInv, SearchInv, DefaultStartFree, Hit, Others
  <2> QED
    BY <1>t, <1>b, <2>1, <2>2 DEF LoadedInv, SearchInv, ScanInv, AskEndInv,
       Bounded
<1>9. ASSUME NEW s \in Lbas, GiveStart(s) PROVE LoadedInv'
  <2>1. /\ pc = "askStart" /\ pc' = "scan" /\ table' = table
        /\ start' = s /\ lba' = LastUsable /\ scan' = 0
        /\ s \in (FirstUsable .. LastUsable) \cup {lba}
    BY <1>9 DEF GiveStart, Goto
  <2>2. FirstUsable <= s /\ s <= LastUsable
    BY <2>1, ConstantFacts DEF LoadedInv, DefaultStartFree
  <2>3. ScanInv'
    BY <2>1, <2>2, ConstantFacts DEF ScanInv, Others, Parts
  <2> QED
    BY <1>t, <1>b, <2>1, <2>3 DEF LoadedInv, SearchInv, DefaultStartFree,
       AskEndInv, Bounded
<1>10. CASE ScanEntry
  <2>1. /\ pc = "scan" /\ pc' = "scan" /\ table' = table /\ idx' = idx
        /\ start' = start /\ scan' = scan + 1
        /\ lba' = NextBound(lba, scan)
    BY <1>10 DEF ScanEntry
  <2>2. /\ FirstUsable <= start /\ start <= lba /\ lba <= LastUsable
        /\ \A j \in Others(idx) :
             j < scan /\ table[j].start > start => lba <= table[j].start
    BY <2>1 DEF LoadedInv, ScanInv
  <2>3. /\ lba \in Nat /\ start \in Nat /\ scan \in Nat
        /\ \A j \in Others(idx) : table[j].start \in Nat /\ j \in Nat
    BY <1>t, ConstantFacts DEF TypeOK, Lbas, Entry, Others, Parts
  <2>4. /\ start <= lba' /\ lba' <= lba
        /\ scan \in Others(idx) /\ table[scan].start > start
             => lba' <= table[scan].start
    BY <2>1, <2>2, <2>3 DEF NextBound
  <2>5. lba' \in Nat
    BY <1>t DEF TypeOK, Lbas
  <2>6. ASSUME NEW j \in Others(idx), j < scan + 1, table[j].start > start
        PROVE  lba' <= table[j].start
    <3>1. CASE j = scan
      BY <2>4, <2>6, <3>1
    <3>2. CASE j < scan
      BY <2>2, <2>3, <2>4, <2>5, <2>6, <3>2
    <3> QED
      BY <2>3, <2>6, <3>1, <3>2
  <2>7. Others(idx)' = Others(idx)
    BY <2>1 DEF Others
  <2>8. lba' <= LastUsable
    BY <2>2, <2>3, <2>4, <2>5, ConstantFacts
  <2>9. ScanInv'
    BY <2>1, <2>2, <2>4, <2>6, <2>7, <2>8 DEF ScanInv
  <2> QED
    BY <1>t, <1>b, <2>1, <2>9 DEF LoadedInv, SearchInv, DefaultStartFree,
       AskEndInv, Bounded
<1>11. CASE ScanDone
  <2>1. pc = "scan" /\ table' = table
    BY <1>11 DEF ScanDone
  <2>2. /\ FirstUsable <= start /\ start <= lba /\ lba <= LastUsable
        /\ lba \in Nat /\ start \in Nat
    BY <1>t, <2>1, ConstantFacts DEF LoadedInv, ScanInv, TypeOK, Lbas
  <2>3. pc' = "askEnd" /\ lba' = DefaultEnd(lba) /\ start' = start
    BY <1>11, <2>2 DEF ScanDone, Goto
  <2>4. start <= lba' /\ lba' <= lba /\ lba' \in Nat
    BY <2>2, <2>3, DefaultEndBounds
  <2>5. AskEndInv'
    BY <2>2, <2>3, <2>4, ConstantFacts DEF AskEndInv
  <2> QED
    BY <1>t, <1>b, <2>1, <2>3, <2>5 DEF LoadedInv, SearchInv, DefaultStartFree,
       ScanInv, Bounded
<1>12. ASSUME NEW e \in Lbas, GiveEnd(e) PROVE LoadedInv'
  BY <1>12, <1>r DEF GiveEnd
<1>13. CASE Cancel
  BY <1>13, <1>r DEF Cancel
<1>14. CASE UNCHANGED vars
  BY <1>14, <1>t, <1>b DEF vars, LoadedInv, SearchInv, Frontier,
     DefaultStartFree, ScanInv, AskEndInv, Others, Bounded
<1> QED
  BY <1>1, <1>2, <1>3, <1>4, <1>5, <1>6, <1>7, <1>8, <1>9, <1>10, <1>11, <1>12,
     <1>13, <1>14 DEF Next, Command, Answer, Search

\* From tables whose ends have a successor, overlapping, unusable or backwards
\* as their entries may be: the first sector that is proposed is free.
THEOREM StartsSound == InitBounded => (Spec => []DefaultStartFree)
<1> SUFFICES ASSUME InitBounded PROVE Spec => []DefaultStartFree
  OBVIOUS
<1>1. LoadedInv => DefaultStartFree
  BY DEF LoadedInv
<1> QED
  BY <1>1, LoadedInit, LoadedNext, PTL DEF Spec

FullStep ==
  pc = "search" /\ pc' = "cmd" =>
    \A x \in FirstUsable .. LastUsable :
      \E j \in Others(idx) : Covers(table[j], x)

LEMMA FullByNext == LoadedInv /\ [Next]_vars => FullStep
<1> SUFFICES ASSUME LoadedInv, [Next]_vars, pc = "search", pc' = "cmd",
                    NEW x \in FirstUsable .. LastUsable
             PROVE  \E j \in Others(idx) : Covers(table[j], x)
  BY DEF FullStep
<1>1. SearchFull
  BY DEF Next, Command, Answer, Search, Delete, ChangeType, ToggleBoot, Alter,
     SearchFallback, SearchSkip, SearchFree, ScanEntry, ScanDone, GiveStart,
     GiveEnd, Cancel, Goto, vars
<1>2. PICK j \in FirstHit : PastUsable(AfterEnd(table[j]))
  BY <1>1 DEF SearchFull
<1>3. j \in Others(idx) /\ Covers(table[j], lba) /\ j \in Parts
  BY DEF FirstHit, Hit, Others
<1>4. /\ table[j].end \in Nat /\ table[j].start \in Nat /\ lba \in Nat
      /\ table[j].end < MaxLba
      /\ table[j].start <= lba /\ lba <= table[j].end
  BY <1>3, ConstantFacts
     DEF LoadedInv, Bounded, Others, TypeOK, Entry, Lbas, Covers
<1>5. LastUsable <= table[j].end
  BY <1>2, <1>4, ConstantFacts DEF AfterEnd, PastUsable
<1>6. CASE x < lba
  BY <1>1, <1>6 DEF SearchFull, LoadedInv, SearchInv, Frontier
<1>7. CASE ~(x < lba)
  BY <1>3, <1>4, <1>5, <1>7, ConstantFacts DEF Covers
<1> QED
  BY <1>6, <1>7

\* From the same tables: a search for a start sector fails only when the other
\* partitions hold every usable sector, however alignment skips over them.
THEOREM FullSearchIsFull == InitBounded => (Spec => FullMeansFull)
<1> SUFFICES ASSUME InitBounded PROVE Spec => FullMeansFull
  OBVIOUS
<1>1. LoadedInv /\ [Next]_vars => [FullStep]_vars
  BY FullByNext
<1> QED
  BY <1>1, LoadedInit, LoadedNext, PTL DEF Spec, FullMeansFull, FullStep

-----------------------------------------------------------------------------
(* The search for a start sector ends.                                     *)

AdvanceStep ==
  pc = "search" /\ pc' = "search" => 0 <= SearchLeft' /\ SearchLeft' < SearchLeft

LEMMA FallbackAdvances ==
  ASSUME LoadedInv, SearchFallback
  PROVE  0 <= SearchLeft' /\ SearchLeft' < SearchLeft
<1>1. noAlign # 0 /\ noAlign' = 0 /\ lba' = noAlign /\ pc = "search"
  BY DEF SearchFallback
<1>2. /\ noAlign \in Nat /\ lba \in Nat
      /\ noAlign <= lba /\ lba <= LastUsable
  BY <1>1, ConstantFacts DEF LoadedInv, SearchInv, Frontier, TypeOK, Lbas
<1>3. SearchLeft = 2 * (LastUsable - noAlign) + 1
  BY <1>1 DEF SearchLeft, Frontier
<1>4. SearchLeft' = 2 * (LastUsable - noAlign) + 0
  BY <1>1 DEF SearchLeft, Frontier
<1> QED
  BY <1>2, <1>3, <1>4, ConstantFacts

LEMMA SkipAdvances ==
  ASSUME LoadedInv, SearchSkip
  PROVE  0 <= SearchLeft' /\ SearchLeft' < SearchLeft
<1>1. PICK j \in FirstHit : /\ ~PastUsable(AfterEnd(table[j]))
                            /\ SearchFrom(AfterEnd(table[j]))
  BY DEF SearchSkip
<1>2. j \in Others(idx) /\ Covers(table[j], lba) /\ j \in Parts
  BY DEF FirstHit, Hit, Others
<1>3. /\ table[j].end \in Nat /\ lba \in Nat
      /\ table[j].end < MaxLba /\ lba <= table[j].end
  BY <1>2, ConstantFacts
     DEF LoadedInv, Bounded, Others, TypeOK, Entry, Lbas, Covers
<1> DEFINE next == table[j].end + 1
<1>4. AfterEnd(table[j]) = next /\ next <= LastUsable
  BY <1>1, <1>3, ConstantFacts DEF AfterEnd, PastUsable
<1>5. next \in Nat /\ lba < next
  BY <1>3
<1> HIDE DEF next
<1>6. SearchLeft = 2 * (LastUsable - lba) + 0
  BY DEF SearchSkip, SearchLeft, Frontier
<1>7. noAlign' = next \/ (noAlign' = 0 /\ lba' = next)
  BY <1>1, <1>4, <1>5, SearchFromUsable
<1>8. \/ SearchLeft' = 2 * (LastUsable - next) + 1
      \/ SearchLeft' = 2 * (LastUsable - next) + 0
  <2>1. next # 0
    BY <1>3, <1>5
  <2> QED
    BY <1>7, <2>1 DEF SearchLeft, Frontier
<1> QED
  BY <1>3, <1>4, <1>5, <1>6, <1>8, ConstantFacts

LEMMA AdvanceByNext == LoadedInv /\ [Next]_vars => AdvanceStep \/ UNCHANGED vars
<1> SUFFICES ASSUME LoadedInv, Next, pc = "search", pc' = "search"
             PROVE  0 <= SearchLeft' /\ SearchLeft' < SearchLeft
  BY DEF AdvanceStep
<1>1. SearchFallback \/ SearchSkip
  BY DEF Next, Command, Answer, Search, Delete, ChangeType, ToggleBoot, Alter,
     SearchFull, SearchFree, ScanEntry, ScanDone, GiveStart, GiveEnd, Cancel,
     Goto, Return
<1> QED
  BY <1>1, FallbackAdvances, SkipAdvances

\* From the same tables: every iteration of the search uses up some of a
\* bounded measure, so the do-while loop of schem_find_start_sector cannot
\* revisit a candidate, let alone cycle.
THEOREM SearchesAdvance == InitBounded => (Spec => SearchAdvances)
<1> SUFFICES ASSUME InitBounded PROVE Spec => SearchAdvances
  OBVIOUS
<1>1. LoadedInv /\ [Next]_vars => [AdvanceStep]_vars
  BY AdvanceByNext
<1> QED
  BY <1>1, LoadedInit, LoadedNext, PTL DEF Spec, SearchAdvances, AdvanceStep

-----------------------------------------------------------------------------
(* The refinement.                                                         *)

LEMMA AbstractEdit == TypeOK /\ EditStep => [Abstract!Next]_table
<1> SUFFICES ASSUME TypeOK, EditStep, ~UNCHANGED table PROVE Abstract!Next
  OBVIOUS
<1>1. PICK k \in Parts, p \in Entry :
        /\ table' = [table EXCEPT ![k] = p]
        /\ part_is_used(p) =>
             \/ part_is_used(table[k]) /\ p.start = table[k].start
                                       /\ p.end = table[k].end
             \/ FitsBeside(p, k)
  BY DEF EditStep
<1> QED
  BY <1>1 DEF FitsBeside, Intersect, part_is_used, Abstract!Next, Abstract!Edit,
     Abstract!Used, Abstract!Fits, Abstract!SameRange, Abstract!Intersect

LEMMA AbstractStep == LoadedInv /\ [Next]_vars => [Abstract!Next]_table
  BY EditByNext, AbstractEdit DEF LoadedInv

\* From the same tables: the dialogs, with their searches, abandoned prompts
\* and unchecked defaults, implement one-entry edits that fit.
THEOREM DialogsImplementEdits == InitBounded => (Spec => ImplementsTable)
<1> SUFFICES ASSUME InitBounded PROVE Spec => ImplementsTable
  OBVIOUS
<1>1. Init => Abstract!Init
  BY DEF Init, Abstract!Init
<1> QED
  BY <1>1, AbstractStep, LoadedInit, LoadedNext, PTL
     DEF Spec, ImplementsTable, Abstract!Spec

-----------------------------------------------------------------------------
(* Tables whose entries are not backwards.                                 *)

Ordered(t) == \A i \in Parts : part_is_used(t[i]) => t[i].start <= t[i].end

InitOrdered == \A t \in InitTables : Ordered(t)

OrderedInv == LoadedInv /\ Ordered(table) /\ DefaultEndOvershoot

LEMMA OrderedNext ==
  ASSUME TypeOK, EditStep, Ordered(table)
  PROVE  Ordered(table')
  BY EditRanges DEF Ordered

\* Only the end of the scan makes a proposal.
LEMMA OvershootByScan ==
  ASSUME OrderedInv, ScanDone
  PROVE  DefaultEndOvershoot'
<1>t. TypeOK
  BY DEF OrderedInv, LoadedInv
<1>1. pc = "scan" /\ scan = PartCnt /\ table' = table
  BY DEF ScanDone
<1>2. /\ FirstUsable <= start /\ start <= lba /\ lba <= LastUsable
      /\ lba \in Nat /\ start \in Nat
  BY <1>t, <1>1, ConstantFacts DEF OrderedInv, LoadedInv, ScanInv, TypeOK, Lbas
<1>3. lba' = DefaultEnd(lba) /\ start' = start /\ idx' = idx
  BY <1>2 DEF ScanDone, Goto
<1>4. /\ start <= lba' /\ lba' <= lba /\ lba' \in Nat
      /\ lba' = lba \/ Overlapping(start, lba', idx) = {}
  BY <1>2, <1>3, DefaultEndBounds
<1>5. ASSUME \A j \in Others(idx) : ~Covers(table[j], start),
             NEW j \in Overlapping(start, lba', idx)
      PROVE  table[j].start = lba'
  <2>1. lba' = lba /\ j \in Others(idx) /\ j \in Parts
    BY <1>4, <1>5 DEF Overlapping, Others
  <2>2. /\ table[j].start \in Nat /\ table[j].end \in Nat
        /\ table[j].start <= table[j].end
    BY <1>t, <2>1, ConstantFacts
       DEF TypeOK, Entry, Lbas, Others, OrderedInv, Ordered
  <2>3. j < scan
    BY <1>1, <2>1, ConstantFacts DEF Parts
  <2>4. table[j].start > start => lba <= table[j].start
    BY <1>1, <2>1, <2>3 DEF OrderedInv, LoadedInv, ScanInv
  <2>5. ~Covers(table[j], start)
    BY <1>5, <2>1
  <2>6. Covers(table[j], lba) \/ (start < table[j].start /\ lba > table[j].end)
    BY <1>5, <2>1, <2>5 DEF Overlapping
  <2> QED
    BY <1>2, <2>1, <2>2, <2>4, <2>5, <2>6 DEF Covers
<1>6. Others(idx)' = Others(idx)
      /\ Overlapping(start, lba, idx)' = Overlapping(start, lba', idx)
  BY <1>1, <1>3 DEF Others, Overlapping
<1>7. lba' <= LastUsable
  BY <1>2, <1>4, ConstantFacts
<1> QED
  BY <1>1, <1>3, <1>4, <1>5, <1>6, <1>7 DEF DefaultEndOvershoot

LEMMA OrderedInvNext == OrderedInv /\ [Next]_vars => OrderedInv'
<1> SUFFICES ASSUME OrderedInv, [Next]_vars PROVE OrderedInv'
  OBVIOUS
<1>1. LoadedInv'
  BY LoadedNext DEF OrderedInv
<1>2. Ordered(table)'
  <2>1. Ordered(table')
    BY EditByNext, OrderedNext DEF OrderedInv, LoadedInv
  <2> QED
    BY <2>1 DEF Ordered
<1>3. DefaultEndOvershoot'
  <2>1. CASE ScanDone
    BY <2>1, OvershootByScan
  <2>2. CASE UNCHANGED vars
    BY <2>2 DEF vars, OrderedInv, DefaultEndOvershoot, Others, Overlapping
  <2>3. CASE Next /\ ~ScanDone
    <3>1. pc' # "askEnd"
      BY <2>3 DEF Next, Command, Answer, Search, Delete, ChangeType, ToggleBoot,
         Alter, SearchFallback, SearchSkip, SearchFull, SearchFree, ScanEntry,
         GiveStart, GiveEnd, Cancel, Goto, Return, locals
    <3> QED
      BY <3>1 DEF DefaultEndOvershoot
  <2> QED
    BY <2>1, <2>2, <2>3
<1> QED
  BY <1>1, <1>2, <1>3 DEF OrderedInv

LEMMA OrderedInit == ASSUME InitBounded, InitOrdered PROVE Init => OrderedInv
  BY LoadedInit DEF InitOrdered, Init, OrderedInv, DefaultEndOvershoot

\* From tables that are bounded and not backwards, overlapping or unusable as
\* their entries may be: the last sector that is proposed overlaps other
\* partitions in that sector alone.
THEOREM EndsSound ==
  InitBounded /\ InitOrdered => (Spec => []DefaultEndOvershoot)
<1> SUFFICES ASSUME InitBounded, InitOrdered
             PROVE  Spec => []DefaultEndOvershoot
  OBVIOUS
<1>1. OrderedInv => DefaultEndOvershoot
  BY DEF OrderedInv
<1> QED
  BY <1>1, OrderedInit, OrderedInvNext, PTL DEF Spec

-----------------------------------------------------------------------------
(* Well-formed tables: a new scheme's, or an image's partitions in order.  *)

InitWellFormed == \A t \in InitTables : WellFormed(t)

WellFormedInv == LoadedInv /\ WellFormed(table)

\* An entry that is unused, or that keeps the range of a used one, or that
\* fits beside the others, leaves the table well formed.
LEMMA WellFormedEdit ==
  ASSUME TypeOK, WellFormed(table), NEW k \in Parts, NEW p,
         part_is_used(p) =>
           \/ part_is_used(table[k]) /\ p.start = table[k].start
                                     /\ p.end = table[k].end
           \/ FitsBeside(p, k)
  PROVE  WellFormed([table EXCEPT ![k] = p])
<1> DEFINE T == [table EXCEPT ![k] = p]
<1>1. T[k] = p /\ \A j \in Parts \ {k} : T[j] = table[j]
  BY DEF TypeOK
<1>2. part_is_used(p) =>
        /\ FirstUsable <= p.start /\ p.start <= p.end /\ p.end <= LastUsable
        /\ \A j \in Parts \ {k} : part_is_used(table[j]) =>
             ~Intersect(p, table[j]) /\ ~Intersect(table[j], p)
  BY DEF WellFormed, FitsBeside, Intersect
<1> HIDE DEF T
<1>3. SUFFICES WellFormed(T)
  BY DEF T
<1>4. SUFFICES ASSUME NEW i \in Parts, part_is_used(T[i])
               PROVE  /\ FirstUsable <= T[i].start
                      /\ T[i].start <= T[i].end
                      /\ T[i].end <= LastUsable
                      /\ \A j \in Parts \ {i} :
                           part_is_used(T[j]) => ~Intersect(T[i], T[j])
  BY DEF WellFormed
<1>5. CASE i = k
  <2>1. T[i] = p /\ part_is_used(p) /\ \A j \in Parts \ {i} : T[j] = table[j]
    BY <1>1, <1>4, <1>5
  <2> QED
    BY <1>2, <1>5, <2>1
<1>6. CASE i # k
  <2>1. T[i] = table[i]
    BY <1>1, <1>6
  <2>2. \A j \in Parts \ {i} :
          part_is_used(T[j]) => ~Intersect(T[i], T[j])
    <3> TAKE j \in Parts \ {i}
    <3>1. CASE j = k
      BY <1>1, <1>2, <1>4, <1>6, <2>1, <3>1
    <3>2. CASE j # k
      BY <1>1, <1>4, <2>1, <3>2 DEF WellFormed
    <3> QED
      BY <3>1, <3>2
  <2> QED
    BY <1>4, <2>1, <2>2 DEF WellFormed
<1> QED
  BY <1>5, <1>6

LEMMA WellFormedNext ==
  ASSUME TypeOK, EditStep, WellFormed(table)
  PROVE  WellFormed(table')
<1>1. CASE UNCHANGED table
  BY <1>1
<1>2. CASE ~UNCHANGED table
  <2>1. PICK k \in Parts, p \in Entry :
          /\ table' = [table EXCEPT ![k] = p]
          /\ part_is_used(p) =>
               \/ part_is_used(table[k]) /\ p.start = table[k].start
                                         /\ p.end = table[k].end
               \/ FitsBeside(p, k)
    BY <1>2 DEF EditStep
  <2> QED
    BY <2>1, WellFormedEdit
<1> QED
  BY <1>1, <1>2

LEMMA WellFormedInvInductive ==
  ASSUME InitWellFormed
  PROVE  /\ Init => WellFormedInv
         /\ WellFormedInv /\ [Next]_vars => WellFormedInv'
<1>1. InitBounded
  <2> SUFFICES ASSUME NEW t \in InitTables, NEW i \in Parts, part_is_used(t[i])
               PROVE  t[i].end < MaxLba
    BY DEF InitBounded, Bounded
  <2>1. t[i].end \in Nat /\ t[i].end <= LastUsable
    BY TablesAssumption, ConstantFacts
       DEF InitWellFormed, WellFormed, Entry, Lbas
  <2> QED
    BY <2>1, ConstantFacts
<1>2. Init => WellFormedInv
  BY <1>1, LoadedInit DEF InitWellFormed, Init, WellFormedInv
<1>3. ASSUME WellFormedInv, [Next]_vars PROVE WellFormedInv'
  <2>1. WellFormed(table')
    BY <1>3, EditByNext, WellFormedNext DEF WellFormedInv, LoadedInv
  <2> QED
    BY <1>3, <2>1, LoadedNext DEF WellFormedInv, WellFormed
<1> QED
  BY <1>2, <1>3

\* From well-formed tables: no two partitions ever share a sector.
THEOREM PartitionsDisjoint == InitWellFormed => (Spec => []NoOverlap)
<1> SUFFICES ASSUME InitWellFormed PROVE Spec => []NoOverlap
  OBVIOUS
<1>1. WellFormedInv => NoOverlap
  BY DEF WellFormedInv, WellFormed, NoOverlap
<1> QED
  BY <1>1, WellFormedInvInductive, PTL DEF Spec

\* From well-formed tables: every partition is a nonempty range of usable
\* sectors, the unchecked defaults included.
THEOREM PartitionsInBounds == InitWellFormed => (Spec => []InBounds)
<1> SUFFICES ASSUME InitWellFormed PROVE Spec => []InBounds
  OBVIOUS
<1>1. WellFormedInv => InBounds
  BY DEF WellFormedInv, WellFormed, InBounds
<1> QED
  BY <1>1, WellFormedInvInductive, PTL DEF Spec
=============================================================================
