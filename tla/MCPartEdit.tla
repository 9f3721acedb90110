---------------------------- MODULE MCPartEdit ------------------------------
(* Instances of PartEdit for TLC: which tables editing starts from.        *)
EXTENDS PartEdit

\* "empty": a new scheme; "any": whatever an image can hold, but for boot flags,
\* which nothing depends on; "bounded": the same without entries that end at the
\* largest LBA: those of a GPT that say so, and those of an MBR with start and
\* size 0 (mbr.c:282).
CONSTANT TableChoice

MCInitTables ==
  CASE TableChoice = "empty" -> {[i \in Parts |-> ZeroEntry]}
    [] TableChoice = "bounded" -> [Parts -> {p \in Entry : ~p.boot /\ p.end < MaxLba}]
    [] TableChoice = "any" -> [Parts -> {p \in Entry : ~p.boot}]
=============================================================================
