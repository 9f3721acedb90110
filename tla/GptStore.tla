------------------------------ MODULE GptStore -----------------------------
(***************************************************************************)
(* What writing a GPT promises, whatever sectors and stores it takes: the  *)
(* image holds two copies, a copy passes through an invalid state when it  *)
(* is rewritten, and the main copy is touched only while the backup holds  *)
(* what is being written.  A copy that was removed can still be there but  *)
(* for its signature, and come back for a moment when it is overwritten.   *)
(* A write may stop after any step.  Between writes the image can be       *)
(* extended, and sectors can go bad.  SchemCtx is the detailed             *)
(* specification that implements this.                                     *)
(***************************************************************************)
CONSTANTS
  Gpts,     \* what a copy can hold
  Bad,      \* an invalid copy, or none
  Idle      \* no write is running

\* The three kinds of values are told apart: what the theorem about this module
\* asks of them.
Distinct == Bad \notin Gpts /\ Idle \notin Gpts /\ Idle # Bad

VARIABLES
  main,     \* the copy at LBA 1
  backup,   \* the copy at the last LBA
  removed_main, removed_backup,   \* what a signature would make of them
  target    \* what is being written: a GPT, Bad to remove it, or Idle

vars == <<main, backup, removed_main, removed_backup, target>>

Removed == removed_main \cup removed_backup

\* What a program that starts now finds (gpt_load): the main copy wins.
stored == IF main # Bad THEN main ELSE backup

Init ==
  /\ main \in Gpts \cup {Bad}
  /\ backup \in Gpts \cup {Bad}
  /\ removed_main \subseteq Gpts /\ removed_backup \subseteq Gpts
  /\ target = Idle

Begin ==
  /\ target = Idle
  /\ target' \in Gpts \cup {Bad}
  /\ UNCHANGED <<main, backup, removed_main, removed_backup>>

WriteBackup ==
  /\ target \in Gpts
  /\ backup # target
  /\ backup' \in {Bad, target} \cup removed_backup
  /\ removed_backup' = {}
  /\ UNCHANGED <<main, removed_main, target>>

\* BUG variant: the main copy is written whatever the backup holds.
WriteMainUnguarded ==
  /\ target \in Gpts
  /\ main' \in {Bad, target} \cup removed_main
  /\ removed_main' = {}
  /\ UNCHANGED <<backup, removed_backup, target>>

\* A main copy that holds the target already can be rewritten: it names the
\* place of the backup, which is another one after an extension.
WriteMain ==
  /\ target \in Gpts
  /\ backup = target
  /\ main' \in {Bad, target} \cup removed_main
  /\ removed_main' = {}
  /\ UNCHANGED <<backup, removed_backup, target>>

RemoveMain ==
  /\ target = Bad
  /\ main # Bad
  /\ main' = Bad /\ removed_main' = {main}
  /\ UNCHANGED <<backup, removed_backup, target>>

RemoveBackup ==
  /\ target = Bad
  /\ main = Bad /\ backup # Bad
  /\ backup' = Bad /\ removed_backup' = {backup}
  /\ UNCHANGED <<main, removed_main, target>>

\* The write is complete, failed, or was cut short.
End ==
  /\ target # Idle
  /\ target' = Idle
  /\ UNCHANGED <<main, backup, removed_main, removed_backup>>

\* The image is extended: what its end holds now counts as the backup.
Extend ==
  /\ target = Idle
  /\ backup' \in Gpts \cup {Bad}
  /\ removed_backup' \subseteq Gpts
  /\ UNCHANGED <<main, removed_main, target>>

Damage ==
  /\ target = Idle
  /\ main' \in {main, Bad} /\ backup' \in {backup, Bad}
  /\ removed_main' \subseteq removed_main
  /\ removed_backup' \subseteq removed_backup
  /\ UNCHANGED target

Next ==
  \/ Begin \/ WriteBackup \/ WriteMain \/ RemoveMain \/ RemoveBackup \/ End
  \/ Extend \/ Damage

Spec == Init /\ [][Next]_vars

-----------------------------------------------------------------------------

TypeOK ==
  /\ main \in Gpts \cup {Bad}
  /\ backup \in Gpts \cup {Bad}
  /\ removed_main \subseteq Gpts /\ removed_backup \subseteq Gpts
  /\ target \in Gpts \cup {Bad, Idle}

\* The only valid copy is not the one a write begins with.
Guarded == main # Bad \/ backup \in {Bad, target}

\* While a GPT is written over a valid main copy, or over nothing, a restart
\* finds what was there or what is being written, and nothing else, unless
\* something was removed.
Atomic ==
  [][Guarded /\ target \in Gpts =>
       /\ stored' \in {stored, target} \cup Removed
       /\ target' = target /\ Removed = {} => Guarded']_vars
=============================================================================
