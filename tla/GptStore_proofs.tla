-------------------------- MODULE GptStore_proofs --------------------------
(* The theorem of GptStore: two copies make a write atomic.                *)
EXTENDS GptStore, TLAPS

AtomicStep ==
  Guarded /\ target \in Gpts =>
    /\ stored' \in {stored, target} \cup Removed
    /\ target' = target /\ Removed = {} => Guarded'

LEMMA TypeInductive == (Init => TypeOK) /\ (TypeOK /\ [Next]_vars => TypeOK')
<1>1. Init => TypeOK
  BY DEF Init, TypeOK
<1>2. TypeOK /\ [Next]_vars => TypeOK'
  BY DEF TypeOK, Next, Begin, WriteBackup, WriteMain, RemoveMain, RemoveBackup,
     End, Extend, Damage, vars
<1> QED
  BY <1>1, <1>2

LEMMA AtomicByNext ==
  ASSUME Distinct
  PROVE  TypeOK /\ [Next]_vars => AtomicStep
<1> SUFFICES ASSUME TypeOK, [Next]_vars, target \in Gpts, Guarded
             PROVE  /\ stored' \in {stored, target} \cup Removed
                    /\ target' = target /\ Removed = {} => Guarded'
  BY DEF AtomicStep
<1>1. target # Bad /\ target # Idle
  BY DEF Distinct
<1>2. CASE WriteBackup
  BY <1>1, <1>2 DEF WriteBackup, Guarded, stored, Removed
<1>3. CASE WriteMain
  BY <1>1, <1>3 DEF WriteMain, Guarded, stored, Removed
<1>4. CASE End
  BY <1>4 DEF End, Guarded, stored
<1>5. CASE UNCHANGED vars
  BY <1>5 DEF vars, Guarded, stored
<1> QED
  BY <1>1, <1>2, <1>3, <1>4, <1>5 DEF Next, Begin, RemoveMain, RemoveBackup, Extend, Damage

\* A write that starts over a valid main copy, or over nothing, is atomic: at
\* every step a restart finds the old GPT or the new one, although each copy
\* is invalid while it is rewritten, or else one whose removal is undone.
THEOREM WriteAtomic ==
  ASSUME Distinct
  PROVE  Spec => Atomic
<1>1. TypeOK /\ [Next]_vars => [AtomicStep]_vars
  BY AtomicByNext
<1> QED
  BY <1>1, TypeInductive, PTL DEF Spec, Atomic, AtomicStep
=============================================================================
