--------------------------- MODULE ImgCtx_proofs ---------------------------
(* Facts about the sector arithmetic of ImgCtx, for every alignment.       *)
EXTENDS ImgCtx, TLAPS

-----------------------------------------------------------------------------
(* Division.                                                               *)

\* Quotient and remainder.
LEMMA Division ==
  ASSUME NEW n \in Nat, NEW d \in Nat \ {0}
  PROVE  /\ n \div d \in Nat /\ n % d \in 0 .. d - 1
         /\ n = d * (n \div d) + (n % d)
  BY Z3

\* They are the only ones.
LEMMA DivisionUnique ==
  ASSUME NEW d \in Nat \ {0}, NEW q \in Nat, NEW r \in 0 .. d - 1
  PROVE  /\ (d * q + r) \div d = q
         /\ (d * q + r) % d = r
<1> DEFINE n == d * q + r
           p == n \div d
           s == n % d
<1>1. n \in Nat /\ p \in Nat /\ s \in 0 .. d - 1 /\ n = d * p + s
  <2>1. n \in Nat
    BY Z3
  <2> HIDE DEF n
  <2> QED
    BY <2>1, Division
<1>2. d * (p - q) = r - s /\ p - q \in Int
  BY <1>1, Z3
<1> HIDE DEF p, s, n
<1>3. p = q
  <2>1. ASSUME p >= q + 1 PROVE FALSE
    <3>1. d * (p - q) >= d
      BY <1>1, <2>1, Z3
    <3> QED BY <3>1, <1>1, <1>2
  <2>2. ASSUME q >= p + 1 PROVE FALSE
    <3>1. d * (q - p) >= d /\ d * (p - q) = - (d * (q - p))
      BY <1>1, <2>2, Z3
    <3> QED BY <3>1, <1>1, <1>2
  <2> QED BY <2>1, <2>2, <1>1
<1>4. s = r
  BY <1>1, <1>2, <1>3, Z3
<1> QED
  BY <1>3, <1>4 DEF p, s, n

\* A sum or a difference that wraps once.
LEMMA Wraps ==
  ASSUME NEW L \in Nat \ {0}, NEW x \in Int
  PROVE  /\ x \in 0 .. L - 1 => x % L = x
         /\ x \in L .. 2 * L - 1 => x % L = x - L
         /\ x \in -L .. -1 => x % L = x + L
<1>1. x \in 0 .. L - 1 => x % L = x
  BY Z3
<1>2. x \in L .. 2 * L - 1 => x % L = x - L
  BY Z3
<1>3. x \in -L .. -1 => x % L = x + L
  BY Z3
<1> QED
  BY <1>1, <1>2, <1>3
-----------------------------------------------------------------------------
(* Alignment.                                                              *)

\* lba_align(ctx, lba, 1) never goes back: it is a sector at or after lba.
LEMMA AlignUp ==
  ASSUME NEW A \in Nat \ {0}, NEW x \in Nat
  PROVE  /\ lba_align(A, x, TRUE) \in Nat
         /\ x <= lba_align(A, x, TRUE)
<1> DEFINE q == x \div A
           r == x % A
<1>1. q \in Nat /\ r \in Nat /\ r < A /\ x = A * q + r
  BY Z3
<1>2. q * A = A * q /\ q * A \in Nat
  BY <1>1
<1> HIDE DEF q, r
<1>3. /\ x <= q * A + (IF r # 0 THEN A ELSE 0)
      /\ q * A + (IF r # 0 THEN A ELSE 0) \in Nat
  BY <1>1, <1>2
<1> QED
  BY <1>3 DEF lba_align, q, r

\* lba_align(ctx, lba, 0) never goes ahead: it is a sector at or before lba.
LEMMA AlignDown ==
  ASSUME NEW A \in Nat \ {0}, NEW x \in Nat
  PROVE  /\ lba_align(A, x, FALSE) \in Nat
         /\ lba_align(A, x, FALSE) <= x
<1> DEFINE q == x \div A
           r == x % A
<1>1. q \in Nat /\ r \in Nat /\ r < A /\ x = A * q + r
  BY Z3
<1>2. q * A = A * q /\ q * A \in Nat
  BY <1>1
<1> HIDE DEF q, r
<1>3. q * A <= x
  BY <1>1, <1>2
<1> QED
  BY <1>3 DEF lba_align, q, r
=============================================================================
