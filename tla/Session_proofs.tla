--------------------------- MODULE Session_proofs ---------------------------
(***************************************************************************)
(* Theorems about a run of partman, for every image size and every value   *)
(* of the options.                                                         *)
(***************************************************************************)
EXTENDS Session, TLAPS

\* The context belongs to the image from the moment there is one.
CtxFits ==
  /\ pc = "init" =>
       /\ img_ctx = img_ctx_init(size)
       /\ size >= opts.img_sz
  /\ pc \in {"load", "cmd", "dialog"} =>
       /\ img_ctx.img_sz = size
       /\ img_ctx.align \in Nat /\ img_ctx.align > 0

Inv == TypeOK /\ CtxFits

-----------------------------------------------------------------------------

LEMMA InvInit == Init => Inv
  BY OptionsAssumption DEF Init, Inv, TypeOK, CtxFits

\* Reading a line leaves the pieces of a long one within its bound.
LEMMA ScanType ==
  ASSUME Inv, NEW res, Scan(res)
  PROVE  stdin' = stdin /\ rest' \in 0 .. MaxRest
<1>1. PICK found \in {"text", "newline", "eof", "error"} : Fgets(found)
  BY DEF Scan
<1>2. rest \in 0 .. MaxRest /\ MaxRest \in Nat /\ stdin \in {"open", "eof", "error"}
  BY OptionsAssumption DEF Inv, TypeOK
<1> QED
  BY <1>1, <1>2 DEF Fgets

LEMMA InvStart == Inv /\ Start => Inv'
<1> SUFFICES ASSUME Inv, Start PROVE Inv'
  OBVIOUS
<1>1. CASE ParseOptions
  BY <1>1 DEF ParseOptions, Exit, Inv, TypeOK, CtxFits, EXIT_FAILURE
<1>2. CASE OpenImage
  <2>1. opts.img_sz \in Nat /\ size \in Nat
    BY OptionsAssumption DEF Inv, TypeOK
  <2> QED
    BY <1>2, <2>1 DEF OpenImage, ExtendedSize, Exit, Inv, TypeOK, CtxFits, EXIT_FAILURE
<1>3. CASE InitContext
  <2>1. /\ size \in Nat /\ opts.align \in Nat
        /\ img_ctx.img_sz = size /\ img_ctx.align = 1048576 \div 512
    BY <1>3, OptionsAssumption DEF InitContext, Inv, TypeOK, CtxFits, img_ctx_init
  <2>2. img_ctx'.img_sz = size' /\ img_ctx'.align \in Nat /\ img_ctx'.align > 0
    <3>1. 1048576 \div 512 = 2048
      OBVIOUS
    <3> QED
      BY <1>3, <2>1, <3>1 DEF InitContext, Given
  <2>3. pc' \in {"load", "off"} /\ (pc' = "load" => img_ctx_validate(img_ctx'))
    BY <1>3 DEF InitContext, Accepted, Exit
  <2> QED
    BY <1>3, <2>2, <2>3 DEF InitContext, Exit, Inv, TypeOK, CtxFits, EXIT_FAILURE
<1>4. CASE Load
  BY <1>4 DEF Load, Exit, Inv, TypeOK, CtxFits, pres_fail, img_ctx_validate
<1> QED
  BY <1>1, <1>2, <1>3, <1>4 DEF Start

LEMMA InvNext == Inv /\ [Next]_vars => Inv'
<1> SUFFICES ASSUME Inv, [Next]_vars PROVE Inv'
  OBVIOUS
<1>0. MaxPrompts \in Nat \ {0} /\ left \in 0 .. MaxPrompts
  BY OptionsAssumption DEF Inv, TypeOK
<1>1. CASE Start
  BY <1>1, InvStart
<1>2. CASE Command
  <2>1. stdin' = stdin /\ rest' \in 0 .. MaxRest
    BY <1>2, ScanType DEF Command
  <2>2. Quit \/ Fatal \/ Simple \/ Dialog
    BY <1>2 DEF Command, Quit
  <2>3. UNCHANGED <<opts, size, img_ctx>> /\ pc = "cmd"
    BY <1>2 DEF Command
  <2> QED
    BY <1>0, <2>1, <2>2, <2>3
    DEF Quit, Fatal, Simple, Dialog, Exit, Inv, TypeOK, CtxFits, pres_ok, pres_fail,
        img_ctx_validate
<1>3. CASE Answer
  <2>1. stdin' = stdin /\ rest' \in 0 .. MaxRest
    BY <1>3, ScanType DEF Answer
  <2>2. /\ pc = "dialog" /\ UNCHANGED <<opts, size, img_ctx, status>>
        /\ \/ left' = left - 1 /\ pc' = (IF left = 1 THEN "cmd" ELSE "dialog")
           \/ left' = 0 /\ pc' = "cmd"
    BY <1>3 DEF Answer
  <2>3. left > 0
    BY <2>2 DEF Inv, TypeOK
  <2> QED
    BY <1>0, <2>1, <2>2, <2>3 DEF Inv, TypeOK, CtxFits, img_ctx_validate
<1>4. CASE InputEnds
  BY <1>4 DEF InputEnds, Inv, TypeOK, CtxFits, img_ctx_validate
<1>5. CASE UNCHANGED vars
  BY <1>5 DEF vars, Inv, TypeOK, CtxFits, img_ctx_validate
<1> QED
  BY <1>1, <1>2, <1>3, <1>4, <1>5 DEF Next, Exited

\* Whatever the sector size is, an image of the least size has the room.
LEMMA Room ==
  ASSUME NEW n \in Nat, n >= 524288
  PROVE  HasRoom(n, 512) /\ HasRoom(n, 1024) /\ HasRoom(n, 2048) /\ HasRoom(n, 4096)
<1>1. HasRoom(n, 512)
  <2>1. n \div 512 \in Nat /\ n \div 512 >= 1024
    BY Z3
  <2> QED
    BY <2>1, Z3 DEF HasRoom, byte_to_lba
<1>2. HasRoom(n, 1024)
  <2>1. n \div 1024 \in Nat /\ n \div 1024 >= 512
    BY Z3
  <2> QED
    BY <2>1, Z3 DEF HasRoom, byte_to_lba
<1>3. HasRoom(n, 2048)
  <2>1. n \div 2048 \in Nat /\ n \div 2048 >= 256
    BY Z3
  <2> QED
    BY <2>1, Z3 DEF HasRoom, byte_to_lba
<1>4. HasRoom(n, 4096)
  <2>1. n \div 4096 \in Nat /\ n \div 4096 >= 128
    BY Z3
  <2> QED
    BY <2>1, Z3 DEF HasRoom, byte_to_lba
<1> QED
  BY <1>1, <1>2, <1>3, <1>4

LEMMA RoomForAll == Inv => GeometryUsable
<1> SUFFICES ASSUME Inv, pc \in {"cmd", "dialog"} PROVE GeometryUsable
  BY DEF GeometryUsable
<1>1. img_ctx.img_sz = size /\ size \in Nat /\ img_ctx.align > 0
  BY DEF Inv, TypeOK, CtxFits
<1>2. img_ctx_validate(img_ctx)
  BY DEF Inv, TypeOK
<1>3. img_ctx.sec_sz \in {512, 1024, 2048, 4096}
  BY <1>2, SMT DEF img_ctx_validate
<1>4. size >= 524288
  <2>1. 512 * 1024 = 524288
    BY SMT
  <2> QED
    BY <1>1, <1>2, <2>1, SMT DEF img_ctx_validate, img_min_sz
<1>5. HasRoom(size, 512) /\ HasRoom(size, 1024) /\ HasRoom(size, 2048) /\ HasRoom(size, 4096)
  BY <1>1, <1>4, Room, SMT
<1> QED
  BY <1>1, <1>3, <1>5 DEF GeometryUsable

-----------------------------------------------------------------------------
(* The end of the input.                                                   *)

LEMMA ReadPiece ==
  ASSUME Inv, stdin = "eof", NEW res, Scan(res)
  PROVE  \/ rest' = rest - 1 /\ rest \in Nat /\ rest' \in Nat
         \/ rest = 0 /\ rest' = 0 /\ res = "eof"
<1>1. PICK found \in {"text", "newline", "eof", "error"} :
        /\ Fgets(found)
        /\ res = scan_str(found) \/ (scan_str(found) = "ok" /\ res = "fail")
  BY DEF Scan
<1>2. rest \in 0 .. MaxRest /\ MaxRest \in Nat
  BY OptionsAssumption DEF Inv, TypeOK
<1>3. CASE rest > 0
  BY <1>1, <1>2, <1>3 DEF Fgets
<1>4. CASE rest = 0
  <2>1. found = "eof" /\ rest' = rest
    BY <1>1, <1>4 DEF Fgets
  <2> QED
    BY <1>1, <1>4, <2>1 DEF scan_str
<1> QED
  BY <1>2, <1>3, <1>4

\* Each of the program's steps counts, not only those that change the state:
\* no read of an ended input leaves everything as it is.
LEMMA StepsCount ==
  Inv /\ stdin = "eof" /\ (Start \/ Command \/ Answer)
    => 0 <= StepsLeft' /\ StepsLeft' < StepsLeft
<1> SUFFICES ASSUME Inv, stdin = "eof", Start \/ Command \/ Answer
             PROVE  0 <= StepsLeft' /\ StepsLeft' < StepsLeft
  OBVIOUS
<1>1. rest \in Nat
  BY OptionsAssumption DEF Inv, TypeOK
<1>2. CASE Start
  BY <1>1, <1>2 DEF Start, ParseOptions, OpenImage, InitContext, Load, Exit,
     StepsLeft
<1>3. CASE Command
  <2>1. pc = "cmd" /\ StepsLeft = 2 * rest + 1
    BY <1>3 DEF Command, StepsLeft
  <2>2. CASE Scan("eof") /\ Exit(pres_ok)
    BY <1>1, <2>1, <2>2 DEF Exit, StepsLeft
  <2>3. ASSUME NEW res \in {"ok", "fail", "empty"}, Scan(res),
               Quit \/ Fatal \/ Simple \/ Dialog
        PROVE  0 <= StepsLeft' /\ StepsLeft' < StepsLeft
    <3>1. rest' = rest - 1 /\ rest' \in Nat
      BY <2>3, ReadPiece
    <3>2. pc' = "off" \/ pc' = "cmd" \/ pc' = "dialog"
      BY <2>1, <2>3 DEF Quit, Fatal, Simple, Dialog, Exit
    <3>3. StepsLeft' = 0 \/ StepsLeft' = 2 * rest' + 1 \/ StepsLeft' = 2 * rest' + 2
      BY <3>2 DEF StepsLeft
    <3> QED
      BY <1>1, <2>1, <3>1, <3>3
  <2> QED
    BY <1>3, <2>2, <2>3 DEF Command
<1>4. CASE Answer
  <2>1. pc = "dialog" /\ StepsLeft = 2 * rest + 2
    BY <1>4 DEF Answer, StepsLeft
  <2>2. pc' = "cmd" \/ pc' = "dialog"
    BY <1>4 DEF Answer
  <2>3. StepsLeft' = (IF pc' = "cmd" THEN 2 * rest' + 1 ELSE 2 * rest' + 2)
    BY <2>2 DEF StepsLeft
  <2>4. PICK res : Scan(res) /\ (res = "eof" => pc' = "cmd")
    BY <1>4 DEF Answer
  <2> QED
    BY <1>1, <2>1, <2>3, <2>4, ReadPiece
<1> QED
  BY <1>2, <1>3, <1>4

EofStep == stdin = "eof" => 0 <= StepsLeft' /\ StepsLeft' < StepsLeft

LEMMA EofByNext == Inv /\ [Next]_vars => EofStep \/ UNCHANGED vars
  BY StepsCount DEF Next, InputEnds, Exited, EofStep

\* After the end of the input the program takes a bounded number of steps,
\* whatever it was doing and whatever the rest of a long line still says.
THEOREM EofNeverStalls == FairSpec => EofAdvances
<1>1. Inv /\ [Next]_vars => [EofStep]_vars
  BY EofByNext
<1> QED
  BY <1>1, InvInit, InvNext, PTL DEF FairSpec, Spec, EofAdvances, EofStep

-----------------------------------------------------------------------------
\* Type correctness of a run; in particular the prompt is never reached with a
\* context that img_ctx_validate refuses.
THEOREM TypeCorrect == FairSpec => []TypeOK
<1>1. Inv => TypeOK
  BY DEF Inv
<1> QED
  BY <1>1, InvInit, InvNext, PTL DEF FairSpec, Spec

\* At every prompt the context has the size of the file, and there is room for
\* an MBR with a partition, and for both GPT copies with sectors between them.
THEOREM AlwaysUsable == FairSpec => []GeometryUsable
  BY InvInit, InvNext, RoomForAll, PTL DEF FairSpec, Spec
=============================================================================
