------------------------------ MODULE Session -------------------------------
(***************************************************************************)
(* One run of partman (main.c), from its options to its exit: the image is *)
(* opened, extended and described by a context, and then lines are read    *)
(* (scan.c) at the prompt of the command loop and of the dialogs it opens. *)
(* What commands do is the subject of PartEdit and SchemCtx; here a dialog *)
(* is the answers it still reads.                                          *)
(***************************************************************************)
EXTENDS ImgCtx

CONSTANTS
  Options,     \* values options can have; 0 is an option that is not given
  FileSizes,   \* sizes the image can have, 0 when it is created
  MaxRest,     \* pieces of a line that does not fit the scan buffer
  MaxPrompts   \* answers of a dialog: number, first sector, last sector

ASSUME OptionsAssumption ==
  /\ Options \subseteq
       [img_sz : Nat, sec_sz : Nat, align : Nat, hpc : 0 .. 255, spt : 0 .. 255]
  /\ FileSizes \subseteq Nat
  /\ MaxRest \in Nat /\ MaxPrompts \in Nat \ {0}

VARIABLES
  pc,        \* "start", "open", "init", "load", "cmd", "dialog" or "off"
  opts,      \* the options
  size,      \* bytes of the image
  img_ctx,   \* struct img_ctx, or NoCtx
  left,      \* answers the dialog still reads
  stdin,     \* "open", or "eof" or "error" from now on
  rest,      \* pieces of a long line that were not read yet
  status     \* exit status, or -1

vars == <<pc, opts, size, img_ctx, left, stdin, rest, status>>

NoCtx == [img_sz |-> 0]

pres_fail == 0
pres_ok   == 1

EXIT_FAILURE == 1

Exit(res) == pc' = "off" /\ left' = 0 /\ status' = res

Init ==
  /\ pc = "start"
  /\ opts \in Options
  /\ size \in FileSizes
  /\ img_ctx = NoCtx
  /\ left = 0
  /\ stdin = "open" /\ rest = 0
  /\ status = -1

-----------------------------------------------------------------------------
(* main, up to the prompt.                                                 *)

\* opts_parse takes the options, or refuses a value.
ParseOptions ==
  /\ pc = "start"
  /\ \/ pc' = "open" /\ UNCHANGED <<left, status>>
     \/ Exit(EXIT_FAILURE)
  /\ UNCHANGED <<opts, size, img_ctx, stdin, rest>>

\* BUG variant: the context has the size from before the extension.
ExtendedSizeBefore(sz, o) == sz

\* The size img_init goes on with when it has extended the image.
ExtendedSize(sz, o) == o.img_sz

\* img_init: an image smaller than -m asks for is extended.  The context knows
\* the size it has then.
OpenImage ==
  /\ pc = "open"
  /\ \/ /\ size >= opts.img_sz
        /\ img_ctx' = img_ctx_init(size)
        /\ pc' = "init"
        /\ UNCHANGED <<size, left, status>>
     \/ /\ size < opts.img_sz
        /\ size' = opts.img_sz
        /\ img_ctx' = img_ctx_init(ExtendedSize(size, opts))
        /\ pc' = "init"
        /\ UNCHANGED <<left, status>>
     \/ Exit(EXIT_FAILURE) /\ UNCHANGED <<size, img_ctx>>
  /\ UNCHANGED <<opts, stdin, rest>>

\* The option, or the default when it is not given.
Given(option, default) == IF option # 0 THEN option ELSE default

\* BUG variant: the context is validated before it has the options.
AcceptedBefore(default, ctx) == img_ctx_validate(default)

Accepted(default, ctx) == img_ctx_validate(ctx)

\* Options replace defaults; what they make of the context is validated.
InitContext ==
  /\ pc = "init"
  /\ img_ctx' = [img_sz |-> img_ctx.img_sz,
                 sec_sz |-> Given(opts.sec_sz, img_ctx.sec_sz),
                 align  |-> Given(opts.align, img_ctx.align),
                 hpc    |-> Given(opts.hpc, img_ctx.hpc),
                 spt    |-> Given(opts.spt, img_ctx.spt)]
  /\ IF Accepted(img_ctx, img_ctx')
     THEN pc' = "load" /\ UNCHANGED <<left, status>>
     ELSE Exit(EXIT_FAILURE)
  /\ UNCHANGED <<opts, size, stdin, rest>>

\* schem_ctx_load; its failure is the exit status.
Load ==
  /\ pc = "load"
  /\ \/ pc' = "cmd" /\ UNCHANGED <<left, status>>
     \/ Exit(pres_fail)
  /\ UNCHANGED <<opts, size, img_ctx, stdin, rest>>

-----------------------------------------------------------------------------
(* Reading a line.                                                         *)

\* What fgets finds: an input that ended or broke stays so, a terminal can
\* report one end of file and go on.  A line takes several calls when it does
\* not fit the buffer.
Fgets(found) ==
  /\ \/ rest > 0 /\ found \in {"text", "newline"} /\ rest' = rest - 1
     \/ /\ rest = 0 /\ stdin = "open"
        /\ found \in {"text", "newline", "eof", "error"}
        /\ rest' \in (IF found = "text" THEN 0 .. MaxRest ELSE {0})
     \/ rest = 0 /\ stdin # "open" /\ found = stdin /\ UNCHANGED rest
  /\ UNCHANGED stdin

\* BUG variant: end of file is not told from an error.
scan_str_no_feof(found) ==
  CASE found = "text"            -> "ok"
    [] found = "newline"         -> "empty"
    [] found \in {"eof", "error"} -> "fail"

\* BUG variant: end of file is an empty line, and takes every default.
scan_str_eof_empty(found) ==
  CASE found = "text"               -> "ok"
    [] found \in {"newline", "eof"} -> "empty"
    [] found = "error"              -> "fail"

\* scan_str clears the end of file, so that the next call reads again.
scan_str(found) ==
  CASE found = "text"    -> "ok"
    [] found = "newline" -> "empty"
    [] found = "eof"     -> "eof"
    [] found = "error"   -> "fail"

\* What a scan of a character or a number makes of it: a line can be nonsense.
Scan(res) ==
  \E found \in {"text", "newline", "eof", "error"} :
    /\ Fgets(found)
    /\ res = scan_str(found) \/ (scan_str(found) = "ok" /\ res = "fail")

-----------------------------------------------------------------------------
(* routine_start and action_handle.                                        *)

\* 'q'
Quit == Exit(pres_ok)

\* 'w', 'o' and 'g' can fail, and end the program then.
Fatal == Exit(pres_fail)

\* Commands that read nothing more, and unknown ones.
Simple == UNCHANGED <<pc, left, status>>

\* 'n', 'e', 't', 'a' and 'd', when there is a scheme.
Dialog ==
  /\ pc' = "dialog"
  /\ left' \in 1 .. MaxPrompts
  /\ UNCHANGED status

\* A line at "Command (m for help)".
Command ==
  /\ pc = "cmd"
  /\ \/ Scan("eof") /\ Exit(pres_ok)
     \/ \E res \in {"fail", "empty"} : Scan(res) /\ Simple
     \/ Scan("ok") /\ (Quit \/ Fatal \/ Simple \/ Dialog)
  /\ UNCHANGED <<opts, size, img_ctx>>

\* An answer in a dialog: an empty line is the default, and anything but a good
\* answer ends the dialog, as do the answers that make no partition.
Answer ==
  /\ pc = "dialog"
  /\ \/ /\ \E res \in {"ok", "empty"} : Scan(res)
        /\ left' = left - 1
        /\ pc' = IF left = 1 THEN "cmd" ELSE "dialog"
     \/ /\ \E res \in {"ok", "empty", "fail", "eof"} : Scan(res)
        /\ pc' = "cmd" /\ left' = 0
  /\ UNCHANGED <<opts, size, img_ctx, status>>

\* The input ends or breaks for good: a pipe or a file, a terminal that is gone.
InputEnds ==
  /\ stdin = "open"
  /\ stdin' \in {"eof", "error"}
  /\ UNCHANGED <<pc, opts, size, img_ctx, left, rest, status>>

Exited == pc = "off" /\ UNCHANGED vars

Start == ParseOptions \/ OpenImage \/ InitContext \/ Load

\* Reading does not wait for anyone.
ReadReady == (stdin # "open" \/ rest > 0) /\ (Command \/ Answer)

Next == Start \/ Command \/ Answer \/ InputEnds \/ Exited

Spec == Init /\ [][Next]_vars

\* The program runs; a read returns when there is something to return.
FairSpec == Spec /\ WF_vars(Start) /\ WF_vars(ReadReady)

-----------------------------------------------------------------------------
(* Properties.                                                             *)

TypeOK ==
  /\ pc \in {"start", "open", "init", "load", "cmd", "dialog", "off"}
  /\ opts \in Options
  /\ size \in Nat
  /\ pc \in {"load", "cmd", "dialog"} => img_ctx_validate(img_ctx)
  /\ left \in 0 .. MaxPrompts /\ (left > 0 <=> pc = "dialog")
  /\ stdin \in {"open", "eof", "error"} /\ rest \in 0 .. MaxRest
  /\ status \in {-1, 0, 1} /\ (status = -1 <=> pc # "off")

\* In n bytes of s-byte sectors there is room for an MBR with a partition, and
\* for two GPT copies, with tables of 128 entries of 128 bytes, with sectors
\* between them.
HasRoom(n, s) ==
  LET last  == byte_to_lba(s, n, FALSE) - 1
      table == byte_to_lba(s, 128 * 128, TRUE)
  IN  /\ byte_to_lba(s, 512, TRUE) <= last
      /\ 2 + table <= (last - table) - 1

\* A command can rely on the image: the context has the size of the file, so
\* that no mapping reaches behind its end, and whatever the options were there
\* is room for the schemes (SizesAssumption of SchemCtx, for the real numbers).
GeometryUsable ==
  pc \in {"cmd", "dialog"} =>
    /\ img_ctx.img_sz = size
    /\ img_ctx.align > 0
    /\ HasRoom(img_ctx.img_sz, img_ctx.sec_sz)

\* An upper bound on the steps to the exit once the input has ended: a piece of
\* a line still to be read can be a command that opens a dialog.
StepsLeft ==
  IF pc = "off" THEN 0
  ELSE 2 * rest + CASE pc = "start"            -> 5
                    [] pc = "open"             -> 4
                    [] pc = "init"             -> 3
                    [] pc \in {"load", "dialog"} -> 2
                    [] pc = "cmd"              -> 1

\* After the end of the input nothing is for nothing: a dialog takes no further
\* answer from it (defaults included), the prompt no further command, and the
\* rest of a long line only as many as it has pieces.
EofAdvances ==
  [][stdin = "eof" => 0 <= StepsLeft' /\ StepsLeft' < StepsLeft]_vars

\* When the input has ended the program ends, whatever it is doing: an end of
\* file inside a dialog only leaves the dialog and is cleared, and the loop has
\* to meet it again.  (An input that is broken, instead, is prompted forever.)
EofEnds == stdin = "eof" ~> pc = "off"
=============================================================================
