------------------------------ MODULE SchemCtx -----------------------------
(***************************************************************************)
(* A partman session on an image: loading the schemes, the commands that   *)
(* create, switch, edit and write them (src/main.c over libpartman's       *)
(* schem.c), and what becomes of the image when the program or the machine *)
(* stops at any point of it.                                               *)
(*                                                                         *)
(* Stores go to a shared mapping: disk is what every later reader sees,    *)
(* and stable what may be on the medium, where the kernel writes sectors   *)
(* back in any order until the fsync that ends a write.                    *)
(***************************************************************************)
EXTENDS GptDisk, FiniteSetsExt

CONSTANTS
  Ids,         \* disk GUIDs guid_create may return
  Ranges,      \* partition ranges, <<first, last>>
  Sizes,       \* image sizes, in sectors, that -m can ask for
  InitDisks,   \* images the program can be started on, [size, sectors]
  Faults       \* which of "kill", "power" and "rot" can happen

MaxSize == CHOOSE n \in Sizes : \A m \in Sizes : m <= n
Lbas    == 0 .. MaxSize - 1

ASSUME SizesAssumption ==
  /\ Sizes \subseteq Nat
  /\ \E n \in Sizes : \A m \in Sizes : m <= n
  /\ \A n \in Sizes : first_usable_lba <= last_usable_lba(n)
ASSUME RangesAssumption == Ranges \subseteq Nat \X Nat
ASSUME FaultsAssumption == Faults \subseteq {"kill", "power", "rot"}

\* A header, whoever wrote it: what it names is on the image.  Its usable range
\* and its partitions can be anywhere.
WellFormedHdr(h) ==
  /\ h.kind = "hdr"
  /\ h.table_lba \in Nat \ {0} /\ h.alt_lba \in Lbas \ {0}
  /\ h.first \in Nat /\ h.last \in Nat
  /\ part_cnt(h) \in Nat /\ DOMAIN h.entries = 0 .. part_cnt(h) - 1
  /\ \A i \in DOMAIN h.entries : /\ h.table_lba + i \in Lbas
                                 /\ PartOf(h.entries[i]) \in Ranges \cup {Unused}

WellFormedSec(s) ==
  /\ s.kind = "mbr" => s.types \in [0 .. mbr_max_part_cnt - 1 -> MbrTypes]
  /\ s.kind \in {"hdr", "erased"} => WellFormedHdr(HdrIn(s))

ASSUME InitDisksAssumption ==
  \A d \in InitDisks :
    /\ d.size \in Sizes
    /\ d.sectors = [l \in Lbas |-> d.sectors[l]]
    /\ \A l \in Lbas : WellFormedSec(d.sectors[l])

VARIABLES
  disk,      \* sectors of the image
  secs,      \* its size
  stable,    \* for each LBA, the contents the medium may hold
  mbr,       \* schem_ctx->schemes[schem_type_mbr], or NoScheme
  gpt,       \* schem_ctx->schemes[schem_type_gpt], or NoScheme
  in_img,    \* schem_ctx->schemes_in_img
  cur,       \* schem_cur_t: "none", "mbr" or "gpt"
  pc,        \* "off", "cmd", "saving" or "sync"
  todo,      \* stores the running write has left
  before     \* history: what the medium may have held when it began

ctx  == <<mbr, gpt, in_img, cur>>
img  == <<disk, secs, stable>>
run  == <<pc, todo, before>>
vars == <<disk, secs, stable, mbr, gpt, in_img, cur, pc, todo, before>>

-----------------------------------------------------------------------------

\* What a program started now would find.
Found == gpt_load(disk, secs)

\* One of the two copies by itself, where this code puts it.
CopyAt(l) ==
  IF gpt_pair_load(disk, l) = "ok" THEN gpt_to_schem(disk, l) ELSE NoScheme

\* What a header says, whether or not its table is there.
Described(h) ==
  IF h.kind = "hdr"
  THEN GptSchem(h.id, h.first, h.last, [i \in DOMAIN h.entries |-> PartOf(h.entries[i])])
  ELSE NoScheme

Main   == CopyAt(hdr_lba_prim)
Backup == CopyAt(hdr_lba_sec(secs))

\* What is left of a copy that was removed, if it is all there but the
\* signature.
RemovedAt(l) ==
  LET d == [disk EXCEPT ![l] = HdrIn(@)] IN
  IF disk[l].kind = "erased" /\ gpt_pair_load(d, l) = "ok"
  THEN {gpt_to_schem(d, l)} ELSE {}

Removed == RemovedAt(hdr_lba_prim) \cup RemovedAt(hdr_lba_sec(secs))

\* Every store has reached the medium.
Settled == \A l \in Lbas : stable[l] = {disk[l]}

\* All combinations of what the sectors may hold.
OnMedium ==
  FoldSet(LAMBDA l, ds : {[d EXCEPT ![l] = v] : d \in ds, v \in stable[l]},
          {disk}, {l \in Lbas : stable[l] # {disk[l]}})

\* Both copies are valid and agree.
WholeGpt(d) ==
  /\ gpt_pair_load(d, hdr_lba_prim) = "ok"
  /\ gpt_pair_load(d, hdr_lba_sec(secs)) = "ok"
  /\ gpt_to_schem(d, hdr_lba_prim) = gpt_to_schem(d, hdr_lba_sec(secs))

\* What the headers on the medium describe, erased or not, and whether it has a
\* whole GPT, whatever has reached it.
MediumState ==
  [headers |-> {Described(HdrIn(v)) :
                  v \in stable[hdr_lba_prim] \cup stable[hdr_lba_sec(secs)]},
   whole   |-> \A d \in OnMedium : WholeGpt(d)]

NoFlags == [t \in {"mbr", "gpt"} |-> FALSE]

\* schem_ctx_get_type: a GPT comes before its protective MBR.
get_type(m, g) ==
  IF g # NoScheme THEN "gpt" ELSE IF m # NoScheme THEN "mbr" ELSE "none"

\* The value of before when no write is running.
NoWrite == [headers |-> {}, whole |-> FALSE]

\* The program is gone, and with it everything but the image.
Exit ==
  /\ pc' = "off"
  /\ mbr' = NoScheme /\ gpt' = NoScheme
  /\ in_img' = NoFlags
  /\ cur' = "none"
  /\ todo' = <<>>
  /\ before' = NoWrite

Running == pc # "off"

Init ==
  /\ \E d \in InitDisks : disk = d.sectors /\ secs = d.size
  /\ stable = [l \in Lbas |-> {disk[l]}]
  /\ pc = "off"
  /\ mbr = NoScheme /\ gpt = NoScheme
  /\ in_img = NoFlags
  /\ cur = "none"
  /\ todo = <<>>
  /\ before = NoWrite

-----------------------------------------------------------------------------
(* main and schem_ctx_load.                                                *)

\* The image is extended to n sectors when it is smaller, and then loaded.
Extend(n) ==
  /\ n >= secs
  /\ secs' = n
  /\ UNCHANGED <<disk, stable>>

Start(n) ==
  /\ pc = "off"
  /\ Extend(n)
  /\ LET m == mbr_load(disk)
         g == gpt_load(disk, n)
     IN  /\ g # Fatal
         /\ gpt' = g
         /\ mbr' = MbrBeside(m, g)
         /\ in_img' = [mbr |-> m # NoScheme, gpt |-> g # NoScheme]
         /\ cur' = get_type(mbr', gpt')
  /\ pc' = "cmd"
  /\ UNCHANGED <<todo, before>>

\* "Failed to load schemes from image"
StartFails(n) ==
  /\ pc = "off"
  /\ n > secs
  /\ Extend(n)
  /\ gpt_load(disk, n) = Fatal
  /\ UNCHANGED <<ctx, run>>

-----------------------------------------------------------------------------
(* Commands (action_handle).                                               *)

\* BUG variant: the flags of what is on the image go with the old schemes.
NewMbrDropsFlags ==
  /\ pc = "cmd"
  /\ mbr' = EmptyMbr /\ gpt' = NoScheme
  /\ cur' = "mbr"
  /\ in_img' = NoFlags
  /\ UNCHANGED <<img, run>>

\* BUG variant: the command line goes on with the scheme it had.
NewMbrKeepsCur ==
  /\ pc = "cmd"
  /\ mbr' = EmptyMbr /\ gpt' = NoScheme
  /\ UNCHANGED <<img, in_img, cur, run>>

\* 'o': schem_ctx_new keeps the flags of what is on the image.
NewMbr ==
  /\ pc = "cmd"
  /\ mbr' = EmptyMbr /\ gpt' = NoScheme
  /\ cur' = "mbr"
  /\ UNCHANGED <<img, in_img, run>>

\* 'g'
NewGpt(id) ==
  /\ pc = "cmd"
  /\ gpt' = GptSchem(id, first_usable_lba, last_usable_lba(secs),
                     [i \in 0 .. gpt_max_part_cnt - 1 |-> Unused])
  /\ mbr' = ProtectiveMbr
  /\ cur' = "gpt"
  /\ UNCHANGED <<img, in_img, run>>

Disjoint(p, q) == p[2] < q[1] \/ q[2] < p[1]

\* A dialog on the GPT leaves an entry unused, or with a range of usable
\* sectors no other entry has (PartEdit shows that it does).
EditGpt(i, p) ==
  /\ pc = "cmd"
  /\ cur = "gpt"
  /\ i \in DOMAIN gpt.tab
  /\ p # Unused =>
       /\ gpt.first <= p[1] /\ p[2] <= gpt.last
       /\ \A j \in DOMAIN gpt.tab \ {i} :
            gpt.tab[j] = Unused \/ Disjoint(p, gpt.tab[j])
  /\ gpt' = [gpt EXCEPT !.tab[i] = p]
  /\ UNCHANGED <<img, mbr, in_img, cur, run>>

\* A dialog on the MBR, which may be the protective one.
EditMbr(i, t) ==
  /\ pc = "cmd"
  /\ cur = "mbr"
  /\ mbr' = [mbr EXCEPT !.types[i] = t]
  /\ UNCHANGED <<img, gpt, in_img, cur, run>>

\* 'M'
EnterMbr ==
  /\ pc = "cmd"
  /\ cur = "gpt"
  /\ mbr # NoScheme
  /\ cur' = "mbr"
  /\ UNCHANGED <<img, mbr, gpt, in_img, run>>

\* 'h'
ResetMbr ==
  /\ pc = "cmd"
  /\ gpt # NoScheme /\ mbr # NoScheme
  /\ mbr' = ProtectiveMbr
  /\ UNCHANGED <<img, gpt, in_img, cur, run>>

\* 'r'
ReturnFromNested ==
  /\ pc = "cmd"
  /\ cur' = get_type(mbr, gpt)
  /\ UNCHANGED <<img, mbr, gpt, in_img, run>>

\* 'q', end of file at the prompt, or 'o' and 'g' out of memory
Quit ==
  /\ pc = "cmd"
  /\ Exit
  /\ UNCHANGED img

-----------------------------------------------------------------------------
(* 'w': schem_ctx_save.                                                    *)

\* BUG variant: what is not in memory is removed last.
SavePutsRemoveLast(d, n, m, g) ==
  (IF m # NoScheme THEN mbr_save_puts(d, m) ELSE <<>>)
    \o (IF in_img.gpt /\ g = NoScheme THEN gpt_remove_puts(d, n) ELSE <<>>)
    \o (IF g # NoScheme THEN gpt_save_puts(d, n, g) ELSE <<>>)

\* BUG variant: the MBR is written when the GPT is complete.
SavePutsMbrLast(d, n, m, g) ==
  (IF in_img.gpt /\ g = NoScheme THEN gpt_remove_puts(d, n) ELSE <<>>)
    \o (IF g # NoScheme THEN gpt_save_puts(d, n, g) ELSE <<>>)
    \o (IF m # NoScheme THEN mbr_save_puts(d, m) ELSE <<>>)

\* Schemes that are on the image and not in memory go first; then the MBR is
\* written, and then the GPT.  An MBR is in memory whenever one was found, so
\* that schem_remove_mbr is never called.
SavePuts(d, n, m, g) ==
  (IF in_img.gpt /\ g = NoScheme THEN gpt_remove_puts(d, n) ELSE <<>>)
    \o (IF m # NoScheme THEN mbr_save_puts(d, m) ELSE <<>>)
    \o (IF g # NoScheme THEN gpt_save_puts(d, n, g) ELSE <<>>)

\* Stores of an earlier write can still be on their way to the medium: one that
\* failed ends the program, but not what its mapping was given.
Write ==
  /\ pc = "cmd"
  /\ pc' = "saving"
  /\ todo' = SavePuts(disk, secs, mbr, gpt)
  /\ before' = MediumState
  /\ UNCHANGED <<img, ctx>>

\* One store to the mapping.
Store ==
  /\ pc = "saving"
  /\ todo # <<>>
  /\ LET p == Head(todo) IN
       /\ disk' = [disk EXCEPT ![p.lba] = p.val]
       /\ stable' = IF "power" \in Faults
                    THEN [stable EXCEPT ![p.lba] = @ \cup {p.val}]
                    ELSE [stable EXCEPT ![p.lba] = {p.val}]
  /\ todo' = Tail(todo)
  /\ UNCHANGED <<secs, ctx, pc, before>>

Stored ==
  /\ pc = "saving"
  /\ todo = <<>>
  /\ pc' = "sync"
  /\ UNCHANGED <<img, ctx, todo, before>>

\* img_ctx_sync, and back to the prompt: the program does not exit.
Sync ==
  /\ pc = "sync"
  /\ stable' = [l \in Lbas |-> {disk[l]}]
  /\ in_img' = [mbr |-> mbr # NoScheme, gpt |-> gpt # NoScheme]
  /\ pc' = "cmd"
  /\ before' = NoWrite
  /\ UNCHANGED <<disk, secs, mbr, gpt, cur, todo>>

\* A table cannot be allocated, a sector not mapped, or the fsync fails.
WriteFails ==
  /\ pc \in {"saving", "sync"}
  /\ Exit
  /\ UNCHANGED img

-----------------------------------------------------------------------------
(* What the environment does.                                              *)

\* The process is killed between two stores; its mapping survives it.
Kill ==
  /\ "kill" \in Faults
  /\ Running
  /\ Exit
  /\ UNCHANGED img

\* The machine stops: each sector, independently, has one of the contents it was
\* given since the last fsync.
PowerLoss ==
  /\ "power" \in Faults
  /\ \E d \in OnMedium :
       /\ \A l \in Lbas : d[l] \in stable[l]
       /\ disk' = [l \in Lbas |-> d[l]]
       /\ stable' = [l \in Lbas |-> {d[l]}]
  /\ Exit
  /\ UNCHANGED secs

\* The kernel writes everything back in the end.
Writeback ==
  /\ pc = "off"
  /\ ~Settled
  /\ stable' = [l \in Lbas |-> {disk[l]}]
  /\ UNCHANGED <<disk, secs, ctx, run>>

\* A sector no partition can use goes bad while the program is not running.
Rot(l) ==
  /\ "rot" \in Faults
  /\ pc = "off"
  /\ l \notin first_usable_lba .. last_usable_lba(secs)
  /\ disk' = [disk EXCEPT ![l] = Junk]
  /\ stable' = [stable EXCEPT ![l] = {Junk}]
  /\ UNCHANGED <<secs, ctx, run>>

-----------------------------------------------------------------------------

Command ==
  \/ NewMbr
  \/ \E id \in Ids : NewGpt(id)
  \/ \E i \in 0 .. gpt_max_part_cnt - 1, p \in Ranges \cup {Unused} : EditGpt(i, p)
  \/ \E i \in 0 .. mbr_max_part_cnt - 1, t \in MbrTypes : EditMbr(i, t)
  \/ EnterMbr \/ ResetMbr \/ ReturnFromNested \/ Quit

Save == Write \/ Store \/ Stored \/ Sync \/ WriteFails

Next ==
  \/ \E n \in Sizes : Start(n) \/ StartFails(n)
  \/ Command
  \/ Save
  \/ Kill \/ PowerLoss \/ Writeback
  \/ \E l \in Lbas : Rot(l)

Spec == Init /\ [][Next]_vars

-----------------------------------------------------------------------------
(* Properties.                                                             *)

\* Types, and the scheme the commands work on exists.
TypeOK ==
  /\ DOMAIN disk = Lbas /\ DOMAIN stable = Lbas
  /\ secs \in 1 .. MaxSize
  /\ \A l \in Lbas : disk[l] \in stable[l]
  /\ pc \notin {"saving", "sync"} => before = NoWrite
  /\ mbr \in MbrSchemes \cup {NoScheme}
  /\ gpt # NoScheme =>
       /\ gpt.kind = "gpt"
       /\ \A i \in DOMAIN gpt.tab : gpt.tab[i] \in Ranges \cup {Unused}
  /\ in_img \in [{"mbr", "gpt"} -> BOOLEAN]
  /\ pc \in {"off", "cmd", "saving", "sync"}
  /\ pc # "saving" => todo = <<>>
  /\ cur \in {"none", "mbr", "gpt"}
  /\ cur = "gpt"  => gpt # NoScheme
  /\ cur = "mbr"  => mbr # NoScheme
  /\ cur = "none" => mbr = NoScheme /\ gpt = NoScheme

\* A GPT in memory has an MBR beside it, and so has an MBR found on the image:
\* schem_ctx_save never has to remove an MBR, and 'h' never finds none.
MbrInMemory ==
  /\ gpt # NoScheme => mbr # NoScheme
  /\ in_img.mbr => mbr # NoScheme

\* schemes_in_img says what is on the image, or an old GPT would be found
\* again after its successor of another type was written.
FlagsAccurate ==
  pc = "cmd" => /\ in_img.gpt = (Found # NoScheme)
                /\ in_img.mbr = (mbr_load(disk) # NoScheme)

\* A completed write is what the next start loads: the GPT as it was in
\* memory, the MBR too unless it is not protective and stands beside a GPT.
WriteReloads ==
  pc = "sync" => /\ Found = gpt
                 /\ MbrBeside(mbr_load(disk), Found) = MbrBeside(mbr, gpt)

\* A completed write leaves two valid copies that agree, whatever was invalid
\* before: what "will be restored on the next write" is restored.
BothCopies ==
  pc = "sync" => Main = gpt /\ Backup = gpt

\* The usable sectors of GPT g leave room for two full copies on an image of n
\* sectors, where this code puts them.
HasRoom(g, n) == first_usable_lba <= g.first /\ g.last <= last_usable_lba(n)

\* LBA l is in a partition of GPT g, and the partition in its usable sectors.
InPartition(g, l) ==
  \E i \in DOMAIN g.tab :
    /\ g.tab[i] # Unused
    /\ g.first <= g.tab[i][1] /\ g.tab[i][1] <= l
    /\ l <= g.tab[i][2] /\ g.tab[i][2] <= g.last

\* When a GPT leaves room for two full copies, whoever made it and whatever it
\* was loaded from, no store of a write falls into one of its partitions.
DataSafe ==
  [][pc = "saving" /\ pc' = "saving" /\ gpt # NoScheme /\ HasRoom(gpt, secs) =>
       \A l \in Lbas : InPartition(gpt, l) => disk'[l] = disk[l]]_vars

\* "First usable LBA", "Last usable LBA" (schem.h:73,76): the sectors between
\* them are for partitions, and writing the scheme leaves those alone.
UsableUntouched ==
  [][pc = "saving" /\ pc' = "saving" /\ gpt # NoScheme =>
       \A l \in Lbas : InPartition(gpt, l) => disk'[l] = disk[l]]_vars

\* A write destroys the only valid copy first when that is the backup.
Guarded == Main # NoScheme \/ Backup \in {NoScheme, gpt}

\* While a GPT is written, a restart after any store finds the GPT it would
\* have found before, or the one being written; never none, and never another
\* but one that was removed, whose signature is restored over its old fields.
SaveAtomic ==
  [][pc = "saving" /\ pc' = "saving" /\ gpt # NoScheme /\ Guarded =>
       /\ Found' \in {Found, gpt} \cup Removed
       /\ Removed = {} => Guarded']_vars

\* A new MBR never stands beside the GPT it replaces: a restart would find that
\* GPT, put a protective MBR in memory, and write it over the new partitions.
RemovedBeforeMbr ==
  [][pc = "saving" /\ pc' = "saving" /\ gpt = NoScheme /\ disk'[0] # disk[0] =>
       Found = NoScheme]_vars

\* What a restart finds only becomes the GPT being written when the MBR beside
\* it is complete: no kill exposes a new GPT to a tool that still sees the
\* partitions of the old MBR as its own.
ProtectedFirst ==
  [][pc = "saving" /\ pc' = "saving" /\ gpt # NoScheme /\ Found' # Found =>
       disk'[0] = mbr]_vars

\* What a write leaves that stops in the middle, by a power loss too, is a GPT
\* as one of the headers described it when the write began, the one being
\* written, or none: sectors of an old and of a new one never pass for a third,
\* in whatever order they reached the medium, and whatever earlier losses left.
NoMixture ==
  [][pc' = "off" /\ pc \in {"saving", "sync"} =>
       Found' \in before.headers \cup {gpt, NoScheme}]_vars

\* "Primary GPT is corrupted and will be restored on the next write"
\* (gpt.c:687): a GPT that was found is not lost by the write that restores it.
RestoreKeepsGpt ==
  [][pc = "saving" /\ pc' = "saving" /\ gpt # NoScheme /\ Found # NoScheme =>
       Found' # NoScheme]_vars

\* "UEFI specification requires to update secondary GPT first" (gpt.c:613): so
\* that one copy is valid whenever the machine stops.  When both copies of a GPT
\* were on the medium as the write of its successor began, in whatever order
\* sectors had reached it, a load after the loss finds a GPT.
PowerLossKeepsGpt ==
  [][PowerLoss /\ gpt # NoScheme /\ before.whole => Found' # NoScheme]_vars

\* The GUIDs of the images to start from, and new ones.
AllIds ==
  Ids \cup UNION {{HdrIn(d.sectors[l]).id :
                   l \in {k \in Lbas : d.sectors[k].kind \in {"hdr", "erased"}}} :
                 d \in InitDisks}

\* What a copy can hold.
Gpts ==
  [kind : {"gpt"}, id : AllIds, first : Nat, last : Nat,
   tab : UNION {[0 .. cnt - 1 -> Ranges \cup {Unused}] :
                cnt \in 0 .. gpt_max_part_cnt}]

Idle == [kind |-> "idle"]

\* The two copies, as GptStore describes them; a write that stops ends there.
Copies ==
  INSTANCE GptStore WITH
    Gpts           <- Gpts,
    Bad            <- NoScheme,
    Idle           <- Idle,
    main           <- Main,
    backup         <- Backup,
    removed_main   <- RemovedAt(hdr_lba_prim),
    removed_backup <- RemovedAt(hdr_lba_sec(secs)),
    target         <- IF pc \in {"saving", "sync"} THEN gpt ELSE Idle

ImplementsStore == Copies!Spec
=============================================================================
