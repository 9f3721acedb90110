# A verification development for partman

partman edits the partition table of a disk image: an interactive program
(`src/`) over a library (`libs/libpartman`) that knows MBR and GPT. This
directory models it in TLA+, checks the models with TLC and proves their
central theorems with TLAPS. Paths below are relative to the repository's root.

## 1. The system

### Components

| Part | Code | State | Operations |
|---|---|---|---|
| Partition dialogs | `src/main.c` 178-386 | locals of a dialog | new, resize, delete, change type, toggle boot |
| Searches | `libs/libpartman/src/schem.c` 314-489 | none; read `schem->table` | find overlap, find start sector, find last sector |
| Scheme context | `schem.c` 82-307 | `schemes[]`, `schemes_in_img[]` | load, new, save, reset, get type |
| Command loop | `main.c` 388-555 | `schem_cur_t` | one command per line |
| GPT | `gpt.c` | two headers and two tables on the image | load, save, remove, to and from a scheme |
| MBR | `mbr.c` | sector 0 of the image | load, save, remove, protective MBR |
| Image context | `img_ctx.c` | size, sector size, alignment, geometry | defaults, validation, LBA arithmetic, CHS, fsync |
| Mapping and codecs | `gpt.c` 113-184, `mbr.c` 55-89, `memutils.c` | mapped pages | map, unmap, little-endian fields |
| CRC32, GUID, random | `crc32.c`, `guid.c`, `rand.c` | lookup table | checksum, create, parse, print |
| Scanning | `src/scan.c` | the state of `stdin` | lines, prompts, units, ranges |
| Options and start-up | `src/options.c`, `main.c` 557-682 | parsed options | parse, open, extend, validate, load, exit status |
| Log and printing | `log.c`, `main.c` | log level | output |

`main` parses the options, extends the image when `-m` asks for it, builds and
validates the image context, loads what it finds and starts the loop. A command
works on the *current* scheme of the scheme context; the dialogs call the
searches, and the answers go into `schem->table`. `w` hands the schemes to the
MBR and GPT code, which converts them and stores them to the image through
shared mappings; a single `fsync` ends the write.

### What is hard

The program has one thread, so the hard behaviours are long sequences of legal
commands; boundary arithmetic in the searches, in CHS packing, in page offsets
and in typed sizes; the two copies of a GPT, which may be valid or not and agree
or not; the flags that must follow what is on the image; and stopping: a kill, a
failed step or a power loss between any two stores of a write, an end of file
in any dialog. `PROJECT.json` lists each hazard at its line with the properties
that cover it, or why none does.

### What makes each part correct

- *Dialogs and searches*: partitions stay disjoint and within the usable
  sectors, proposals can be accepted, "full" means full, the search ends.
- *Scheme context*: the flags say what is on the image; the scheme the commands
  work on exists; a GPT always has an MBR beside it.
- *GPT*: a write is atomic for whoever starts the program again; it restores
  both copies; it does not touch partition data; old and new sectors never pass
  for a GPT nobody wrote.
- *MBR*: it never stands beside a GPT that it replaces, and is there before a
  GPT that it protects.
- *Formats*: what is stored is what is read again, and what the checksum
  covers; nothing wraps within the widths used.
- *Start-up and scanning*: commands only run on an image with room for the
  schemes; an input that ended ends the program.

## 2. Modules

| Module | What it is |
|---|---|
| `ImgCtx` | the image context: defaults, validation, LBA arithmetic, alignment, CHS |
| `PartTable` | abstract: what editing a table promises, one entry per step |
| `PartEdit` | the dialogs and searches, one step per loop iteration |
| `GptStore` | abstract: what writing and removing a two-copy GPT promises |
| `GptDisk` | the image's contents: what a load finds, which stores a save makes |
| `SchemCtx` | sessions on an image: load, commands, writes store by store, faults |
| `Session` | one run of the program: options, start-up, lines, dialogs, exit status |
| `Memutils` | little-endian fields of any width |
| `MbrSector` | the bytes of the MBR sector and its conversion to and from a scheme |
| `GptEntry` | the bytes of a GPT entry and its name |
| `GptHeader` | the bytes of a GPT header and its GUID, and of its checksum |
| `Crc32` | the table-driven CRC at its real width |
| `PageMap` | `map_secs` and `unmap_secs` in bytes and pages |
| `ScanSector` | what a typed sector, offset or size means, with its unit |
| `Formats` | one call of a pure routine per step, over all of its inputs |
| `MC*` | instances for TLC |
| `*_proofs` | theorems |

`PartEdit` extends `ImgCtx` and implements `PartTable`; `SchemCtx` extends
`GptDisk` and implements `GptStore`; `Session` extends `ImgCtx`; `Formats`
extends the seven format modules. `SchemCtx` uses what `PartEdit` establishes
for a dialog, and `Session` establishes what `SchemCtx` assumes of an image's
size. Operators commented "BUG variant" are plausible wrong versions of the
operator that follows them. No specification uses them; putting one in the
place of its operator makes the property that guards it fail.

### GptStore

Two copies, what a signature would make of those that were removed, and what is
being written. `WriteBackup` and `WriteMain` are the two halves of `gpt_save`,
through an invalid copy; the main copy is written only while the backup holds
the target, be it that it holds the same already (its header names the place of
the backup, which an extension moves). `RemoveMain` and `RemoveBackup` are
`schem_remove_gpt`. `Extend` and `Damage` happen between writes: after an
extension the end of the image holds anything, or nothing. A stop is a write
that ends early (`End`).

### PartEdit

`table` is `schem->table`; an entry has a type, a range and a boot flag, which
is all the dialogs and searches read or set. `pc` is the place in
`pm_part_alter`. `Alter` starts `schem_find_start_sector`, whose iterations are
`SearchFallback`, `SearchSkip`, `SearchFull` and `SearchFree`; `GiveStart`
takes the first answer, `ScanEntry` and `ScanDone` are
`schem_find_last_sector`, `GiveEnd` takes the second answer, tests for an
overlap and writes the entry. An empty line returns the default unchecked, as
`prompt_range_pu64` and `prompt_sector_ext` do. `AfterEnd` wraps at `MaxLba`,
as the unsigned sum does; `lba_align` does not, because `LbaAssumption` keeps
`LastUsable` below `MaxLba`. The prompts, which read a partition number first,
are the choice of `i`.

### GptDisk and SchemCtx

A disk is a function from LBAs to sectors: an MBR, a header, an erased header,
a table entry or `Junk`. Abstractions:

- a checksum is the content it was computed from (no two contents share one);
- an entry takes a sector of its own (four share one in the code);
- a header whose fields are being replaced is `Junk` until it is complete;
- an image never shrinks below an LBA that a header names.

*Removal* zeroes the first eight bytes of two sectors, whatever is in them
(`Wiped`). Of a header that is its signature, and `Erased(h)` is what is left;
an entry loses a part of its type and becomes `Junk`. `gpt_hdr_write` stores the signature before the
other fields, so that `gpt_hdr_puts` over an erased header first makes the old
one whole again. For that moment a GPT that was removed is valid, and a kill
there brings it back: `SaveAtomic` and `GptStore` allow exactly this
(`Removed`) and nothing else. Over the same header no field changes; the table
is always written.

`disk` is what every later reader sees, since stores go to a shared mapping.
`stable` holds, for every LBA, the contents the medium may have: those given to
the sector since the last fsync. `todo` is the rest of the stores of a running
write, in the order of `schem_ctx_save`: removed schemes, the MBR, then the
secondary and the primary copy. `Start` and `StartFails` are `main` up to the
prompt; `WriteFails` stands for every failing step of a save, after which the
loop exits. `before` is a history variable: what the headers the medium may
have, erased or not, described when the write began, and whether both copies of
a GPT were whole on it, in whatever order sectors had reached it. `SavePuts` has no removal of an
MBR: `MbrInMemory` says that an MBR found on the image stays in memory, so that
`schem_remove_mbr` is not called.

Images to start from (`InitDisksAssumption`) hold anything a header, an entry
or an MBR can hold, with two limits on headers: what they name is on the image,
and `alt_lba` is not 0. Their usable range and their partitions can be anywhere,
also where this code puts its tables: nothing in the code compares the two.
`HasRoom` says that they are not there. `DataSafe` is about GPTs of that kind,
and `UsableUntouched`, which is about all, does not hold (`SchemCtx_short`).

`Write` can follow a write that failed, in the next session, while stores of the
earlier one are on their way to the medium: `action_handle` exits after a failed
save, whether a store or the fsync failed (`main.c:460`), so that it is always
another session that writes again.

The environment can kill the process between stores (`Kill`), stop the machine
(`PowerLoss`), write pages back (`Writeback`) and damage sectors outside the
usable ones between sessions (`Rot`).

### Session

`pc` is the place in `main`: `ParseOptions`, `OpenImage` (with the extension),
`InitContext` (options over defaults, then `img_ctx_validate`) and `Load` lead
to `Command`, one line at the prompt, and `Answer`, one line in a dialog.
`opts`, `size` and `img_ctx` are the options, the file's size and the context;
`left` counts the answers a dialog still reads; `stdin` says whether the input
ended or broke, `rest` how much of a line that exceeds the buffer is unread;
`status` is the exit status. `scan_str` has its four results, and clears an end
of file, so that a terminal can report one and go on; `InputEnds` is an input
that ends or breaks for good.

### Formats

`call` is the last call, its inputs and its result. Each disjunct of `Next`
calls one routine with every input of its set, so that an invariant about
`call` holds for all of them. Widths are constants: `Byte`, `CharByte` (values
of a byte), `PlbaLimit` and `IntLimit` (of a `plba` and an `int`), `Kilo`.
`crc32` and CHS have their real widths. The shift of an `int` by 40 or 50 for
`T` and `P` is undefined, and so `ModVals` is a choice (`BadShift`);
`AnswerAsked` is about the other units (`Fits`). A byte is
weighted by its place in a field (`Power`), where the code shifts by eight bits
for each. `Crc32` has the table as the code fills it in, entries out of earlier
entries, and `Formats` the remainder a bit at a time beside it. In
`GptHeader` the three lists of the fields of a header stay three lists, as in
the code: to store, to read and to checksum them.

## 3. Runs

| Run | Shows | Bounds |
|---|---|---|
| `PartEdit_gpt` | type correctness; disjoint, in-bounds partitions; sound proposals; "full" is full; the search terminates; implements `PartTable` | 3 entries, sectors 1-4, alignment 3 |
| `PartEdit_loaded` | from any table without an entry at the largest LBA: no new overlap; a proposed start is free; "full" is full; an edited entry fits (`PartTable`); every iteration of the search gets closer to its end | 2 entries that start at 0-5 and end at 0-4, usable sectors 1-3, alignment 2 |
| `SchemCtx_kill` | type correctness; GPT writes are atomic under kills and failures; the old GPT is gone before the new MBR, and the new MBR there before the new GPT; implements `GptStore` | 2 GPT and 2 MBR entries, 2 GUIDs, 9 sectors |
| `SchemCtx_any` | flags, reload, both copies restored, an MBR beside every GPT, no store into a partition of a GPT that leaves room for two full copies | 1 entry each; any two copies under any MBR, or a foreign primary copy of 1 or 2 entries; 7 sectors that can grow to 8; sectors going bad |
| `SchemCtx_power` | no GPT made of old and new sectors, with any number of losses | 1 entry each, 2 GUIDs, 7 sectors, any write-back order |
| `Formats` | CHS addresses, MBR round trip, entries and headers, CRC (as a division, and its check value), mappings, typed sectors | `Byte` 4, names of 3 characters of `CharByte` 2, `PlbaLimit` 256, `IntLimit` 128, `Kilo` 4, pages of 16 and 64 |
| `Session` | commands only run on a usable image; the program ends when its input has, in a bounded number of steps | each option at and beside its limits, `MaxRest` 1, `MaxPrompts` 3 |

The bounds are the least that let each case happen. Three entries allow a
partition between two others and one strictly inside a new range; an alignment
of three over four sectors gives aligned and unaligned candidates, and an
aligned one behind the last usable sector. Two table entries make a table that
is half old and half new, two MBR entries an MBR that is; two GUIDs
distinguish a replaced GPT from an edited one. GUIDs are interchangeable, and
declared symmetric. Two image sizes move the place of the backup.
`SchemCtx_power` and `SchemCtx_power_cut` have the action constraint
`WriteWhenSettled`: a write begins when the stores of earlier, failed ones are
on the medium. It keeps the sets in `stable` small; it is a bound of these runs
and no guard of `Write`, and `NothingMixed` is proved without it. `SchemCtx_any` does not check for
deadlock: an image with a table of more entries than the code supports cannot
be opened, and once it is as large as it can get nothing else happens to it. In
`Formats` the inputs are all values of small types, or the edges of large ones:
below, at and above each limit.

*Fairness.* `PartEdit_gpt` and `PartEdit_loaded_search` assume `WF(Search)`: a
process that can run is scheduled. `Session` assumes the same of `Start`, and
`WF(ReadReady)`: a read returns when there is something to return, be it an end
of file. The user owes nothing: no answer to a prompt is fair. In `Session` what a dialog
computes between two prompts is a part of the step, and so ends;
`PartEdit_gpt` shows this of `n` and `e` on tables this code makes, and
`PartEdit_loaded_search` that it is not so on every loaded one. `SearchAdvances`
and `EofAdvances` need no fairness: they are what the two liveness properties
rest on, a measure that every step lowers.

An entry of a loaded table can end at the largest value of a `plba`: one of a
GPT that says so, and one of an MBR that has a type but start and size 0, since
its end is 0 + 0 - 1 (`mbr.c:282`). With one of those the search fails (below),
so that `PartEdit_loaded` has none. Its entries are otherwise arbitrary:
backwards, overlapping, outside of the usable sectors.

### Disagreements found

| Run | Property | What happens |
|---|---|---|
| `PartEdit_loaded_search` | `SearchTerminates` | an entry that ends at the largest LBA, of a GPT or of an MBR with start and size 0 (`mbr.c:282`), makes `end_lba + 1` wrap to 0, and the search loop for ever (`schem.c:412`); where that entry does not cover sector 0, the search proposes this sector instead |
| `SchemCtx_restore` | `RestoreKeepsGpt` | when only the backup is valid, the write that should restore the primary breaks the backup first (`gpt.c:614`) |
| `SchemCtx_power_cut` | `PowerLossKeepsGpt` | both copies of a GPT are on the medium, its table is edited and written: the secondary-first order holds for stores, not for the medium, since no fsync separates the copies, and a power loss leaves neither valid (`schem.c:267`) |
| `SchemCtx_short` | `UsableUntouched` | a loaded GPT with fewer entries than this code writes may have partitions where the full backup table goes; the write stores the table over them (`gpt.c:732`, `gpt.c:757`) |
| `Formats_foreign` | `ForeignTableAccepted` | names are stored and read one byte per character apart: a table with a named entry of another program has another checksum here (`gpt.c:292`) |

Three more are what a property of a passing run says the code does, in place of
what it should do:

- A sector that is too large for CHS becomes the last address of the image's
  geometry (`img_ctx.c:108`). The comment in front of it, and `src/README.md:34`,
  say that (1023, 254, 63) is used: it is for 255 heads and 63 sectors, and with
  16 heads, for instance, it is (1023, 15, 63). `ChsAddresses` says which, and
  `Formats` has geometries of both kinds.
- A partition that starts exactly at the last usable sector does not bound the
  proposed end (`schem.c:460`): the proposal is that partition's first sector,
  and whoever accepts it reads "Overlap detected". `DefaultEndOvershoot` says
  that it is never more than this one sector.
- `munmap` is given pages for bytes (`gpt.c:146`): of a mapping of several pages
  only the first goes, and the rest of every table stays until the process ends.
  `UnmapsOwn` says that what goes is no more than the mapping.

Read in the code while modelling, represented in the models where they change
state, and checked by no run:

- `w` returns to the prompt; the help says that it exits (`main.c:45`).
- The exit status is inverted for failures after the options: `pres_fail` is 0
  (`main.c:680`).
- A removed GPT is valid for a moment when it is overwritten (`gpt.c:333`).
- After an interrupted write and an extension with `-m`, the backup is not
  where a load looks for it (`gpt.c:650`).
- The image is extended before the context is validated (`main.c:583`).
- A broken input is prompted for ever (`main.c:543`).
- The units `T` and `P` shift an `int` by more than its width (`scan.c:197`).
- `chs_int_to_tuple`, which has no caller, does not undo the packing
  (`img_ctx.c:131`).
- The default alignment is a number of sectors whatever their size
  (`img_ctx.c:24`).

## 4. Theorems

The theorems hold for all constants that satisfy the named assumptions of the
modules; TLC evaluates those assumptions in every run.

| Module | Theorems |
|---|---|
| `PartEdit_proofs` | from any tables: `TypeCorrect`, `NeverNewOverlap`; under `InitBounded`, that no entry ends at the largest LBA: `StartsSound`, `FullSearchIsFull`, `SearchesAdvance`, `DialogsImplementEdits`; when, besides, no entry is backwards (`InitOrdered`): `EndsSound`; under `InitWellFormed`, that entries are usable and disjoint: `PartitionsDisjoint`, `PartitionsInBounds` |
| `GptStore_proofs` | `WriteAtomic` |
| `SchemSave_proofs` | `MbrStays`, `SaveInvariant`, `Typed`, `FlagsTrue`, `WriteLeavesBoth`, `WriteIsLoaded`, `StoresAreSafe`, `RemovedBefore`, `ProtectedBefore` |
| `SchemAtomic_proofs` | under `StandardImages`: `WriteIsAtomic`, and `SessionImplementsStore` as long as no power is lost |
| `SchemPower_proofs` | `NothingMixed`, under `OwnTables`: no header to start from describes a table this code refuses |
| `Formats_proofs` | `AnswersAsked`, `MappingsFit`, `EntriesSurvive`, `AddressesRight`, `MbrSurvives`, `ChecksumOfBytes`, `RemovedHeadersKept`, `CrcDivides`, `CrcIsTheirs` |
| `Session_proofs` | `TypeCorrect`, `AlwaysUsable`, `EofNeverStalls` |

`StandardImages` says of the images to start from that a header which names its
own place has its table where this code puts it (behind the primary header, or
in front of the backup) and no more entries than this code supports. Blank
images, and all that this code writes, are of that kind. It keeps the copies
apart: with tables elsewhere, a copy could share sectors with the other one or
with what replaces it, and storing one would change the other. Headers
that do not name their own place are free, and so are tables and MBRs.

All images `SchemCtx_any` starts from are standard, but for the foreign table
with more entries than are supported. `SchemCtx_kill` checks both properties on
an image of one size; that an extension between two writes keeps to `GptStore`
is proved and not run.

*PartEdit.* None of the properties is inductive: that the entry `GiveEnd` writes
fits depends on what earlier steps computed. The invariant `LoadedInv` says,
whatever the entries are: no entry ends at the largest LBA; during a search all
usable sectors before the frontier (the unaligned candidate) belong to other
partitions, which gives `FullMeansFull` when the frontier passes the last usable
sector; while the last-sector scan runs, its bound is below every later
partition already seen, or equals a start at the very end of the usable space;
at the second prompt the start is usable and the proposal lies between it and
the last usable sector. It does not speak of entries that fit. That is
`EditStep`, what a step does to the table: nothing, or one entry that becomes
unused, keeps its range or fits beside the others. From it follow the
refinement, that ends stay below the largest LBA, that entries stay in order,
and that a well-formed table stays well formed. `OverlapTestComplete` shows that
the tests of `schem_find_overlap` miss no intersection, even with a malformed
entry; that alone makes `NoNewOverlap` hold from any table.

`InitBounded` is what the search needs: with `end_lba + 1` wrapped to 0 the
frontier goes back, and the search need not end (`PartEdit_loaded_search`).
An entry that is backwards covers no sector and hides from the second test of
the scan, so that only `DefaultEndOvershoot` asks for `InitOrdered`.
`SearchesAdvance` follows from the frontier: falling back keeps it and gives the
aligned candidate up, skipping raises it behind the partition in the way, and it
never passes the last usable sector. A search has at most
`2 * (LastUsable - FirstUsable) + 1` more iterations after its first candidate.

*GptStore.* `Guarded` is kept by every step of a write, unless a removed copy
is left, and says that the main copy is valid, or the backup is invalid or
already what is being written. The main copy changes only when the backup is
the target.

*SchemCtx.* The current scheme exists, and what is in memory has the shape of a
scheme (`MbrStays`). `SaveInv` adds that every sector
is well formed and every scheme in memory fits the image, and `WriteEnds`: where
the remaining stores of a write lead, sector by sector, whatever is there now.
Every remaining store is safe (`SafePuts`: outside of the sectors a GPT of this
code leaves for partitions, of a well-formed value), which gives `DataSafe` for
every GPT that leaves as much room (`HasRoom`), from any image. When no store remains, `WriteEnds`
says what both copies and the MBR are, and a load of them is computed once
(`CopyLoads`). The lemmas about sequences of stores (`PutsConcat`, `PutsTail`)
say what concatenation and taking the first store do to that statement; they
make the order of the parts irrelevant to it, and the order itself is
`OrderFits`: the stores of an MBR come last, or first. `MixInv` is about the
medium instead, settled or not: every header a sector may hold describes a GPT
of `before`, or the one being written; a table that does not match its header fails the
checksum.

*Atomicity and refinement.* `WriteEnds` does not say in which order the stores
come, and both depend on it. `AtomicInv` is `SaveInv` with two more parts.
`OwnInv`: every content a sector may have is placed as `StandardImages` asks, so
that a header is valid or not by the sectors of its own copy alone. `PlanInv`:
the remaining stores of a write are in order (`InOrder`: MBR, backup header,
backup table, primary header, primary table; or the two erasures), and per place
they are what `HdrPlan`, `TablePlan` and `ErasePlan` allow: an erased header
comes back first, a header whose fields change is `Junk` for a while, the new one
comes last and stays. That is inductive because a step takes the first store.
Each store then changes one copy (`SameCopy`), and makes of it nothing, the
target, or what was removed there; and when a store to the primary copy is next,
no store to the backup is left, so that `WriteEnds` makes the backup the target.
`CopiesNext` has the steps of a session, one by one, as steps of `GptStore`.
`SaveAtomic` follows from the same lemmas. The refinement is about what later
readers see; after a power loss that is what reached the medium, where the
property is `NoMixture`.

*Formats.* The invariants are about the last call, so that each theorem is one
about operators. Pages and remainders, packed bits, bytes of a character and
wrapped sums are arithmetic. What is stored and read again goes field by field:
a field reads back what was written (from an induction over its bytes), a field
elsewhere is not changed, and so a chain of fields reads back whole; for the
checksum, that a field's bytes in the stream are its bytes in the buffer. The
MBR adds that start and size fit 32 bits and give back start and end.
`CrcDivides` rests on exclusive or being linear for `ShiftBit`: eight shifts of
a word are the word shifted by a byte, and the eight shifts of the low byte; the
latter are the sum of the rows of its bits; a table entry is that sum, because
its other bits are those of an entry filled in by an earlier row; a message is
then divided byte by byte. The library's induction theorems take an operator as
a parameter, so inductions are stated with sets: `Induction` says that a set
with 0 and the successor of each of its numbers has all numbers, from `WFMin`
and `NatLessThanWellFounded`. That a recursive function has values is proved the
same way, by the existence of the function.

`CrcIsTheirs` is a computation, laid out so that a prover can follow it: the rows
of the table as sets of positions (`RowsAre`), a bit of the register after eight
steps as a sum of nine terms (`ByteReduced`), and the register after each of the
nine bytes (`CheckReg`, nine lemmas).

*Session.* `RoomForAll` is the lemma about `img_ctx_validate`: its constant is
large enough for every sector size it lets pass. `EofNeverStalls` rests on
`ReadPiece`: after the end of the input a read takes a piece of a long line that
was begun, or reports the end. `StepsCount` is stronger than the property, which
says nothing of steps that change nothing: it shows that there are none.

*Only model-checked*: `SearchTerminates` and `EofEnds`, which are about fairness.
What they rest on is proved, a measure that every step lowers; that some step is
possible and is taken in the end is left to TLC.

## 5. Not modelled

- Logging and printing: no state the rest of the program reads.
- The text of options, numbers and GUIDs, and the random bits of a new GUID:
  they are values from a set.
- The order of the fields behind the signature of a header that is being
  written: a load takes the header for invalid until its checksum fits.
- A mapping or an allocation that fails while loading ends the program before
  anything was stored, as `StartFails` does.
- `schem_remove_mbr` and `chs_int_to_tuple`, which are not called.

## 6. Plan

Done: the editing core, sessions with the on-disk order of stores and their
faults, the formats, start-up and the command loop, and theorems for all safety
and action properties of the passing runs. What could follow:

1. `StandardImages` weakened to what the UEFI specification asks: tables
   anywhere between the headers, as long as they share no sector.
2. `PlanInv` for the medium: which copies survive a power loss, if an fsync
   separated them.
3. The text of a GUID: scanned, printed and scanned again.
