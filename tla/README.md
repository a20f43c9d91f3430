# A TLA+ model of FoxOS

FoxOS is a small 64-bit kernel with a shell on a text screen: it polls the
keyboard, edits a command line and runs commands on a file system that lives in
memory. Nothing runs concurrently inside the kernel. What makes it hard to test
is the state that long sequences of legal calls build up (a table whose slots
move), the hardware that goes on by itself between two polls (keys, the
controller's queue), the arithmetic at the edges of rows, buffers and tables,
and, before the kernel runs, boot loaders in which any call may fail.

## The parts of the system

| Part | Source | Module | Status |
|---|---|---|---|
| File system: one table of entries, each with the index of its parent | `src/src/fs.c`, `fs.h` | `FoxFS`, `FsShift`, `FsDeleteLoop`, `FsListLoop`, `FsTree` | modelled, but for the unused `fs_delete` |
| Shell: file commands and the working directory | `src/src/terminal.c` (`execute_command`) | `Shell` | file commands modelled |
| Line editor and its drawing | `src/src/terminal.c` (`terminal_run`) | `Terminal`, `Line` | modelled |
| Text screen | `src/src/vga.c` | `Vga`, `VgaOutput`, `VgaFormat`, `VgaPrint` | cells, cursor, scrolling, `vga_printf` and number formatting modelled; colours not |
| Keyboard driver | `src/src/keyboard.c`, `io.h` | `Keyboard` | modelled, with the controller as its environment |
| Kernel entry | `src/src/kernel.c` | in the above | order of initialisation, polling loop |
| BIOS boot loader | `src/src/boot.asm`, `stage2.asm` | `BiosBoot`, `Boot` | memory contents and failures modelled |
| UEFI loaders | `src/src/uefi_bootloader.c`, `src/uefi_loader.c`, `src/foxos_uefi.c` | `UefiFirmware`, `UefiBootloader`, `UefiLoader`, `FoxosUefi`, `Boot` | all firmware calls modelled |

One of four boot loaders brings the kernel into memory; the three for UEFI and
the one for BIOS share nothing.

`kernel.c` initialises the screen, the file system and the keyboard, then calls
`terminal_init` (which initialises the last two again) and calls `terminal_run`
for ever. A call of `terminal_run` takes one character from `keyboard_read`. It
either edits the input line and redraws it with the functions of `vga.c`, or, on
Enter, runs a command, which calls `fs.c`.

## The modules

How they depend on each other (an arrow reads "extends"):

```
MCFsTree -----> FsTree, MCFoxFS
MCShell ------> Shell
FsTree, MCFoxFS, Shell ------> FoxFS ------> FsShift
MCFsListLoop -> FsListLoop --> FsDeleteLoop --> FsShift
MCTerminal ---> Terminal ---> Vga <---- VgaOutput <---- VgaPrint ----> VgaFormat
                   |
                   +-- instance of Line (abstract)
MCKeyboard ---> Keyboard
Boot ---------> UefiBootloader, UefiLoader, FoxosUefi ----> UefiFirmware
     ---------> BiosBoot
FoxFSProofs, FsLoopProofs, TerminalProofs, KeyboardProofs, VgaOutputProofs,
BootProofs: the theorems about the modules they are named after
PathProofs ---> Shell, FoxFSProofs: the theorems about FsTree and Shell
Induction: induction over numbers, and functions defined by recursion
```

**FoxFS.** The variables `files` and `file_count` are the statics of `fs.c`;
`reparented` is a history variable. Each function of the file system is an
action of the same name. A path is the sequence of its components, where the
empty component `NoName` stands for what doubled, leading and trailing slashes
leave; names are model values, bytes are members of a small set, and `Junk` is
the content of data bytes that `fs_init` does not clear. A call that returns -1
changes nothing and is a stuttering step. `touch` is the shell command of that
name, which splits its path itself and calls `fs_create_file` directly.

**FsShift, FsDeleteLoop.** `fs_delete_file` closes the gap of the removed entry
with two nested loops: after each single move it decrements every
`parent_index` above the loop counter. `FsDeleteLoop` runs these loops one
assignment at a time. `FsShift` gives their result in closed form. `FoxFS` uses
the closed form; that the loops compute it is proved.

**FsListLoop.** The loop of `fs_list_dir`, one round per action, on the table of
`FsDeleteLoop`, before a deletion or after it, with the lengths of the names and
the size of the caller's buffer. A deletion forgets an earlier listing. Names are
cut down to their lengths, and which entries are directories is a constant. The
buffer has at least one byte, as the caller's has: `fs_list_dir` ends its list
with a terminator, whatever the size.

**FsTree.** What the file system promises its callers: `tree` gives every path a
file with its text, a directory, or nothing. Each call that succeeds puts
something at its own path, and `TableIsTree` says that looking the paths up in
the table of `FoxFS` finds just what the tree has there. The tree has no slots,
sizes or parents, and no call looks at it. A deletion that misplaces an entry ends
the comparison. An entry without a name, which `touch` can make, is on no path and
leaves the tree alone.

**Shell.** Adds `current_dir`, the working directory, which is a path and not an
entry, and the commands `cd`, `mkdir`, `touch`, `rm` and `ls` with absolute and
relative arguments. A command is a call of `FoxFS` on the path that `build_path`
made, and changes nothing else. `exit` is left out (see below).

**Line, Terminal.** `Line` is what a line editor promises: a text, a cursor in
it, and its submission as a whole. `Terminal` is `terminal_run`: the buffer, its
two positions, and all the drawing, down to each cell. A command is one of the
things it can do to the screen: print nothing, print a line, or clear.

**Vga, VgaOutput.** `Vga` has the functions of `vga.c` as operators on a record
of cells and cursor. A write outside the cells sets the field `inside` to
FALSE. `VgaOutput` puts arbitrary characters and keeps, as history, the roll of
paper on which the same output would have been printed.

**VgaFormat, VgaPrint.** `vga_put_dec`, `vga_put_hex`, `vga_put_bin` and
`vga_printf` as functions from numbers, formats and arguments to texts: the
loops that fill `buf` backwards, the case of the least number, and the pointer
that runs through a format, one `Round` of the loop after the other. The limits of
a word come from `TwoTo`, a recursive function, since the prover knows nothing
of a power whose exponent is a constant such as `BITS`. `VgaPrint` writes the
texts to the screen of `VgaOutput`, one `vga_putchar` per character, and compares
what is there with the number that went in.

**Keyboard.** The user presses, holds and releases keys; the keyboard repeats
the last key held; scan codes queue up in the controller, which drops them when
it is full; an empty controller returns its last byte again. The driver is
`keyboard_init` (called twice) and `keyboard_read`. Arrow keys send the prefix
0xE0, which the driver takes for the release of some other key. Every key has
codes of its own: keyboards that send fake shift codes around those of an arrow
key, and the numeric pad, whose keys have the codes of the arrows without the
prefix, are left out. The history
variables hold the characters that are due and not yet returned (`owed`), the
keys that were already sending when the polling began and may show up once
without a press (`early`), and the kinds of mistakes seen (`flaws`). The first
repeat of such an early key makes its character due.

**UefiFirmware, UefiBootloader, UefiLoader, FoxosUefi.** `UefiFirmware` has the
firmware's services as the loaders use them: open handles, the position in the
kernel file, the memory allocated, and whether boot services have been left.
Each loader is the straight line of calls of its `UefiMain`: `pc` names the next
call, `Call` is a call whose failure returns at once, `Blind` one whose status
is ignored (the failure is then remembered in `unnoticed`). A failed call
changes nothing. A variable nobody has set holds any value of `Garbage`. What
`uefi_bootloader.c` takes for the size of the file is a word of `Times`: it reads
offset 32 of the information record, which is in the time of creation there,
while the size is at offset 8.

**BiosBoot, Boot.** `BiosBoot` follows the 4 KB frames of memory through both
stages at the addresses of the source: what is read, copied and cleared where.
`Boot` puts the four loaders side by side.

## What the runs check

| Run | What holds |
|---|---|
| `fs_tree` | The table keeps its shape; slot 0 stays the root and no entry names a parent above itself, even after damage. Until a deletion misplaces an entry: parents are directories, siblings differ, every named entry is reachable, and a creation or deletion changes the meaning of no other path. The number of entries with an empty name never falls. |
| `fs_data` | Until a deletion misplaces an entry, every path leads to what the calls have put there: a new file is empty, a written one has the text of the last write, cut off at its limit, and what was deleted, and nothing else, is gone. No read ever returns uncleared memory. |
| `fs_loops` | The deletion loops compute `Shifted`, renumber correctly the parents up to two slots above the removed one. A listing never leaves its buffer; with the buffer of `ls` it is complete; after a deletion that renumbers correctly it shows every directory as it was, less the removed entry. |
| `shell` | Relative arguments never reach out of the working directory. The working directory is lost only by its own removal, and only when it is empty. |
| `keyboard_exact` | While the controller has room, every press is returned once, in order and in the right case, and when all keys are up the driver has forgotten them. Once the keyboard is silent, every press has been returned. |
| `keyboard_lossy` | When scan codes are lost, presses may be lost, but none is returned twice. |
| `vga_output` | The cursor stays on the screen, and the screen is a window on the paper. Every number can be read back from the screen in base 10, 16 and 2; a format prints as its pieces one by one, with the arguments in order, and `vga_printf` stops at its terminator. |
| `terminal_edit` | The buffer is always a terminated string and implements `Line`. The row of the cursor shows prompt, line and blanks, and no key but Enter changes another row. |
| `boot` | Whichever calls fail: the BIOS loader spares its own code and tables and delivers a kernel of up to 16 KB whole; `uefi_loader.c` gives everything back, and a kernel it keeps is whole, unless a call that finds the size has failed unnoticed; no read leaves the memory allocated for it, unless `foxos_uefi.c` has gone on after a failed allocation; nothing but the message of `uefi_bootloader.c:159` uses the firmware after `ExitBootServices`. |

Three runs show a disagreement between the code and what its comments say:

| Run | What happens |
|---|---|
| `fs_reparent` | `mkdir /a`, `/b`, `/b/a`, `/c`, `/c/a`, then `rm /a`: the second `a` ends up below `/b/a`. A parent index `p` becomes `x + (p - x) \div 2` for a removed slot `x` where `p - 1` is meant. The two agree up to `p = x + 2`. |
| `terminal_wrap` | A line that reaches the end of its row is redrawn one row too high, and the blanks of the redrawing wrap onto the prompt. |
| `boot_foxos` | Two loaders jump to part of a kernel although every call has succeeded. `foxos_uefi.c` takes the size of the information record for the size of the file, reads that many bytes and jumps to them. `uefi_bootloader.c` takes part of the time of creation for the size. The trace shown is that of `foxos_uefi.c`, which makes fewer calls; with `InfoSize = 6`, where it reads every kernel of the instance completely, the trace is that of `uefi_bootloader.c`. |

Three more behaviours that the models show: `touch d/` creates an entry with the empty name, which no path
reaches, so that its slot is lost (`NamelessStay`); a key held while
`keyboard_init` runs is returned after it, because the port repeats its last
byte; `uefi_loader.c` returns success after a short read.

### Bounds, and why they are enough

* `fs_tree`: six slots are the fewest in which a deletion can misplace an entry
  (slot 1 removed, an entry in slot 5 whose parent is in slot 4). So the run
  covers intact and damaged tables. Paths have up to two components, the empty
  one included; files have no bytes. Names are symmetric, and a view hides the
  fields of free slots that `fs_create_file` overwrites before anything reads
  them.
* `fs_data`: four slots, two bytes per file and writes of up to three bytes, so
  that writes are clipped, shortened and emptied and slots are reused with old
  bytes in them.
* `fs_loops`: all tables of six slots in which no parent lies above its
  entry, every size of the part in use and every removed slot. More tables than
  the file system reaches; `TableSafe` says that it reaches no others. Names have
  the greatest length or none, directories and files alternate, and the buffer
  has room for one entry or is that of `ls`.
* `shell`: six slots, two names, arguments of one component on top of a working
  directory of up to three.
* `keyboard_exact`, `keyboard_lossy`: a controller of two or three bytes, so that
  a prefix and its code can be separated by its being full, and two presses in
  flight. `Lossy` says whether keys are pressed while the controller is full,
  `Used` which keys are pressed at all: the first run has both shift keys, the
  second a key without a character instead. `CaseRight` leaves out two shift keys
  held together, since the driver has one flag for both and the release of one
  ends shift.
* `vga_output`: a screen of two rows of four columns and four rows of paper, a
  tab stop of two. As on the real screen the width is a multiple of the tab stop.
  Words have eight bits, so that every number is tried; formats have up to three
  of the pieces the kernel's formats consist of, with arguments at the limits and
  arguments that look like directives.
* `terminal_edit`: a row of eight columns, a prompt of two and a buffer of four
  bytes, so the buffer fills up before the line comes within two columns of the
  end of the row. On the real screen (80 columns, a prompt of 7, a buffer of 256)
  that holds for lines of up to 71 characters only; `terminal_wrap` shows what
  happens beyond. The screen has three rows, so it scrolls.

* `boot`, `boot_foxos`: pages of two bytes, words modulo 16, an information record
  of three bytes and kernels of one to six, so shorter and longer than the record,
  one page and two; unset variables may be zero, a likely size or a very large one,
  and the words of `Times` are smaller and larger than the kernels, up to the last
  that does not wrap round when it is rounded up to pages (the lower half
  of the real word is below 10^9, so rounding it up never carries). The BIOS part is the real memory layout with
  kernels of one to eight frames, all that is ever copied.

### Fairness

Only `FairSpec` of `Keyboard` assumes any: weak fairness of `keyboard_init` and
`keyboard_read`, because the kernel's loop (`kernel.c:44`) calls them for ever,
until `exit` stops the machine, and `keyboard_wait` never waits (the bit it tests
means that a command to the controller is pending, and the kernel sends none).
The user is under no obligation to press or release anything.

## What is proved

All theorems hold for every value of the constants that satisfies the named
assumptions of the modules: table sizes, names, keys, screen and buffer sizes.
The real program's constants satisfy them. The two theorems about the drawing of
the line editor have one more condition, on the length of the lines typed, since
without it they are false (`terminal_wrap`).

* **Deletion loops** (`FsLoopProofs`). `LoopInv` says for every slot, at
  every moment, which entry it holds and how often its `parent_index` has been
  compared. It is inductive, by the lemma `ParentAfterStep`: an index that has
  been through `k` comparisons is decremented by the next exactly when the
  closed form says so. `LoopComputesShift` and `NearParentsFollowAlways` follow.
* **Listing loop** (`FsLoopProofs`). `ListInv`, with the types, is inductive:
  the entries written are the children passed, fewer than the slots passed
  because the root is skipped, and each takes at most `MAX_FILENAME + 1` bytes.
  `LsIsCompleteAlways` is then arithmetic: when slot `n` is reached, at most
  `n - 1` entries have been written, and `MAX_FILES * (MAX_FILENAME + 2)` leaves
  room for the next. `LsAfterRmAlways` combines it with the deletion's
  invariant.
* **Boot loaders** (`BootProofs`). The inductive invariant `BootInv` says, for
  each loader and each value of `pc`, what is open, allocated and read at that
  point. The arithmetic lemma is that rounding up to pages covers the size, which
  is too small to wrap. For the BIOS loader `BiosInv` says at each step which frames hold the
  loader's code, the kernel and the page tables; `LoaderSpared` follows because
  the address ranges of the source do not overlap.
* **File table** (`FoxFSProofs`). `TypeOK` alone is not inductive (a parent
  index could be the -1 of a free slot); `TypeOK /\ TableSafe` is. The argument
  for a deletion: a decremented index never falls below 0 and loses at least one
  if it lies above the removed slot, so no entry gets a parent above itself.
  `TreeKept` adds that, without a misplaced entry, renumbering is monotonic, and
  that the removed entry is nobody's parent. `NoJunkIsRead` follows the bytes of
  every slot through writes and moves.
* **Paths** (`FoxFSProofs`). `fs_parse_path` is a recursive function over the
  components. The argument works with walks: the sequence of slots the lookup
  passes, one per component, each found from the last by `FirstMatch`. A walk is
  determined by its start (`Induction`), so two lookups agree when their walks
  agree step by step. A creation adds an entry behind all others, which no step
  of an older walk prefers; hence `CreateKeepsLookups`. A deletion renumbers the
  slots monotonically as long as nothing is misplaced, and the renumbered walk is
  a walk of the new table; hence `DeleteKeepsLookups`. Parents lie in earlier
  slots and siblings differ, so going up from an entry and reading the names on
  the way back gives a path to it: `NamedStayAddressable`. No walk ends in an
  entry without a name, so nothing removes one: `NamelessNeverLeave`.
* **What the callers have put where** (`PathProofs`). `TableIsAlwaysTree` rests on
  all of the above. A path leads where the same path without its empty components
  leads (`NamedLeads`), and as every parent lies in an earlier slot, two paths of
  names to one entry are the same (`OnePath`: going up from the entry spells it).
  So a call that changes the entry at the end of its path changes what is found
  at that path, and at no other (`CreatedSeen`, `WrittenSeen`, `RemovedSeen`).
  `TableIsTree` is inductive together with the types, `TableSafe`,
  `TreeUnlessReparented` and the domain of `tree`.
* **Shell** (`PathProofs`). Every command is a step of the file system on the
  path that `build_path` made (`CommandsAreCalls`), so the theorems about `FoxFS`
  carry over. `WorkingDirSurvives` is what they say of
  the path `current_dir`. For `RelativeIsBelow` the walk of a relative argument
  goes on where that of `current_dir` ends, and the parents above its end lead
  back through it.
* **Screen** (`VgaOutputProofs`). `CursorInside` is inductive once the screen is
  known to be a record of the right shape. A cursor on the screen is the index of
  a cell, and the end of `vga_putchar` brings back a cursor that is past its row
  or one row too low. `ScreenStaysWindow` compares screen and paper cell by cell:
  the screen's cell `at` is the paper's position `at` plus the rows scrolled away,
  the cursor likewise, and what has not been printed on is blank on both. Each
  kind of character keeps this, and scrolling adds one row to the distance.
* **Numbers** (`VgaOutputProofs`). `NumbersAlwaysReadBack` holds in every state, so
  it needs no invariant but an argument about the loops. `While` is recursive over
  a number that is divided, so first a lemma says that such a recursion has one
  solution on all numbers (`DescentExists`, `DescentUnique`). A smallest number
  that does not read back would have a quotient that does, and one digit more
  reads as `base` times the quotient plus the remainder (`ReadsOneMore`); the
  first digit is not zero because the last quotient is not. The digits fit `buf`
  because the limits of a word lie below powers of four and a loop that divides
  by `base` makes no more rounds than the exponent (`WhileFits`); ten and sixteen
  are more than four, which leaves room for the one digit more of the least
  number. The last step is the screen: a text without control characters that is
  shorter than the screen stands in its first cells (`TextIsOnScreen`). The
  condition is `PrintAssumption`: a number's text does not fill the screen.
* **Formats** (`VgaOutputProofs`). `PrintfPrintsPieces` is about formats of any
  number of pieces and any sequence of arguments that is long enough. The pieces
  stand in the format one behind the other (`PiecesStay`); a round of the loop
  that begins at a piece ends behind it, because what the code looks at behind
  a `%` belongs to the piece (`PieceIsRound`), and takes an argument exactly if
  the piece converts one (`RoundTakes`). So after `j` rounds the loop stands
  behind the first `j` pieces, has taken their arguments and has printed their
  texts, and no round remains when the terminator is met. What an argument is
  does not matter. `PrintfAlwaysByPieces` is the instance that the run checks.
* **Line editor** (`TerminalProofs`). `TypeOK /\ LineTerminated` is inductive. On
  top of it `EditorImplementsLine`: under the refinement mapping of `Terminal`
  each branch of `terminal_run` is the operation of `Line` it stands for. The
  argument compares the shifted buffer with the concatenations of `Line`
  position by position; for Enter, the first NUL lies at `buffer_pos`.
* **Drawing of the line** (`TerminalProofs`). `ScreenInv` adds to this that the
  row of the cursor shows prompt, buffer and blanks, and that all rows below are
  blank. It is inductive if lines end two columns before the end of the row
  (`prompt_length + MaxLine <= VGA_WIDTH - 2`, where `MaxLine` is the longest line
  typed): then nothing `redraw_input_line` writes, its blanks included, wraps or
  scrolls, which the lemma about `vga_write` of a text that fits its row makes
  precise, and the two rows the code computes are the same. On the real screen
  the condition says that lines have up to 71 characters.
* **Keyboard** (`KeyboardProofs`). The codes that wait in the controller decide
  what the driver will do. `Foretells(fifo, st, e, w)` says that reading them all
  from the state `st` ends in the state `e` and returns the characters `w`.
  Reading a code takes away the beginning of this forecast and changes nothing
  else (`ReadFirst`); a key adds to its end, as many of its codes as find room
  (`SendForecast`). The invariant `KeyInv` says that a forecast exists with: of
  every key no more characters in `w` than are due, and one fewer if it is the
  repeating key and the driver will not know it (enough for `NothingTwice`);
  without a loss, `w` has exactly the keys due, in order, and the keys `e` takes
  for held are those held (`EachPressOnce`, `QuietMeansIdle`); with one shift key
  at a time, `w` is what is due (`CaseRight`). None of the properties is
  inductive without the forecast: whether a repeat will be taken for a press
  depends on codes that have been sent and not yet read. The second part of the
  invariant is about the byte the port repeats when nothing waits: reading it
  again starts no character, except that of an early key.

`Induction` states induction over numbers for sets in the place of predicates,
from the library's theorem that a non-empty set of numbers has a least element.
The proofs about recursive functions (paths, `vga_write`, digits, formats,
forecasts, counts of characters) use that.

Only model-checked: liveness (`EveryPressReturned`), which is
out of the prover's reach. All invariants and action properties of the passing
runs have theorems. The properties of the three runs that show a disagreement
are false and have none.

## Not modelled

* Colours and the wording of messages, which change no other state; `fs_save` and
  `fs_load`, which are stubs; `fs_delete` and `vga_put_entry`, which nothing
  calls; build files.
* The recognition of a command by a prefix of the line, and the lengths of the
  paths that `build_path` makes: names are model values.
* The command `exit`, which switches the machine off (or halts it): the shell and
  the line editor are modelled up to it.
* `%x` and `%b` read a 64-bit argument; a caller that passes an `int` leaves its
  upper half to the calling convention, which is not modelled. Nor is a format
  that ends inside a directive: the kernel's formats are literals without one.
* The layouts of the firmware's tables and the GUIDs. The loaders declare
  shortened tables of their own, and `uefi_bootloader.c:24` has another GUID for
  the file system than `Uefi.h:33`; the models take every call to reach the
  service it names. `uefitest.c` only prints a line.
* The comparison of the kernel's signature (`uefi_bootloader.c:162`), which
  follows the jump to a kernel that never returns.
* The contents of the GDT and of the page table entries, and the code for a
  failed disk read in `stage2.asm:170`, which is assembled for 32 bits and
  reached in 16-bit mode: the model only says that the loader goes astray.
* The keyboard and the line editor are not composed: `Keyboard` shows that each
  press is returned once and in order, `Terminal` takes any sequence of characters.
