------------------------------ MODULE BiosBoot ------------------------------
(***************************************************************************)
(* The two stages of the BIOS boot loader (src/boot.asm, src/stage2.asm):  *)
(* what each step leaves in which 4 KB frame of memory, at the addresses   *)
(* of the source.  The kernel is at most eight frames long.                *)
(***************************************************************************)
EXTENDS Integers

VARIABLES
  length,   \* frames of the kernel on disk
  step,     \* what the loader does next, or how it ended
  mode,     \* bits of the processor's mode
  frames    \* what the frames hold

biosVars == <<length, step, mode, frames>>

Nothing == <<"unknown", 0>>
Code    == <<"loader", 0>>
Padding == <<"padding", 0>>
Table   == <<"table", 0>>
Part(k) == <<"kernel", k>>

CodeFrames   == 7 .. 8                  \* stage 1, and stage 2 from 0x7E00 on
ImageFrames  == 7 .. 15                 \* the 32 KB of stage 2
TableFrames  == 9 .. 12                 \* 0x9000: PML4, PDPT, PD and one more
LoadFrames   == 16 .. 19                \* 0x10000: 32 sectors from disk
Loaded       == 16                      \* 0x10000
Final        == 256                     \* 0x100000
CopiedFrames == 0 .. 7                  \* 8192 double words
Frames == (7 .. 23) \cup (256 .. 263)

BiosInit ==
  /\ length \in 1 .. 8
  /\ step = "stage 1"
  /\ mode = 16
  /\ frames = [f \in Frames |-> IF f = 7 THEN Code ELSE Nothing]

Fill(where, what(_)) == frames' = [f \in Frames |-> IF f \in where THEN what(f) ELSE frames[f]]

(* boot.asm: read stage 2, or say so and hang.                             *)
LoadStage2 ==
  /\ step = "stage 1"
  /\ \/ /\ step' = "stage 2"
        /\ Fill(ImageFrames, LAMBDA f : IF f \in CodeFrames THEN Code ELSE Padding)
     \/ step' = "hung" /\ UNCHANGED frames
  /\ UNCHANGED <<length, mode>>

(* Mutant: the kernel is read to 0x8000, onto stage 2.                     *)
LoadKernelLow ==
  /\ step = "stage 2"
  /\ \/ /\ step' = "protected mode"
        /\ Fill(8 .. 11, LAMBDA f : Part(f - 8))
     \/ step' = "astray" /\ UNCHANGED frames
  /\ UNCHANGED <<length, mode>>

(* stage2.asm: read the kernel.  The code for a failed read comes after    *)
(* the switch to 32-bit code but runs in 16-bit mode.                      *)
LoadKernel ==
  /\ step = "stage 2"
  /\ \/ /\ step' = "protected mode"
        /\ Fill(LoadFrames, LAMBDA f : IF f - Loaded < length THEN Part(f - Loaded) ELSE Padding)
     \/ step' = "astray" /\ UNCHANGED frames
  /\ UNCHANGED <<length, mode>>

ProtectedMode ==
  /\ step = "protected mode"
  /\ step' = "copy"
  /\ mode' = 32
  /\ UNCHANGED <<length, frames>>

CopyKernel ==
  /\ step = "copy"
  /\ step' = "tables"
  /\ Fill({Final + k : k \in CopiedFrames}, LAMBDA f : frames[f - Final + Loaded])
  /\ UNCHANGED <<length, mode>>

MapMemory ==
  /\ step = "tables"
  /\ step' = "long mode"
  /\ Fill(TableFrames, LAMBDA f : Table)
  /\ UNCHANGED <<length, mode>>

(* A processor without long mode faults and resets when it is switched on, *)
(* so the test for it that follows always succeeds.                        *)
LongMode ==
  /\ step = "long mode"
  /\ \/ step' = "jump" /\ mode' = 64
     \/ step' = "reset" /\ UNCHANGED mode
  /\ UNCHANGED <<length, frames>>

JumpToKernel ==
  /\ step = "jump"
  /\ step' = "kernel"
  /\ UNCHANGED <<length, mode, frames>>

BiosNext ==
  \/ LoadStage2 \/ LoadKernel \/ ProtectedMode \/ CopyKernel
  \/ MapMemory \/ LongMode \/ JumpToKernel

-----------------------------------------------------------------------------
(***************************************************************************)
(* Properties.                                                             *)
(***************************************************************************)

(* The loader never overwrites its own code, the kernel it has read or the *)
(* page tables it runs on; and a kernel of up to four frames, as the two   *)
(* stages assume without a test, is complete at its final address when the *)
(* processor jumps to it in long mode.                                     *)
LoaderSparesItself ==
  /\ \A f \in CodeFrames : step \notin {"stage 1", "hung"} => frames[f] = Code
  /\ step = "kernel" =>
       /\ mode = 64
       /\ \A f \in TableFrames : frames[f] = Table
       /\ \A k \in 0 .. 3 : k < length => frames[Final + k] = Part(k)
=============================================================================
