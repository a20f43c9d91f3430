-------------------------------- MODULE Boot --------------------------------
(***************************************************************************)
(* The ways FoxOS can be started, side by side: one of the three UEFI      *)
(* loaders, or the BIOS boot loader.                                       *)
(***************************************************************************)
EXTENDS UefiBootloader, UefiLoader, FoxosUefi, BiosBoot

VARIABLE loader   \* the one that was installed

bootVars == <<loader, uefiVars, biosVars>>

Loaders == {"uefi_bootloader", "uefi_loader", "foxos_uefi", "bios"}

Init == loader \in Loaders /\ UefiInit /\ BiosInit

Next ==
  /\ \/ loader = "uefi_bootloader" /\ BootloaderNext /\ UNCHANGED biosVars
     \/ loader = "uefi_loader" /\ LoaderNext /\ UNCHANGED biosVars
     \/ loader = "foxos_uefi" /\ FoxosNext /\ UNCHANGED biosVars
     \/ loader = "bios" /\ BiosNext /\ UNCHANGED uefiVars
  /\ UNCHANGED loader

Spec == Init /\ [][Next]_bootVars

-----------------------------------------------------------------------------
(***************************************************************************)
(* Properties.                                                             *)
(***************************************************************************)

(* Whichever call fails, uefi_loader.c gives back what it has taken: when  *)
(* it returns nothing is open, and memory is still allocated only for a    *)
(* kernel it has read completely, as far as it knows the size.             *)
NothingLeft ==
  loader = "uefi_loader" /\ pc = "returned" =>
    /\ machine.open = {}
    /\ machine.owned # {} => status = "ok" /\ machine.got = machine.room

(* When uefi_loader.c returns and keeps the kernel in memory, all of it is *)
(* there, if the two calls that find out its size have worked: their       *)
(* statuses are not looked at.  Neither is that of the rewind between them *)
(* and the read, but there a failure is found out: the read comes out too  *)
(* short and the memory is given back.                                     *)
WholeKernel ==
  loader = "uefi_loader" /\ pc = "returned" /\ "kernel" \in machine.owned =>
    \/ machine.got = kernel
    \/ machine.unnoticed \cap {"SetPosition_end", "GetPosition"} # {}

(* No read writes past the memory allocated for it, whatever number the    *)
(* loader has in place of the size: one never set (uefi_loader.c), that of *)
(* another record (foxos_uefi.c), or part of a time (uefi_bootloader.c,    *)
(* which rounds it up to pages in 64-bit arithmetic).  The one exception:  *)
(* foxos_uefi.c goes on when its allocation has failed.                    *)
ReadsFit == machine.spilled => "AllocatePool" \in machine.unnoticed

(* uefi_bootloader.c leaves boot services last: afterwards it uses nothing *)
(* but the console, for the one message of line 159, and it never returns  *)
(* to the firmware.                                                        *)
ExitIsLast ==
  machine.exited => machine.late \subseteq {"console"} /\ pc \in {"KernelEntry", "entered"}

(* Both loaders that start the kernel say that they read it into memory:   *)
(* foxos_uefi.c in lines 126, 133 and 135, uefi_bootloader.c in lines 142  *)
(* and 145, after it has "detected" the size (line 133).  So when one of   *)
(* them jumps there, the kernel is there.  Asked of calls that all succeed.*)
KernelFileRead ==
  loader \in {"foxos_uefi", "uefi_bootloader"} /\ pc = "entered" /\ machine.unnoticed = {}
    => machine.got = kernel
=============================================================================
