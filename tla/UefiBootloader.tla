--------------------------- MODULE UefiBootloader ---------------------------
(***************************************************************************)
(* UefiMain of src/uefi_bootloader.c: it loads the kernel, leaves boot     *)
(* services and jumps to the kernel.  A failure returns at once; nothing   *)
(* is closed or freed on any path.  The kernel never returns (kernel.c     *)
(* ends in an endless loop), so what follows the jump, the comparison of   *)
(* the kernel's signature included, is not reached.                        *)
(***************************************************************************)
EXTENDS UefiFirmware

(* Both calls of HandleProtocol.                                           *)
BootloaderHandleProtocol ==
  \/ Call("start", "HandleProtocol_2", machine)
  \/ Call("HandleProtocol_2", "OpenVolume", machine)

BootloaderOpenRoot == Call("OpenVolume", "Open", OpenVolume(machine))

BootloaderOpenKernel == Call("Open", "GetInfo_1", Open(machine))

(* Without a buffer GetInfo reports its size as an error, the one it is    *)
(* asked for here; any other status is returned, success included.         *)
BootloaderGetInfoSize ==
  \/ Call("GetInfo_1", "AllocatePages_1", machine)
  \/ Return("GetInfo_1", "ok", machine)

AllocateInfo ==
  Call("AllocatePages_1", "GetInfo_2", [machine EXCEPT !.owned = @ \cup {"info"}])

(* The word at offset 32 of the record is taken for the size of the file.  *)
(* In the record that GetInfo fills in, the size is at offset 8; offset 32 *)
(* is in the time the file was created, where the nanoseconds are, and has *)
(* nothing to do with the size.                                            *)
BootloaderGetInfo ==
  \E word \in Times : Call("GetInfo_2", "AllocatePages_2", [machine EXCEPT !.size = word])

(* Mutant: the last, partly used page is forgotten.                        *)
EFI_SIZE_TO_PAGES_down(size) == size \div PAGE

EFI_SIZE_TO_PAGES(size) == ((size + (PAGE - 1)) % WORD) \div PAGE

AllocatePages ==
  Call("AllocatePages_2", "Read",
       AllocateKernel(machine, EFI_SIZE_TO_PAGES(machine.size) * PAGE))

(* Mutant: boot services are left first and the kernel is read after it.   *)
BootloaderReadKernelLate ==
  \/ Call("Read", "ExitBootServices", [machine EXCEPT !.exited = TRUE])
  \/ Call("ExitBootServices", "KernelEntry", Read(machine))

BootloaderReadKernel == Call("Read", "ExitBootServices", Read(machine))

(* The firmware refuses if MapKey, always 0, is not the key of its map.    *)
ExitBootServices ==
  Call("ExitBootServices", "KernelEntry", [machine EXCEPT !.exited = TRUE])

(* One more message on the console, then the jump.                         *)
KernelEntry ==
  /\ pc = "KernelEntry"
  /\ pc' = "entered"
  /\ machine' = Used("console", machine)
  /\ UNCHANGED <<kernel, status>>

BootloaderNext ==
  \/ BootloaderHandleProtocol \/ BootloaderOpenRoot \/ BootloaderOpenKernel
  \/ BootloaderGetInfoSize \/ AllocateInfo \/ BootloaderGetInfo
  \/ AllocatePages \/ BootloaderReadKernel \/ ExitBootServices \/ KernelEntry
=============================================================================
