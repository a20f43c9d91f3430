------------------------------ MODULE FoxosUefi ------------------------------
(***************************************************************************)
(* UefiMain of foxos_uefi.c: it asks for the size of the kernel, reads the *)
(* kernel and jumps to it, without looking at the status of any of these   *)
(* calls and without leaving boot services.  GetInfo is called without a   *)
(* buffer and with a size nobody has set: it puts the size of its own      *)
(* record there, not that of the file.                                     *)
(***************************************************************************)
EXTENDS UefiFirmware

LocateProtocol == Call("start", "OpenVolume", machine)

FoxosOpenRoot == Call("OpenVolume", "Open", OpenVolume(machine))

FoxosOpenKernel == Call("Open", "GetInfo", Open(machine))

FoxosGetInfo == Blind("GetInfo", "AllocatePool", [machine EXCEPT !.size = InfoSize])

FoxosAllocatePool ==
  Blind("AllocatePool", "Read", AllocateKernel(machine, machine.size))

(* If the allocation failed the buffer is wherever its variable points.    *)
FoxosReadKernel == Blind("Read", "kernel_entry", Read(machine))

kernel_entry == Go("kernel_entry", "entered", machine)

FoxosNext ==
  \/ LocateProtocol \/ FoxosOpenRoot \/ FoxosOpenKernel \/ FoxosGetInfo
  \/ FoxosAllocatePool \/ FoxosReadKernel \/ kernel_entry
=============================================================================
