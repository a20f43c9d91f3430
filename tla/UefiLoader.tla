----------------------------- MODULE UefiLoader -----------------------------
(***************************************************************************)
(* UefiMain of uefi_loader.c: it loads the kernel and returns; the jump to *)
(* it is still a comment.  The size of the file is found by moving to its  *)
(* end, with three calls whose status is not looked at.                    *)
(***************************************************************************)
EXTENDS UefiFirmware

(* The first call is tested with EFI_ERROR, which looks at the sign alone: *)
(* after a warning the loader goes on as after a success.                  *)
LoaderHandleProtocol ==
  \/ Call("start", "HandleProtocol_2", machine)
  \/ Call("HandleProtocol_2", "OpenVolume", machine)

LoaderOpenRoot == Call("OpenVolume", "Open", OpenVolume(machine))

LoaderOpenKernel ==
  \/ Go("Open", "SetPosition_end", Open(machine))
  \/ Return("Open", "error", Close(machine, {"root"}))

(* Mutant: the position is asked for before it is moved to the end.        *)
LoaderGetSizeEarly ==
  \/ Blind("SetPosition_end", "GetPosition", [machine EXCEPT !.size = machine.position])
  \/ Blind("GetPosition", "SetPosition_0", SetPosition(machine, kernel))
  \/ Blind("SetPosition_0", "AllocatePool", SetPosition(machine, 0))

LoaderGetSize ==
  \/ Blind("SetPosition_end", "GetPosition", SetPosition(machine, kernel))
  \/ Blind("GetPosition", "SetPosition_0", [machine EXCEPT !.size = machine.position])
  \/ Blind("SetPosition_0", "AllocatePool", SetPosition(machine, 0))

LoaderAllocatePool ==
  \/ Go("AllocatePool", "Read", AllocateKernel(machine, machine.size))
  \/ Return("AllocatePool", "error", Close(machine, {"file", "root"}))

FreePool(m) == [m EXCEPT !.owned = @ \ {"kernel"}]

(* Mutant: a short read is not noticed.                                    *)
LoaderReadKernelUnchecked ==
  LET after == Read(machine)
  IN  \/ Return("Read", "error", FreePool(Close(machine, {"file", "root"})))
      \/ Return("Read", "ok", Close(after, {"file", "root"}))

(* On a failed or short read everything is given back, and the status of   *)
(* the call returned: after a short read, that is success.                 *)
LoaderReadKernel ==
  LET after == Read(machine)
  IN  \/ Return("Read", "error", FreePool(Close(machine, {"file", "root"})))
      \/ /\ after.size # machine.size
         /\ Return("Read", "ok", FreePool(Close(after, {"file", "root"})))
      \/ /\ after.size = machine.size
         /\ Return("Read", "ok", Close(after, {"file", "root"}))

LoaderNext ==
  \/ LoaderHandleProtocol \/ LoaderOpenRoot \/ LoaderOpenKernel
  \/ LoaderGetSize \/ LoaderAllocatePool \/ LoaderReadKernel
=============================================================================
