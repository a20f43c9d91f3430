----------------------------- MODULE BootProofs -----------------------------
(***************************************************************************)
(* Proofs about the three UEFI loaders, for every size of the kernel file, *)
(* page and word and every content of unset variables.  A loader is a line *)
(* of calls, so its invariant says for each call what is known before it.  *)
(* The BIOS boot loader comes last.                                        *)
(***************************************************************************)
EXTENDS Boot, TLAPS

(* What holds of all of them.                                              *)
MachineOK ==
  /\ machine \in Machine
  /\ kernel \in Nat
  /\ machine.position <= kernel

LoaderInv ==
  /\ ~ machine.exited /\ ~ machine.spilled
  /\ pc # "returned" => status = "none"
  /\ pc # "entered"
  /\ pc \in {"start", "HandleProtocol_2", "OpenVolume"} => machine.open = {}
  /\ pc = "Open" => machine.open = {"root"}
  /\ pc \notin {"Read", "returned"} => machine.owned = {}
  /\ pc = "Read" => machine.room = machine.size /\ machine.owned = {"kernel"}
  /\ machine.unnoticed \cap {"SetPosition_end", "GetPosition"} = {} =>
       /\ pc = "GetPosition" => machine.position = kernel
       /\ pc \in {"SetPosition_0", "AllocatePool", "Read"} => machine.size = kernel
       /\ pc = "returned" /\ machine.owned # {} => machine.got = kernel
  /\ pc = "returned" =>
       /\ machine.open = {}
       /\ machine.owned # {} => status = "ok" /\ machine.got = machine.room

BootloaderInv ==
  /\ machine.exited => pc \in {"KernelEntry", "entered"}
  /\ pc # "entered" => machine.late = {}
  /\ machine.late \subseteq {"console"}
  /\ ~ machine.spilled
  /\ pc = "AllocatePages_2" => machine.size + PAGE <= WORD
  /\ pc = "Read" => machine.room >= machine.size

FoxosInv ==
  /\ ~ machine.exited
  /\ machine.unnoticed \cap {"AllocatePool"} = {} =>
       /\ ~ machine.spilled
       /\ pc = "Read" => machine.room = machine.size

(* The BIOS boot loader leaves all of this alone.                          *)
IdleInv == ~ machine.exited /\ ~ machine.spilled

BootInv ==
  /\ loader \in Loaders /\ kernel \in Sizes
  /\ MachineOK
  /\ loader = "uefi_loader" => LoaderInv
  /\ loader = "uefi_bootloader" => BootloaderInv
  /\ loader = "foxos_uefi" => FoxosInv
  /\ loader = "bios" => IdleInv

(* A page count that does not wrap round covers the bytes it is for.       *)
LEMMA PagesSuffice ==
  ASSUME NEW size \in Nat, size + PAGE <= WORD
  PROVE  /\ EFI_SIZE_TO_PAGES(size) * PAGE \in Nat
         /\ EFI_SIZE_TO_PAGES(size) * PAGE >= size
  <1>1. PAGE \in Nat /\ PAGE > 0 /\ WORD \in Nat
    BY UefiAssumption
  <1> DEFINE a == size + (PAGE - 1)
             q == a \div PAGE
  <1>2. a \in Nat /\ a < WORD /\ WORD > 0
    BY <1>1
  <1>3. EFI_SIZE_TO_PAGES(size) = q
    BY <1>1, <1>2 DEF EFI_SIZE_TO_PAGES
  <1>4. q \in Nat /\ PAGE * q <= a /\ a < PAGE * q + PAGE
    BY <1>1, <1>2
  <1>5. q * PAGE = PAGE * q /\ q * PAGE \in Nat
    BY <1>1, <1>4
  <1>6. size < q * PAGE + 1
    BY <1>1, <1>4, <1>5
  <1> HIDE DEF q
  <1> QED
    BY <1>1, <1>3, <1>5, <1>6

(* Before its first call a loader has taken nothing.                       *)
LEMMA Start == Init => BootInv
  <1> SUFFICES ASSUME Init PROVE BootInv
    OBVIOUS
  <1>1. PICK junk \in Garbage :
          machine = [open |-> {}, position |-> 0, owned |-> {}, room |-> 0, size |-> junk,
                     got |-> 0, spilled |-> FALSE, exited |-> FALSE, late |-> {},
                     unnoticed |-> {}]
    BY Zenon DEF Init, UefiInit
  <1>2. junk \in Nat /\ kernel \in Nat /\ pc = "start" /\ status = "none"
    BY UefiAssumption DEF Init, UefiInit
  <1>3. MachineOK
    BY <1>1, <1>2 DEF MachineOK, Machine
  <1>4. LoaderInv /\ BootloaderInv /\ FoxosInv /\ IdleInv
    BY <1>1, <1>2 DEF LoaderInv, BootloaderInv, FoxosInv, IdleInv
  <1> QED
    BY <1>3, <1>4 DEF BootInv, Init, UefiInit

(* Reading keeps the position in the file and writes past the buffer only  *)
(* if that is smaller than what was asked for.                             *)
LEMMA ReadFacts ==
  ASSUME MachineOK
  PROVE  /\ Read(machine) \in Machine
         /\ Read(machine).position <= kernel
         /\ Read(machine).size = Read(machine).got
         /\ Read(machine).size <= machine.size
         /\ machine.size <= machine.room => Read(machine).spilled = machine.spilled
         /\ machine.size = kernel /\ machine.position = 0 => Read(machine).size = kernel
         /\ \A f \in {"open", "owned", "room", "exited", "late", "unnoticed"} :
              Read(machine)[f] = machine[f]
  <1> DEFINE left == kernel - machine.position
             n    == IF machine.size < left THEN machine.size ELSE left
  <1>1. /\ kernel \in Nat /\ machine.position \in Nat /\ machine.size \in Nat
        /\ machine.room \in Nat /\ machine.position <= kernel /\ machine \in Machine
        /\ machine.spilled \in BOOLEAN
    BY DEF MachineOK, Machine
  <1>2. n \in Nat /\ n <= machine.size /\ machine.position + n <= kernel
    BY <1>1
  <1>3. Read(machine) = [machine EXCEPT !.position = @ + n, !.size = n, !.got = n,
                                        !.spilled = @ \/ n > machine.room]
    BY DEF Read
  <1>4. machine.position + n \in Nat
    BY <1>1, <1>2
  <1>5. (machine.size = kernel /\ machine.position = 0) => n = kernel
    BY <1>1
  <1>6. machine.size <= machine.room => ~ (n > machine.room)
    BY <1>1, <1>2
  <1> HIDE DEF n
  <1>7. /\ Read(machine).position = machine.position + n
        /\ Read(machine).size = n /\ Read(machine).got = n
        /\ Read(machine).spilled = (machine.spilled \/ n > machine.room)
        /\ Read(machine).open = machine.open /\ Read(machine).owned = machine.owned
        /\ Read(machine).room = machine.room /\ Read(machine).exited = machine.exited
        /\ Read(machine).late = machine.late
        /\ Read(machine).unnoticed = machine.unnoticed
    BY <1>1, <1>3 DEF Machine
  <1>8. Read(machine) \in Machine
    BY <1>1, <1>2, <1>3, <1>4, Zenon DEF Machine
  <1>9. machine.size <= machine.room => Read(machine).spilled = machine.spilled
    BY <1>1, <1>6, <1>7
  <1> QED
    BY <1>2, <1>5, <1>7, <1>8, <1>9

(* Opening the kernel file: the position is its start.                     *)
LEMMA OpenFacts ==
  ASSUME NEW m \in Machine
  PROVE  LET o == Open(m)
         IN  /\ o \in Machine
             /\ o.position = 0
             /\ o.owned = m.owned /\ o.room = m.room
             /\ o.size = m.size /\ o.got = m.got /\ o.spilled = m.spilled
             /\ o.exited = m.exited /\ o.late = m.late /\ o.unnoticed = m.unnoticed
  BY Zenon DEF Open, Machine

(* Allocating memory for the kernel.                                       *)
LEMMA AllocateFacts ==
  ASSUME NEW m \in Machine, NEW bytes \in Nat
  PROVE  LET a == AllocateKernel(m, bytes)
         IN  /\ a \in Machine
             /\ a.room = bytes /\ a.owned = m.owned \cup {"kernel"}
             /\ a.open = m.open /\ a.position = m.position
             /\ a.size = m.size /\ a.got = m.got /\ a.spilled = m.spilled
             /\ a.exited = m.exited /\ a.late = m.late /\ a.unnoticed = m.unnoticed
  BY Zenon DEF AllocateKernel, Machine

(* Giving back handles and memory, and nothing else.                       *)
LEMMA CloseFacts ==
  ASSUME NEW m \in Machine, NEW handles
  PROVE  LET c == Close(m, handles)
         IN  /\ c \in Machine
             /\ c.open = m.open \ handles
             /\ c.position = m.position /\ c.owned = m.owned /\ c.room = m.room
             /\ c.size = m.size /\ c.got = m.got /\ c.spilled = m.spilled
             /\ c.exited = m.exited /\ c.late = m.late /\ c.unnoticed = m.unnoticed
  BY DEF Close, Machine

(* What FreePool changes, and what it leaves.                              *)
LEMMA FreePoolFacts ==
  ASSUME NEW m \in Machine
  PROVE  LET f == FreePool(m)
         IN  /\ f \in Machine
             /\ f.owned = m.owned \ {"kernel"}
             /\ f.position = m.position /\ f.open = m.open /\ f.room = m.room
             /\ f.size = m.size /\ f.got = m.got /\ f.spilled = m.spilled
             /\ f.exited = m.exited /\ f.late = m.late /\ f.unnoticed = m.unnoticed
  BY DEF FreePool, Machine

(* Each call of uefi_loader.c.                                             *)
LEMMA LoaderStep ==
  ASSUME MachineOK, LoaderInv, LoaderNext
  PROVE  MachineOK' /\ LoaderInv'
  <1> USE DEF MachineOK, LoaderInv, Machine
  <1>1. \A m : Used("service", m) = m
    BY DEF Used
  <1>2. kernel' = kernel
    BY DEF LoaderNext, LoaderHandleProtocol, LoaderOpenRoot, LoaderOpenKernel,
           LoaderGetSize, LoaderAllocatePool, LoaderReadKernel,
           Blind, Call, Go, Return
  <1>a. machine.open \ {"file", "root"} = {} /\ machine.owned \ {"kernel"} \subseteq {"info"}
    OBVIOUS
  <1>3. CASE LoaderHandleProtocol
    BY <1>1, <1>2, <1>3 DEF LoaderHandleProtocol, Call, Go, Return
  <1>4. CASE LoaderOpenRoot
    BY <1>1, <1>2, <1>4 DEF LoaderOpenRoot, Call, Go, Return, OpenVolume
  <1>5. CASE LoaderOpenKernel
    <2>1. CASE Go("Open", "SetPosition_end", Open(machine))
      <3>1. /\ pc = "Open" /\ pc' = "SetPosition_end" /\ status' = status
            /\ machine' = Open(machine)
        BY <1>1, <2>1 DEF Go
      <3> QED
        BY <1>2, <3>1, OpenFacts
    <2>2. CASE Return("Open", "error", Close(machine, {"root"}))
      <3>1. /\ pc = "Open" /\ pc' = "returned" /\ status' = "error"
            /\ machine' = Close(machine, {"root"})
        BY <1>1, <2>2 DEF Return
      <3>2. machine.open \ {"root"} = {} /\ machine.owned = {}
        BY <3>1
      <3> QED
        BY <1>2, <3>1, <3>2, CloseFacts
    <2> QED
      BY <1>5, <2>1, <2>2 DEF LoaderOpenKernel
  <1>6. CASE LoaderGetSize
    <2>1. CASE Blind("SetPosition_end", "GetPosition", SetPosition(machine, kernel))
      BY <1>1, <1>2, <2>1 DEF Blind, Go, SetPosition, Ignored
    <2>2. CASE Blind("GetPosition", "SetPosition_0", [machine EXCEPT !.size = machine.position])
      BY <1>1, <1>2, <2>2 DEF Blind, Go, Ignored
    <2>3. CASE Blind("SetPosition_0", "AllocatePool", SetPosition(machine, 0))
      BY <1>1, <1>2, <2>3 DEF Blind, Go, SetPosition, Ignored
    <2> QED
      BY <1>6, <2>1, <2>2, <2>3 DEF LoaderGetSize
  <1>7. CASE LoaderAllocatePool
    <2>1. CASE Go("AllocatePool", "Read", AllocateKernel(machine, machine.size))
      <3>1. /\ pc = "AllocatePool" /\ pc' = "Read" /\ status' = status
            /\ machine' = AllocateKernel(machine, machine.size)
        BY <1>1, <2>1 DEF Go
      <3>2. machine.owned = {}
        BY <3>1
      <3> QED
        BY <1>2, <3>1, <3>2, AllocateFacts
    <2>2. CASE Return("AllocatePool", "error", Close(machine, {"file", "root"}))
      <3>1. /\ pc = "AllocatePool" /\ pc' = "returned" /\ status' = "error"
            /\ machine' = Close(machine, {"file", "root"})
        BY <1>1, <2>2 DEF Return
      <3> QED
        BY <1>2, <1>a, <3>1, CloseFacts
    <2> QED
      BY <1>7, <2>1, <2>2 DEF LoaderAllocatePool
  <1>8. CASE LoaderReadKernel
    <2> DEFINE after == Read(machine)
    <2>1. /\ pc = "Read" /\ pc' = "returned"
          /\ machine.room = machine.size /\ machine.owned = {"kernel"}
      BY <1>8 DEF LoaderReadKernel, Return
    <2>2. /\ after \in Machine /\ after.position <= kernel /\ after.size = after.got
          /\ after.spilled = machine.spilled
          /\ machine.size = kernel /\ machine.position = 0 => after.size = kernel
          /\ after.open = machine.open /\ after.owned = machine.owned
          /\ after.room = machine.room /\ after.exited = machine.exited
          /\ after.unnoticed = machine.unnoticed
      BY <2>1, ReadFacts
    <2> HIDE DEF after
    <2>3. CASE Return("Read", "error", FreePool(Close(machine, {"file", "root"})))
      <3>1. /\ status' = "error"
            /\ machine' = FreePool(Close(machine, {"file", "root"}))
        BY <1>1, <2>3 DEF Return
      <3>2. /\ machine' \in Machine /\ machine'.open = {} /\ machine'.owned = {}
            /\ machine'.position = machine.position
            /\ ~ machine'.spilled /\ ~ machine'.exited
        BY <1>a, <2>1, <3>1, CloseFacts, FreePoolFacts
      <3> QED
        BY <1>2, <2>1, <3>1, <3>2
    <2>4. CASE /\ after.size # machine.size
               /\ Return("Read", "ok", FreePool(Close(after, {"file", "root"})))
      <3>1. /\ status' = "ok"
            /\ machine' = FreePool(Close(after, {"file", "root"}))
        BY <1>1, <2>4 DEF Return
      <3>2. /\ machine' \in Machine /\ machine'.open = {} /\ machine'.owned = {}
            /\ machine'.position = after.position
            /\ machine'.unnoticed = machine.unnoticed
            /\ ~ machine'.spilled /\ ~ machine'.exited
        BY <1>a, <2>1, <2>2, <3>1, CloseFacts, FreePoolFacts
      <3> QED
        BY <1>2, <2>1, <2>2, <3>1, <3>2
    <2>5. CASE /\ after.size = machine.size
               /\ Return("Read", "ok", Close(after, {"file", "root"}))
      <3>1. status' = "ok" /\ machine' = Close(after, {"file", "root"})
        BY <1>1, <2>5 DEF Return
      <3>2. /\ machine' \in Machine
            /\ machine'.open = after.open \ {"file", "root"}
            /\ machine'.position = after.position
            /\ machine'.unnoticed = after.unnoticed
            /\ machine'.got = after.got /\ machine'.room = after.room
            /\ machine'.spilled = after.spilled /\ machine'.exited = after.exited
        BY <2>2, <3>1, CloseFacts
      <3>3. /\ machine' \in Machine /\ machine'.open = {}
            /\ machine'.position = after.position
            /\ machine'.unnoticed = machine.unnoticed
            /\ machine'.got = machine.size /\ machine'.room = machine.room
            /\ ~ machine'.spilled /\ ~ machine'.exited
        BY <1>a, <2>1, <2>2, <2>5, <3>2, Zenon
      <3>4. machine.unnoticed \cap {"SetPosition_end", "GetPosition"} = {}
              => machine.size = kernel
        BY <2>1
      <3> QED
        BY <1>2, <2>1, <2>2, <3>1, <3>3, <3>4
    <2> QED
      BY <1>8, <2>3, <2>4, <2>5 DEF LoaderReadKernel, after
  <1> QED
    BY <1>3, <1>4, <1>5, <1>6, <1>7, <1>8 DEF LoaderNext

(* Each call of uefi_bootloader.c.                                         *)
LEMMA BootloaderStep ==
  ASSUME MachineOK, BootloaderInv, BootloaderNext
  PROVE  MachineOK' /\ BootloaderInv'
  <1> USE DEF MachineOK, BootloaderInv, Machine
  <1>1. ~ machine.exited => \A m : Used("service", m) = m
    BY DEF Used
  <1>2. kernel' = kernel
    BY Zenon DEF BootloaderNext, BootloaderHandleProtocol, BootloaderOpenRoot,
           BootloaderOpenKernel, BootloaderGetInfoSize, AllocateInfo,
           BootloaderGetInfo, AllocatePages, BootloaderReadKernel,
           ExitBootServices, KernelEntry, Call, Go, Return
  <1>3. CASE BootloaderHandleProtocol
    BY <1>1, <1>2, <1>3 DEF BootloaderHandleProtocol, Call, Go, Return
  <1>4. CASE BootloaderOpenRoot
    BY <1>1, <1>2, <1>4 DEF BootloaderOpenRoot, Call, Go, Return, OpenVolume
  <1>5. CASE BootloaderOpenKernel
    <2>1. CASE Go("Open", "GetInfo_1", Open(machine))
      <3>1. pc = "Open" /\ pc' = "GetInfo_1" /\ machine' = Open(machine)
        BY <1>1, <2>1 DEF Go
      <3> QED
        BY <1>2, <3>1, OpenFacts
    <2>2. CASE Return("Open", "error", machine)
      BY <1>1, <1>2, <2>2 DEF Return
    <2> QED
      BY <1>5, <2>1, <2>2 DEF BootloaderOpenKernel, Call
  <1>6. CASE BootloaderGetInfoSize
    BY <1>1, <1>2, <1>6 DEF BootloaderGetInfoSize, Call, Go, Return
  <1>7. CASE AllocateInfo
    BY <1>1, <1>2, <1>7 DEF AllocateInfo, Call, Go, Return
  <1>8. CASE BootloaderGetInfo
    <2>1. PICK word \in Times :
            Call("GetInfo_2", "AllocatePages_2", [machine EXCEPT !.size = word])
      BY <1>8, Zenon DEF BootloaderGetInfo
    <2>2. word \in Nat /\ word + PAGE <= WORD
      BY UefiAssumption
    <2> QED
      BY <1>1, <1>2, <2>1, <2>2 DEF Call, Go, Return
  <1>9. CASE AllocatePages
    <2> DEFINE bytes == EFI_SIZE_TO_PAGES(machine.size) * PAGE
    <2>1. CASE Return("AllocatePages_2", "error", machine)
      BY <1>1, <1>2, <2>1 DEF Return
    <2>2. CASE Go("AllocatePages_2", "Read", AllocateKernel(machine, bytes))
      <3>1. machine.size + PAGE <= WORD
        BY <2>2 DEF Go
      <3>2. machine.size \in Nat
        OBVIOUS
      <3>3. bytes \in Nat /\ bytes >= machine.size
        BY <3>1, <3>2, PagesSuffice
      <3> HIDE DEF bytes
      <3>4. /\ pc = "AllocatePages_2" /\ pc' = "Read"
            /\ machine' = AllocateKernel(machine, bytes)
        BY <1>1, <2>2 DEF Go
      <3> QED
        BY <1>2, <3>3, <3>4, AllocateFacts
    <2> QED
      BY <1>9, <2>1, <2>2 DEF AllocatePages, Call
  <1>10. CASE BootloaderReadKernel
    <2> DEFINE after == Read(machine)
    <2>1. /\ after \in Machine /\ after.position <= kernel /\ after.size = after.got
          /\ machine.size <= machine.room => after.spilled = machine.spilled
          /\ after.exited = machine.exited /\ after.late = machine.late
      BY ReadFacts
    <2> HIDE DEF after
    <2>2. CASE Go("Read", "ExitBootServices", after)
      <3>1. /\ pc = "Read" /\ pc' = "ExitBootServices" /\ machine' = after
        BY <1>1, <2>2 DEF Go
      <3>2. ~ after.spilled
        BY <2>1, <3>1
      <3> QED
        BY <1>2, <2>1, <3>1, <3>2
    <2>3. CASE Return("Read", "error", machine)
      BY <1>1, <1>2, <2>3 DEF Return
    <2> QED
      BY <1>10, <2>2, <2>3 DEF BootloaderReadKernel, Call, after
  <1>11. CASE ExitBootServices
    <2>1. CASE Go("ExitBootServices", "KernelEntry", [machine EXCEPT !.exited = TRUE])
      <3>1. /\ pc = "ExitBootServices" /\ pc' = "KernelEntry"
            /\ machine' = [machine EXCEPT !.exited = TRUE]
        BY <1>1, <2>1 DEF Go
      <3>2. /\ machine' \in Machine
            /\ machine'.position = machine.position /\ machine'.late = machine.late
            /\ machine'.spilled = machine.spilled
        BY <3>1, Zenon
      <3> QED
        BY <1>2, <3>1, <3>2
    <2>2. CASE Return("ExitBootServices", "error", machine)
      BY <1>1, <1>2, <2>2 DEF Return
    <2> QED
      BY <1>11, <2>1, <2>2 DEF ExitBootServices, Call
  <1>12. CASE KernelEntry
    BY <1>2, <1>12 DEF KernelEntry, Used
  <1> QED
    BY <1>3, <1>4, <1>5, <1>6, <1>7, <1>8, <1>9, <1>10, <1>11, <1>12
       DEF BootloaderNext

(* Each call of foxos_uefi.c.                                              *)
LEMMA FoxosStep ==
  ASSUME MachineOK, FoxosInv, FoxosNext
  PROVE  MachineOK' /\ FoxosInv'
  <1> USE DEF MachineOK, FoxosInv, Machine
  <1>1. \A m : Used("service", m) = m
    BY DEF Used
  <1>2. kernel' = kernel
    BY DEF FoxosNext, LocateProtocol, FoxosOpenRoot, FoxosOpenKernel, FoxosGetInfo,
           FoxosAllocatePool, FoxosReadKernel, kernel_entry, Blind, Call, Go, Return
  <1>3. CASE LocateProtocol
    BY <1>1, <1>2, <1>3 DEF LocateProtocol, Call, Go, Return
  <1>4. CASE FoxosOpenRoot
    BY <1>1, <1>2, <1>4 DEF FoxosOpenRoot, Call, Go, Return, OpenVolume
  <1>5. CASE FoxosOpenKernel
    <2>1. CASE Go("Open", "GetInfo", Open(machine))
      <3>1. pc' = "GetInfo" /\ machine' = Open(machine)
        BY <1>1, <2>1 DEF Go
      <3> QED
        BY <1>2, <3>1, OpenFacts
    <2>2. CASE Return("Open", "error", machine)
      BY <1>1, <1>2, <2>2 DEF Return
    <2> QED
      BY <1>5, <2>1, <2>2 DEF FoxosOpenKernel, Call
  <1>6. CASE FoxosGetInfo
    <2>1. InfoSize \in Nat
      BY UefiAssumption
    <2> QED
      BY <1>1, <1>2, <1>6, <2>1 DEF FoxosGetInfo, Blind, Go, Ignored
  <1>7. CASE FoxosAllocatePool
    <2>1. CASE Go("AllocatePool", "Read", AllocateKernel(machine, machine.size))
      <3>1. pc' = "Read" /\ machine' = AllocateKernel(machine, machine.size)
        BY <1>1, <2>1 DEF Go
      <3> QED
        BY <1>2, <3>1, AllocateFacts
    <2>2. CASE Go("AllocatePool", "Read",
                  [machine EXCEPT !.unnoticed = @ \cup {"AllocatePool"}])
      <3>1. machine' = [machine EXCEPT !.unnoticed = @ \cup {"AllocatePool"}]
        BY <1>1, <2>2 DEF Go
      <3>2. machine' \in Machine
        BY <3>1 DEF Ignored
      <3>3. /\ machine'.position = machine.position /\ machine'.exited = machine.exited
            /\ machine'.unnoticed = machine.unnoticed \cup {"AllocatePool"}
        BY <3>1
      <3> QED
        BY <1>2, <3>2, <3>3
    <2> QED
      BY <1>7, <2>1, <2>2 DEF FoxosAllocatePool, Blind
  <1>8. CASE FoxosReadKernel
    <2> DEFINE after == Read(machine)
    <2>1. /\ after \in Machine /\ after.position <= kernel
          /\ machine.size <= machine.room => after.spilled = machine.spilled
          /\ after.exited = machine.exited /\ after.unnoticed = machine.unnoticed
      BY ReadFacts
    <2> HIDE DEF after
    <2>2. CASE Go("Read", "kernel_entry", after)
      BY <1>1, <1>2, <2>1, <2>2 DEF Go
    <2>3. CASE Go("Read", "kernel_entry", [machine EXCEPT !.unnoticed = @ \cup {"Read"}])
      BY <1>1, <1>2, <2>3 DEF Go, Ignored
    <2> QED
      BY <1>8, <2>2, <2>3 DEF FoxosReadKernel, Blind, after
  <1>9. CASE kernel_entry
    BY <1>1, <1>2, <1>9 DEF kernel_entry, Go
  <1> QED
    BY <1>3, <1>4, <1>5, <1>6, <1>7, <1>8, <1>9 DEF FoxosNext

(* The BIOS boot loader, and a machine that stands still.                  *)
LEMMA IdleStep ==
  ASSUME BootInv, UNCHANGED <<loader, uefiVars>>
  PROVE  BootInv'
  <1>1. UNCHANGED <<kernel, pc, status, machine, loader>>
    BY DEF uefiVars
  <1>2. MachineOK' = MachineOK
    BY <1>1 DEF MachineOK
  <1>3. LoaderInv' = LoaderInv
    BY <1>1 DEF LoaderInv
  <1>4. BootloaderInv' = BootloaderInv
    BY <1>1 DEF BootloaderInv
  <1>5. FoxosInv' = FoxosInv /\ IdleInv' = IdleInv
    BY <1>1 DEF FoxosInv, IdleInv
  <1> QED
    BY <1>1, <1>2, <1>3, <1>4, <1>5 DEF BootInv

(* What is known before every call of every loader.                        *)
THEOREM BootInvariant == Spec => []BootInv
  <1>1. BootInv /\ [Next]_bootVars => BootInv'
    <2> SUFFICES ASSUME BootInv, [Next]_bootVars PROVE BootInv'
      OBVIOUS
    <2>1. CASE loader = "uefi_bootloader" /\ BootloaderNext /\ UNCHANGED loader
      <3>1. MachineOK' /\ BootloaderInv'
        BY <2>1, BootloaderStep DEF BootInv
      <3>2. kernel' = kernel
        BY <2>1, Zenon DEF BootloaderNext, BootloaderHandleProtocol, BootloaderOpenRoot,
                    BootloaderOpenKernel, BootloaderGetInfoSize, AllocateInfo,
                    BootloaderGetInfo, AllocatePages, BootloaderReadKernel,
                    ExitBootServices, KernelEntry, Call, Go, Return
      <3> QED
        BY <2>1, <3>1, <3>2 DEF BootInv
    <2>2. CASE loader = "uefi_loader" /\ LoaderNext /\ UNCHANGED loader
      <3>1. MachineOK' /\ LoaderInv'
        BY <2>2, LoaderStep DEF BootInv
      <3>2. kernel' = kernel
        BY <2>2 DEF LoaderNext, LoaderHandleProtocol, LoaderOpenRoot, LoaderOpenKernel,
                    LoaderGetSize, LoaderAllocatePool, LoaderReadKernel,
                    Blind, Call, Go, Return
      <3> QED
        BY <2>2, <3>1, <3>2 DEF BootInv
    <2>3. CASE loader = "foxos_uefi" /\ FoxosNext /\ UNCHANGED loader
      <3>1. MachineOK' /\ FoxosInv'
        BY <2>3, FoxosStep DEF BootInv
      <3>2. kernel' = kernel
        BY <2>3 DEF FoxosNext, LocateProtocol, FoxosOpenRoot, FoxosOpenKernel,
                    FoxosGetInfo, FoxosAllocatePool, FoxosReadKernel, kernel_entry,
                    Blind, Call, Go, Return
      <3> QED
        BY <2>3, <3>1, <3>2 DEF BootInv
    <2>4. CASE UNCHANGED <<loader, uefiVars>>
      BY <2>4, IdleStep
    <2> QED
      BY <2>1, <2>2, <2>3, <2>4 DEF Next, bootVars
  <1> QED
    BY <1>1, Start, PTL DEF Spec

(* uefi_loader.c gives back every handle and every buffer on every path,   *)
(* whichever of its calls fail.                                            *)
THEOREM NothingIsLeft == Spec => []NothingLeft
  <1>1. BootInv => NothingLeft
    BY DEF BootInv, LoaderInv, NothingLeft
  <1> QED
    BY <1>1, BootInvariant, PTL

(* A kernel that uefi_loader.c keeps is complete, whatever its size, when  *)
(* its size could be found out; a rewind that fails does not matter.       *)
THEOREM KernelIsWhole == Spec => []WholeKernel
  <1>1. BootInv => WholeKernel
    BY DEF BootInv, LoaderInv, WholeKernel
  <1> QED
    BY <1>1, BootInvariant, PTL

(* No read leaves its buffer, whatever number stands for the size, but for *)
(* the allocation that foxos_uefi.c did not test.                          *)
THEOREM ReadsAlwaysFit == Spec => []ReadsFit
  <1>1. BootInv => ReadsFit
    <2> SUFFICES ASSUME BootInv, machine.spilled
                 PROVE  "AllocatePool" \in machine.unnoticed
      BY DEF ReadsFit
    <2>1. loader = "foxos_uefi"
      BY DEF Loaders, BootInv, LoaderInv, BootloaderInv, IdleInv
    <2> QED
      BY <2>1 DEF BootInv, FoxosInv
  <1> QED
    BY <1>1, BootInvariant, PTL

(* After boot services are gone uefi_bootloader.c uses nothing but the     *)
(* console, and never returns.                                             *)
THEOREM ExitIsAlwaysLast == Spec => []ExitIsLast
  <1>1. BootInv => ExitIsLast
    <2> SUFFICES ASSUME BootInv, machine.exited
                 PROVE  /\ machine.late \subseteq {"console"}
                        /\ pc \in {"KernelEntry", "entered"}
      BY DEF ExitIsLast
    <2>1. loader = "uefi_bootloader"
      BY DEF Loaders, BootInv, LoaderInv, FoxosInv, IdleInv
    <2> QED
      BY <2>1 DEF BootInv, BootloaderInv
  <1> QED
    BY <1>1, BootInvariant, PTL

-----------------------------------------------------------------------------
(***************************************************************************)
(* The BIOS boot loader.                                                   *)
(***************************************************************************)

(* What is where after each step, the kernel being followed from where it  *)
(* is read to where it is copied.                                          *)
BiosInv ==
  /\ step \in {"stage 1", "hung", "stage 2", "astray", "protected mode", "copy", "tables",
               "long mode", "reset", "jump", "kernel"}
  /\ length \in 1 .. 8
  /\ step \notin {"stage 1", "hung"} => \A f \in CodeFrames : frames[f] = Code
  /\ step \in {"protected mode", "copy"} =>
       \A k \in 0 .. 3 : k < length => frames[Loaded + k] = Part(k)
  /\ step \in {"tables", "long mode", "jump", "kernel"} =>
       \A k \in 0 .. 3 : k < length => frames[Final + k] = Part(k)
  /\ step \in {"long mode", "jump", "kernel"} => \A f \in TableFrames : frames[f] = Table
  /\ step \in {"jump", "kernel"} => mode = 64

(* Which of the areas the loader uses overlap, at the addresses of the     *)
(* source.                                                                 *)
LEMMA Areas ==
  /\ \A f \in CodeFrames :
       /\ f \in Frames /\ f \in ImageFrames /\ f \notin LoadFrames /\ f \notin TableFrames
       /\ f \notin {Final + k : k \in CopiedFrames}
  /\ \A f \in TableFrames : f \in Frames
  /\ \A k \in 0 .. 3 :
       /\ Loaded + k \in Frames /\ Loaded + k \in LoadFrames /\ (Loaded + k) - Loaded = k
       /\ Final + k \in Frames /\ Final + k \notin TableFrames
       /\ Final + k \in {Final + i : i \in CopiedFrames}
       /\ (Final + k) - Final + Loaded = Loaded + k
BY DEF CodeFrames, Frames, ImageFrames, LoadFrames, TableFrames, CopiedFrames, Loaded, Final

(* No step of either stage overwrites what a later one needs.              *)
LEMMA BiosStep ==
  ASSUME BiosInv, BiosNext
  PROVE  BiosInv'
<1>1. CASE LoadStage2
  <2>1. CASE step' = "hung"
    BY <1>1, <2>1, Zenon DEF LoadStage2, BiosInv
  <2>2. CASE step' = "stage 2"
    <3>1. frames' = [f \in Frames |->
                       IF f \in ImageFrames THEN IF f \in CodeFrames THEN Code ELSE Padding
                       ELSE frames[f]]
      BY <1>1, <2>2, Zenon DEF LoadStage2, Fill
    <3>2. \A f \in CodeFrames : frames'[f] = Code
      BY <3>1, Areas, Zenon
    <3> QED BY <1>1, <2>2, <3>2, Zenon DEF LoadStage2, BiosInv
  <2> QED BY <1>1, <2>1, <2>2, Zenon DEF LoadStage2
<1>2. CASE LoadKernel
  <2>1. CASE step' = "astray"
    BY <1>2, <2>1, Zenon DEF LoadKernel, BiosInv
  <2>2. CASE step' = "protected mode"
    <3>1. frames' = [f \in Frames |->
                       IF f \in LoadFrames
                       THEN IF f - Loaded < length THEN Part(f - Loaded) ELSE Padding
                       ELSE frames[f]]
      BY <1>2, <2>2, Zenon DEF LoadKernel, Fill
    <3>2. \A f \in CodeFrames : frames[f] = Code
      BY <1>2, Zenon DEF LoadKernel, BiosInv
    <3>3. \A f \in CodeFrames : frames'[f] = Code
      BY <3>1, <3>2, Areas, Zenon
    <3>4. ASSUME NEW k \in 0 .. 3, k < length PROVE frames'[Loaded + k] = Part(k)
      <4>1. (Loaded + k) - Loaded = k
        BY Areas
      <4>2. frames'[Loaded + k] = IF (Loaded + k) - Loaded < length
                                 THEN Part((Loaded + k) - Loaded) ELSE Padding
        BY <3>1, Areas, Zenon
      <4> QED BY <3>4, <4>1, <4>2, Zenon
    <3> QED BY <1>2, <2>2, <3>3, <3>4, Zenon DEF LoadKernel, BiosInv
  <2> QED BY <1>2, <2>1, <2>2, Zenon DEF LoadKernel
<1>3. CASE ProtectedMode
  BY <1>3, Zenon DEF ProtectedMode, BiosInv
<1>4. CASE CopyKernel
  <2>1. frames' = [f \in Frames |->
                     IF f \in {Final + k : k \in CopiedFrames} THEN frames[f - Final + Loaded]
                     ELSE frames[f]]
    BY <1>4 DEF CopyKernel, Fill
  <2>2. /\ \A f \in CodeFrames : frames[f] = Code
        /\ \A k \in 0 .. 3 : k < length => frames[Loaded + k] = Part(k)
    BY <1>4 DEF CopyKernel, BiosInv
  <2>3. \A f \in CodeFrames : frames'[f] = Code
    BY <2>1, <2>2, Areas, Zenon
  <2>4. \A k \in 0 .. 3 : k < length => frames'[Final + k] = Part(k)
    BY <2>1, <2>2, Areas, Zenon
  <2> QED BY <1>4, <2>3, <2>4 DEF CopyKernel, BiosInv
<1>5. CASE MapMemory
  <2>1. frames' = [f \in Frames |-> IF f \in TableFrames THEN Table ELSE frames[f]]
    BY <1>5, Zenon DEF MapMemory, Fill
  <2>2. /\ \A f \in CodeFrames : frames[f] = Code
        /\ \A k \in 0 .. 3 : k < length => frames[Final + k] = Part(k)
    BY <1>5, Zenon DEF MapMemory, BiosInv
  <2>3. \A f \in CodeFrames : frames'[f] = Code
    BY <2>1, <2>2, Areas, Zenon
  <2>4. \A f \in TableFrames : frames'[f] = Table
    BY <2>1, Areas, Zenon
  <2>5. \A k \in 0 .. 3 : k < length => frames'[Final + k] = Part(k)
    BY <2>1, <2>2, Areas, Zenon
  <2> QED BY <1>5, <2>3, <2>4, <2>5, Zenon DEF MapMemory, BiosInv
<1>6. CASE LongMode
  BY <1>6, Zenon DEF LongMode, BiosInv
<1>7. CASE JumpToKernel
  BY <1>7 DEF JumpToKernel, BiosInv
<1> QED BY <1>1, <1>2, <1>3, <1>4, <1>5, <1>6, <1>7 DEF BiosNext

(* The frames the boot loader reads, copies and fills do not overlap in a  *)
(* way that harms it: its code survives every step, and the tables and the *)
(* kernel are in place when it jumps.                                      *)
THEOREM LoaderSpared == Spec => []LoaderSparesItself
<1>1. Init => BiosInv
  BY Zenon DEF Init, BiosInit, BiosInv
<1>2. BiosInv /\ [Next]_bootVars => BiosInv'
  <2> SUFFICES ASSUME BiosInv, [Next]_bootVars PROVE BiosInv'
    OBVIOUS
  <2>1. CASE BiosNext
    BY <2>1, BiosStep
  <2>2. CASE UNCHANGED biosVars
    BY <2>2, Zenon DEF biosVars, BiosInv
  <2> QED BY <2>1, <2>2 DEF Next, bootVars
<1>3. BiosInv => LoaderSparesItself
  BY Zenon DEF BiosInv, LoaderSparesItself
<1> QED BY <1>1, <1>2, <1>3, PTL DEF Spec
=============================================================================
