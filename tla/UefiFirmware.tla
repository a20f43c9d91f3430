---------------------------- MODULE UefiFirmware ----------------------------
(***************************************************************************)
(* What the three UEFI loaders of FoxOS share: where the loader is in its  *)
(* straight line of calls (pc, the call it makes next), and the machine as *)
(* the calls change it.  The firmware is not part of FoxOS; its services   *)
(* are described as the loaders declare and use them.  Any call may fail   *)
(* and then changes nothing.  Messages on the console are left out, except *)
(* for their use of a service that may be gone.                            *)
(***************************************************************************)
EXTENDS Integers

CONSTANTS
  Sizes,     \* bound: sizes of the kernel file
  Garbage,   \* bound: values of a 64-bit variable nobody has set
  InfoSize,  \* bytes of the record that describes the file
  Times,     \* bound: words at offset 32 of that record, in its creation time
  PAGE,      \* bytes in a page (4096)
  WORD       \* 64-bit arithmetic is modulo WORD

ASSUME UefiAssumption ==
  /\ PAGE \in Nat \ {0} /\ WORD \in Nat /\ InfoSize \in Nat
  /\ Garbage \subseteq Nat
  /\ \A n \in Sizes : n \in Nat \ {0} /\ n + PAGE <= WORD
  /\ \A t \in Times : t \in Nat /\ t + PAGE <= WORD  \* its low half is below 10^9

VARIABLES
  kernel,   \* bytes in the kernel file
  pc,       \* the next call; "entered" (the kernel runs) or "returned"
  status,   \* what UefiMain returned
  machine   \* see Machine

uefiVars == <<kernel, pc, status, machine>>

(* The calls whose outcome some loader does not look at.                   *)
Ignored == {"SetPosition_end", "GetPosition", "SetPosition_0",  \* uefi_loader.c
            "GetInfo", "AllocatePool", "Read"}                  \* foxos_uefi.c

Machine ==
  [open      : SUBSET {"root", "file"},     \* handles not yet closed
   position  : Nat,                         \* in the kernel file
   owned     : SUBSET {"info", "kernel"},   \* memory not yet freed
   room      : Nat,                         \* bytes allocated for the kernel
   size      : Nat,                         \* the loader's variable file_size
   got       : Nat,                         \* bytes of the kernel in memory
   spilled   : BOOLEAN,                     \* a read wrote past its buffer
   exited    : BOOLEAN,                     \* boot services are gone
   late      : SUBSET {"console", "service"},  \* used after that
   unnoticed : SUBSET Ignored]              \* failures nobody looked for

UefiInit ==
  /\ kernel \in Sizes
  /\ pc = "start"
  /\ status = "none"
  /\ \E junk \in Garbage :
       machine = [open |-> {}, position |-> 0, owned |-> {}, room |-> 0, size |-> junk,
                  got |-> 0, spilled |-> FALSE, exited |-> FALSE, late |-> {},
                  unnoticed |-> {}]

-----------------------------------------------------------------------------
(***************************************************************************)
(* The services, as what they make of the machine.                         *)
(***************************************************************************)
OpenVolume(m) == [m EXCEPT !.open = @ \cup {"root"}]

Open(m) == [m EXCEPT !.open = @ \cup {"file"}, !.position = 0]

Close(m, handles) == [m EXCEPT !.open = @ \ handles]

SetPosition(m, to) == [m EXCEPT !.position = to]

AllocateKernel(m, bytes) == [m EXCEPT !.owned = @ \cup {"kernel"}, !.room = bytes]

(* Read copies what is left of the file, at most file_size bytes, and      *)
(* leaves the number of bytes in file_size.                                *)
Read(m) ==
  LET left == kernel - m.position
      n    == IF m.size < left THEN m.size ELSE left
  IN  [m EXCEPT !.position = @ + n, !.size = n, !.got = n,
                !.spilled = @ \/ n > m.room]

Used(service, m) == IF machine.exited THEN [m EXCEPT !.late = @ \cup {service}] ELSE m

-----------------------------------------------------------------------------
(***************************************************************************)
(* The ways a loader goes on after a call.                                 *)
(***************************************************************************)
Go(here, next, m) ==
  /\ pc = here
  /\ pc' = next
  /\ machine' = Used("service", m)
  /\ UNCHANGED <<kernel, status>>

Return(here, s, m) ==
  /\ pc = here
  /\ pc' = "returned"
  /\ status' = s
  /\ machine' = Used("service", m)
  /\ UNCHANGED kernel

(* A call whose failure makes the loader return at once, as it is.         *)
Call(here, next, m) == Go(here, next, m) \/ Return(here, "error", machine)

(* A call whose status is ignored.                                         *)
Blind(here, next, m) ==
  \/ Go(here, next, m)
  \/ Go(here, next, [machine EXCEPT !.unnoticed = @ \cup {here}])
=============================================================================
