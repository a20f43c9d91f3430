------------------------------ MODULE Keyboard ------------------------------
(***************************************************************************)
(* The keyboard driver of FoxOS (src/keyboard.c) and the controller it     *)
(* polls.  There are no interrupts: keys are pressed, released and         *)
(* repeated whenever they like, their scan codes queue up in the           *)
(* controller, and the kernel reads port 0x60 in a loop.                   *)
(*                                                                         *)
(* keyboard_wait tests bit 1 of the status port, which says that the       *)
(* controller is still busy with a command; the kernel sends none, so it   *)
(* never waits.  In particular it does not wait for a scan code, and a     *)
(* read of the empty controller returns the last byte once more (latch).   *)
(*                                                                         *)
(* Two things a real keyboard does are left out.  Around an arrow pressed  *)
(* while shift is held it may send a release and a press of shift that     *)
(* nobody made (0xE0 0xAA, 0xE0 0x2A), which the driver would believe.     *)
(* And the keys of the numeric pad send the codes of the arrows without    *)
(* the prefix: the driver, which skips the prefix, takes both for one key. *)
(***************************************************************************)
EXTENDS Integers, Sequences, FiniteSetsExt

CONSTANTS
  Letters,         \* keys with two characters, with and without shift
  Arrows,          \* keys that send the prefix 0xE0 before each of their codes
  Mutes,           \* keys without a character (control, alt, ...)
  LSHIFT, RSHIFT,
  Prefix,          \* the byte 0xE0: has the release bit, belongs to no key
  NoKey,           \* scan code 0
  FifoSize,        \* scan codes the controller holds
  Lossy,           \* bound: if FALSE, nobody types into a full controller
  Used,            \* bound: the keys that are ever pressed
  MaxOwed          \* bound: presses not yet returned

Shifts == {LSHIFT, RSHIFT}
CharKeys == Letters \cup Arrows
Keys == CharKeys \cup Mutes \cup Shifts

ASSUME KeyboardAssumption ==
  /\ LSHIFT # RSHIFT /\ Letters \cap Arrows = {}
  /\ (CharKeys \cup Mutes) \cap (Shifts \cup {Prefix, NoKey}) = {}
  /\ Prefix # NoKey /\ Shifts \cap {Prefix, NoKey} = {}
  /\ FifoSize \in Nat \ {0} /\ MaxOwed \in Nat
  /\ Lossy \in BOOLEAN /\ Used \subseteq Keys

VARIABLES
  down,           \* keys that are physically held
  repeating,      \* the key the keyboard repeats: the last one pressed, or NoKey
  fifo,           \* scan codes waiting in the controller
  latch,          \* the byte port 0x60 returned last
  inits,          \* finished calls of keyboard_init (the kernel makes two)
  shift_pressed,
  last_scancode,
  key_held,
  owed,           \* history: characters that are due and not yet returned
  early,          \* history: keys that were sending when the polling began and
                  \* may show up without having been pressed since
  flaws,          \* history: what was wrong with characters returned so far
  muddled,        \* history: shift was held early, or both shifts at once
  lost            \* history: the controller dropped a scan code

hardware == <<down, repeating, fifo, latch>>
driver   == <<shift_pressed, last_scancode, key_held>>
history  == <<owed, early, flaws>>
vars     == <<hardware, driver, history, inits, muddled, lost>>

Make(key)  == [key |-> key, up |-> FALSE]
Break(key) == [key |-> key, up |-> TRUE]
Byte == [key : Keys \cup {Prefix, NoKey}, up : BOOLEAN]

(* The kernel polls once both calls of keyboard_init have returned.        *)
Polling == inits = 2

(* The bytes a key sends when it goes down (or repeats) and up.            *)
Codes(key, byte) == IF key \in Arrows THEN <<Break(Prefix), byte>> ELSE <<byte>>

-----------------------------------------------------------------------------
(***************************************************************************)
(* The user and the controller.                                            *)
(***************************************************************************)
Send(bytes) ==
  LET room == FifoSize - Len(fifo)
  IN  /\ Lossy \/ Len(bytes) <= room
      /\ fifo' = fifo \o SubSeq(bytes, 1, IF Len(bytes) < room THEN Len(bytes) ELSE room)
      /\ lost' = (lost \/ Len(bytes) > room)
      /\ UNCHANGED latch

(* The character a user expects of the key.                                *)
Due(key) == [key |-> key, shifted |-> key \in Letters /\ down \cap Shifts # {}]

(* What a key sends buries the last byte the port repeated, so that an     *)
(* early key shows up only if it is the one that repeats; and the first    *)
(* repeat of an early key makes its character due.                         *)
Press(key) ==
  /\ key \notin down
  /\ down' = down \cup {key}
  /\ repeating' = key
  /\ Send(Codes(key, Make(key)))
  /\ muddled' = (muddled \/ (Polling /\ Shifts \subseteq down'))
  /\ IF Polling /\ key \in CharKeys
     THEN /\ Len(owed) < MaxOwed
          /\ owed' = Append(owed, Due(key))
     ELSE UNCHANGED owed
  /\ early' = {}
  /\ UNCHANGED <<driver, inits, flaws>>

Release(key) ==
  /\ key \in down
  /\ down' = down \ {key}
  /\ repeating' = IF repeating = key THEN NoKey ELSE repeating
  /\ Send(Codes(key, Break(key)))
  /\ early' = early \cap {repeating'}
  /\ UNCHANGED <<driver, owed, flaws, inits, muddled>>

Repeat ==
  /\ repeating # NoKey
  /\ Send(Codes(repeating, Make(repeating)))
  /\ IF Polling /\ repeating \in early
     THEN owed' = Append(owed, Due(repeating))
     ELSE UNCHANGED owed
  /\ early' = {}
  /\ UNCHANGED <<down, repeating, driver, flaws, inits, muddled>>

(* inb(0x60).                                                              *)
byte == IF fifo = << >> THEN latch ELSE Head(fifo)

ReadPort ==
  /\ latch' = byte
  /\ fifo' = IF fifo = << >> THEN fifo ELSE Tail(fifo)
  /\ UNCHANGED <<down, repeating, lost>>

-----------------------------------------------------------------------------
(***************************************************************************)
(* The driver.                                                             *)
(***************************************************************************)

(* One round of the loop in keyboard_init, or its end.                     *)
keyboard_init ==
  /\ ~Polling
  /\ IF fifo # << >>
     THEN ReadPort /\ UNCHANGED <<inits, early, muddled>>
     ELSE /\ inits' = inits + 1
          /\ early' = CharKeys \cap ({repeating} \cup IF latch.up THEN {} ELSE {latch.key})
          /\ muddled' = (down \cap Shifts # {})
          /\ UNCHANGED <<hardware, lost>>
  /\ UNCHANGED <<driver, owed, flaws>>

Character(key) == [key |-> key, shifted |-> key \in Letters /\ shift_pressed]

Removed(s, n) == SubSeq(s, 1, n - 1) \o SubSeq(s, n + 1, Len(s))

(* keyboard_read returns the character of a key (nothing is returned for   *)
(* a key without one).  It is held against the oldest press of that key.   *)
Return(key) ==
  LET owes == {n \in DOMAIN owed : owed[n].key = key}
      n    == Min(owes)
  IN  CASE key \notin CharKeys -> UNCHANGED history
        [] key \in CharKeys /\ owes # {} ->
             /\ owed' = Removed(owed, n)
             /\ flaws' = flaws \cup (IF lost \/ n = 1 THEN {} ELSE {"skipped"})
                               \cup (IF lost \/ owed[n] = Character(key) THEN {}
                                     ELSE {"case"})
             /\ UNCHANGED early
        [] key \in CharKeys /\ owes = {} ->
             /\ flaws' = flaws \cup {IF key \in early THEN "stale" ELSE "stray"}
             /\ early' = early \ {key}
             /\ UNCHANGED owed

(* Mutant: only the press of a shift key is handled.                       *)
ShiftCodeDown ==
  /\ byte.key \in Shifts
  /\ shift_pressed' = (shift_pressed \/ ~byte.up)
  /\ UNCHANGED <<last_scancode, key_held, history>>

ShiftCode ==
  /\ byte.key \in Shifts
  /\ shift_pressed' = ~byte.up
  /\ UNCHANGED <<last_scancode, key_held, history>>

(* Mutants: every release forgets the held key; a release never does, as   *)
(* when the release bit is not masked; the release falls through.          *)
ReleaseCodeAny ==
  /\ byte.key \notin Shifts /\ byte.up
  /\ last_scancode' = NoKey
  /\ key_held' = FALSE
  /\ UNCHANGED <<shift_pressed, history>>

ReleaseCodeUnmasked ==
  /\ byte.key \notin Shifts /\ byte.up
  /\ UNCHANGED <<driver, history>>

ReleaseCodeFallsThrough ==
  /\ byte.key \notin Shifts /\ byte.up
  /\ last_scancode' = byte.key
  /\ key_held' = TRUE
  /\ UNCHANGED <<shift_pressed, history>>

ReleaseCode ==
  /\ byte.key \notin Shifts /\ byte.up
  /\ IF byte.key = last_scancode
     THEN last_scancode' = NoKey /\ key_held' = FALSE
     ELSE UNCHANGED <<last_scancode, key_held>>
  /\ UNCHANGED <<shift_pressed, history>>

(* Mutants: repeats are delivered; another key is ignored while one is     *)
(* held.                                                                   *)
PressCodeRepeats ==
  /\ byte.key \notin Shifts /\ ~byte.up
  /\ last_scancode' = byte.key
  /\ key_held' = TRUE
  /\ Return(byte.key)
  /\ UNCHANGED shift_pressed

PressCodeOneAtATime ==
  /\ byte.key \notin Shifts /\ ~byte.up
  /\ IF key_held /\ last_scancode # NoKey
     THEN UNCHANGED <<last_scancode, key_held, history>>
     ELSE /\ last_scancode' = byte.key
          /\ key_held' = TRUE
          /\ Return(byte.key)
  /\ UNCHANGED shift_pressed

PressCode ==
  /\ byte.key \notin Shifts /\ ~byte.up
  /\ IF byte.key = last_scancode /\ key_held
     THEN UNCHANGED <<last_scancode, key_held, history>>
     ELSE /\ last_scancode' = byte.key
          /\ key_held' = TRUE
          /\ Return(byte.key)
  /\ UNCHANGED shift_pressed

keyboard_read ==
  /\ Polling
  /\ ReadPort
  /\ ShiftCode \/ ReleaseCode \/ PressCode
  /\ UNCHANGED <<inits, muddled>>

-----------------------------------------------------------------------------
(* Keys may be held, and codes be waiting, before the kernel looks.        *)
Init ==
  /\ down = {} /\ repeating = NoKey /\ fifo = << >> /\ latch = Make(NoKey)
  /\ inits = 0
  /\ shift_pressed = FALSE /\ last_scancode = NoKey /\ key_held = FALSE
  /\ owed = << >> /\ early = {} /\ flaws = {}
  /\ muddled = FALSE /\ lost = FALSE

Next ==
  \/ \E key \in Used : Press(key) \/ Release(key)
  \/ Repeat
  \/ keyboard_init
  \/ keyboard_read

Spec == Init /\ [][Next]_vars

(* The kernel is always running (kernel.c:44) until the exit command halts *)
(* the machine, which the user is taken not to give; the user need not do  *)
(* anything.                                                               *)
FairSpec == Spec /\ WF_vars(keyboard_init) /\ WF_vars(keyboard_read)

-----------------------------------------------------------------------------
(***************************************************************************)
(* Properties.                                                             *)
(***************************************************************************)

(* Type invariant.                                                         *)
TypeOK ==
  /\ down \subseteq Keys /\ repeating \in down \cup {NoKey}
  /\ fifo \in Seq(Byte) /\ Len(fifo) <= FifoSize /\ latch \in Byte
  /\ inits \in 0 .. 2
  /\ shift_pressed \in BOOLEAN /\ key_held \in BOOLEAN
  /\ last_scancode \in CharKeys \cup Mutes \cup {NoKey}
  /\ early \subseteq CharKeys

(* Polling a port that repeats its last byte, against a keyboard that      *)
(* repeats its last key, still returns every key press exactly once and in *)
(* order, however presses and releases of several keys overlap, as long as *)
(* the controller has room.  Only a key that was already sending when the  *)
(* polling began may show up without a press, and then once.               *)
EachPressOnce ==
  ~lost => /\ flaws \subseteq {"stale", "case"}
           /\ Polling /\ fifo = << >> => owed = << >>

(* The character has the case the user asked for, although the driver      *)
(* looks at shift only when it gets round to reading the scan code.  This  *)
(* leaves out a shift key held since before the polling began, two shift   *)
(* keys held at once, which the driver's single flag cannot tell from one, *)
(* and the shift codes a keyboard makes up around an arrow.                *)
CaseRight == ~lost /\ ~muddled => "case" \notin flaws

(* Even when scan codes are lost, no press is returned twice: a dropped    *)
(* release or press never turns a repeat into a new press.                 *)
NothingTwice == "stray" \notin flaws

(* When all keys are up and read, the driver has forgotten every key, so   *)
(* that it will not take the next press for a repeat or for a capital.     *)
QuietMeansIdle ==
  Polling /\ ~lost /\ down = {} /\ fifo = << >>
    => last_scancode = NoKey /\ ~shift_pressed

(* Once the keyboard falls silent, every press has been returned.          *)
EveryPressReturned ==
  <>[][keyboard_init \/ keyboard_read]_vars => <>[](owed = << >> \/ lost)
==============================================================================
