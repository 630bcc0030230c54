------------------------------- MODULE Storage -------------------------------
(***************************************************************************)
(* The life of the SD card (src/src/system/adapters/sdmmc_adapter.cpp)     *)
(* under the storage module (modules/mod_storage.cpp), as the module       *)
(* registry drives it (core/module_registry.cpp): the pins that the board  *)
(* maps decide whether there is a bus and how wide it is; the module       *)
(* mounts at its start and then, whenever its scheduler is due, checks a   *)
(* mounted card or tries to mount one.                                     *)
(*                                                                         *)
(* Everything here runs on the loop task, but a mount takes time, and the  *)
(* card may be pulled out or changed between any two of its steps.  The    *)
(* card and the driver (IDF) are external: a card answers a status request *)
(* from when a mount has initialised it until it loses power; each call of *)
(* the driver may fail.                                                    *)
(*                                                                         *)
(* Abstractions.  Time passes from tick to tick of the loop, which may be  *)
(* late.  The file calls of the card, and LittleFS but for its two         *)
(* results, are left out (see Files for the flash).                        *)
(***************************************************************************)
EXTENDS Scheduler, FiniteSets

CONSTANTS
  Function,   \* pin functions of a set: "clk", "cmd", "d0", "d1", "d2", "d3"
  Maps,       \* the functions that a board may map of a set
  Tick,       \* the loop's second
  HasLdo,     \* SOC_SDMMC_IO_POWER_EXTERNAL, and HX_SDMMC_POWER_CHANNEL >= 0
  MaxLate,    \* bound: how late a pass of the loop comes to a tick
  MaxSwaps,   \* bound: cards inserted and pulled out
  MaxFaults   \* bound: driver calls that fail with a good card in the slot

Mandatory == {"clk", "cmd", "d0"}
Wide      == {"d1", "d2", "d3"}
PinSet    == {"native", "hosted"}

ASSUME PinAssumption    ==
  Mandatory \cup Wide \subseteq Function /\ Maps \subseteq SUBSET Function
ASSUME BoardAssumption  == HasLdo \in BOOLEAN
ASSUME NumberAssumption == MaxSwaps \in Nat /\ MaxFaults \in Nat
ASSUME TimeAssumption   ==
  Tick \in Nat \ {0} /\ MaxLate \in Nat /\ 2 * (Interval + Tick + MaxLate) <= Cycle

VARIABLES
  board,    \* the pin functions mapped in each set, and whether there is a power pin
  pins,     \* the set of pins in use and g_bus_width
  ready,    \* g_module_ready of the storage module
  flash,    \* Hx.files_mounted
  slot,     \* the card in the slot: whether there is one, with a file system that
            \* mounts, and whether it would answer a status request
  card,     \* g_card is a live object of the driver, which has /sd mounted
  mounted,  \* g_mounted
  shown,    \* Hx.sd_mounted
  ldo,      \* g_pwr_ctrl_handle, and the driver's LDO objects
  power,    \* the level of the power pin: "unset", "on" or "off"
  pc,       \* where the loop task stands
  now,      \* TimeMonotonicMs32 at the last tick
  due,      \* g_sd_check_sched.next_due_ms
  since,    \* history: the time since the last check; the first one is due at once
  spent     \* bounds: swaps and faults so far

clock == <<now, due, since>>
sd   == <<card, mounted, shown, ldo, power>>
vars == <<board, pins, ready, flash, slot, sd, pc, clock, spent>>

Empty == [in |-> FALSE, good |-> FALSE, answers |-> FALSE]

\* A driver call fails although nothing is wrong with the card.
Fault == spent.faults < MaxFaults /\ spent' = [spent EXCEPT !.faults = @ + 1]

(***************************************************************************)
(* The module's init and start.                                            *)
(***************************************************************************)
Usable(set) == Mandatory \subseteq board.mapped[set]
Width(set)  == IF Wide \subseteq board.mapped[set] THEN 4 ELSE 1

\* SdmmcResolvePins: the native set, else the hosted one; 4 bits need all of
\* the wide lines.
Resolved ==
  IF Usable("native") THEN [set |-> "native", width |-> Width("native")]
  ELSE IF Usable("hosted") THEN [set |-> "hosted", width |-> Width("hosted")]
  ELSE [set |-> "none", width |-> 0]

\* StorageInit, whose result is that of FilesInit, called by ModuleInitAll.
StorageInit ==
  /\ pc = "init"
  /\ ready' \in BOOLEAN
  /\ pins' = Resolved
  /\ pc' = IF ready' THEN "start" ELSE "idle"
  /\ UNCHANGED <<clock, board, flash, slot, sd, spent>>

\* StorageStart, called by ModuleStartAll for a module that is ready.
StorageStart ==
  /\ pc = "start"
  /\ flash' \in BOOLEAN
  /\ due' = FirstDue(now)
  /\ pc' = "mount"
  /\ UNCHANGED <<board, pins, ready, slot, sd, now, since, spent>>

\* A tick of the loop: StorageEverySecond checks the card when it is due.
EverySecond ==
  /\ pc = "idle" /\ ready
  /\ \E passed \in Tick .. Tick + MaxLate :
       /\ now' = After(now, passed)
       /\ IF Due(due, now')
          THEN /\ due' = NextDue(now') /\ since' = 0
               /\ pc' = IF mounted THEN "health" ELSE "mount"
          ELSE since' = since + passed /\ UNCHANGED <<due, pc>>
  /\ UNCHANGED <<board, pins, ready, flash, slot, sd, spent>>

(***************************************************************************)
(* SdmmcMount.                                                             *)
(***************************************************************************)
\* A card that is mounted stays so; without pins there is nothing to mount.
MountRefused ==
  /\ pc = "mount" /\ (mounted \/ pins.width = 0)
  /\ pc' = "idle"
  /\ UNCHANGED <<clock, board, pins, ready, flash, slot, sd, spent>>

\* The on-chip LDO, which may be refused.
NewLdo ==
  /\ pc = "mount" /\ ~mounted /\ pins.width # 0
  /\ \/ ~HasLdo /\ pc' = "cycle" /\ UNCHANGED <<ldo, spent>>
     \/ /\ HasLdo /\ pc' = "cycle"
        /\ ldo' = [held |-> TRUE, live |-> ldo.live + 1] /\ UNCHANGED spent
     \/ HasLdo /\ Fault /\ pc' = "idle" /\ UNCHANGED ldo
  /\ UNCHANGED <<clock, board, pins, ready, flash, slot, card, mounted, shown, power>>

\* The power switch off, for 10 ms, ...
PowerOff ==
  /\ pc = "cycle" /\ pc' = "settle"
  /\ IF board.powerPin THEN power' = "off" /\ slot' = [slot EXCEPT !.answers = FALSE]
                       ELSE UNCHANGED <<power, slot>>
  /\ UNCHANGED <<clock, board, pins, ready, flash, card, mounted, shown, ldo, spent>>

\* ... and on, for 50 ms.
PowerOn ==
  /\ pc = "settle" /\ pc' = "vfs"
  /\ power' = IF board.powerPin THEN "on" ELSE power
  /\ UNCHANGED <<clock, board, pins, ready, flash, slot, card, mounted, shown, ldo, spent>>

\* The LDO is given back and the power switched off.
NoLdo         == [held |-> FALSE, live |-> ldo.live - (IF ldo.held THEN 1 ELSE 0)]
Unpowered     == IF board.powerPin THEN "off" ELSE power
SlotUnpowered == [slot EXCEPT !.answers = @ /\ ~board.powerPin]

\* Mistake: the LDO is kept for the next attempt.
MountFailsKeeping ==
  /\ pc = "vfs" /\ pc' = "idle"
  /\ (slot.in /\ slot.good /\ Fault) \/ (~(slot.in /\ slot.good) /\ UNCHANGED spent)
  /\ power' = Unpowered /\ slot' = SlotUnpowered
  /\ UNCHANGED <<clock, board, pins, ready, flash, card, mounted, shown, ldo>>

\* No card, no file system that it can read, or a failure: all is undone.
MountFails ==
  /\ pc = "vfs" /\ pc' = "idle"
  /\ (slot.in /\ slot.good /\ Fault) \/ (~(slot.in /\ slot.good) /\ UNCHANGED spent)
  /\ ldo' = NoLdo /\ power' = Unpowered /\ slot' = SlotUnpowered
  /\ UNCHANGED <<clock, board, pins, ready, flash, card, mounted, shown>>

\* esp_vfs_fat_sdmmc_mount resets and initialises the card in the slot.
MountVfs ==
  /\ pc = "vfs" /\ slot.in /\ slot.good /\ pc' = "flags"
  /\ card' = TRUE /\ slot' = [slot EXCEPT !.answers = TRUE]
  /\ UNCHANGED <<clock, board, pins, ready, flash, mounted, shown, ldo, power, spent>>

SetMounted ==
  /\ pc = "flags" /\ pc' = "idle"
  /\ mounted' = TRUE /\ shown' = TRUE
  /\ UNCHANGED <<clock, board, pins, ready, flash, slot, card, ldo, power, spent>>

(***************************************************************************)
(* SdmmcCheckHealth and SdmmcUnmount.                                      *)
(***************************************************************************)
\* Mistake: any card in the slot passes for the one that was mounted.
CheckHealthOfAny ==
  /\ pc = "health"
  /\ \/ mounted /\ card /\ slot.in /\ pc' = "idle" /\ UNCHANGED spent
     \/ ~(mounted /\ card /\ slot.in) /\ pc' = "unmount" /\ UNCHANGED spent
     \/ mounted /\ card /\ slot.in /\ Fault /\ pc' = "unmount"
  /\ UNCHANGED <<clock, board, pins, ready, flash, slot, sd>>

\* CMD13, with the address that the card was given when it was mounted.
CheckHealth ==
  /\ pc = "health"
  /\ \/ mounted /\ card /\ slot.answers /\ pc' = "idle" /\ UNCHANGED spent
     \/ ~(mounted /\ card /\ slot.answers) /\ pc' = "unmount" /\ UNCHANGED spent
     \/ mounted /\ card /\ slot.answers /\ Fault /\ pc' = "unmount"
  /\ UNCHANGED <<clock, board, pins, ready, flash, slot, sd>>

\* esp_vfs_fat_sdcard_unmount.  Its failure is only logged: the card object is
\* forgotten and the rest released all the same.
UnmountVfs ==
  /\ pc = "unmount" /\ mounted /\ card /\ pc' = "release"
  /\ UNCHANGED spent \/ Fault
  /\ card' = FALSE
  /\ UNCHANGED <<clock, board, pins, ready, flash, slot, mounted, shown, ldo, power>>

Release ==
  /\ pc = "release" /\ pc' = "idle"
  /\ mounted' = FALSE /\ shown' = FALSE
  /\ ldo' = NoLdo /\ power' = Unpowered /\ slot' = SlotUnpowered
  /\ UNCHANGED <<clock, board, pins, ready, flash, card, spent>>

(***************************************************************************)
(* The card.                                                               *)
(***************************************************************************)
Swap ==
  /\ spent.swaps < MaxSwaps
  /\ spent' = [spent EXCEPT !.swaps = @ + 1]
  /\ slot' \in IF slot.in THEN {Empty}
               ELSE {[in |-> TRUE, good |-> g, answers |-> FALSE] : g \in BOOLEAN}
  /\ UNCHANGED <<clock, board, pins, ready, flash, sd, pc>>

(***************************************************************************)
(* Specification.                                                          *)
(***************************************************************************)
Init ==
  /\ board \in [mapped : [PinSet -> Maps], powerPin : BOOLEAN]
  /\ pins = [set |-> "none", width |-> 0]
  /\ ready = FALSE /\ flash = FALSE /\ slot = Empty
  /\ card = FALSE /\ mounted = FALSE /\ shown = FALSE
  /\ ldo = [held |-> FALSE, live |-> 0] /\ power = "unset"
  /\ pc = "init" /\ now \in Time /\ due = 0 /\ since = Interval - 1
  /\ spent = [swaps |-> 0, faults |-> 0]

Call ==
  \/ StorageInit \/ StorageStart
  \/ MountRefused \/ NewLdo \/ PowerOff \/ PowerOn \/ MountFails \/ MountVfs \/ SetMounted
  \/ CheckHealth \/ UnmountVfs \/ Release

Next == Call \/ EverySecond \/ Swap

Spec == Init /\ [][Next]_vars

\* The loop task runs, and the scheduler comes due again and again.
FairSpec == Spec /\ WF_vars(Call) /\ WF_vars(EverySecond)

(***************************************************************************)
(* Properties.                                                             *)
(***************************************************************************)
TypeOK ==
  /\ pins \in [set : PinSet \cup {"none"}, width : {0, 1, 4}]
  /\ ready \in BOOLEAN /\ flash \in BOOLEAN
  /\ slot \in [in : BOOLEAN, good : BOOLEAN, answers : BOOLEAN]
  /\ card \in BOOLEAN /\ mounted \in BOOLEAN /\ shown \in BOOLEAN
  /\ ldo \in [held : BOOLEAN, live : Nat]
  /\ power \in {"unset", "on", "off"}
  /\ now \in Time /\ due \in Time /\ since \in Nat

\* Between two calls the flags, the card object, the LDO and the power switch
\* tell the same story, whichever step of a mount failed and whenever the card
\* was pulled out: the driver's only LDO object is the one that is held, and it
\* and the power are on exactly for a mounted card.
PowerFollowsMount ==
  TypeOK /\ (pc = "idle" =>
    /\ mounted = card /\ mounted = shown
    /\ ldo = IF mounted /\ HasLdo THEN [held |-> TRUE, live |-> 1]
                                  ELSE [held |-> FALSE, live |-> 0]
    /\ board.powerPin => (power = "on") = mounted
    /\ mounted => ready /\ pins.width # 0)

\* The card is checked at the first tick after an interval has passed since the
\* last check, neither earlier nor later, however late the ticks come and also
\* when the 32-bit time wraps around.
ChecksOnTime ==
  /\ [](since < Interval)
  /\ [][since' = 0 => since + ((now' - now) % Cycle) >= Interval]_<<now, since>>

\* A card that stays in the slot ends up mounted, and answering; a slot that
\* stays empty ends up unmounted.  A card that was changed for another between
\* two checks is not taken for the one that was mounted.  It does not matter
\* whether LittleFS mounted.
SdFollowsCard ==
  /\ <>[](slot.in /\ slot.good /\ ready /\ \E s \in PinSet : Usable(s))
       => <>[](mounted /\ slot.answers)
  /\ <>[](~slot.in) => <>[](~mounted)
=============================================================================
