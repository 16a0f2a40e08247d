-------------------------- MODULE EselectElectron --------------------------
(***************************************************************************)
(* The default Electron slot: electron.eselect, and dev-util/electron      *)
(* whose pkg_postinst and pkg_postrm call its update.                      *)
(*                                                                         *)
(* A package of slot s owns the launcher /usr/bin/electron-s, a script,    *)
(* and the directory /usr/<libdir>/electron-s.  The module keeps two       *)
(* links, /usr/bin/electron and /usr/<libdir>/electron.  Packages use one  *)
(* library directory, so the loops over list_libdirs find no other.        *)
(*                                                                         *)
(* ln -sf writes into a link's target when that is a directory, and        *)
(* Portage keeps a directory in which it finds a file it does not own.     *)
(***************************************************************************)
EXTENDS Integers

CONSTANT Slots

ASSUME SlotsAssumption == Slots \subseteq Nat \ {0}

None == 0

VARIABLES
  packages,   \* the slots that are installed
  strays,     \* the links to slots inside each slot's directory
  lib_link, bin_link,   \* the slots the two links name
  command,    \* the action that runs or ran last, and its slot
  pc,
  outcome     \* how it ended

links == <<strays, lib_link, bin_link>>
vars == <<packages, links, command, pc, outcome>>

(* The directories electron-*.                                             *)
SlotDirs == packages \cup {s \in Slots : strays[s] # {}}

Init ==
  /\ packages = {}
  /\ strays = [s \in Slots |-> {}]
  /\ lib_link = None
  /\ bin_link = None
  /\ command = [name |-> "none", slot |-> None, before |-> None]
  /\ pc = "idle"
  /\ outcome = "ok"

-----------------------------------------------------------------------------
(* active_slot answers with the path of the launcher: its expression asks  *)
(* for a path that ends in electron-<slot>/electron, and the link names    *)
(* electron-<slot>.                                                        *)

Slot(s) == <<"slot", s>>
NoSlot == <<"(none)", None>>
active_slot == IF bin_link = None THEN NoSlot ELSE <<"launcher", bin_link>>

(* The text of a slot occurs in that of another; a path in none.           *)
OccursIn(text, s) ==
  text[1] = "slot" /\ text[2] \in {s, s \div 10, s % 10}

(* do_unset removes the links that mention the slot.                       *)
Unset(text) ==
  LET Kept(link) == IF text = active_slot /\ OccursIn(text, link)
                      THEN None ELSE link
  IN bin_link' = Kept(bin_link) /\ lib_link' = Kept(lib_link)

-----------------------------------------------------------------------------
Run(name, slot) ==
  /\ pc = "idle"
  /\ command' = [name |-> name, slot |-> slot, before |-> bin_link]
  /\ pc' = name
  /\ UNCHANGED <<links, outcome>>

End(how) ==
  /\ pc' = "idle"
  /\ outcome' = how
  /\ UNCHANGED <<packages, command>>

(* Portage.                                                                *)
Merge(s) == packages' = packages \cup {s} /\ Run("update", None)
Unmerge(s) ==
  s \in packages /\ packages' = packages \ {s} /\ Run("update", None)

(* The user.                                                               *)
Ask(name, slot) == Run(name, slot) /\ UNCHANGED packages

(* do_set, up to its unset of the active slot.                             *)
BeginSet ==
  /\ pc = "set"
  /\ IF command.slot \notin SlotDirs THEN End("failed") /\ UNCHANGED links
     ELSE /\ IF active_slot # NoSlot THEN Unset(active_slot)
                                     ELSE UNCHANGED <<bin_link, lib_link>>
          /\ pc' = "lib"
          /\ UNCHANGED <<packages, strays, command, outcome>>

(* A mutant of LinkLib: a link that exists is left alone.                  *)
LinkLibOnce ==
  /\ pc = "lib"
  /\ lib_link' = IF lib_link = None THEN command.slot ELSE lib_link
  /\ pc' = "bin"
  /\ UNCHANGED <<packages, strays, bin_link, command, outcome>>

(* The first ln -sf: a link to a directory is followed, not replaced.      *)
LinkLib ==
  /\ pc = "lib"
  /\ IF command.slot \notin SlotDirs THEN UNCHANGED <<strays, lib_link>>
     ELSE IF lib_link \in SlotDirs
       THEN /\ strays' = [strays EXCEPT ![lib_link] = @ \cup {command.slot}]
            /\ UNCHANGED lib_link
       ELSE lib_link' = command.slot /\ UNCHANGED strays
  /\ pc' = "bin"
  /\ UNCHANGED <<packages, bin_link, command, outcome>>

(* A mutant of LinkBin: it does not look for the launcher.                 *)
LinkBinUnseen ==
  /\ pc = "bin"
  /\ bin_link' = command.slot
  /\ End("ok")
  /\ UNCHANGED <<strays, lib_link>>

(* The second ln -sf; without a launcher the action dies.                  *)
LinkBin ==
  /\ pc = "bin"
  /\ IF command.slot \in packages THEN bin_link' = command.slot /\ End("ok")
     ELSE UNCHANGED bin_link /\ End("failed")
  /\ UNCHANGED <<strays, lib_link>>

DoUnset ==
  /\ pc = "unset"
  /\ Unset(Slot(command.slot))
  /\ End("ok")
  /\ UNCHANGED strays

(* get_slots in order ends with the highest.                               *)
Highest == {s \in SlotDirs : \A t \in SlotDirs : t <= s}

(* A mutant of Targets: get_slots is in the opposite order.                *)
TargetsLowest ==
  IF \E s \in SlotDirs : OccursIn(active_slot, s) THEN {bin_link}
  ELSE {s \in SlotDirs : \A t \in SlotDirs : s <= t}

(* The slot do_update sets: the active one if get_slots has it, or the     *)
(* highest.                                                                *)
Targets ==
  IF \E s \in SlotDirs : OccursIn(active_slot, s) THEN {bin_link} ELSE Highest

(* A mutant of UpdateSet: there may be no slot at all.                     *)
UpdateSetAlways ==
  /\ pc = "update"
  /\ \E s \in Targets \cup {None} : command' = [command EXCEPT !.slot = s]
  /\ pc' = "set"
  /\ UNCHANGED <<packages, links, outcome>>

UpdateSet ==
  /\ pc = "update"
  /\ \E s \in Targets : command' = [command EXCEPT !.slot = s]
  /\ pc' = "set"
  /\ UNCHANGED <<packages, links, outcome>>

(* do_update without a slot to set.                                        *)
UpdateUnset ==
  /\ pc = "update"
  /\ SlotDirs = {}
  /\ IF active_slot # NoSlot THEN Unset(active_slot)
                             ELSE UNCHANGED <<bin_link, lib_link>>
  /\ End("ok")
  /\ UNCHANGED strays

(* The action is killed between two of its commands.                       *)
Interrupt == pc # "idle" /\ End("interrupted") /\ UNCHANGED links

Next ==
  \/ \E s \in Slots : Merge(s) \/ Unmerge(s) \/ Ask("set", s) \/ Ask("unset", s)
  \/ Ask("update", None)
  \/ BeginSet
  \/ LinkLib
  \/ LinkBin
  \/ DoUnset
  \/ UpdateSet
  \/ UpdateUnset
  \/ Interrupt

Spec == Init /\ [][Next]_vars

-----------------------------------------------------------------------------
(* Properties.                                                             *)

(* The links name slots, and an action under way has one to set.           *)
EselectTypeOK ==
  /\ packages \subseteq Slots
  /\ strays \in [Slots -> SUBSET Slots]
  /\ {lib_link, bin_link} \subseteq Slots \cup {None}
  /\ command \in [name : {"none", "set", "unset", "update"},
                  slot : Slots \cup {None}, before : Slots \cup {None}]
  /\ pc \in {"idle", "set", "unset", "update", "lib", "bin"}
  /\ outcome \in {"ok", "failed", "interrupted"}
  /\ pc \in {"set", "lib", "bin", "unset"} => command.slot \in Slots

(* The action has ended, and had a slot to set.                            *)
Ended(names, how) ==
  /\ pc = "idle" /\ outcome = how
  /\ command.name \in names /\ command.slot # None

(* A set or an update that succeeds leaves a launcher that is there; an    *)
(* update leaves that of the slot that was active or that of the highest,  *)
(* never another's, whatever was merged, removed or left behind before.    *)
SuccessLeavesALauncher ==
  Ended({"set", "update"}, "ok") =>
    /\ bin_link = command.slot
    /\ bin_link \in packages
    /\ command.name = "update" => bin_link \in Highest \cup {command.before}

(* An update fails only over the directory of a higher slot that was left  *)
(* behind when its package was removed: one with a stray link in it.       *)
UpdateFailsOverLeftovers ==
  Ended({"update"}, "failed") =>
    \E s \in SlotDirs \ packages :
      strays[s] # {} /\ \A p \in packages : p < s

(* When the two links disagree after a set or an update, the library link  *)
(* still names an earlier slot, in whose directory the new link landed.    *)
LinksThatDisagreeLeaveAStray ==
  Ended({"set", "update"}, "ok") /\ lib_link # bin_link =>
    lib_link \in SlotDirs /\ bin_link \in strays[lib_link]

(* do_update: "If active_slot is in the slots list, set it again".         *)
UpdateKeepsTheActiveSlot ==
  Ended({"update"}, "ok") /\ command.before \in packages =>
    bin_link = command.before

=============================================================================
