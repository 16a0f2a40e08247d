----------------------- MODULE EselectElectron_proofs -----------------------
(***************************************************************************)
(* For any set of slots: what a set or an update leaves behind.            *)
(*                                                                         *)
(* An action takes several steps, so the three properties of its end rest  *)
(* on what holds on the way there: IInv adds a conjunct for each pc.       *)
(***************************************************************************)
EXTENDS EselectElectron, TLAPS

(* An action on its way to a link has a slot with a directory, an update   *)
(* the highest.                                                            *)
SlotInv ==
  /\ pc \in {"set", "lib", "bin"} => command.name \in {"set", "update"}
  /\ pc = "unset" => command.name = "unset"
  /\ pc = "update" => command.name = "update" /\ command.slot = None
  /\ pc \in {"lib", "bin"} => command.slot \in SlotDirs
  /\ pc \in {"set", "lib", "bin"} /\ command.name = "update" =>
       command.slot \in Highest

(* After the first ln: the link was made, or landed in a directory.        *)
LibInv ==
  pc = "bin" =>
    \/ lib_link = command.slot
    \/ lib_link \in SlotDirs /\ command.slot \in strays[lib_link]

IInv ==
  /\ EselectTypeOK
  /\ SlotInv
  /\ LibInv
  /\ SuccessLeavesALauncher
  /\ UpdateFailsOverLeftovers
  /\ LinksThatDisagreeLeaveAStray

-----------------------------------------------------------------------------
(* active_slot answers with no slot, so no link is ever removed.           *)
LEMMA ActiveSlotIsNoSlot == active_slot[1] # "slot"
<1>1. CASE bin_link = None
  BY <1>1 DEF active_slot, NoSlot
<1>2. CASE bin_link # None
  BY <1>2 DEF active_slot
<1> QED
  BY <1>1, <1>2

LEMMA UnsetRemovesNothing ==
  ASSUME NEW text, Unset(text)
  PROVE  bin_link' = bin_link /\ lib_link' = lib_link
<1>1. ASSUME NEW link
      PROVE  ~(text = active_slot /\ OccursIn(text, link))
  BY ActiveSlotIsNoSlot DEF OccursIn
<1> QED
  BY <1>1 DEF Unset

LEMMA TargetsAreHighest == Targets = Highest
<1>1. ASSUME NEW s PROVE ~OccursIn(active_slot, s)
  BY ActiveSlotIsNoSlot DEF OccursIn
<1> QED
  BY <1>1 DEF Targets

-----------------------------------------------------------------------------

LEMMA InitIInv == Init => IInv
<1> SUFFICES ASSUME Init PROVE IInv
  OBVIOUS
<1>1. EselectTypeOK
  BY DEF Init, EselectTypeOK
<1>2. SlotInv /\ LibInv
  BY DEF Init, SlotInv, LibInv
<1>3. ~Ended({"set", "update"}, "ok") /\ ~Ended({"update"}, "failed")
  BY DEF Init, Ended
<1> QED
  BY <1>1, <1>2, <1>3 DEF IInv, SuccessLeavesALauncher,
     UpdateFailsOverLeftovers, LinksThatDisagreeLeaveAStray

(* While an action runs, the properties of its end are not at stake.       *)
LEMMA RunningHolds ==
  pc' # "idle" =>
    /\ SuccessLeavesALauncher'
    /\ UpdateFailsOverLeftovers'
    /\ LinksThatDisagreeLeaveAStray'
BY DEF Ended, SuccessLeavesALauncher, UpdateFailsOverLeftovers,
   LinksThatDisagreeLeaveAStray

(* An action begins, with or without a change of the packages.             *)
LEMMA RunStep ==
  ASSUME IInv, packages' \subseteq Slots,
         NEW name \in {"set", "unset", "update"}, NEW slot \in Slots \cup {None},
         IF name = "update" THEN slot = None ELSE slot \in Slots,
         Run(name, slot)
  PROVE  IInv'
<1>1. EselectTypeOK'
  BY DEF IInv, EselectTypeOK, Run, links
<1>2. pc' = name /\ command'.name = name /\ command'.slot = slot
  BY DEF Run
<1>3. SlotInv' /\ LibInv'
  BY <1>2 DEF SlotInv, LibInv
<1> QED
  BY <1>1, <1>2, <1>3, RunningHolds DEF IInv

LEMMA BeginSetStep == IInv /\ BeginSet => IInv'
<1> SUFFICES ASSUME IInv, BeginSet PROVE IInv'
  OBVIOUS
<1>1. CASE command.slot \notin SlotDirs
  <2>1. pc' = "idle" /\ outcome' = "failed" /\ UNCHANGED <<packages, links, command>>
    BY <1>1 DEF BeginSet, End
  <2>2. EselectTypeOK'
    BY <2>1 DEF IInv, EselectTypeOK, links
  <2>3. command.name # "update"
    BY <1>1 DEF IInv, SlotInv, BeginSet, Highest
  <2> QED
    BY <2>1, <2>2, <2>3 DEF IInv, SlotInv, LibInv, Ended,
       SuccessLeavesALauncher, UpdateFailsOverLeftovers,
       LinksThatDisagreeLeaveAStray
<1>2. CASE command.slot \in SlotDirs
  <2>1. bin_link' = bin_link /\ lib_link' = lib_link
    BY <1>2, UnsetRemovesNothing DEF BeginSet
  <2>2. pc' = "lib" /\ UNCHANGED <<packages, strays, command, outcome>>
    BY <1>2 DEF BeginSet
  <2>3. EselectTypeOK'
    BY <2>1, <2>2 DEF IInv, EselectTypeOK, BeginSet
  <2>4. SlotInv' /\ LibInv'
    BY <1>2, <2>2 DEF IInv, SlotInv, LibInv, BeginSet, SlotDirs, Highest
  <2> QED
    BY <2>2, <2>3, <2>4, RunningHolds DEF IInv
<1> QED
  BY <1>1, <1>2

(* The first link adds a directory to none.                                *)
LEMMA LinkLibKeepsDirectories ==
  ASSUME EselectTypeOK, LinkLib
  PROVE  SlotDirs' = SlotDirs
<1>1. CASE UNCHANGED strays
  BY <1>1 DEF LinkLib, SlotDirs
<1>2. CASE ~UNCHANGED strays
  <2>1. /\ lib_link \in SlotDirs
        /\ strays' = [strays EXCEPT ![lib_link] = @ \cup {command.slot}]
        /\ packages' = packages
    BY <1>2 DEF LinkLib
  <2>2. strays \in [Slots -> SUBSET Slots] /\ packages \subseteq Slots
    BY DEF EselectTypeOK
  <2>3. ASSUME NEW s \in Slots, s # lib_link PROVE strays'[s] = strays[s]
    BY <2>1, <2>2, <2>3
  <2>4. lib_link \in SlotDirs'
    <3>1. lib_link \in Slots
      BY <2>1, <2>2 DEF SlotDirs
    <3>2. command.slot \in strays'[lib_link]
      BY <2>1, <2>2, <3>1
    <3> QED
      BY <3>1, <3>2 DEF SlotDirs
  <2> QED
    BY <2>1, <2>2, <2>3, <2>4 DEF SlotDirs
<1> QED
  BY <1>1, <1>2

LEMMA LinkLibStep == IInv /\ LinkLib => IInv'
<1> SUFFICES ASSUME IInv, LinkLib PROVE IInv'
  OBVIOUS
<1> USE DEF LinkLib
<1>1. SlotDirs' = SlotDirs
  BY LinkLibKeepsDirectories DEF IInv
<1>2. command.slot \in SlotDirs /\ command.slot \in Slots
  BY DEF IInv, SlotInv, EselectTypeOK
<1>3. EselectTypeOK'
  BY <1>2 DEF IInv, EselectTypeOK
<1>4. SlotInv'
  BY <1>1 DEF IInv, SlotInv, Highest
<1>5. LibInv'
  <2>1. CASE lib_link \in SlotDirs
    <3>1. strays' = [strays EXCEPT ![lib_link] = @ \cup {command.slot}]
          /\ lib_link' = lib_link /\ command' = command
      BY <1>2, <2>1
    <3>2. lib_link \in Slots /\ strays \in [Slots -> SUBSET Slots]
      BY <2>1 DEF IInv, EselectTypeOK, SlotDirs
    <3>3. command.slot \in strays'[lib_link]
      BY <3>1, <3>2
    <3> QED
      BY <1>1, <2>1, <3>1, <3>3 DEF LibInv
  <2>2. CASE lib_link \notin SlotDirs
    BY <1>2, <2>2 DEF LibInv
  <2> QED
    BY <2>1, <2>2
<1> QED
  BY <1>3, <1>4, <1>5, RunningHolds DEF IInv

LEMMA LinkBinStep == IInv /\ LinkBin => IInv'
<1> SUFFICES ASSUME IInv, LinkBin PROVE IInv'
  OBVIOUS
<1>1. /\ pc = "bin" /\ pc' = "idle"
      /\ UNCHANGED <<packages, strays, lib_link, command>>
  BY DEF LinkBin, End
<1>2. SlotDirs' = SlotDirs /\ Highest' = Highest
  BY <1>1 DEF SlotDirs, Highest
<1>3. command.slot \in SlotDirs
  BY <1>1 DEF IInv, SlotInv
<1>4. EselectTypeOK'
  BY <1>1 DEF LinkBin, End, IInv, EselectTypeOK
<1>5. SlotInv' /\ LibInv'
  BY <1>1 DEF SlotInv, LibInv
<1>6. CASE command.slot \in packages
  <2>1. bin_link' = command.slot /\ outcome' = "ok"
    BY <1>6 DEF LinkBin, End
  <2>2. SuccessLeavesALauncher'
    BY <1>1, <1>2, <1>6, <2>1 DEF SuccessLeavesALauncher, IInv, SlotInv
  <2>3. LinksThatDisagreeLeaveAStray'
    BY <1>1, <1>2, <2>1 DEF LinksThatDisagreeLeaveAStray, IInv, LibInv
  <2>4. UpdateFailsOverLeftovers'
    BY <2>1 DEF UpdateFailsOverLeftovers, Ended
  <2> QED
    BY <1>4, <1>5, <2>2, <2>3, <2>4 DEF IInv
<1>7. CASE command.slot \notin packages
  <2>1. outcome' = "failed"
    BY <1>7 DEF LinkBin, End
  <2>2. strays[command.slot] # {}
    BY <1>3, <1>7 DEF SlotDirs
  <2>3. ASSUME command.name = "update", NEW p \in packages
        PROVE  p < command.slot
    <3>1. p \in SlotDirs /\ command.slot \in Highest
      BY <1>1, <2>3 DEF SlotDirs, IInv, SlotInv
    <3>2. p <= command.slot /\ p # command.slot
      BY <3>1, <1>7 DEF Highest
    <3>3. p \in Nat /\ command.slot \in Nat
      BY <1>1, SlotsAssumption DEF IInv, EselectTypeOK
    <3> QED
      BY <3>2, <3>3
  <2>4. UpdateFailsOverLeftovers'
    BY <1>1, <1>2, <1>3, <1>7, <2>2, <2>3 DEF UpdateFailsOverLeftovers, Ended
  <2> QED
    BY <1>4, <1>5, <2>1, <2>4 DEF IInv, Ended, SuccessLeavesALauncher,
       LinksThatDisagreeLeaveAStray
<1> QED
  BY <1>6, <1>7

LEMMA DoUnsetStep == IInv /\ DoUnset => IInv'
<1> SUFFICES ASSUME IInv, DoUnset PROVE IInv'
  OBVIOUS
<1>1. bin_link' = bin_link /\ lib_link' = lib_link
  BY UnsetRemovesNothing DEF DoUnset
<1>2. pc = "unset" /\ pc' = "idle" /\ outcome' = "ok"
      /\ UNCHANGED <<packages, strays, command>>
  BY DEF DoUnset, End
<1>3. EselectTypeOK'
  BY <1>1, <1>2 DEF IInv, EselectTypeOK
<1>4. SlotInv' /\ LibInv'
  BY <1>2 DEF SlotInv, LibInv
<1>5. command'.name = "unset"
  BY <1>2 DEF IInv, SlotInv
<1> QED
  BY <1>3, <1>4, <1>5 DEF IInv, Ended, SuccessLeavesALauncher,
     UpdateFailsOverLeftovers, LinksThatDisagreeLeaveAStray

LEMMA UpdateSetStep == IInv /\ UpdateSet => IInv'
<1> SUFFICES ASSUME IInv, UpdateSet PROVE IInv'
  OBVIOUS
<1>1. PICK s \in Highest : command' = [command EXCEPT !.slot = s]
  BY TargetsAreHighest DEF UpdateSet
<1>2. pc' = "set" /\ UNCHANGED <<packages, links, outcome>>
  BY DEF UpdateSet
<1>3. Highest' = Highest
  BY <1>2 DEF links, Highest, SlotDirs
<1>4. s \in Slots
  BY <1>1 DEF Highest, SlotDirs, IInv, EselectTypeOK
<1>5. command.name = "update"
  BY DEF UpdateSet, IInv, SlotInv
<1>6. command'.slot = s /\ command'.name = "update"
  BY <1>1, <1>5 DEF IInv, EselectTypeOK
<1>7. EselectTypeOK'
  BY <1>1, <1>2, <1>4 DEF IInv, EselectTypeOK, links
<1>8. SlotInv' /\ LibInv'
  BY <1>1, <1>2, <1>3, <1>6 DEF SlotInv, LibInv
<1> QED
  BY <1>2, <1>7, <1>8, RunningHolds DEF IInv

LEMMA UpdateUnsetStep == IInv /\ UpdateUnset => IInv'
<1> SUFFICES ASSUME IInv, UpdateUnset PROVE IInv'
  OBVIOUS
<1>1. bin_link' = bin_link /\ lib_link' = lib_link
  BY UnsetRemovesNothing DEF UpdateUnset
<1>2. pc' = "idle" /\ outcome' = "ok"
      /\ UNCHANGED <<packages, strays, command>>
  BY DEF UpdateUnset, End
<1>3. EselectTypeOK'
  BY <1>1, <1>2 DEF IInv, EselectTypeOK
<1>4. SlotInv' /\ LibInv'
  BY <1>2 DEF SlotInv, LibInv
<1>5. command'.slot = None
  BY <1>2 DEF UpdateUnset, IInv, SlotInv
<1> QED
  BY <1>3, <1>4, <1>5 DEF IInv, Ended, SuccessLeavesALauncher,
     UpdateFailsOverLeftovers, LinksThatDisagreeLeaveAStray

LEMMA InterruptStep == IInv /\ Interrupt => IInv'
<1> SUFFICES ASSUME IInv, Interrupt PROVE IInv'
  OBVIOUS
<1>1. pc' = "idle" /\ outcome' = "interrupted"
      /\ UNCHANGED <<packages, links, command>>
  BY DEF Interrupt, End
<1>2. EselectTypeOK'
  BY <1>1 DEF IInv, EselectTypeOK, links
<1>3. SlotInv' /\ LibInv'
  BY <1>1 DEF SlotInv, LibInv
<1> QED
  BY <1>1, <1>2, <1>3 DEF IInv, Ended, SuccessLeavesALauncher,
     UpdateFailsOverLeftovers, LinksThatDisagreeLeaveAStray

LEMMA StutterStep == IInv /\ UNCHANGED vars => IInv'
BY DEF IInv, EselectTypeOK, SlotInv, LibInv, SuccessLeavesALauncher,
   UpdateFailsOverLeftovers, LinksThatDisagreeLeaveAStray, Ended, Highest,
   SlotDirs, vars, links

LEMMA NextStep == IInv /\ [Next]_vars => IInv'
<1> SUFFICES ASSUME IInv, [Next]_vars PROVE IInv'
  OBVIOUS
<1>1. ASSUME NEW s \in Slots, Merge(s) PROVE IInv'
  <2>1. packages' \subseteq Slots
    BY <1>1 DEF Merge, IInv, EselectTypeOK
  <2> QED
    BY <1>1, <2>1, RunStep DEF Merge
<1>2. ASSUME NEW s \in Slots, Unmerge(s) PROVE IInv'
  <2>1. packages' \subseteq Slots
    BY <1>2 DEF Unmerge, IInv, EselectTypeOK
  <2> QED
    BY <1>2, <2>1, RunStep DEF Unmerge
<1>3. ASSUME NEW name \in {"set", "unset"}, NEW s \in Slots, Ask(name, s)
      PROVE  IInv'
  <2>1. packages' \subseteq Slots /\ Run(name, s)
    BY <1>3 DEF Ask, IInv, EselectTypeOK
  <2> QED
    BY <2>1, RunStep
<1>4. ASSUME Ask("update", None) PROVE IInv'
  <2>1. packages' \subseteq Slots /\ Run("update", None)
    BY <1>4 DEF Ask, IInv, EselectTypeOK
  <2> QED
    BY <2>1, RunStep
<1> QED
  BY <1>1, <1>2, <1>3, <1>4, BeginSetStep, LinkLibStep, LinkBinStep,
     DoUnsetStep, UpdateSetStep, UpdateUnsetStep, InterruptStep, StutterStep
     DEF Next

(* Every reachable state satisfies the inductive invariant.                *)
THEOREM EselectInvariant == Spec => []IInv
<1> QED
  BY InitIInv, NextStep, PTL DEF Spec

(* The links and the action under way keep their types.                    *)
THEOREM EselectTypeCorrect == Spec => []EselectTypeOK
<1>1. IInv => EselectTypeOK
  BY DEF IInv
<1> QED
  BY <1>1, EselectInvariant, PTL

(* A set or an update that succeeds leaves /usr/bin/electron at a launcher *)
(* that is there, the highest one after an update, whatever was merged,    *)
(* unmerged, set or killed before.                                         *)
THEOREM LauncherAfterSuccess == Spec => []SuccessLeavesALauncher
<1>1. IInv => SuccessLeavesALauncher
  BY DEF IInv
<1> QED
  BY <1>1, EselectInvariant, PTL

(* An update that fails does so over a directory that a stray link kept    *)
(* when its package, of a slot above all the others, was removed.          *)
THEOREM FailuresAreLeftovers == Spec => []UpdateFailsOverLeftovers
<1>1. IInv => UpdateFailsOverLeftovers
  BY DEF IInv
<1> QED
  BY <1>1, EselectInvariant, PTL

(* If the links disagree after a success, the library link was not moved   *)
(* and the new one is inside the directory it names.                       *)
THEOREM DisagreementLeavesAStray == Spec => []LinksThatDisagreeLeaveAStray
<1>1. IInv => LinksThatDisagreeLeaveAStray
  BY DEF IInv
<1> QED
  BY <1>1, EselectInvariant, PTL

=============================================================================
