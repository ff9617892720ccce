--------------------------- MODULE ConfigStoreProofs ---------------------------
(***************************************************************************)
(* Proofs about ConfigStore, for any number of saves, settings, deaths and *)
(* losses of power.                                                        *)
(***************************************************************************)
EXTENDS ConfigStore, TLAPS

-----------------------------------------------------------------------------
(* Type correctness                                                         *)

LEMMA InitStoreTypeOK == StoreInit => StoreTypeOK
BY StoreAssumption DEF StoreInit, StoreTypeOK, SaveState, Settings, Blank

LEMMA NextStoreTypeOK == StoreTypeOK /\ [StoreNext]_storeVars => StoreTypeOK'
<1> SUFFICES ASSUME StoreTypeOK, [StoreNext]_storeVars PROVE StoreTypeOK'
  OBVIOUS
<1> USE StoreAssumption DEF StoreTypeOK, SaveState
<1>1. ASSUME NEW s \in Saves, Lock(s) PROVE StoreTypeOK'
  BY <1>1 DEF Lock, Enter
<1>2. ASSUME NEW s \in Saves, Fill(s) PROVE StoreTypeOK'
  <2> DEFINE copy == [k \in ConfigKeys |-> IF k \in save[s].keys THEN s ELSE file[k]]
             new == [phase |-> "filled", keys |-> save[s].keys, temporary |-> copy]
  <2>1. copy \in Settings
    BY DEF Settings
  <2> HIDE DEF copy
  <2>2. new \in SaveState
    BY <2>1
  <2>3. save' = [save EXCEPT ![s] = new] /\ UNCHANGED <<file, remains, lock, replaced, rank, faults>>
    BY <1>2 DEF Fill, copy
  <2> QED
    BY <2>2, <2>3
<1>3. ASSUME NEW s \in Saves, SyncTemporary(s) PROVE StoreTypeOK'
  BY <1>3 DEF SyncTemporary, Enter
<1>4. ASSUME NEW s \in Saves, Replace(s) PROVE StoreTypeOK'
  BY <1>4 DEF Replace, Enter
<1>5. ASSUME NEW s \in Saves, SyncDirectory(s) PROVE StoreTypeOK'
  BY <1>5 DEF SyncDirectory, Enter, Unlocked
<1>6. ASSUME NEW s \in Saves, RefuseSave(s) PROVE StoreTypeOK'
  BY <1>6 DEF RefuseSave, Enter
<1>7. ASSUME NEW s \in Saves, FailSave(s) PROVE StoreTypeOK'
  BY <1>7 DEF FailSave, Enter, Unlocked
<1>8. ASSUME NEW s \in Saves, Die(s) PROVE StoreTypeOK'
  BY <1>8 DEF Die, Enter, Unlocked
<1>9. ASSUME NEW s \in Saves, NEW ks \in Groups, AskToSave(s, ks) PROVE StoreTypeOK'
  <2> DEFINE new == [phase |-> "asked", keys |-> ks, temporary |-> Blank]
  <2>1. new \in SaveState
    BY DEF Settings, Blank
  <2>2. save' = [save EXCEPT ![s] = new] /\ UNCHANGED <<file, remains, lock, replaced, rank, faults>>
    BY <1>9 DEF AskToSave
  <2> QED
    BY <2>1, <2>2
<1>10. CASE LosePower
  BY <1>10 DEF LosePower
<1>11. CASE UNCHANGED storeVars
  BY <1>11 DEF storeVars
<1> QED
  BY <1>1, <1>2, <1>3, <1>4, <1>5, <1>6, <1>7, <1>8, <1>9, <1>10, <1>11 DEF StoreNext, Proceed

\* Type correctness: the file, what may remain of it, and every save stay in their
\* domains.
THEOREM StoreTypeCorrect == StoreSpec => []StoreTypeOK
BY InitStoreTypeOK, NextStoreTypeOK, PTL DEF StoreSpec

-----------------------------------------------------------------------------
(* Acknowledged saves                                                       *)

\* The settings with those of a save set.
With(settings, s) == [k \in ConfigKeys |-> IF k \in save[s].keys THEN s ELSE settings[k]]

\* Whoever is between the lock and the end of its save is who holds the lock.
OneHolder == \A s \in Saves : Holding(s) => lock = s

\* What a temporary file was copied from is still the file: only the holder of the
\* lock replaces it, and a loss of power ends the holder too.
CopyIsCurrent ==
    \A s \in Saves : save[s].phase \in {"filled", "synced"} => save[s].temporary = With(file, s)

\* Every value was written by a replacement that took place, and ranks are the
\* order of those.
RanksAreCounted == \A s \in Saves : rank[s] <= replaced

\* The file is what it is after a replacement until the lock is released.
ReplacedIsThere ==
    \A s \in Saves : save[s].phase = "replaced" => \A k \in save[s].keys : file[k] = s

\* Inductive: an unsynced save is the last of all replacements, so what it covers is
\* later than every save that was acknowledged.
StoreInv ==
    /\ OneHolder
    /\ CopyIsCurrent
    /\ RanksAreCounted
    /\ ReplacedIsThere
    /\ file \in remains
    /\ AcknowledgedSavesLast

LEMMA InitStoreInv == StoreInit => StoreInv
BY DEF StoreInit, StoreInv, OneHolder, CopyIsCurrent, RanksAreCounted, ReplacedIsThere,
       AcknowledgedSavesLast, Holding

\* Two saves do not hold the lock together.
LEMMA HoldersAreEqual ==
    ASSUME OneHolder, NEW s \in Saves, NEW t \in Saves, Holding(s), Holding(t)
    PROVE  s = t
BY DEF OneHolder

\* A save that changes its phase without touching the file, the ranks or its keys, and
\* that is not acknowledged by it, preserves everything but what is said of the lock.
LEMMA PhaseStep ==
    ASSUME StoreTypeOK, StoreInv, NEW s \in Saves, NEW phase, Enter(s, phase),
           phase \notin {"filled", "synced", "replaced", "saved"},
           UNCHANGED <<file, remains, replaced, rank>>
    PROVE  CopyIsCurrent' /\ RanksAreCounted' /\ ReplacedIsThere' /\ file' \in remains'
             /\ AcknowledgedSavesLast'
<1>1. \A t \in Saves : /\ save'[t].keys = save[t].keys /\ save'[t].temporary = save[t].temporary
                       /\ save'[t].phase = IF t = s THEN phase ELSE save[t].phase
  BY DEF Enter, StoreTypeOK, SaveState
<1> QED
  BY <1>1 DEF StoreInv, CopyIsCurrent, With, RanksAreCounted, ReplacedIsThere,
              AcknowledgedSavesLast

LEMMA NextStoreInv == StoreTypeOK /\ StoreTypeOK' /\ StoreInv /\ [StoreNext]_storeVars => StoreInv'
<1> SUFFICES ASSUME StoreTypeOK, StoreTypeOK', StoreInv, [StoreNext]_storeVars PROVE StoreInv'
  OBVIOUS
<1>n. NoSave \notin Saves /\ Unset \notin Saves
  BY StoreAssumption
<1>1. ASSUME NEW s \in Saves, Lock(s) PROVE StoreInv'
  <2>1. OneHolder'
    BY <1>1, <1>n DEF Lock, Enter, StoreInv, OneHolder, Holding, StoreTypeOK, SaveState
  <2> QED
    BY <1>1, <2>1, PhaseStep DEF Lock, StoreInv
<1>2. ASSUME NEW s \in Saves, Fill(s) PROVE StoreInv'
  <2>1. \A t \in Saves : /\ save'[t].keys = save[t].keys
                         /\ t # s => save'[t] = save[t]
    BY <1>2 DEF Fill, StoreTypeOK, SaveState
  <2>2. save'[s].phase = "filled" /\ save'[s].temporary = With(file, s)
    BY <1>2 DEF Fill, With, StoreTypeOK, SaveState
  <2>3. Holding(s) /\ Holding(s)' /\ UNCHANGED <<file, remains, lock, replaced, rank>>
    BY <1>2, <2>2 DEF Fill, Holding
  <2>4. OneHolder' /\ ReplacedIsThere'
    BY <2>1, <2>2, <2>3 DEF StoreInv, OneHolder, Holding, ReplacedIsThere
  <2>5. CopyIsCurrent'
    BY <2>1, <2>2, <2>3 DEF StoreInv, CopyIsCurrent, With
  <2> QED
    BY <2>1, <2>2, <2>3, <2>4, <2>5 DEF StoreInv, RanksAreCounted, AcknowledgedSavesLast
<1>3. ASSUME NEW s \in Saves, SyncTemporary(s) PROVE StoreInv'
  <2>1. \A t \in Saves : /\ save'[t].keys = save[t].keys /\ save'[t].temporary = save[t].temporary
                         /\ t # s => save'[t] = save[t]
    BY <1>3 DEF SyncTemporary, Enter, StoreTypeOK, SaveState
  <2>2. save[s].phase = "filled" /\ save'[s].phase = "synced"
    BY <1>3 DEF SyncTemporary, Enter, StoreTypeOK, SaveState
  <2>3. UNCHANGED <<file, remains, lock, replaced, rank>>
    BY <1>3 DEF SyncTemporary
  <2> QED
    BY <2>1, <2>2, <2>3 DEF StoreInv, OneHolder, Holding, CopyIsCurrent, With, RanksAreCounted,
                            ReplacedIsThere, AcknowledgedSavesLast
<1>4. ASSUME NEW s \in Saves, Replace(s) PROVE StoreInv'
  <2>1. \A t \in Saves : /\ save'[t].keys = save[t].keys /\ save'[t].temporary = save[t].temporary
                         /\ t # s => save'[t] = save[t]
    BY <1>4 DEF Replace, Enter, StoreTypeOK, SaveState
  <2>2. save[s].phase = "synced" /\ save'[s].phase = "replaced"
    BY <1>4 DEF Replace, Enter, StoreTypeOK, SaveState
  <2>3. /\ file' = With(file, s)
        /\ remains' = remains \cup {file'}
        /\ \A t \in Saves : rank'[t] = IF t = s THEN replaced + 1 ELSE rank[t]
        /\ replaced' = replaced + 1
        /\ UNCHANGED lock
    BY <1>4, <2>2 DEF Replace, StoreInv, CopyIsCurrent, StoreTypeOK
  <2>4. \A t \in Saves : Holding(t) => t = s
    BY <2>2 DEF StoreInv, OneHolder, Holding
  <2>5. OneHolder' /\ CopyIsCurrent' /\ ReplacedIsThere'
    BY <2>1, <2>2, <2>3, <2>4 DEF StoreInv, OneHolder, Holding, CopyIsCurrent, ReplacedIsThere,
                                  With, StoreTypeOK, SaveState
  <2>6. RanksAreCounted'
    BY <2>3 DEF StoreInv, RanksAreCounted, StoreTypeOK
  <2>7. AcknowledgedSavesLast'
    <3> SUFFICES ASSUME NEW t \in Saves, save'[t].phase = "saved", NEW k \in save'[t].keys,
                        NEW left \in remains' \cup {file'}
                 PROVE  left[k] # Unset /\ rank'[t] <= rank'[left[k]]
      BY DEF AcknowledgedSavesLast
    <3>1. t # s /\ save[t].phase = "saved" /\ k \in save[t].keys /\ k \in ConfigKeys
      BY <2>1, <2>2 DEF StoreTypeOK, SaveState
    <3>2. rank'[t] = rank[t] /\ rank[t] <= replaced
      BY <2>3, <3>1 DEF StoreInv, RanksAreCounted
    <3>3. ASSUME NEW old \in remains PROVE old[k] # Unset /\ rank'[t] <= rank'[old[k]]
      <4>1. old[k] # Unset /\ rank[t] <= rank[old[k]]
        BY <3>1 DEF StoreInv, AcknowledgedSavesLast
      <4>2. old[k] \in Saves
        BY <4>1, <3>1 DEF StoreTypeOK, Settings
      <4> QED
        BY <4>1, <4>2, <2>3, <3>2 DEF StoreTypeOK
    <3>4. CASE left = file'
      <4>1. CASE k \in save[s].keys
        BY <3>4, <4>1, <3>1, <3>2, <2>3, <1>n DEF With, StoreTypeOK
      <4>2. CASE k \notin save[s].keys
        <5>1. left[k] = file[k]
          BY <3>4, <4>2, <3>1, <2>3 DEF With
        <5> QED
          BY <5>1, <3>3 DEF StoreInv
      <4> QED
        BY <4>1, <4>2
    <3> QED
      BY <3>3, <3>4, <2>3
  <2> QED
    BY <2>3, <2>5, <2>6, <2>7 DEF StoreInv
<1>5. ASSUME NEW s \in Saves, SyncDirectory(s) PROVE StoreInv'
  <2>1. \A t \in Saves : /\ save'[t].keys = save[t].keys /\ save'[t].temporary = save[t].temporary
                         /\ t # s => save'[t] = save[t]
    BY <1>5 DEF SyncDirectory, Enter, StoreTypeOK, SaveState
  <2>2. save[s].phase = "replaced" /\ save'[s].phase = "saved"
    BY <1>5 DEF SyncDirectory, Enter, StoreTypeOK, SaveState
  <2>3. remains' = {file} /\ UNCHANGED <<file, replaced, rank>>
    BY <1>5 DEF SyncDirectory
  <2>4. \A t \in Saves : Holding(t) => t = s
    BY <2>2 DEF StoreInv, OneHolder, Holding
  <2>5. OneHolder' /\ CopyIsCurrent' /\ RanksAreCounted' /\ ReplacedIsThere'
    BY <2>1, <2>2, <2>3, <2>4 DEF StoreInv, OneHolder, Holding, CopyIsCurrent, With,
                                  RanksAreCounted, ReplacedIsThere
  <2>6. AcknowledgedSavesLast'
    <3> SUFFICES ASSUME NEW t \in Saves, save'[t].phase = "saved", NEW k \in save[t].keys
                 PROVE  file[k] # Unset /\ rank[t] <= rank[file[k]]
      BY <2>1, <2>3 DEF AcknowledgedSavesLast
    <3>1. CASE t = s
      BY <3>1, <2>2, <1>n DEF StoreInv, ReplacedIsThere, StoreTypeOK
    <3>2. CASE t # s
      BY <3>2, <2>1 DEF StoreInv, AcknowledgedSavesLast
    <3> QED
      BY <3>1, <3>2
  <2> QED
    BY <2>3, <2>5, <2>6 DEF StoreInv
<1>6. ASSUME NEW s \in Saves, RefuseSave(s) PROVE StoreInv'
  <2>1. OneHolder'
    BY <1>6 DEF RefuseSave, Enter, StoreInv, OneHolder, Holding, StoreTypeOK, SaveState
  <2> QED
    BY <1>6, <2>1, PhaseStep DEF RefuseSave, StoreInv
<1>7. ASSUME NEW s \in Saves, NEW phase \in {"failed", "dead"}, Enter(s, phase), lock' = Unlocked(s),
             UNCHANGED <<file, remains, replaced, rank>>
      PROVE  StoreInv'
  <2>1. OneHolder'
    BY <1>7 DEF Enter, Unlocked, StoreInv, OneHolder, Holding, StoreTypeOK, SaveState
  <2> QED
    BY <1>7, <2>1, PhaseStep DEF StoreInv
<1>8. ASSUME NEW s \in Saves, NEW ks \in Groups, AskToSave(s, ks) PROVE StoreInv'
  <2>1. \A t \in Saves : t # s => save'[t] = save[t]
    BY <1>8 DEF AskToSave, StoreTypeOK
  <2>2. save'[s].phase = "asked"
    BY <1>8 DEF AskToSave, StoreTypeOK, SaveState
  <2>3. UNCHANGED <<file, remains, lock, replaced, rank>>
    BY <1>8 DEF AskToSave
  <2> QED
    BY <2>1, <2>2, <2>3 DEF StoreInv, OneHolder, Holding, CopyIsCurrent, With, RanksAreCounted,
                            ReplacedIsThere, AcknowledgedSavesLast
<1>9. CASE LosePower
  <2>1. \A t \in Saves : /\ ~ Holding(t)' /\ save'[t].phase \notin {"filled", "synced", "replaced"}
                         /\ save'[t].phase = "saved" => save'[t] = save[t]
    BY <1>9 DEF LosePower, Pending, Holding, StoreTypeOK, SaveState
  <2>2. file' \in remains /\ remains' = {file'} /\ UNCHANGED <<replaced, rank>>
    BY <1>9 DEF LosePower
  <2> QED
    BY <2>1, <2>2 DEF StoreInv, OneHolder, CopyIsCurrent, RanksAreCounted,
                      ReplacedIsThere, AcknowledgedSavesLast
<1>10. CASE UNCHANGED storeVars
  BY <1>10 DEF storeVars, StoreInv, OneHolder, Holding, CopyIsCurrent, With, RanksAreCounted,
               ReplacedIsThere, AcknowledgedSavesLast
<1>11. ASSUME NEW s \in Saves, FailSave(s) \/ Die(s) PROVE StoreInv'
  BY <1>11, <1>7 DEF FailSave, Die
<1> QED
  BY <1>1, <1>2, <1>3, <1>4, <1>5, <1>6, <1>8, <1>9, <1>10, <1>11 DEF StoreNext, Proceed

\* Acknowledged saves last: whatever other saves do, whichever processes die and
\* however often power is lost, a setting keeps the value of the last save that was
\* acknowledged, or has that of a later one.
THEOREM StoreIsSafe == StoreSpec => []AcknowledgedSavesLast
<1>1. StoreTypeOK /\ StoreInv /\ [StoreNext]_storeVars => StoreTypeOK' /\ StoreInv'
  BY NextStoreTypeOK, NextStoreInv
<1>2. StoreSpec => []StoreInv
  BY <1>1, InitStoreTypeOK, InitStoreInv, PTL DEF StoreSpec
<1> QED
  BY <1>2, PTL DEF StoreInv

-----------------------------------------------------------------------------
(* Refinement                                                               *)

shown == [s \in Saves |-> StatusOf(s)]
chosen == [s \in Saves |-> save[s].keys]

\* Every step of the store is a step of the map or invisible to it.
LEMMA SaveStep == StoreTypeOK /\ StoreInv /\ [StoreNext]_storeVars => [Map!MapNext]_Map!mapVars
<1> SUFFICES ASSUME StoreTypeOK, StoreInv, [StoreNext]_storeVars
             PROVE  Map!MapNext \/ UNCHANGED Map!mapVars
  OBVIOUS
<1>1. ASSUME NEW s \in Saves, Lock(s) \/ Fill(s) \/ SyncTemporary(s) PROVE UNCHANGED Map!mapVars
  <2>1. UNCHANGED <<file, remains>>
    BY <1>1 DEF Lock, Fill, SyncTemporary
  <2>2. \A t \in Saves : StatusOf(t)' = StatusOf(t) /\ save'[t].keys = save[t].keys
    BY <1>1 DEF Lock, Fill, SyncTemporary, Enter, StatusOf, StoreTypeOK, SaveState
  <2> QED
    BY <2>1, <2>2 DEF Map!mapVars
<1>2. ASSUME NEW s \in Saves, Replace(s) PROVE Map!Make(s)
  <2>1. file' = With(file, s) /\ remains' = remains \cup {file'}
    BY <1>2 DEF Replace, StoreInv, CopyIsCurrent
  <2>2. UNCHANGED chosen
    BY <1>2 DEF Replace, Enter, chosen, StoreTypeOK, SaveState
  <2>3. shown' = [shown EXCEPT ![s] = "made"] /\ shown[s] = "asked"
    BY <1>2 DEF Replace, Enter, shown, StatusOf, StoreTypeOK, SaveState
  <2> QED
    BY <2>1, <2>2, <2>3 DEF Map!Make, With, shown, chosen
<1>3. ASSUME NEW s \in Saves, SyncDirectory(s) PROVE Map!Acknowledge(s)
  <2>1. UNCHANGED <<file, chosen>> /\ remains' = {file}
    BY <1>3 DEF SyncDirectory, Enter, chosen, StoreTypeOK, SaveState
  <2>2. shown' = [shown EXCEPT ![s] = "saved"] /\ shown[s] = "made"
    BY <1>3 DEF SyncDirectory, Enter, shown, StatusOf, StoreTypeOK, SaveState
  <2> QED
    BY <2>1, <2>2 DEF Map!Acknowledge, shown, chosen
<1>4. ASSUME NEW s \in Saves, RefuseSave(s) PROVE Map!Decline(s)
  <2>1. UNCHANGED <<file, remains, chosen>>
    BY <1>4 DEF RefuseSave, Enter, chosen, StoreTypeOK, SaveState
  <2>2. shown' = [shown EXCEPT ![s] = "over"] /\ shown[s] = "idle"
    BY <1>4 DEF RefuseSave, Enter, shown, StatusOf, StoreTypeOK, SaveState
  <2> QED
    BY <2>1, <2>2 DEF Map!Decline, shown, chosen
<1>5. ASSUME NEW s \in Saves, FailSave(s) \/ Die(s) PROVE Map!GiveUp(s)
  <2>1. UNCHANGED <<file, remains, chosen>>
    BY <1>5 DEF FailSave, Die, Enter, chosen, StoreTypeOK, SaveState
  <2>2. shown' = [shown EXCEPT ![s] = "over"] /\ shown[s] \in {"asked", "made"}
    BY <1>5 DEF FailSave, Die, Enter, Pending, Holding, shown, StatusOf, StoreTypeOK, SaveState
  <2> QED
    BY <2>1, <2>2 DEF Map!GiveUp, shown, chosen
<1>6. ASSUME NEW s \in Saves, NEW ks \in Groups, AskToSave(s, ks) PROVE Map!AskFor(s, ks)
  <2>1. UNCHANGED <<file, remains>> /\ chosen' = [chosen EXCEPT ![s] = ks]
    BY <1>6 DEF AskToSave, chosen, StoreTypeOK, SaveState
  <2>2. shown' = [shown EXCEPT ![s] = "asked"] /\ shown[s] = "idle"
    BY <1>6 DEF AskToSave, shown, StatusOf, StoreTypeOK, SaveState
  <2> QED
    BY <2>1, <2>2 DEF Map!AskFor, shown, chosen
<1>7. ASSUME LosePower PROVE Map!MapNext
  <2>1. file' \in remains /\ remains' = {file'} /\ UNCHANGED chosen
    BY <1>7 DEF LosePower, chosen, StoreTypeOK, SaveState
  <2>2. shown' = [s \in Saves |-> IF shown[s] \in {"asked", "made"} THEN "over" ELSE shown[s]]
    BY <1>7 DEF LosePower, Pending, Holding, shown, StatusOf, StoreTypeOK, SaveState
  <2> QED
    BY <2>1, <2>2 DEF Map!PowerIsLost, Map!MapNext, shown, chosen
<1>8. CASE UNCHANGED storeVars
  <2>1. UNCHANGED <<file, remains, save>>
    BY <1>8 DEF storeVars
  <2> QED
    BY <2>1 DEF Map!mapVars, StatusOf
<1>9. ASSUME NEW s \in Saves, Replace(s) \/ SyncDirectory(s) \/ RefuseSave(s) \/ FailSave(s) \/ Die(s)
      PROVE  Map!MapNext
  BY <1>2, <1>3, <1>4, <1>5, <1>9 DEF Map!MapNext
<1>10. ASSUME NEW s \in Saves, NEW ks \in Groups, AskToSave(s, ks) PROVE Map!MapNext
  BY <1>6, <1>10, StoreAssumption DEF Map!MapNext
<1> QED
  BY <1>1, <1>7, <1>8, <1>9, <1>10 DEF StoreNext, Proceed

\* The lock, the copy, the rename and the syncs implement a map whose updates happen at
\* once and last when they are acknowledged.
THEOREM ImplementsConfigMap == StoreSpec => Map!MapSafety
<1>1. StoreInit => Map!MapInit
  BY DEF StoreInit, Map!MapInit, Blank, StatusOf
<1>2. StoreTypeOK /\ StoreInv /\ [StoreNext]_storeVars => StoreTypeOK' /\ StoreInv'
  BY NextStoreTypeOK, NextStoreInv
<1>3. StoreSpec => [](StoreTypeOK /\ StoreInv)
  BY <1>2, InitStoreTypeOK, InitStoreInv, PTL DEF StoreSpec
<1> QED
  BY <1>1, <1>3, SaveStep, PTL DEF StoreSpec, Map!MapSafety
================================================================================
