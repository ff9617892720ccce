----------------------------- MODULE ConfigStore -----------------------------
(***************************************************************************)
(* The runtime configuration: one file of settings that API processes      *)
(* replace as a whole (upsert_env_values) and that every process reads as  *)
(* a whole (reload_runtime_settings).  A save runs under a file lock: it   *)
(* copies the settings into a temporary file, sets its own, and renames    *)
(* the file into place.  Processes die, calls fail and power is lost       *)
(* between any two of these steps.                                         *)
(*                                                                         *)
(* The value of a setting is the save that wrote it.  A rename is atomic   *)
(* for readers, and it outlasts a loss of power once the directory is      *)
(* synced.                                                                 *)
(***************************************************************************)
EXTENDS Naturals, FiniteSets

CONSTANTS
    Saves,       \* requests that save settings, each in a process of its own
    ConfigKeys,  \* ALLOWED_KEYS
    Groups,      \* the sets of settings that the routes save together
    NoSave,      \* the holder of a lock that is free
    Unset,       \* the value of a setting that is not in the file
    MaxFaults    \* bound: processes that die and losses of power

ASSUME StoreAssumption ==
    NoSave \notin Saves /\ Unset \notin Saves /\ Groups \subseteq SUBSET ConfigKeys
        /\ MaxFaults \in Nat

VARIABLES
    file,      \* the settings in the file that ENV_PATH names
    remains,   \* the contents ENV_PATH may have after a loss of power
    lock,      \* the save whose process holds the lock file
    save,      \* how far each save is
    replaced,  \* history: how many times the file was replaced
    rank,      \* history: which of the replacements was each save's; 0: none yet
    faults     \* what has gone wrong so far

storeVars == <<file, remains, lock, save, replaced, rank, faults>>

-----------------------------------------------------------------------------

Settings == [ConfigKeys -> Saves \cup {Unset}]

\* "asked": waiting for the lock.  "failed": answered with an error.  "dead": never
\* answered.
SaveState ==
    [phase : {"idle", "asked", "locked", "filled", "synced", "replaced",
              "saved", "refused", "failed", "dead"},
     keys : SUBSET ConfigKeys, temporary : Settings]

Blank == [k \in ConfigKeys |-> Unset]

\* The phases in which a save holds the lock, and those in which its process can end.
Holding(s) == save[s].phase \in {"locked", "filled", "synced", "replaced"}
Pending(s) == save[s].phase = "asked" \/ Holding(s)

Enter(s, phase) == save' = [save EXCEPT ![s].phase = phase]

\* The kernel frees the lock of a process that closes the file or dies.
Unlocked(s) == IF lock = s THEN NoSave ELSE lock

StoreInit ==
    /\ file = Blank
    /\ remains = {Blank}
    /\ lock = NoSave
    /\ save = [s \in Saves |-> [phase |-> "idle", keys |-> {}, temporary |-> Blank]]
    /\ replaced = 0
    /\ rank = [s \in Saves |-> 0]
    /\ faults = 0

-----------------------------------------------------------------------------

AskToSave(s, ks) ==
    /\ save[s].phase = "idle"
    /\ save' = [save EXCEPT ![s] = [phase |-> "asked", keys |-> ks, temporary |-> Blank]]
    /\ UNCHANGED <<file, remains, lock, replaced, rank, faults>>

\* A read-only store, a key or value that is not allowed, an unsafe address: all are
\* noticed before the lock is asked for.
RefuseSave(s) ==
    /\ save[s].phase = "idle"
    /\ Enter(s, "refused")
    /\ UNCHANGED <<file, remains, lock, replaced, rank, faults>>

\* Faulty variant of Lock: the lock does not keep others out.
LockShared(s) ==
    /\ save[s].phase = "asked"
    /\ lock' = s
    /\ Enter(s, "locked")
    /\ UNCHANGED <<file, remains, replaced, rank, faults>>

\* flock(LOCK_EX) returns.
Lock(s) ==
    /\ save[s].phase = "asked"
    /\ lock = NoSave
    /\ lock' = s
    /\ Enter(s, "locked")
    /\ UNCHANGED <<file, remains, replaced, rank, faults>>

\* The file is copied into a temporary one, in which the settings are set.
Fill(s) ==
    /\ save[s].phase = "locked"
    /\ save' = [save EXCEPT ![s] =
                  [phase |-> "filled", keys |-> save[s].keys,
                   temporary |-> [k \in ConfigKeys |-> IF k \in save[s].keys THEN s ELSE file[k]]]]
    /\ UNCHANGED <<file, remains, lock, replaced, rank, faults>>

\* What the temporary file holds outlasts a loss of power from now on.
SyncTemporary(s) ==
    /\ save[s].phase = "filled"
    /\ Enter(s, "synced")
    /\ UNCHANGED <<file, remains, lock, replaced, rank, faults>>

\* os.replace: the name may still denote an earlier file after a loss of power.
Replace(s) ==
    /\ save[s].phase = "synced"
    /\ file' = save[s].temporary
    /\ remains' = remains \cup {file'}
    /\ replaced' = replaced + 1
    /\ rank' = [rank EXCEPT ![s] = replaced + 1]
    /\ Enter(s, "replaced")
    /\ UNCHANGED <<lock, faults>>

\* Faulty variant of SyncDirectory: the directory is not synced.
ReturnUnsynced(s) ==
    /\ save[s].phase = "replaced"
    /\ lock' = Unlocked(s)
    /\ Enter(s, "saved")
    /\ UNCHANGED <<file, remains, replaced, rank, faults>>

\* The directory is synced, the lock file closed and the request acknowledged.
SyncDirectory(s) ==
    /\ save[s].phase = "replaced"
    /\ remains' = {file}
    /\ lock' = Unlocked(s)
    /\ Enter(s, "saved")
    /\ UNCHANGED <<file, replaced, rank, faults>>

\* A call fails: the temporary file is removed, unless it has become the file.
FailSave(s) ==
    /\ Holding(s)
    /\ lock' = Unlocked(s)
    /\ Enter(s, "failed")
    /\ UNCHANGED <<file, remains, replaced, rank, faults>>

\* The process of a save ends.  A temporary file it leaves is never read.
Die(s) ==
    /\ Pending(s) /\ faults < MaxFaults
    /\ lock' = Unlocked(s)
    /\ Enter(s, "dead")
    /\ faults' = faults + 1
    /\ UNCHANGED <<file, remains, replaced, rank>>

LosePower ==
    /\ faults < MaxFaults
    /\ file' \in remains
    /\ remains' = {file'}
    /\ lock' = NoSave
    /\ save' = [s \in Saves |-> IF Pending(s) THEN [save[s] EXCEPT !.phase = "dead"] ELSE save[s]]
    /\ faults' = faults + 1
    /\ UNCHANGED <<replaced, rank>>

-----------------------------------------------------------------------------

\* What a save does unless something goes wrong.
Proceed(s) == Lock(s) \/ Fill(s) \/ SyncTemporary(s) \/ Replace(s) \/ SyncDirectory(s)

StoreNext ==
    \/ \E s \in Saves : Proceed(s) \/ RefuseSave(s) \/ FailSave(s) \/ Die(s)
    \/ \E s \in Saves, ks \in Groups : AskToSave(s, ks)
    \/ LosePower

StoreSpec == StoreInit /\ [][StoreNext]_storeVars

\* A process that runs goes on, and is given the lock when nobody holds it.
StoreFairness == \A s \in Saves : WF_storeVars(Proceed(s))

-----------------------------------------------------------------------------
(* Properties                                                              *)

\* Every variable holds values of its domain.
StoreTypeOK ==
    /\ file \in Settings
    /\ remains \subseteq Settings
    /\ lock \in Saves \cup {NoSave}
    /\ save \in [Saves -> SaveState]
    /\ replaced \in Nat
    /\ rank \in [Saves -> Nat]
    /\ faults \in 0 .. MaxFaults

\* A setting whose save was acknowledged has that value or that of a later save, now
\* and after any loss of power: no concurrent save of other settings takes it away,
\* and no process that dies half way ("Atomically update ... overrides shared by the
\* API and workers", upsert_env_values).
AcknowledgedSavesLast ==
    \A s \in Saves : save[s].phase = "saved" =>
        \A k \in save[s].keys, left \in remains \cup {file} :
            left[k] # Unset /\ rank[s] <= rank[left[k]]

\* A save seen from outside.
StatusOf(s) ==
    IF save[s].phase \in {"locked", "filled", "synced"} THEN "asked"
    ELSE IF save[s].phase = "replaced" THEN "made"
    ELSE IF save[s].phase \in {"refused", "failed", "dead"} THEN "over"
    ELSE save[s].phase

Map == INSTANCE ConfigMap WITH
    status <- [s \in Saves |-> StatusOf(s)],
    keys <- [s \in Saves |-> save[s].keys]

\* The lock, the copy and the rename implement a map that is updated at once and
\* whose updates are answered.
RefinesConfigMap == Map!MapSpec
==============================================================================
