------------------------------ MODULE ConfigMap ------------------------------
(***************************************************************************)
(* What the configuration store promises to the requests that save         *)
(* settings and to every process that reads them: a save changes all its   *)
(* keys at once and no other, and once it is acknowledged not even a loss  *)
(* of power takes it back.  Every save that is asked for is answered,      *)
(* unless its process ends.                                                *)
(***************************************************************************)
CONSTANTS
    Saves,       \* requests that save settings; as a value, what they wrote
    ConfigKeys,  \* the settings that may be saved
    Unset        \* the value of a setting that no save has written

VARIABLES
    file,     \* the settings, as a reader finds them
    remains,  \* what a reader may find after a loss of power
    status,   \* how far each save is
    keys      \* the settings each save writes

mapVars == <<file, remains, status, keys>>

MapInit ==
    /\ file = [k \in ConfigKeys |-> Unset]
    /\ remains = {file}
    /\ status = [s \in Saves |-> "idle"]
    /\ keys = [s \in Saves |-> {}]

AskFor(s, ks) ==
    /\ status[s] = "idle"
    /\ status' = [status EXCEPT ![s] = "asked"]
    /\ keys' = [keys EXCEPT ![s] = ks]
    /\ UNCHANGED <<file, remains>>

Decline(s) ==
    /\ status[s] = "idle"
    /\ status' = [status EXCEPT ![s] = "over"]
    /\ UNCHANGED <<file, remains, keys>>

Make(s) ==
    /\ status[s] = "asked"
    /\ file' = [k \in ConfigKeys |-> IF k \in keys[s] THEN s ELSE file[k]]
    /\ remains' = remains \cup {file'}
    /\ status' = [status EXCEPT ![s] = "made"]
    /\ UNCHANGED keys

Acknowledge(s) ==
    /\ status[s] = "made"
    /\ remains' = {file}
    /\ status' = [status EXCEPT ![s] = "saved"]
    /\ UNCHANGED <<file, keys>>

\* A save may fail before or after it is made.
GiveUp(s) ==
    /\ status[s] \in {"asked", "made"}
    /\ status' = [status EXCEPT ![s] = "over"]
    /\ UNCHANGED <<file, remains, keys>>

PowerIsLost ==
    /\ file' \in remains
    /\ remains' = {file'}
    /\ status' = [s \in Saves |-> IF status[s] \in {"asked", "made"} THEN "over" ELSE status[s]]
    /\ UNCHANGED keys

MapNext ==
    \/ \E s \in Saves : Decline(s) \/ Make(s) \/ Acknowledge(s) \/ GiveUp(s)
    \/ \E s \in Saves, ks \in SUBSET ConfigKeys : AskFor(s, ks)
    \/ PowerIsLost

\* Without the promise that every save is answered.
MapSafety == MapInit /\ [][MapNext]_mapVars

MapSpec ==
    /\ MapSafety
    /\ \A s \in Saves : WF_mapVars(Make(s) \/ Acknowledge(s) \/ GiveUp(s))
==============================================================================
