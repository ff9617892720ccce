---------------------------- MODULE DeliveryPromise ----------------------------
(***************************************************************************)
(* What webhook delivery promises, without messages, leases, workers or    *)
(* anything a session has read: a report owes a notice to each destination *)
(* active when it appears, a notice is tried one request at a time until   *)
(* one was received or the tries are used up, and then never again.        *)
(***************************************************************************)
EXTENDS Naturals

CONSTANTS Reports, Destinations, MaxDeliveryAttempts

Notices == Destinations \X Reports

VARIABLES
    dest,      \* of each destination: "active", "inactive" or "deleted"
    notice,    \* of each notice, "none" before its report, "void" when none is owed
    tries,     \* tries begun, while the notice stands
    open,      \* notices with a request that may still arrive
    refused,   \* notices whose latest try found the destination not active
    received   \* requests that have reached the destination

vars == <<dest, notice, tries, open, refused, received>>

Init ==
    /\ dest \in [Destinations -> {"active", "inactive"}]
    /\ notice = [d \in Notices |-> "none"]
    /\ tries = [d \in Notices |-> 0]
    /\ open = {} /\ refused = {}
    /\ received = [d \in Notices |-> 0]

-----------------------------------------------------------------------------

\* A report appears, and with it what it owes.
Announce(r) ==
    /\ \A x \in Destinations : notice[<<x, r>>] = "none"
    /\ notice' = [d \in Notices |->
                    IF d[2] # r THEN notice[d]
                    ELSE IF dest[d[1]] = "active" THEN "owed" ELSE "void"]
    /\ UNCHANGED <<dest, tries, open, refused, received>>

Try(d) ==
    /\ notice[d] = "owed"
    /\ d \notin open \cup refused
    /\ tries' = [tries EXCEPT ![d] = @ + 1]
    /\ open' = open \cup {d}
    /\ UNCHANGED <<dest, notice, refused, received>>

\* A request arrives at most once, also when its notice was withdrawn meanwhile.
Arrive(d) ==
    /\ d \in open
    /\ open' = open \ {d}
    /\ received' = [received EXCEPT ![d] = @ + 1]
    /\ UNCHANGED <<dest, notice, tries, refused>>

\* The destination was switched off: nothing is sent.
Refuse(d) ==
    /\ d \in open
    /\ notice[d] = "owed"
    /\ dest[d[1]] # "active"
    /\ open' = open \ {d}
    /\ refused' = refused \cup {d}
    /\ UNCHANGED <<dest, notice, tries, received>>

\* A try that came to nothing.
Drop(d) ==
    /\ d \in open \cup refused
    /\ open' = open \ {d}
    /\ refused' = refused \ {d}
    /\ UNCHANGED <<dest, notice, tries, received>>

Deliver(d) ==
    /\ notice[d] = "owed"
    /\ received[d] > 0
    /\ d \notin open \cup refused
    /\ notice' = [notice EXCEPT ![d] = "delivered"]
    /\ UNCHANGED <<dest, tries, open, refused, received>>

Fail(d) ==
    /\ notice[d] = "owed"
    /\ d \notin open
    /\ d \in refused \/ tries[d] >= MaxDeliveryAttempts
    /\ notice' = [notice EXCEPT ![d] = "failed"]
    /\ refused' = refused \ {d}
    /\ UNCHANGED <<dest, tries, open, received>>

-----------------------------------------------------------------------------

\* What was owed, delivered or failed is void once its row is gone.
Void(gone) ==
    /\ notice' = [d \in Notices |->
                    IF d \in gone /\ notice[d] # "none" THEN "void" ELSE notice[d]]
    /\ tries' = [d \in Notices |-> IF d \in gone THEN 0 ELSE tries[d]]
    /\ UNCHANGED <<open, refused, received>>

DeleteReports(reports) ==
    /\ Void({d \in Notices : d[2] \in reports})
    /\ UNCHANGED dest

Switch(x) ==
    /\ dest[x] # "deleted"
    /\ dest' = [dest EXCEPT ![x] = IF @ = "active" THEN "inactive" ELSE "active"]
    /\ UNCHANGED <<notice, tries, open, refused, received>>

DeleteDestination(x) ==
    /\ dest[x] # "deleted"
    /\ dest' = [dest EXCEPT ![x] = "deleted"]
    /\ Void({d \in Notices : d[1] = x})

Next ==
    \/ \E r \in Reports : Announce(r)
    \/ \E d \in Notices :
         Try(d) \/ Arrive(d) \/ Refuse(d) \/ Drop(d) \/ Deliver(d) \/ Fail(d)
    \/ \E reports \in SUBSET Reports : DeleteReports(reports)
    \/ \E x \in Destinations : Switch(x) \/ DeleteDestination(x)

Spec == Init /\ [][Next]_vars
=============================================================================
