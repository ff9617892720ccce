----------------------------- MODULE RenderSlots -----------------------------
(***************************************************************************)
(* Rendering of templates and PDFs in child processes (run_render): calls, *)
(* each in a thread of the API process, that take one of few slots or are  *)
(* turned away, start a child, and wait for it until a deadline.           *)
(***************************************************************************)
EXTENDS Naturals, FiniteSets

CONSTANTS
    Calls,  \* threads that render
    Slots   \* the value of the semaphore: how many children may run at once

ASSUME SlotsAssumption == IsFiniteSet(Calls) /\ Slots \in Nat \ {0}

VARIABLES
    free,  \* the semaphore
    call,  \* how far each call is
    child  \* the child process of each call, and how it ended

slotVars == <<free, call, child>>

-----------------------------------------------------------------------------

\* "holding": with a slot, no child yet.  "waiting": inside subprocess.run.
\* "over": returned or raised.
CallState == {"idle", "holding", "waiting", "over"}

\* "failed": a template that does not compile, or a limit on CPU time, memory or
\* file size; "large": more output than the caller takes.
ChildState == {"none", "alive", "good", "large", "failed"}

SlotsInit ==
    /\ free = Slots
    /\ call = [c \in Calls |-> "idle"]
    /\ child = [c \in Calls |-> "none"]

Holders == {c \in Calls : call[c] \in {"holding", "waiting"}}

-----------------------------------------------------------------------------

\* The content or the report is too large, or no slot is free: refused at once.
RefuseSize(c) ==
    /\ call[c] = "idle"
    /\ call' = [call EXCEPT ![c] = "over"]
    /\ UNCHANGED <<free, child>>

RefuseBusy(c) ==
    /\ call[c] = "idle"
    /\ free = 0
    /\ call' = [call EXCEPT ![c] = "over"]
    /\ UNCHANGED <<free, child>>

Acquire(c) ==
    /\ call[c] = "idle"
    /\ free > 0
    /\ free' = free - 1
    /\ call' = [call EXCEPT ![c] = "holding"]
    /\ UNCHANGED child

\* The call leaves the try block, in whatever way: the slot is given back.
Release(c) ==
    /\ free' = free + 1
    /\ call' = [call EXCEPT ![c] = "over"]
    /\ child' = [child EXCEPT ![c] = "none"]

Spawn(c) ==
    /\ call[c] = "holding"
    /\ call' = [call EXCEPT ![c] = "waiting"]
    /\ child' = [child EXCEPT ![c] = "alive"]
    /\ UNCHANGED free

\* No temporary directory, or no process.
SpawnFails(c) ==
    /\ call[c] = "holding"
    /\ Release(c)

ChildEnds(c, how) ==
    /\ child[c] = "alive"
    /\ child' = [child EXCEPT ![c] = how]
    /\ UNCHANGED <<free, call>>

\* The caller reads the output, or raises for a child that failed or wrote too much.
Collect(c) ==
    /\ call[c] = "waiting"
    /\ child[c] \in {"good", "large", "failed"}
    /\ Release(c)

\* Faulty variants of TimeOut: the child is left running, or the slot is kept.
TimeOutOnly(c) ==
    /\ call[c] = "waiting"
    /\ child[c] = "alive"
    /\ free' = free + 1
    /\ call' = [call EXCEPT ![c] = "over"]
    /\ UNCHANGED child

TimeOutKeeping(c) ==
    /\ call[c] = "waiting"
    /\ child[c] = "alive"
    /\ call' = [call EXCEPT ![c] = "over"]
    /\ child' = [child EXCEPT ![c] = "none"]
    /\ UNCHANGED free

\* subprocess.run kills the child, and waits for its end, before it raises.
TimeOut(c) ==
    /\ call[c] = "waiting"
    /\ child[c] = "alive"
    /\ Release(c)

\* The thread serves another request.
Reuse(c) ==
    /\ call[c] = "over"
    /\ call' = [call EXCEPT ![c] = "idle"]
    /\ UNCHANGED <<free, child>>

\* The API process ends, and its container with every child in it; another starts.
RestartApi ==
    /\ free' = Slots
    /\ call' = [c \in Calls |-> "idle"]
    /\ child' = [c \in Calls |-> "none"]

-----------------------------------------------------------------------------

\* What a call does with its slot.
Serve(c) == Spawn(c) \/ SpawnFails(c) \/ Collect(c) \/ TimeOut(c)

SlotsNext ==
    \/ \E c \in Calls : Serve(c) \/ RefuseSize(c) \/ RefuseBusy(c) \/ Acquire(c) \/ Reuse(c)
    \/ \E c \in Calls, how \in {"good", "large", "failed"} : ChildEnds(c, how)
    \/ RestartApi

SlotsSpec == SlotsInit /\ [][SlotsNext]_slotVars

\* A thread goes on, and its wait ends at the deadline; a child may hang.
SlotsFairness == \A c \in Calls : WF_slotVars(Serve(c))

-----------------------------------------------------------------------------
(* Properties                                                              *)

\* Every variable holds values of its domain.
SlotsTypeOK ==
    /\ free \in 0 .. Slots
    /\ call \in [Calls -> CallState]
    /\ child \in [Calls -> ChildState]

Alive == {c \in Calls : child[c] = "alive"}

\* At no time more children run than there are slots, on whatever path earlier calls
\* have ended ("Bounded subprocess execution", _slots).
RendersBounded == Cardinality(Alive) <= Slots

\* A renderer that is busy becomes free again, though children hang or fail.
RendererRecovers == (free = 0) ~> (free > 0)
==============================================================================
