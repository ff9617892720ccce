--------------------------- MODULE RenderSlotsProofs ---------------------------
(***************************************************************************)
(* Proofs about RenderSlots, for any number of calls and slots.            *)
(***************************************************************************)
EXTENDS RenderSlots, FiniteSetTheorems, TLAPS

\* The domains of calls and children; the bounds of the semaphore follow below.
SlotDomains == free \in Nat /\ call \in [Calls -> CallState] /\ child \in [Calls -> ChildState]

\* Inductive: a slot is free or held by a call that will give it back, and a child
\* that runs has a call that waits for it.
SlotsInv ==
    /\ SlotDomains
    /\ free + Cardinality(Holders) = Slots
    /\ \A c \in Calls : child[c] = "alive" => call[c] = "waiting"

LEMMA HoldersAreFinite == IsFiniteSet(Holders) /\ Cardinality(Holders) \in Nat
<1>1. IsFiniteSet(Holders)
  BY SlotsAssumption, FS_Subset DEF Holders
<1> QED
  BY <1>1, FS_CardinalityType

LEMMA InitSlotsInv == SlotsInit => SlotsInv
<1> SUFFICES ASSUME SlotsInit PROVE SlotsInv
  OBVIOUS
<1>1. Holders = {}
  BY DEF SlotsInit, Holders
<1> QED
  BY <1>1, FS_EmptySet, SlotsAssumption
     DEF SlotsInit, SlotsInv, SlotDomains, CallState, ChildState

\* A holder more and a slot less, or the reverse, keep the sum.
LEMMA TakingASlot ==
    ASSUME SlotsInv, NEW c \in Calls, c \notin Holders, free > 0,
           free' = free - 1, Holders' = Holders \cup {c}
    PROVE  free' \in Nat /\ free' + Cardinality(Holders') = Slots
<1>1. Cardinality(Holders \cup {c}) = Cardinality(Holders) + 1
  BY HoldersAreFinite, FS_AddElement
<1> QED
  BY <1>1, HoldersAreFinite, SlotsAssumption DEF SlotsInv, SlotDomains

LEMMA ReleasingASlot ==
    ASSUME SlotsInv, NEW c \in Holders, free' = free + 1, Holders' = Holders \ {c}
    PROVE  free' \in Nat /\ free' + Cardinality(Holders') = Slots
<1>1. Cardinality(Holders \ {c}) = Cardinality(Holders) - 1
  BY HoldersAreFinite, FS_RemoveElement
<1> QED
  BY <1>1, HoldersAreFinite, SlotsAssumption DEF SlotsInv, SlotDomains

LEMMA NextSlotsInv == SlotsInv /\ [SlotsNext]_slotVars => SlotsInv'
<1> SUFFICES ASSUME SlotsInv, [SlotsNext]_slotVars PROVE SlotsInv'
  OBVIOUS
<1> USE DEF SlotDomains, CallState, ChildState
<1>1. ASSUME NEW c \in Calls, Acquire(c) PROVE SlotsInv'
  <2>1. c \notin Holders /\ Holders' = Holders \cup {c}
    BY <1>1 DEF Acquire, Holders, SlotsInv
  <2>2. free' \in Nat /\ free' + Cardinality(Holders') = Slots
    BY <1>1, <2>1, TakingASlot DEF Acquire
  <2> QED
    BY <1>1, <2>2 DEF Acquire, SlotsInv
<1>2. ASSUME NEW c \in Calls, call[c] \in {"holding", "waiting"}, Release(c) PROVE SlotsInv'
  <2>1. c \in Holders /\ Holders' = Holders \ {c}
    BY <1>2 DEF Release, Holders, SlotsInv
  <2>2. free' \in Nat /\ free' + Cardinality(Holders') = Slots
    BY <1>2, <2>1, ReleasingASlot DEF Release
  <2> QED
    BY <1>2, <2>2 DEF Release, SlotsInv
<1>3. ASSUME NEW c \in Calls, Spawn(c) PROVE SlotsInv'
  <2>1. Holders' = Holders
    BY <1>3 DEF Spawn, Holders, SlotsInv
  <2> QED
    BY <1>3, <2>1 DEF Spawn, SlotsInv
<1>4. ASSUME NEW c \in Calls, SpawnFails(c) \/ Collect(c) \/ TimeOut(c) PROVE SlotsInv'
  BY <1>2, <1>4 DEF SpawnFails, Collect, TimeOut
<1>5. ASSUME NEW c \in Calls, RefuseSize(c) \/ RefuseBusy(c) \/ Reuse(c) PROVE SlotsInv'
  <2>1. Holders' = Holders
    BY <1>5 DEF RefuseSize, RefuseBusy, Reuse, Holders, SlotsInv
  <2> QED
    BY <1>5, <2>1 DEF RefuseSize, RefuseBusy, Reuse, SlotsInv
<1>6. ASSUME NEW c \in Calls, NEW how \in {"good", "large", "failed"}, ChildEnds(c, how)
      PROVE  SlotsInv'
  <2>1. Holders' = Holders
    BY <1>6 DEF ChildEnds, Holders
  <2> QED
    BY <1>6, <2>1 DEF ChildEnds, SlotsInv
<1>7. ASSUME RestartApi PROVE SlotsInv'
  <2>1. Holders' = {}
    BY <1>7 DEF RestartApi, Holders
  <2> QED
    BY <1>7, <2>1, FS_EmptySet, SlotsAssumption DEF RestartApi, SlotsInv
<1>8. CASE UNCHANGED slotVars
  <2>1. Holders' = Holders
    BY <1>8 DEF slotVars, Holders
  <2> QED
    BY <1>8, <2>1 DEF slotVars, SlotsInv
<1> QED
  BY <1>1, <1>3, <1>4, <1>5, <1>6, <1>7, <1>8 DEF SlotsNext, Serve

LEMMA SlotsInvTypes == SlotsInv => SlotsTypeOK
BY HoldersAreFinite, SlotsAssumption DEF SlotsInv, SlotDomains, SlotsTypeOK

\* Type correctness: the semaphore never exceeds its value, however calls end.
THEOREM SlotsTypeCorrect == SlotsSpec => []SlotsTypeOK
BY SlotsInvTypes, InitSlotsInv, NextSlotsInv, PTL DEF SlotsSpec

\* No more children run than there are slots: those that run are held by as many calls.
THEOREM RendersAreBounded == SlotsSpec => []RendersBounded
<1>1. SlotsInv => RendersBounded
  <2> SUFFICES ASSUME SlotsInv PROVE Cardinality(Alive) <= Slots
    BY DEF RendersBounded
  <2>1. Alive \subseteq Holders
    BY DEF Alive, Holders, SlotsInv
  <2>2. Cardinality(Alive) <= Cardinality(Holders) /\ Cardinality(Alive) \in Nat
    BY <2>1, HoldersAreFinite, FS_Subset, FS_CardinalityType
  <2> QED
    BY <2>2, HoldersAreFinite, SlotsAssumption DEF SlotsInv, SlotDomains
<1> QED
  BY <1>1, InitSlotsInv, NextSlotsInv, PTL DEF SlotsSpec
================================================================================
