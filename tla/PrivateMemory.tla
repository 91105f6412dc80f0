--------------------------- MODULE PrivateMemory ---------------------------
(***************************************************************************)
(* What stage-2 translation promises: every guest page is nowhere, is a    *)
(* device page whose accesses are emulated, or is a page of RAM that no    *)
(* other guest page shares, and what it once is it remains.                *)
(***************************************************************************)
CONSTANTS VMs, Pages, Frames, Nowhere, Device

VARIABLE place   \* where each page of each VM is

Init == place = [v \in VMs |-> [p \in Pages |-> Nowhere]]

Used == {place[v][p] : v \in VMs, p \in Pages} \cap Frames

\* Page p of v gets a place.
Place(v, p) ==
  /\ place[v][p] = Nowhere
  /\ place'[v][p] \in {Device} \cup (Frames \ Used)
  /\ place' = [place EXCEPT ![v][p] = place'[v][p]]

Next == \E v \in VMs, p \in Pages : Place(v, p)

Spec == Init /\ [][Next]_place
=============================================================================
