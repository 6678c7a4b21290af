----------------------------- MODULE StoreSpec -----------------------------
(***************************************************************************)
(* What a Manager promises about its resource map and its version counter *)
(* (spec.md section 3): the map only ever changes as part of a mutation    *)
(* that publishes it under the next version number, and the counter moves *)
(* by exactly one per published mutation.  A mutation may publish a map   *)
(* equal to the previous one (Replace with the same set, Add of the same   *)
(* resource): it still counts as a new version.                           *)
(***************************************************************************)
EXTENDS Naturals

CONSTANTS
    Names,   \* resource names
    Vals,    \* resource payloads
    NoRes    \* marks a name absent from the map

VARIABLES
    store,   \* name -> payload, NoRes where absent
    version  \* the version counter

Stores == [Names -> Vals \cup {NoRes}]

Init ==
    /\ store = [n \in Names |-> NoRes]
    /\ version = 0

\* One mutation: any new map, published under the next version.
Publish ==
    /\ version' = version + 1
    /\ store' \in Stores

Spec == Init /\ [][Publish]_<<store, version>>

=============================================================================
