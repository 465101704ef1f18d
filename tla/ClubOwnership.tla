---------------------------- MODULE ClubOwnership ----------------------------
(***************************************************************************)
(* What the ownership endpoints of a club promise, with the roster and the *)
(* requests left out: a club has one owner from its creation to its        *)
(* dissolution.  Ownership is handed over atomically, which starts a       *)
(* cooldown; during it the club can only go back to the former owner and   *)
(* cannot be dissolved.                                                    *)
(***************************************************************************)
EXTENDS Integers

CONSTANTS Users, Cooldown, NULL

VARIABLES phase, owner, former, since, clock

vars == <<phase, owner, former, since, clock>>

CoolingDown == since # NULL /\ clock - since < Cooldown

Init ==
    /\ phase = "absent"
    /\ owner = NULL /\ former = NULL /\ since = NULL
    /\ clock = 0

Create(u) ==
    /\ phase = "absent"
    /\ phase' = "live"
    /\ owner' = u
    /\ UNCHANGED <<former, since, clock>>

(* The transfer is dated by a clock reading taken while it was decided.    *)
HandOver(u) ==
    /\ phase = "live"
    /\ u # owner
    /\ CoolingDown => u = former
    /\ owner' = u
    /\ former' = owner
    /\ \E t \in 0..clock : since' = t /\ (since # NULL => since =< t)
    /\ UNCHANGED <<phase, clock>>

TakeBack ==
    /\ phase = "live"
    /\ former # NULL
    /\ owner' = former
    /\ former' = NULL
    /\ since' = NULL
    /\ UNCHANGED <<phase, clock>>

Dissolve ==
    /\ phase = "live"
    /\ ~CoolingDown
    /\ phase' = "dissolved"
    /\ owner' = NULL /\ former' = NULL /\ since' = NULL
    /\ UNCHANGED clock

Pass ==
    /\ clock' = clock + 1
    /\ UNCHANGED <<phase, owner, former, since>>

Next ==
    \/ \E u \in Users : Create(u) \/ HandOver(u)
    \/ TakeBack \/ Dissolve \/ Pass

Spec == Init /\ [][Next]_vars
=============================================================================
