------------------------- MODULE MCClubMembership -------------------------
(* Instances of ClubMembership for TLC.                                    *)
EXTENDS ClubMembership, TLC

Symmetry == Permutations(Users) \cup Permutations(Reqs)

(* Bound: with concurrent requests all the operations at once are too many *)
(* states.  Requests that overlap moderate the roster, as long as the club *)
(* has not been handed over, or hand it over, while nobody is waiting; the *)
(* join policy, which these do not ask for, is then PUBLIC.                *)
Moderation == {"approve", "reject", "remove", "changeRole", "leave", "dissolve",
               "admit", "admitDirect", "settings"}
HandOvers == {"remove", "transfer", "reclaim", "admitDirect"}

InService == {req[r].call.op : r \in {s \in Reqs : req[s] # NULL}}
Overlap ==
    \/ InService \subseteq Moderation /\ now = 0 /\ club.transferredAt = NULL
    \/ /\ InService \subseteq HandOvers
       /\ club.policy = "PUBLIC" /\ \A u \in Users : status[u] # "PENDING"
=============================================================================
