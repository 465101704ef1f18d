----------------------------- MODULE MCInvites -----------------------------
(* Instances of Invites for TLC.                                           *)
EXTENDS Invites, TLC

(* What the clients of a behaviour do: links, invitations by address, and  *)
(* invitations of members of the service.                                  *)
MCWorkloads ==
    {{"createClub", "rotate", "accept"}, {"external", "register", "accept"},
     {"internal", "register", "accept"}}

Symmetry == Permutations(Users) \cup Permutations(Ids) \cup Permutations(Reqs)
=============================================================================
