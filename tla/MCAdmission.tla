----------------------------- MODULE MCAdmission -----------------------------
(* Proposals for Admission: a root, a twin of its content under another    *)
(* id, and two successors of the root that compete for one slot.           *)
EXTENDS Admission, TLC

CONSTANTS root, twin, heir1, heir2, x, y, z

Proposal(i, c, s) == [id |-> i, content |-> c, supersedes |-> s]

RivalSuccessors ==
  {Proposal(root, x, None), Proposal(heir1, y, root), Proposal(heir2, z, root)}

(* Three roots, two of them with one content.                               *)
TwinRoots ==
  {Proposal(root, x, None), Proposal(twin, x, None), Proposal(heir1, y, None)}

HostSymmetry == Permutations(Hosts)
===============================================================================
