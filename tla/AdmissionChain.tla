---------------------------- MODULE AdmissionChain ----------------------------
(***************************************************************************)
(* What recurrence admission promises of one group (decision 0018): the    *)
(* candidates it admits form a single chain.  The first supersedes         *)
(* nothing, each later one supersedes exactly the one admitted before it,  *)
(* and no admitted candidate is ever withdrawn or reordered.               *)
(***************************************************************************)
EXTENDS Naturals, Sequences

CONSTANTS Candidates, None

VARIABLE chain      \* admitted candidates, oldest first

Tip == IF chain = << >> THEN None ELSE chain[Len(chain)].id

Admit(c) ==
  /\ c.supersedes = Tip
  /\ \A k \in DOMAIN chain : chain[k].id # c.id /\ chain[k].content # c.content
  /\ chain' = Append(chain, c)

Init == chain = << >>
Next == \E c \in Candidates : Admit(c)
Spec == Init /\ [][Next]_chain
===============================================================================
