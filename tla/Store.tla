--------------------------------- MODULE Store ---------------------------------
(***************************************************************************)
(* The promise of the record store to concurrent processes: a call takes   *)
(* effect at one instant between its start and its return, and answers     *)
(* about that instant; or it fails, or its process dies, and it may only   *)
(* have taken effect if it was answered.  This is the reference store      *)
(* (testing/in-memory-store.ts) called concurrently, but for Lose.         *)
(***************************************************************************)
EXTENDS Cells

CONSTANTS Procs, Keys, Ops

VARIABLES
  cells,   \* by key, the cell
  calls    \* by process, the call it is in: [op, answer]

NoCall == [op |-> None, answer |-> None]

Init == /\ cells = [k \in Keys |-> None]
        /\ calls = [p \in Procs |-> NoCall]

Begin(p) ==
  /\ calls[p] = NoCall
  /\ \E op \in Ops : calls' = [calls EXCEPT ![p].op = op]
  /\ UNCHANGED cells

Pending(p) == calls[p].op # None /\ calls[p].answer = None

Perform(p) ==
  /\ Pending(p)
  /\ LET op == calls[p].op
         cell == cells[op.key]
     IN /\ calls' = [calls EXCEPT ![p].answer = Answer(op, cell)]
        /\ cells' = IF Applies(op, cell)
                    THEN [cells EXCEPT ![op.key] = Effect(op, cell)] ELSE cells

(* An append that was to begin a stream, and finds one begun meanwhile, is *)
(* told of a conflict though its own operation may have begun it.          *)
Lose(p) ==
  /\ Pending(p)
  /\ LET op == calls[p].op
         cell == cells[op.key]
     IN /\ op.kind = "append" /\ op.expected = 0 /\ cell # None
        /\ calls' = [calls EXCEPT ![p].answer =
                       [status |-> "conflict", revision |-> Revision(cell)]]
  /\ UNCHANGED cells

Fail(p) ==
  /\ Pending(p) /\ calls' = [calls EXCEPT ![p].answer = Unavailable]
  /\ UNCHANGED cells

(* Return, or death with or without an answer.                             *)
End(p) ==
  /\ calls[p] # NoCall /\ calls' = [calls EXCEPT ![p] = NoCall]
  /\ UNCHANGED cells

Next == \E p \in Procs : Begin(p) \/ Perform(p) \/ Lose(p) \/ Fail(p) \/ End(p)

Spec == Init /\ [][Next]_<<cells, calls>>
===============================================================================
