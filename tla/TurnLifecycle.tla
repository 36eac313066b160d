---------------------------- MODULE TurnLifecycle ----------------------------
(***************************************************************************)
(* What a semantic workflow promises of one execution or review key        *)
(* (decisions 0021 to 0023): the provider is called at most once, only     *)
(* after a durable dispatch; an answer is recorded at most once, and what  *)
(* is committed is what was recorded.  A dispatch may stay unanswered.     *)
(***************************************************************************)
CONSTANTS Statuses, None

VARIABLES stage, status

Init == stage = "open" /\ status = None

Dispatch == stage = "open" /\ stage' = "dispatched" /\ UNCHANGED status

Call == stage = "dispatched" /\ stage' = "called" /\ UNCHANGED status

Record ==
  /\ stage = "called" /\ stage' = "recorded"
  /\ \E s \in Statuses : status' = s

Commit == stage = "recorded" /\ stage' = "committed" /\ UNCHANGED status

Next == Dispatch \/ Call \/ Record \/ Commit

Spec == Init /\ [][Next]_<<stage, status>>
===============================================================================
