-------------------------------- MODULE Ledger --------------------------------
(***************************************************************************)
(* What the acknowledgement of exposures promises (records/exposure.ts):   *)
(* one resolution yields one exposure set.  The first content acknowledged *)
(* for a receipt is written and never changes; whoever acknowledges the    *)
(* same content later, under any clock, is given the set that stands;      *)
(* whoever acknowledges another is told so.                                *)
(***************************************************************************)
CONSTANTS
  Hosts,      \* callers
  Instants,   \* clock readings
  Failures,   \* why a call may fail
  None

VARIABLES
  ledger,     \* the sets written: [content, exposedAt]
  calls       \* by caller, the content it acknowledges and its answer

vars == <<ledger, calls>>

Unasked == [content |-> None, answer |-> None]
Told(set) == [code |-> "given", record |-> set]
Refusal(code) == [code |-> code, record |-> None]

Init == ledger = {} /\ calls = [h \in Hosts |-> Unasked]

(* A content names its receipt.                                            *)
Begin(h) ==
  /\ calls[h] = Unasked /\ calls'[h].content # None
  /\ calls' = [calls EXCEPT ![h].content = calls'[h].content]
  /\ UNCHANGED ledger

Asks(h) == calls[h].content # None /\ calls[h].answer = None

Standing(c) == {set \in ledger : set.content.receipt = c.receipt}

Perform(h) ==
  /\ Asks(h)
  /\ LET content == calls[h].content
     IN \/ /\ Standing(content) = {}
           /\ \E t \in Instants :
                LET set == [content |-> content, exposedAt |-> t]
                IN /\ ledger' = ledger \cup {set}
                   /\ calls' = [calls EXCEPT ![h].answer = Told(set)]
        \/ /\ UNCHANGED ledger
           /\ \E set \in Standing(content) :
                calls' = [calls EXCEPT ![h].answer =
                            IF set.content = content THEN Told(set)
                            ELSE Refusal("exposure.already_acknowledged")]

(* A call may fail: nothing of it is written.                              *)
Fail(h) ==
  /\ Asks(h)
  /\ \E code \in Failures : calls' = [calls EXCEPT ![h].answer = Refusal(code)]
  /\ UNCHANGED ledger

End(h) ==
  /\ calls[h] # Unasked
  /\ calls' = [calls EXCEPT ![h] = Unasked]
  /\ UNCHANGED ledger

Next == \E h \in Hosts : Begin(h) \/ Perform(h) \/ Fail(h) \/ End(h)

Spec == Init /\ [][Next]_vars
===============================================================================
