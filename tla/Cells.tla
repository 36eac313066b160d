--------------------------------- MODULE Cells ---------------------------------
(***************************************************************************)
(* One cell of the record store and what each write makes of it            *)
(* (ports/store.ts, testing/in-memory-store.ts, node/cells.ts).            *)
(*                                                                         *)
(* An operation is [kind, key, id, digest, expected, entries]: its id is   *)
(* the caller's operation id, digest stands for the value, entries are the *)
(* ids a stream is to grow by, expected is a revision, 0 for a stream that *)
(* must not exist.                                                         *)
(***************************************************************************)
EXTENDS Naturals, Sequences

CONSTANT None

Elements(s) == {s[i] : i \in DOMAIN s}
Distinct(s) == \A i, j \in DOMAIN s : s[i] = s[j] => i = j

Kinds == {"create", "compareAndSet", "append", "tombstone"}
Statuses == {"created", "updated", "exists_same", "conflict", "unavailable"}
Forms == {"record", "stream", "tombstone"}

(* What operations make of cells, and are told.                            *)
Written(ops) ==
  [form : Forms, revision : Nat \ {0}, last : {op.id : op \in ops},
   digest : {op.digest : op \in ops} \cup {None},
   entries : Seq(UNION {Elements(op.entries) : op \in ops})]
Results == [status : Statuses, revision : Nat]

(* No cell where a key was never written; a tombstone is a cell.           *)
Form(cell) == IF cell = None THEN "none" ELSE cell.form
Live(cell) == Form(cell) \in {"record", "stream"}

NewCell(op) ==
  [form |-> IF op.kind = "append" THEN "stream" ELSE "record",
   revision |-> 1, last |-> op.id, digest |-> op.digest, entries |-> op.entries]

(* When an operation changes the cell it finds.                            *)
Applies(op, cell) ==
  \/ op.kind = "create" /\ cell = None
  \/ op.kind = "append" /\ cell = None /\ op.expected = 0
  \/ /\ op.kind = "append" /\ Form(cell) = "stream"
     /\ cell.last # op.id /\ cell.revision = op.expected
     /\ Elements(op.entries) \cap Elements(cell.entries) = {}
  \/ op.kind = "compareAndSet" /\ Form(cell) = "record" /\ cell.revision = op.expected
  \/ op.kind = "tombstone" /\ Live(cell) /\ cell.revision = op.expected

(* What it makes of it.                                                    *)
Effect(op, cell) ==
  IF cell = None THEN NewCell(op)
  ELSE LET next == [cell EXCEPT !.revision = @ + 1, !.last = op.id]
       IN CASE op.kind = "append" -> [next EXCEPT !.entries = @ \o op.entries]
            [] op.kind = "compareAndSet" -> [next EXCEPT !.digest = op.digest]
            [] op.kind = "tombstone" ->
                 [next EXCEPT !.form = "tombstone", !.digest = None, !.entries = <<>>]

(* When it was done before: by content if it creates, else by operation id.*)
Replays(op, cell) ==
  \/ op.kind = "create" /\ Form(cell) = "record" /\ cell.digest = op.digest
  \/ op.kind = "append" /\ Form(cell) = "stream" /\ cell.last = op.id
  \/ /\ op.kind = "compareAndSet" /\ Form(cell) = "record"
     /\ cell.last = op.id /\ cell.digest = op.digest
  \/ op.kind = "tombstone" /\ Form(cell) = "tombstone" /\ cell.last = op.id

Revision(cell) == IF cell = None THEN 0 ELSE cell.revision

(* The write result.                                                       *)
Answer(op, cell) ==
  IF Applies(op, cell)
  THEN [status |-> IF cell = None THEN "created" ELSE "updated",
        revision |-> Revision(cell) + 1]
  ELSE [status |-> IF Replays(op, cell) THEN "exists_same" ELSE "conflict",
        revision |-> Revision(cell)]

(* The lock layer gave up: no answer about the cell.                       *)
Unavailable == [status |-> "unavailable", revision |-> 0]
===============================================================================
