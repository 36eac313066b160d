------------------------------ MODULE MCFileStore ------------------------------
(* Two writers of a record and of a stream, who share an operation.        *)
EXTENDS FileStore, TLC

CONSTANTS p1, p2

Create(k, id, digest) ==
  [kind |-> "create", key |-> k, id |-> id, digest |-> digest, expected |-> 0,
   entries |-> <<>>]
Set(k, id, digest, expected) ==
  [Create(k, id, digest) EXCEPT !.kind = "compareAndSet", !.expected = expected]
Grow(k, id, expected, entry) ==
  [Create(k, id, None) EXCEPT !.kind = "append", !.expected = expected,
                              !.entries = <<entry>>]
Kill(k, id, expected) ==
  [Create(k, id, None) EXCEPT !.kind = "tombstone", !.expected = expected]

TwoWriters ==
  p1 :> {Create("a", "o1", "d1"), Set("a", "o1", "d2", 1), Grow("s", "o1", 1, "e1"),
         Grow("s", "o2", 0, "e2")}
    @@ p2 :> {Grow("s", "o2", 0, "e2"), Kill("a", "o2", 1)}
===============================================================================
