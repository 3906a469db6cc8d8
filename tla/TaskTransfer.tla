----------------------------- MODULE TaskTransfer -----------------------------
(***************************************************************************)
(* What a webseed task promises, abstractly (spec sections 3, 4.3 and 8):  *)
(* each task slot, once started on a span, receives the span's bytes in    *)
(* order, with no gap, overlap or byte past end_byte, and saves them from  *)
(* its cursor on in whole blocks; it may be retired at any time, after     *)
(* which the slot may start on a new span.  Slots move independently, so   *)
(* one step may move several of them.                                      *)
(*                                                                         *)
(* A slot is a record: st ("unused" or "live"), span, saved (the byte of   *)
(* the cursor) and data (the bytes received past the cursor).              *)
(***************************************************************************)
EXTENDS BlockLayout

CONSTANT TaskIds

VARIABLE xfer

\* The run of byte identities from, from + 1, ..., n of them.
Run(from, n) == [j \in 1..n |-> from + j - 1]

\* The byte after block b - 1, a block boundary (TotalSize after the last).
Boundary(b) == BlockByte(b - 1) + BlockSizeOf(b - 1)

Idle == [st |-> "unused", span |-> [first |-> 0, end |-> 1], saved |-> 0, data |-> <<>>]

Received(t) == t.saved + Len(t.data)

\* A slot starts on a span with its cursor at the span's first byte.
Fresh(u) ==
    /\ u.st = "live" /\ u.span \in Spans
    /\ u.saved = BlockByte(u.span.first) /\ u.data = <<>>

\* The next k bytes of the span arrive.
Receive(t, u) ==
    /\ t.st = "live"
    /\ \E k \in 1..EndByte(t.span) - Received(t) :
          u = [t EXCEPT !.data = @ \o Run(Received(t), k)]

\* The cursor moves over one or more whole blocks already received.
Save(t, u) ==
    /\ t.st = "live"
    /\ \E b \in BlockOf(t.saved) + 1..t.span.end :
          LET n == Boundary(b) - t.saved
          IN  /\ n <= Len(t.data)
              /\ u = [t EXCEPT !.saved = Boundary(b), !.data = SubSeq(@, n + 1, Len(@))]

Retire(t, u) == t.st = "live" /\ u = Idle

\* One slot's step; a live slot may be retired and started again at once.
Step(t, u) ==
    \/ Receive(t, u)
    \/ Save(t, u)
    \/ Retire(t, u)
    \/ Fresh(u)

Init == xfer = [i \in TaskIds |-> Idle]

Next ==
    /\ DOMAIN xfer' = TaskIds
    /\ \A i \in TaskIds : xfer'[i] = xfer[i] \/ Step(xfer[i], xfer'[i])

Spec == Init /\ [][Next]_xfer
================================================================================
