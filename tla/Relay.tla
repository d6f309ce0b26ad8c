------------------------------- MODULE Relay -------------------------------
(***************************************************************************)
(* What the Kafka collection path promises, without its actors: a reader   *)
(* offers the records of a log in order, acknowledging them on its own     *)
(* account; an offered record is in transit, and is delivered at most once *)
(* or lost.  A restart offers again what was not acknowledged, or, when    *)
(* nothing ever was, goes on from the end of the log.                      *)
(***************************************************************************)
EXTENDS Naturals, Sequences

CONSTANT Window   \* offers that may be unacknowledged at a time

VARIABLES
    last,       \* end of the log
    pos,        \* position of the reader
    acked,      \* where the reader would be, had it offered no unacknowledged record
    mark,       \* whether an acknowledgement was ever stored
    epoch,      \* how often the reader was restarted
    transit,    \* messages on their way
    delivered   \* messages that arrived, in the order they did
vars == <<last, pos, acked, mark, epoch, transit, delivered>>

Init ==
    /\ last = 0 /\ pos = 0 /\ acked = 0 /\ mark = FALSE /\ epoch = 0
    /\ transit = {} /\ delivered = <<>>

Grow ==
    /\ last' = last + 1
    /\ UNCHANGED <<pos, acked, mark, epoch, transit, delivered>>

\* The next record of the log is offered, and may be lost at once.
Offer ==
    /\ pos < last /\ pos < acked + Window
    /\ pos' = pos + 1
    /\ transit' \in {transit, transit \cup {[off |-> pos + 1, inc |-> epoch]}}
    /\ UNCHANGED <<last, acked, mark, epoch, delivered>>

Ack ==
    /\ acked < pos
    /\ acked' = acked + 1 /\ mark' = TRUE
    /\ UNCHANGED <<last, pos, epoch, transit, delivered>>

Deliver(m) ==
    /\ transit' = transit \ {m}
    /\ delivered' = Append(delivered, m)
    /\ UNCHANGED <<last, pos, acked, mark, epoch>>

\* Some of what is in transit disappears.
Lose ==
    /\ transit' \in SUBSET transit
    /\ UNCHANGED <<last, pos, acked, mark, epoch, delivered>>

Restart ==
    /\ epoch' = epoch + 1
    /\ acked' = IF mark THEN acked ELSE last
    /\ pos' = acked'
    /\ transit' \in SUBSET transit
    /\ UNCHANGED <<last, mark, delivered>>

Next ==
    \/ Grow \/ Offer \/ Ack \/ Lose \/ Restart
    \/ \E m \in transit : Deliver(m)

Spec == Init /\ [][Next]_vars
=============================================================================
