-------------------------- MODULE OrderedDelivery --------------------------
(***************************************************************************)
(* What an idempotent producer promises for a partition while it may retry *)
(* as long as it needs: the items accepted from the application are        *)
(* written once, in the order in which they were accepted, and are         *)
(* acknowledged in that order after they were written.  An item is the     *)
(* number of its acceptance.                                               *)
(***************************************************************************)
EXTENDS Naturals, Sequences

CONSTANTS Partitions, Items

VARIABLES
    accepted,  \* partition -> items accepted by send()
    stream,    \* partition -> items written by the broker, in order
    acked      \* partition -> items acknowledged

dvars == <<accepted, stream, acked>>

DInit ==
    /\ accepted = [p \in Partitions |-> {}]
    /\ stream = [p \in Partitions |-> << >>]
    /\ acked = [p \in Partitions |-> {}]

\* Items are numbered in the order in which they are accepted.
Accept(p, x) ==
    /\ \A q \in Partitions : \A y \in accepted[q] : y < x
    /\ accepted' = [accepted EXCEPT ![p] = @ \cup {x}]
    /\ UNCHANGED <<stream, acked>>

Unwritten(p) == {x \in accepted[p] : \A i \in 1 .. Len(stream[p]) : stream[p][i] # x}

\* The broker writes the first item that is not in the stream yet.
Write(p, x) ==
    /\ x \in Unwritten(p)
    /\ \A y \in Unwritten(p) : x <= y
    /\ stream' = [stream EXCEPT ![p] = Append(@, x)]
    /\ UNCHANGED <<accepted, acked>>

\* An item in the stream is acknowledged after all that precede it there.
Ack(p, i) ==
    /\ stream[p][i] \notin acked[p]
    /\ \A j \in 1 .. i - 1 : stream[p][j] \in acked[p]
    /\ acked' = [acked EXCEPT ![p] = @ \cup {stream[p][i]}]
    /\ UNCHANGED <<accepted, stream>>

DNext ==
    \E p \in Partitions :
        \/ \E x \in Items : Accept(p, x) \/ Write(p, x)
        \/ \E i \in 1 .. Len(stream[p]) : Ack(p, i)

DSpec == DInit /\ [][DNext]_dvars

============================================================================
