------------------------------- MODULE Ports -------------------------------
(***************************************************************************)
(* Netscript ports as src/src/lib/ports.ts and the queue daemon use them.  *)
(* A port is a sequence, oldest value first.  Every operator below runs    *)
(* between two awaits, so it is one atomic change of the port.             *)
(***************************************************************************)
EXTENDS Naturals, Sequences, FiniteSets

\* The game's handle.write: append, dropping the oldest value of a full port.
PortWrite(port, value, capacity) ==
    IF Len(port) < capacity THEN Append(port, value) ELSE Append(Tail(port), value)

\* Faulty variant: the comparator of the sort the wrong way round.
Ahead_Ascending(port, i, j) ==
    \/ port[i].priority < port[j].priority
    \/ port[i].priority = port[j].priority /\ i < j

\* The comparator of drainQueue: priority descending; the sort is stable, so
\* that equal priorities keep their order.
Ahead(port, i, j) ==
    \/ port[i].priority > port[j].priority
    \/ port[i].priority = port[j].priority /\ i < j

Place(port, i) == Cardinality({j \in DOMAIN port : Ahead(port, j, i)}) + 1

\* drainQueue: everything in the port, sorted.
DrainQueue(port) ==
    [k \in DOMAIN port |-> port[CHOOSE i \in DOMAIN port : Place(port, i) = k]]
============================================================================
