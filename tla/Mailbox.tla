------------------------------ MODULE Mailbox ------------------------------
(***************************************************************************)
(* What the queue of src/src/daemons/queue.ts promises to those who put    *)
(* requests into it, whatever the port, the batches and the RAM do: a      *)
(* request waits, and then it is served once or lost, and it is served     *)
(* before an older one only if its priority is higher.                     *)
(***************************************************************************)
EXTENDS Naturals, Sequences

CONSTANT Request    \* what can be asked: [action, priority, mode]

VARIABLES
    posted,     \* how many requests there have been
    waiting,    \* the letters not yet answered
    served,     \* the letters answered, in order
    lost        \* the ids of those that never will be

vars == <<posted, waiting, served, lost>>

Letter(id, request) == [id |-> id, action |-> request.action,
                        priority |-> request.priority, mode |-> request.mode]
LettersIds(letters) == {letter.id : letter \in letters}

Init == posted = 0 /\ waiting = {} /\ served = <<>> /\ lost = {}

\* A full mailbox loses one waiting letter to the new one.
Post ==
    \E request \in Request, late \in SUBSET waiting :
        /\ \A letter, other \in late : letter = other
        /\ posted' = posted + 1
        /\ waiting' = (waiting \ late) \cup {Letter(posted + 1, request)}
        /\ lost' = lost \cup LettersIds(late)
        /\ UNCHANGED served

Serve ==
    \E letter \in waiting :
        /\ \A older \in waiting : older.id < letter.id => older.priority < letter.priority
        /\ waiting' = waiting \ {letter}
        /\ served' = Append(served, letter)
        /\ UNCHANGED <<posted, lost>>

\* Letters already collected are lost with their collector.
Lose ==
    \E late \in SUBSET waiting :
        /\ waiting' = waiting \ late
        /\ lost' = lost \cup LettersIds(late)
        /\ UNCHANGED <<posted, served>>

Next == Post \/ Serve \/ Lose
Spec == Init /\ [][Next]_vars
============================================================================
