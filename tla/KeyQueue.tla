------------------------------ MODULE KeyQueue ------------------------------
(***************************************************************************)
(* What the keyboard driver promises its readers: a queue of characters in *)
(* the order of the key strokes, which forgets a stroke when it is full    *)
(* and nothing else, and which whoever asks for a character takes from.    *)
(***************************************************************************)
EXTENDS Naturals, Sequences

CONSTANTS
    Chars,       \* the characters of the two tables
    Room         \* how many wait at most

VARIABLE queue

QueueInit == queue = <<>>

Put(c) == queue' = IF Len(queue) < Room THEN Append(queue, c) ELSE queue
Take == queue # <<>> /\ queue' = Tail(queue)

QueueNext == (\E c \in Chars : Put(c)) \/ Take

QueueSpec == QueueInit /\ [][QueueNext]_queue
=============================================================================
