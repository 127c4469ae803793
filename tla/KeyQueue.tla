------------------------------ MODULE KeyQueue ------------------------------
(***************************************************************************)
(* What the kernel promises a program about the keyboard: each process has *)
(* a queue of the keys typed for it, and a program that asks for a key is  *)
(* given the oldest one, or none when its queue is empty.  The promise     *)
(* holds until more keys wait than the queue has room for; nothing is      *)
(* promised to that process afterwards.                                    *)
(*                                                                         *)
(* Module Keyboard is shown to implement this specification.               *)
(***************************************************************************)
EXTENDS Integers, Sequences

CONSTANTS Processes, \* the processes
          Keys,      \* what a key press gives: a character
          NoKey,     \* what a program is given when no key waits
          Room       \* how many keys can wait

VARIABLES queue, \* for each process the keys that wait
          got,   \* for each process what it was given last
          full   \* the processes that had more keys than there is room for

vars == <<queue, got, full>>

-----------------------------------------------------------------------------

Init == /\ queue = [p \in Processes |-> <<>>]
        /\ got = [p \in Processes |-> NoKey]
        /\ full = {}

Type(p, key) == /\ p \notin full
                /\ Len(queue[p]) < Room
                /\ queue' = [queue EXCEPT ![p] = Append(@, key)]
                /\ UNCHANGED <<got, full>>

TypeTooMany(p) == /\ p \notin full
                  /\ Len(queue[p]) = Room
                  /\ queue' = [queue EXCEPT ![p] = <<>>]
                  /\ full' = full \cup {p}
                  /\ UNCHANGED got

Read(p) == /\ p \notin full
           /\ queue[p] # <<>>
           /\ got' = [got EXCEPT ![p] = Head(queue[p])]
           /\ queue' = [queue EXCEPT ![p] = Tail(@)]
           /\ UNCHANGED full

ReadNothing(p) == /\ p \notin full
                  /\ queue[p] = <<>>
                  /\ got' = [got EXCEPT ![p] = NoKey]
                  /\ UNCHANGED <<queue, full>>

ReadAfterTooMany(p) == /\ p \in full
                       /\ \E key \in Keys \cup {NoKey} :
                            got' = [got EXCEPT ![p] = key]
                       /\ UNCHANGED <<queue, full>>

Next == \E p \in Processes :
          \/ \E key \in Keys : Type(p, key)
          \/ TypeTooMany(p)
          \/ Read(p)
          \/ ReadNothing(p)
          \/ ReadAfterTooMany(p)

Spec == Init /\ [][Next]_vars

=============================================================================
