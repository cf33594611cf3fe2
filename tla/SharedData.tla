---------------------------- MODULE SharedData ----------------------------
(***************************************************************************)
(* What access to the elements of one tensor promises its users: either    *)
(* one user holds a pointer it may write through, or any number of users   *)
(* hold any number of pointers they may only read through.                 *)
(***************************************************************************)
EXTENDS Naturals

CONSTANT Users

VARIABLES
    writers,  \* users that hold a read-write pointer
    readers   \* number of read-only pointers that each user holds

NoReaders == [u \in Users |-> 0]
Init == writers = {} /\ readers = NoReaders

TakeWrite(u) ==
    /\ writers = {} /\ readers = NoReaders
    /\ writers' = {u}
    /\ UNCHANGED readers

TakeRead(u) ==
    /\ writers = {}
    /\ readers' = [readers EXCEPT ![u] = @ + 1]
    /\ UNCHANGED writers

(* A user gives back one pointer, or all of them when it goes away. *)
GiveWrite(u) == u \in writers /\ writers' = writers \ {u} /\ UNCHANGED readers
GiveRead(u) ==
    /\ readers[u] > 0
    /\ \E n \in 0..(readers[u] - 1) : readers' = [readers EXCEPT ![u] = n]
    /\ UNCHANGED writers

Next == \E u \in Users : TakeWrite(u) \/ TakeRead(u) \/ GiveWrite(u) \/ GiveRead(u)

Spec == Init /\ [][Next]_<<writers, readers>>
=============================================================================
