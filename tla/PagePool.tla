------------------------------ MODULE PagePool ------------------------------
(***************************************************************************)
(* What the physical page allocator promises: a page has one owner at      *)
(* most, a request is answered with a page that was free, and it is        *)
(* refused only at a moment when no page is free.  How the free pages are  *)
(* chained, and the lock, are not part of the promise.                     *)
(***************************************************************************)
CONSTANTS Cores,  \* the processors
          Pages   \* the 4 KB pages the allocator manages

VARIABLES free,   \* the pages that may be given out
          owned,  \* owned[c]: the pages core c was given
          answer  \* answer[c]: the answer to the call c is in, if it has one

(* How a call in progress was decided. *)
Answers == {"none", "page", "refused"}

Init ==
    /\ free = {}
    /\ owned = [c \in Cores |-> {}]
    /\ answer = [c \in Cores |-> "none"]

(* A page becomes available for the first time. *)
Supply(p) ==
    /\ \A c \in Cores : p \notin owned[c]
    /\ free' = free \cup {p}
    /\ UNCHANGED <<owned, answer>>

(* The call of c is answered with a page that was free until now. *)
Grant(c, p, a) ==
    /\ answer[c] = "none"
    /\ p \in free
    /\ free' = free \ {p}
    /\ owned' = [owned EXCEPT ![c] = @ \cup {p}]
    /\ answer' = [answer EXCEPT ![c] = a]

(* The call of c is refused: nothing is free. *)
Refuse(c) ==
    /\ answer[c] = "none"
    /\ free = {}
    /\ answer' = [answer EXCEPT ![c] = "refused"]
    /\ UNCHANGED <<free, owned>>

(* The call returns. *)
Return(c) ==
    /\ answer[c] # "none"
    /\ answer' = [answer EXCEPT ![c] = "none"]
    /\ UNCHANGED <<free, owned>>

Next ==
    \/ \E p \in Pages : Supply(p)
    \/ \E c \in Cores, p \in Pages, a \in {"none", "page"} : Grant(c, p, a)
    \/ \E c \in Cores : Refuse(c) \/ Return(c)

Spec == Init /\ [][Next]_<<free, owned, answer>>
=============================================================================
