----------------------------- MODULE SpinMutex -----------------------------
(***************************************************************************)
(* What a kernel spinlock promises to its callers, with nothing about how  *)
(* it is done: a lock has no holder or exactly one, it is taken only when  *)
(* it is free, and only its holder gives it up.  Speenlock implements this *)
(* specification; Scheduler uses it as its model of tasks_lock.            *)
(***************************************************************************)
CONSTANTS Cores,  \* the processors
          Locks   \* the lock objects

VARIABLE holders  \* holders[l]: the cores inside a critical section of l

(***************************************************************************)
(* acquire() returns to core c: the lock had no holder.                    *)
(***************************************************************************)
Take(c, l) ==
    /\ holders[l] = {}
    /\ holders' = [holders EXCEPT ![l] = {c}]

(***************************************************************************)
(* release() by core c, its holder.                                        *)
(***************************************************************************)
Give(c, l) ==
    /\ holders[l] = {c}
    /\ holders' = [holders EXCEPT ![l] = {}]

Init == holders = [l \in Locks |-> {}]

Next == \E c \in Cores, l \in Locks : Take(c, l) \/ Give(c, l)

Spec == Init /\ [][Next]_holders
=============================================================================
