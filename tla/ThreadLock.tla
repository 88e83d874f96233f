----------------------------- MODULE ThreadLock -----------------------------
(* hrpc_lock.cpp, class Hrpc_ThreadLock: a mutex and a condition variable    *)
(* whose notifications are counted under the lock and sent when the lock is  *)
(* given up.  Each operator is the part of a step of the thread t that calls *)
(* it.  The mutex is recursive, but no caller in the repository takes it     *)
(* twice.                                                                    *)
EXTENDS Integers, FiniteSets

CONSTANTS
    Thread,
    NoThread

ASSUME ThreadLockAssumption ==
    /\ NoThread \notin Thread
    /\ IsFiniteSet(Thread)

VARIABLES
    holder,     \* the thread that owns the mutex
    count,      \* _count: notifications to send
    waiting     \* threads in pthread_cond_wait that no signal has reached

lockVars == <<holder, count, waiting>>

LockType ==
    /\ holder \in Thread \cup {NoThread}
    /\ count \in Nat
    /\ waiting \subseteq Thread

LockInit ==
    /\ holder = NoThread
    /\ count = 0
    /\ waiting = {}

(* lock: takes the mutex and forgets notifications.                          *)
Lock_NoReset(t) ==     \* mutant: takes a mutex that is held
    /\ holder' = t
    /\ count' = 0
    /\ UNCHANGED waiting
Lock(t) ==
    /\ holder = NoThread
    /\ holder' = t
    /\ count' = 0
    /\ UNCHANGED waiting

(* notify counts one more notification.  (Only a test calls notifyAll.)      *)
Notify_Lost(t) == UNCHANGED lockVars     \* mutant: no notification
Notify(t) ==
    /\ count' = count + 1
    /\ UNCHANGED <<holder, waiting>>

(* emitAllNotify: each signal wakes one of the waiting threads, chosen by    *)
(* the scheduler, or none when none waits.                                   *)
Emit_None(asleep) ==     \* mutant: the count is dropped, not sent
    /\ count' = 0
    /\ waiting' = asleep
Emit(asleep) ==
    /\ count' = 0
    /\ \E woken \in SUBSET waiting :
         /\ \/ Cardinality(woken) = count
            \/ woken = waiting /\ Cardinality(waiting) < count
         /\ waiting' = asleep \ woken

(* unlock: the notifications go out before the mutex is free.                *)
Unlock_Silent(t) ==     \* mutant: unlocks with the notifications unsent
    /\ holder' = NoThread
    /\ UNCHANGED <<count, waiting>>
Unlock(t) ==
    /\ Emit(waiting)
    /\ holder' = NoThread

(* wait and timeWait: the notifications go out before the thread starts to   *)
(* wait, so its own does not wake it.                                        *)
Wait(t) ==
    /\ Emit(waiting \cup {t})
    /\ holder' = NoThread

(* A wait may end without a signal: by its timeout, or spuriously as POSIX   *)
(* allows.  pthread takes the mutex again before it returns; _count is not   *)
(* touched then.                                                             *)
Leave(t) ==
    /\ t \in waiting
    /\ waiting' = waiting \ {t}
    /\ UNCHANGED <<holder, count>>
Reacquire(t) ==
    /\ t \notin waiting
    /\ holder = NoThread
    /\ holder' = t
    /\ UNCHANGED <<count, waiting>>
=============================================================================
