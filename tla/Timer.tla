------------------------------- MODULE Timer --------------------------------
(* hrpc_timer.h, hrpc_timer.cpp, class Hrpc_Timer: tasks in a multiset       *)
(* ordered by TimerCmp and in a map from ids, each under a mutex of its own. *)
(* The owner runs process; it and other threads add and stop tasks.  A step  *)
(* is a critical section, or a task and what process does after it.          *)
(*                                                                           *)
(* TimerCmp is no strict weak order once tasks are terminated, and what      *)
(* std::multiset does then is undefined.  An element goes, and is looked     *)
(* for, where the comparisons with its two neighbours allow, which any       *)
(* search tree over the sequence respects.                                   *)
EXTENDS Integers, Sequences, FiniteSets, UidGenerator

CONSTANTS
    Owner,      \* the thread that runs process
    Others,     \* threads that add or stop tasks meanwhile
    Task,       \* the memory of the task objects, reused when freed
    NoTask,     \* a thread without a task in hand
    MaxId,      \* ids of the timer, 1024 by default
    Usage,      \* how the threads use the timer: the calls of each
    Delay,      \* the delays tasks are added with
    Period,     \* the period of a repeated task
    MaxTime     \* bound: the clock stops here

ASSUME TimerAssumption ==
    /\ Owner \notin Others
    /\ NoTask \notin Task
    /\ MaxId \in Nat \ {0}
    /\ Delay \subseteq Nat
    /\ Period \in Nat
    /\ MaxTime \in Nat

Thread == Others \cup {Owner}
Id == 1..MaxId
Fields == [start : Nat, once : BOOLEAN, terminate : BOOLEAN, id : Id]

VARIABLES
    now,        \* Hrpc_Time::getNowTimeMs
    usage,      \* the calls threads may make
    task,       \* the task object at an address
    alive,      \* task objects that exist
    queue,      \* _queue, in the order of iteration
    tasks,      \* _tasks, a set of pairs
    uids,       \* _uid
    pc,         \* the call a thread is in
    arg,        \* its task
    base,       \* process: the time it works up to
    eq,         \* process: expired tasks that are still to do
    newTask     \* process: repeated tasks to put back

timerVars == <<task, alive, queue, tasks, uids>>
processVars == <<base, eq, newTask>>
vars == <<now, usage, timerVars, pc, arg, processVars>>


(* What an address holds that no task object is at: never read.              *)
Blank == [start |-> 0, once |-> TRUE, terminate |-> FALSE, id |-> 1]

Init ==
    /\ now = 0
    /\ usage \in Usage
    /\ task = [x \in Task |-> Blank]
    /\ alive = {}
    /\ queue = <<>> /\ eq = <<>> /\ newTask = <<>>
    /\ tasks = {}
    /\ uids = FullList(MaxId)
    /\ pc = [t \in Thread |-> "idle"]
    /\ arg = [t \in Thread |-> NoTask]
    /\ base = 0

Goto(t, place) == pc' = [pc EXCEPT ![t] = place]
-----------------------------------------------------------------------------
(* TimerCmp: the earlier task first, a terminated one first.                 *)
Less_Late(a, b) ==     \* mutant: the order is reversed
    a.start > b.start \/ (a.terminate /\ ~b.terminate)
Less(a, b) == a.start < b.start \/ (a.terminate /\ ~b.terminate)

(* multiset::insert puts x behind the elements it is not less than;          *)
(* lower_bound ends behind the elements that are less than x, upper_bound    *)
(* where insert would.                                                       *)
UpperBound(q, fields) == {p \in 0..Len(q) :
    /\ p > 0 => ~Less(fields, task[q[p]])
    /\ p < Len(q) => Less(fields, task[q[p + 1]])}
LowerBound(q, fields) == {p \in 0..Len(q) :
    /\ p > 0 => Less(task[q[p]], fields)
    /\ p < Len(q) => ~Less(task[q[p + 1]], fields)}

Inserted(q, x, p) == SubSeq(q, 1, p) \o <<x>> \o SubSeq(q, p + 1, Len(q))
Without(q, i) == SubSeq(q, 1, i - 1) \o SubSeq(q, i + 1, Len(q))

(* equal_range: the places i of x in the range, or 0 when x is not in it.    *)
Found(x) == {i \in 0..Len(queue) :
    \E lo \in LowerBound(queue, task[x]), hi \in UpperBound(queue, task[x]) :
        IF i = 0
        THEN \A j \in (lo + 1)..hi : task[queue[j]].id # task[x].id
        ELSE /\ i \in (lo + 1)..hi
             /\ task[queue[i]].id = task[x].id
             /\ \A j \in (lo + 1)..(i - 1) : task[queue[j]].id # task[x].id}
-----------------------------------------------------------------------------
(* addTaskOnce, addTaskRepeat: a task object and an id; without an id the    *)
(* caller gets -1, and the object is lost.                                   *)
Unmarked(q) == \A i \in 1..Len(q) : ~task[q[i]].terminate
Calls(t) == IF t = Owner THEN usage.owner ELSE usage.others

Add(t) ==
    /\ pc[t] = "idle"
    /\ CanPop(uids)
    /\ usage.sweep => Unmarked(queue)
    /\ \E x \in Task \ alive, once \in BOOLEAN, after \in Delay :
         /\ (IF once THEN "once" ELSE "repeat") \in Calls(t)
         /\ task' = [task EXCEPT ![x] = [start |-> now + after, once |-> once,
                                         terminate |-> FALSE, id |-> Popped(uids)]]
         /\ alive' = alive \cup {x}
         /\ arg' = [arg EXCEPT ![t] = x]
    /\ uids' = AfterPop(uids)
    /\ Goto(t, "insert")
    /\ UNCHANGED <<now, usage, queue, tasks, processVars>>

(* The task goes into the queue first ...                                    *)
AddToQueue(t) ==
    /\ pc[t] = "insert"
    /\ \E p \in UpperBound(queue, task[arg[t]]) : queue' = Inserted(queue, arg[t], p)
    /\ Goto(t, "map")
    /\ UNCHANGED <<now, usage, task, alive, tasks, uids, arg, processVars>>

(* ... and then into the map, which keeps an entry its id has already.       *)
AddToMap(t) ==
    /\ pc[t] = "map"
    /\ LET id == task[arg[t]].id IN
       tasks' = IF \E x \in Task : <<id, x>> \in tasks
                THEN tasks ELSE tasks \cup {<<id, arg[t]>>}
    /\ Goto(t, "idle")
    /\ arg' = [arg EXCEPT ![t] = NoTask]
    /\ UNCHANGED <<now, usage, task, alive, queue, uids, processVars>>

(* stopTask: the id is looked up under _mapLock; an id that is not there     *)
(* gives false and changes nothing ...                                       *)
Stop(t) ==
    /\ pc[t] = "idle"
    /\ "stop" \in Calls(t)
    /\ usage.sweep => Unmarked(queue)
    /\ \E entry \in tasks : arg' = [arg EXCEPT ![t] = entry[2]]
    /\ Goto(t, "stop")
    /\ UNCHANGED <<now, usage, timerVars, processVars>>

(* ... and under _lock the task leaves the queue, is marked and is put back, *)
(* to be deleted by process.                                                 *)
StopInQueue_Marked(t) ==     \* mutant: marked where it is, not moved
    /\ pc[t] = "stop"
    /\ task' = [task EXCEPT ![arg[t]].terminate = TRUE]
    /\ arg' = [arg EXCEPT ![t] = NoTask]
    /\ Goto(t, "idle")
    /\ UNCHANGED <<now, usage, alive, queue, tasks, uids, processVars>>
StopInQueue(t) ==
    /\ pc[t] = "stop"
    /\ LET x == arg[t] IN
       \E i \in Found(x) :
         LET rest == IF i = 0 THEN queue ELSE Without(queue, i)
             marked == [task[x] EXCEPT !.terminate = TRUE]
         IN  \E p \in UpperBound(rest, marked) :
               /\ queue' = Inserted(rest, x, p)
               /\ task' = [task EXCEPT ![x] = marked]
    /\ arg' = [arg EXCEPT ![t] = NoTask]
    /\ Goto(t, "idle")
    /\ UNCHANGED <<now, usage, alive, tasks, uids, processVars>>
-----------------------------------------------------------------------------
(* process: the tasks before the first one that is not expired leave the     *)
(* queue.                                                                    *)
TakeExpired_Own(p) == p - 1     \* mutant: the last one stays
TakeExpired(p) == p
Process ==
    /\ pc[Owner] = "idle"
    /\ base' = now
    /\ \E p \in LowerBound(queue, [start |-> now, terminate |-> FALSE]) :
         /\ p > 0
         /\ eq' = SubSeq(queue, 1, TakeExpired(p))
         /\ queue' = SubSeq(queue, TakeExpired(p) + 1, Len(queue))
    /\ newTask' = <<>>
    /\ Goto(Owner, "run")
    /\ UNCHANGED <<now, usage, task, alive, tasks, uids, arg>>

(* deleteTask: out of the map, the id back, the memory freed.                *)
DeleteTask_NoId(x) ==     \* mutant: the id is not given back
    /\ tasks' = {entry \in tasks : entry[1] # task[x].id}
    /\ alive' = alive \ {x}
    /\ task' = [task EXCEPT ![x] = Blank]
    /\ UNCHANGED uids
DeleteTask(x) ==
    /\ tasks' = {entry \in tasks : entry[1] # task[x].id}
    /\ uids' = AfterPush(uids, task[x].id)
    /\ alive' = alive \ {x}
    /\ task' = [task EXCEPT ![x] = Blank]

(* One task of eq: a terminated one is deleted, another one runs.            *)
DropTerminated ==
    /\ pc[Owner] = "run" /\ eq # <<>>
    /\ task[Head(eq)].terminate
    /\ DeleteTask(Head(eq))
    /\ eq' = Tail(eq)
    /\ UNCHANGED <<now, usage, queue, pc, arg, base, newTask>>

RunOnce ==
    /\ pc[Owner] = "run" /\ eq # <<>>
    /\ ~task[Head(eq)].terminate /\ task[Head(eq)].once
    /\ DeleteTask(Head(eq))
    /\ eq' = Tail(eq)
    /\ UNCHANGED <<now, usage, queue, pc, arg, base, newTask>>

(* A repeated task is due again a period after its end.                      *)
RunRepeat ==
    /\ pc[Owner] = "run" /\ eq # <<>>
    /\ ~task[Head(eq)].terminate /\ ~task[Head(eq)].once
    /\ task' = [task EXCEPT ![Head(eq)].start = now + Period]
    /\ newTask' = Append(newTask, Head(eq))
    /\ eq' = Tail(eq)
    /\ UNCHANGED <<now, usage, alive, queue, tasks, uids, pc, arg, base>>

(* The repeated tasks go back, under _lock, one after the other.             *)
Reinsert_Lost ==     \* mutant: only the first one goes back
    /\ pc[Owner] = "run" /\ eq = <<>> /\ newTask # <<>>
    /\ \E p \in UpperBound(queue, task[Head(newTask)]) :
         queue' = Inserted(queue, Head(newTask), p)
    /\ newTask' = <<>>
    /\ UNCHANGED <<now, usage, task, alive, tasks, uids, pc, arg, base, eq>>
Reinsert ==
    /\ pc[Owner] = "run" /\ eq = <<>> /\ newTask # <<>>
    /\ \E p \in UpperBound(queue, task[Head(newTask)]) :
         queue' = Inserted(queue, Head(newTask), p)
    /\ newTask' = Tail(newTask)
    /\ UNCHANGED <<now, usage, task, alive, tasks, uids, pc, arg, base, eq>>

ProcessEnd ==
    /\ pc[Owner] = "run" /\ eq = <<>> /\ newTask = <<>>
    /\ base' = 0
    /\ Goto(Owner, "idle")
    /\ UNCHANGED <<now, usage, timerVars, arg, eq, newTask>>

Tick ==
    /\ now < MaxTime
    /\ now' = now + 1
    /\ UNCHANGED <<usage, timerVars, pc, arg, processVars>>

ProcessStep ==
    Process \/ DropTerminated \/ RunOnce \/ RunRepeat \/ Reinsert \/ ProcessEnd
CallStep(t) == AddToQueue(t) \/ AddToMap(t) \/ StopInQueue(t)
Next ==
    \/ ProcessStep
    \/ \E t \in Thread : Add(t) \/ Stop(t) \/ CallStep(t)
    \/ Tick

Spec == Init /\ [][Next]_vars

(* The owner calls process again and again and calls end; time passes.       *)
FairSpec ==
    /\ Spec /\ WF_vars(ProcessStep) /\ WF_vars(Tick)
    /\ \A t \in Thread : WF_vars(CallStep(t))
-----------------------------------------------------------------------------
Elements(q) == {q[i] : i \in 1..Len(q)}
Pending == {t \in Thread : pc[t] = "insert"}

(* An id is free, or belongs to one task object: none leaks with a task, and *)
(* none is given back twice, whichever of process and stopTask ends a task.  *)
IdsConserved ==
    /\ \A x, y \in alive : task[x].id = task[y].id => x = y
    /\ Holds(uids, Id \ {task[x].id : x \in alive})

(* Each task object is in one place: to be inserted by the thread that adds  *)
(* it, in the queue, or in one of the lists of process; no place holds a     *)
(* freed one.  Its map entry is there from the end of its adding on.         *)
OnePlace ==
    LET all == queue \o eq \o newTask IN
    /\ \A i, j \in 1..Len(all) : all[i] = all[j] => i = j
    /\ Elements(all) = alive \ {arg[t] : t \in Pending}
    /\ tasks = {<<task[x].id, x>> : x \in
                  alive \ {arg[t] : t \in {u \in Thread : pc[u] \in {"insert", "map"}}}}

(* When process takes tasks it leaves no expired one in the queue            *)
(* (hrpc_timer.h:86: it runs all tasks before its base time).                *)
NothingLate ==
    [][Process => \A x \in Elements(queue') : task[x].terminate \/ task[x].start >= now]_vars

(* It takes no task before its time, unless the task has been stopped.       *)
NotBeforeItsTime == pc[Owner] = "run" =>
    \A x \in Elements(eq) : task[x].terminate \/ task[x].start < base

(* A task that has expired leaves the queue, to run or to be deleted.        *)
ExpiredRuns == \A x \in Task :
    (x \in Elements(queue) /\ task[x].start < now)
        ~> (x \in Elements(eq) \/ x \notin alive \/ task[x].start >= now)
-----------------------------------------------------------------------------
(* What the timer relies on: with IdsConserved and NotBeforeItsTime these    *)
(* parts are inductive, for the uses of StopsAlone.                          *)
TypeOK ==
    /\ now \in Nat /\ base \in Nat
    /\ usage \in Usage
    /\ task \in [Task -> Fields]
    /\ alive \in SUBSET Task
    /\ queue \in Seq(Task) /\ eq \in Seq(Task) /\ newTask \in Seq(Task)
    /\ tasks \in SUBSET (Id \X Task)
    /\ uids \in Seq(Id)
    /\ pc \in [Thread -> {"idle", "insert", "map", "stop", "run"}]
    /\ arg \in [Thread -> Task \cup {NoTask}]

(* A use with stopTask is the owner's alone, and it lets process delete what *)
(* it has stopped before its next call.                                      *)
StopsAlone(u) == "stop" \in u.owner \cup u.others => u.others = {} /\ u.sweep
MayStop == "stop" \in usage.owner \cup usage.others

(* A call works on a task object of its own; process has lists while it runs.*)
CallsSound ==
    /\ \A t \in Thread :
        /\ pc[t] \in {"insert", "map", "stop"} => arg[t] \in Task
        /\ pc[t] \in {"run", "stop"} => t = Owner
        /\ pc[t] = "insert" => arg[t] \in alive /\ ~task[arg[t]].terminate
        /\ pc[t] # "idle" /\ t # Owner => usage.others # {}
    /\ \A s, t \in Pending : arg[s] = arg[t] => s = t
    /\ pc[Owner] # "run" => eq = <<>> /\ newTask = <<>>
    /\ pc[Owner] = "stop" => MayStop /\ arg[Owner] \in Elements(queue)

(* At most the first task of the queue is marked, and then no call is at     *)
(* work; behind it TimerCmp is the order of the start times.                 *)
QueueSound ==
    /\ \A x \in alive : task[x].terminate => MayStop
    /\ \A x \in Elements(newTask) : ~task[x].terminate
    /\ \A i \in 1..Len(queue) :
        task[queue[i]].terminate => i = 1 /\ pc[Owner] = "idle"
    /\ \A i, j \in 1..Len(queue) : i < j /\ ~task[queue[i]].terminate =>
        task[queue[i]].start <= task[queue[j]].start

(* OnePlace of the lists, one by one.                                        *)
Distinct(s) == \A i, j \in 1..Len(s) : s[i] = s[j] => i = j
PlacesSound ==
    /\ Distinct(queue) /\ Distinct(eq) /\ Distinct(newTask)
    /\ Elements(queue) \cap Elements(eq) = {}
    /\ Elements(queue) \cap Elements(newTask) = {}
    /\ Elements(eq) \cap Elements(newTask) = {}
    /\ Elements(queue) \cup Elements(eq) \cup Elements(newTask)
        = alive \ {arg[t] : t \in Pending}

(* The map has the tasks that are entered, unless another thread adds tasks  *)
(* that run once: these may be gone before they are entered.                 *)
Entering == {t \in Thread : pc[t] \in {"insert", "map"}}
MapSound == "once" \notin usage.others =>
    /\ \A t \in Entering : /\ arg[t] \in alive
                           /\ t # Owner => ~task[arg[t]].once
    /\ \A s, t \in Entering : arg[s] = arg[t] => s = t
    /\ tasks = {<<task[x].id, x>> : x \in alive \ {arg[t] : t \in Entering}}

TimerInv == /\ TypeOK /\ CallsSound /\ QueueSound /\ PlacesSound
            /\ IdsConserved /\ MapSound /\ NotBeforeItsTime
=============================================================================
