----------------------------- MODULE ThreadPool -----------------------------
(***************************************************************************)
(* ThreadPool: workers that wait on one condition variable for tasks, and  *)
(* a destructor that lets them drain the queue.  TcpServer makes one with  *)
(* as many workers as there are reactors, and Start adds each reactor's    *)
(* loop to it: a task that does not return unless a callback throws, which *)
(* packaged_task catches.  If a loop is not started, no connection bound   *)
(* to its reactor is ever read.                                            *)
(*                                                                         *)
(* Tasks are numbered in the order in which they are added.  A step is one *)
(* critical section of queue_mutex, one notification, or the end of a task. *)
(***************************************************************************)
EXTENDS Integers, Sequences, FiniteSets

CONSTANTS
    Workers,    \* the threads of the pool
    Callers,    \* the threads that call Add
    MaxTasks    \* bound: tasks ever added

ASSUME PoolAssumption ==
    /\ IsFiniteSet(Workers) /\ IsFiniteSet(Callers)
    /\ MaxTasks \in Nat

VARIABLES
    tasks,      \* the queue
    stop,
    pc,         \* where each worker is
    notifying,  \* the callers that have added, and not yet notified
    destructor, \* where ~ThreadPool is
    added,      \* how many tasks have been added
    started     \* history: the tasks that were taken from the queue

vars == <<tasks, stop, pc, notifying, destructor, added, started>>

TypeOK ==
    /\ tasks \in Seq(1..MaxTasks)
    /\ stop \in BOOLEAN
    /\ pc \in [Workers -> {"checking", "asleep", "running", "ended"}]
    /\ notifying \subseteq Callers
    /\ destructor \in {"uncalled", "notifying", "joining", "gone"}
    /\ added \in 0..MaxTasks
    /\ started \in Seq(1..MaxTasks)

Init ==
    /\ tasks = <<>>
    /\ stop = FALSE
    /\ pc = [w \in Workers |-> "checking"]
    /\ notifying = {}
    /\ destructor = "uncalled"
    /\ added = 0
    /\ started = <<>>

At(label) == {w \in Workers : pc[w] = label}

(* As in ReplySender, an operator named X_How is X with a mistake.         *)

-----------------------------------------------------------------------------
(* The body of a worker's loop from taking the lock to letting it go: wait *)
(* with its predicate, the test for the end, and the pop.                  *)
TakeTask_Newest(w) ==
    /\ pc[w] = "checking"
    /\ tasks # <<>>
    /\ tasks' = SubSeq(tasks, 1, Len(tasks) - 1)
    /\ started' = Append(started, tasks[Len(tasks)])
    /\ pc' = [pc EXCEPT ![w] = "running"]
    /\ UNCHANGED <<stop, notifying, destructor, added>>

TakeTask(w) ==
    /\ pc[w] = "checking"
    /\ tasks # <<>>
    /\ tasks' = Tail(tasks)
    /\ started' = Append(started, Head(tasks))
    /\ pc' = [pc EXCEPT ![w] = "running"]
    /\ UNCHANGED <<stop, notifying, destructor, added>>

Return_Undrained(w) ==
    /\ pc[w] = "checking"
    /\ stop
    /\ pc' = [pc EXCEPT ![w] = "ended"]
    /\ UNCHANGED <<tasks, stop, notifying, destructor, added, started>>

Return(w) ==
    /\ pc[w] = "checking"
    /\ stop /\ tasks = <<>>
    /\ pc' = [pc EXCEPT ![w] = "ended"]
    /\ UNCHANGED <<tasks, stop, notifying, destructor, added, started>>

Sleep(w) ==
    /\ pc[w] = "checking"
    /\ ~ stop /\ tasks = <<>>
    /\ pc' = [pc EXCEPT ![w] = "asleep"]
    /\ UNCHANGED <<tasks, stop, notifying, destructor, added, started>>

Check(w) == TakeTask(w) \/ Return(w) \/ Sleep(w)

(* A condition variable may wake a waiter for no reason.                   *)
SpuriousWake(w) ==
    /\ pc[w] = "asleep"
    /\ pc' = [pc EXCEPT ![w] = "checking"]
    /\ UNCHANGED <<tasks, stop, notifying, destructor, added, started>>

(* task() returns, or has thrown.                                          *)
Finish(w) ==
    /\ pc[w] = "running"
    /\ pc' = [pc EXCEPT ![w] = "checking"]
    /\ UNCHANGED <<tasks, stop, notifying, destructor, added, started>>

-----------------------------------------------------------------------------
(* Add pushes under the lock, and notifies after it.  On a stopped pool it *)
(* throws and changes nothing.                                             *)
Add_Silent(c) ==
    /\ c \notin notifying
    /\ ~ stop /\ added < MaxTasks
    /\ tasks' = Append(tasks, added + 1)
    /\ added' = added + 1
    /\ UNCHANGED <<stop, pc, notifying, destructor, started>>

Add(c) ==
    /\ c \notin notifying
    /\ ~ stop /\ added < MaxTasks
    /\ tasks' = Append(tasks, added + 1)
    /\ added' = added + 1
    /\ notifying' = notifying \cup {c}
    /\ UNCHANGED <<stop, pc, destructor, started>>

(* notify_one wakes one of the waiters, whichever, if there is one.        *)
NotifyOne_Lost(c) ==
    /\ c \in notifying
    /\ notifying' = notifying \ {c}
    /\ UNCHANGED <<tasks, stop, pc, destructor, added, started>>

NotifyOne(c) ==
    /\ c \in notifying
    /\ notifying' = notifying \ {c}
    /\ \/ \E w \in At("asleep") : pc' = [pc EXCEPT ![w] = "checking"]
       \/ At("asleep") = {} /\ UNCHANGED pc
    /\ UNCHANGED <<tasks, stop, destructor, added, started>>

-----------------------------------------------------------------------------
(* ~ThreadPool.                                                            *)
Stop ==
    /\ destructor = "uncalled"
    /\ stop' = TRUE
    /\ destructor' = "notifying"
    /\ UNCHANGED <<tasks, pc, notifying, added, started>>

NotifyAll_One ==
    /\ destructor = "notifying"
    /\ \/ \E w \in At("asleep") : pc' = [pc EXCEPT ![w] = "checking"]
       \/ At("asleep") = {} /\ UNCHANGED pc
    /\ destructor' = "joining"
    /\ UNCHANGED <<tasks, stop, notifying, added, started>>

NotifyAll ==
    /\ destructor = "notifying"
    /\ pc' = [w \in Workers |-> IF pc[w] = "asleep" THEN "checking" ELSE pc[w]]
    /\ destructor' = "joining"
    /\ UNCHANGED <<tasks, stop, notifying, added, started>>

Join ==
    /\ destructor = "joining"
    /\ At("ended") = Workers
    /\ destructor' = "gone"
    /\ UNCHANGED <<tasks, stop, pc, notifying, added, started>>

-----------------------------------------------------------------------------
Work(w) == Check(w) \/ SpuriousWake(w) \/ Finish(w)
Call(c) == Add(c) \/ NotifyOne(c)

Next ==
    \/ \E w \in Workers : Work(w)
    \/ \E c \in Callers : Call(c)
    \/ Stop \/ NotifyAll \/ Join

Spec == Init /\ [][Next]_vars

(* Threads that can run do; nothing is assumed of how long a task takes,   *)
(* of further calls, or of spurious wake-ups.                              *)
Fairness ==
    /\ \A w \in Workers : WF_vars(Check(w))
    /\ \A c \in Callers : WF_vars(NotifyOne(c))
    /\ WF_vars(NotifyAll) /\ WF_vars(Join)

FairSpec == Spec /\ Fairness

-----------------------------------------------------------------------------
(* No task is lost, run twice or overtaken: those taken, and then those in *)
(* the queue, are the tasks in the order in which they were added          *)
(* (thread_pool.cc:14-15, thread_pool.h:46).                               *)
NothingLost == started \o tasks = [i \in 1..added |-> i]

(* No wake-up is lost although notify_one is called outside the lock:      *)
(* while a worker sleeps, every task in the queue has a worker that is on  *)
(* its way to it, or a notification yet to come (thread_pool.h:48).        *)
NoTaskSleeps ==
    \/ At("asleep") = {}
    \/ Len(tasks) <= Cardinality(At("checking")) + Cardinality(notifying)

(* Once the destructor has notified all, no worker sleeps any more, and    *)
(* none falls asleep again: else join would wait for ever                  *)
(* (thread_pool.cc:26-28).                                                 *)
StopWakesAll == destructor \in {"joining", "gone"} => At("asleep") = {}

(* When the pool is gone every task that was accepted has been started and *)
(* has returned: the destructor drains the queue (thread_pool.cc:11).      *)
DestroyedMeansDone ==
    destructor = "gone" => Len(started) = added /\ At("running") = {}

(* Every reactor's loop is started: a task among the first as many as      *)
(* there are workers is, even if no task ever returns (tcp_server.cc:16-20). *)
LoopsStart ==
    \A i \in 1..Cardinality(Workers) : (added >= i) ~> (Len(started) >= i)

(* The destructor returns if no task runs for ever.                        *)
DestructorReturns ==
    (\A w \in Workers : []<>(pc[w] # "running")) => (stop ~> (destructor = "gone"))
=============================================================================
