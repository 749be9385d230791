-------------------------- MODULE ThreadPoolProofs --------------------------
(* Safety of the thread pool for every finite set of workers and callers   *)
(* and every number of tasks.                                              *)
EXTENDS ThreadPool, FiniteSetTheorems, SequenceTheorems, TLAPS

-----------------------------------------------------------------------------
(* NothingLost, element by element.                                        *)
InOrder ==
    /\ Len(started) + Len(tasks) = added
    /\ \A i \in 1..Len(started) : started[i] = i
    /\ \A i \in 1..Len(tasks) : tasks[i] = Len(started) + i

StopIsCall == stop <=> destructor # "uncalled"

(* A worker has ended only with the queue empty, and it stays so.          *)
EndedDrained == At("ended") # {} => stop /\ tasks = <<>>

GoneEnded == destructor = "gone" => At("ended") = Workers

PoolInv ==
    /\ TypeOK /\ InOrder /\ StopIsCall /\ StopWakesAll
    /\ EndedDrained /\ GoneEnded /\ NoTaskSleeps

-----------------------------------------------------------------------------
LEMMA Lengths ==
    ASSUME TypeOK
    PROVE  Len(tasks) \in Nat /\ Len(started) \in Nat /\ added \in Nat
BY LenProperties DEF TypeOK

LEMMA Counts ==
    ASSUME NEW l
    PROVE  IsFiniteSet(At(l)) /\ Cardinality(At(l)) \in Nat
<1>1. At(l) \in SUBSET Workers
  BY DEF At
<1> QED
  BY <1>1, FS_Subset, FS_CardinalityType, PoolAssumption

LEMMA NotifyingCount ==
    ASSUME TypeOK
    PROVE  IsFiniteSet(notifying) /\ Cardinality(notifying) \in Nat
<1>1. notifying \in SUBSET Callers
  BY DEF TypeOK
<1> QED
  BY <1>1, FS_Subset, FS_CardinalityType, PoolAssumption

LEMMA Popped ==
    ASSUME TypeOK, tasks # <<>>
    PROVE  /\ Head(tasks) = tasks[1] /\ Head(tasks) \in 1..MaxTasks
           /\ Tail(tasks) \in Seq(1..MaxTasks)
           /\ Len(tasks) > 0 /\ Len(Tail(tasks)) = Len(tasks) - 1
           /\ \A i \in 1..Len(tasks) - 1 : Tail(tasks)[i] = tasks[i + 1]
<1>1. tasks \in Seq(1..MaxTasks) /\ Len(tasks) \in Nat
  BY Lengths DEF TypeOK
<1>2. Len(tasks) > 0
  BY <1>1, EmptySeq
<1>3. tasks[1] \in 1..MaxTasks
  <2>1. 1 \in 1..Len(tasks)
    BY <1>1, <1>2
  <2> QED
    BY <1>1, <2>1, ElementOfSeq
<1>4. Head(tasks) = tasks[1]
  BY <1>1, <1>2
<1>5. /\ Tail(tasks) \in Seq(1..MaxTasks)
      /\ Len(Tail(tasks)) = Len(tasks) - 1
      /\ \A i \in 1..Len(Tail(tasks)) : Tail(tasks)[i] = tasks[i + 1]
  BY <1>1, HeadTailProperties
<1> QED
  BY <1>2, <1>3, <1>4, <1>5

LEMMA Appended ==
    ASSUME NEW s \in Seq(1..MaxTasks), NEW x \in 1..MaxTasks
    PROVE  /\ Append(s, x) \in Seq(1..MaxTasks)
           /\ Len(Append(s, x)) = Len(s) + 1
           /\ \A i \in 1..Len(s) : Append(s, x)[i] = s[i]
           /\ Append(s, x)[Len(s) + 1] = x
BY AppendProperties, LenProperties

-----------------------------------------------------------------------------
(* The workers at a place, when one of them moves.                         *)
LEMMA Moved ==
    ASSUME TypeOK, NEW w \in Workers,
           NEW to \in {"checking", "asleep", "running", "ended"},
           pc' = [pc EXCEPT ![w] = to]
    PROVE  \A l : At(l)' = IF l = to THEN At(l) \cup {w} ELSE At(l) \ {w}
BY DEF TypeOK, At

LEMMA Types == TypeOK /\ [Next]_vars => TypeOK'
<1> SUFFICES ASSUME TypeOK, [Next]_vars PROVE TypeOK'
  OBVIOUS
<1> USE PoolAssumption
<1>1. ASSUME NEW w \in Workers, TakeTask(w) PROVE TypeOK'
  <2>1. tasks' \in Seq(1..MaxTasks) /\ started' \in Seq(1..MaxTasks)
    BY <1>1, Popped, Appended DEF TakeTask, TypeOK
  <2> QED
    BY <1>1, <2>1 DEF TakeTask, TypeOK
<1>2. ASSUME NEW w \in Workers, Return(w) PROVE TypeOK'
  BY <1>2 DEF Return, TypeOK
<1>3. ASSUME NEW w \in Workers, Sleep(w) PROVE TypeOK'
  BY <1>3 DEF Sleep, TypeOK
<1>4. ASSUME NEW w \in Workers, SpuriousWake(w) PROVE TypeOK'
  BY <1>4 DEF SpuriousWake, TypeOK
<1>5. ASSUME NEW w \in Workers, Finish(w) PROVE TypeOK'
  BY <1>5 DEF Finish, TypeOK
<1>6. ASSUME NEW c \in Callers, Add(c) PROVE TypeOK'
  <2>1. added + 1 \in 1..MaxTasks
    BY <1>6 DEF Add, TypeOK
  <2>2. tasks' \in Seq(1..MaxTasks)
    BY <1>6, <2>1, Appended DEF Add, TypeOK
  <2> QED
    BY <1>6, <2>1, <2>2 DEF Add, TypeOK
<1>7. ASSUME NEW c \in Callers, NotifyOne(c) PROVE TypeOK'
  BY <1>7 DEF NotifyOne, TypeOK, At
<1>8. ASSUME Stop PROVE TypeOK'
  BY <1>8 DEF Stop, TypeOK
<1>9. ASSUME NotifyAll PROVE TypeOK'
  BY <1>9 DEF NotifyAll, TypeOK
<1>10. ASSUME Join PROVE TypeOK'
  BY <1>10 DEF Join, TypeOK
<1>11. ASSUME UNCHANGED vars PROVE TypeOK'
  BY <1>11 DEF vars, TypeOK
<1> QED
  BY <1>1, <1>2, <1>3, <1>4, <1>5, <1>6, <1>7, <1>8, <1>9, <1>10, <1>11
     DEF Next, Work, Call, Check

-----------------------------------------------------------------------------
LEMMA Order == TypeOK /\ InOrder /\ [Next]_vars => InOrder'
<1> SUFFICES ASSUME TypeOK, InOrder, [Next]_vars PROVE InOrder'
  OBVIOUS
<1>1. ASSUME NEW w \in Workers, TakeTask(w) PROVE InOrder'
  <2>1. /\ Head(tasks) = tasks[1] /\ Head(tasks) \in 1..MaxTasks
        /\ Len(tasks) > 0 /\ Len(tasks') = Len(tasks) - 1
        /\ \A i \in 1..Len(tasks) - 1 : tasks'[i] = tasks[i + 1]
    BY <1>1, Popped DEF TakeTask
  <2>2. /\ Len(started') = Len(started) + 1
        /\ \A i \in 1..Len(started) : started'[i] = started[i]
        /\ started'[Len(started) + 1] = Head(tasks)
    BY <1>1, <2>1, Appended DEF TakeTask, TypeOK
  <2>3. Head(tasks) = Len(started) + 1
    BY <2>1, Lengths DEF InOrder
  <2>4. Len(started') + Len(tasks') = added'
    BY <1>1, <2>1, <2>2, Lengths DEF InOrder, TakeTask
  <2>5. \A i \in 1..Len(started') : started'[i] = i
    BY <2>2, <2>3, Lengths DEF InOrder
  <2>6. \A i \in 1..Len(tasks') : tasks'[i] = Len(started') + i
    <3> SUFFICES ASSUME NEW i \in 1..Len(tasks') PROVE tasks'[i] = Len(started') + i
      OBVIOUS
    <3>1. i \in 1..Len(tasks) - 1 /\ i + 1 \in 1..Len(tasks)
      BY <2>1, Lengths
    <3>2. tasks[i + 1] = Len(started) + (i + 1)
      BY <3>1 DEF InOrder
    <3> QED
      BY <2>1, <2>2, <3>1, <3>2, Lengths
  <2> QED
    BY <2>4, <2>5, <2>6 DEF InOrder
<1>2. ASSUME NEW c \in Callers, Add(c) PROVE InOrder'
  <2>1. added + 1 \in 1..MaxTasks
    BY <1>2, PoolAssumption DEF Add, TypeOK
  <2>2. /\ Len(tasks') = Len(tasks) + 1
        /\ \A i \in 1..Len(tasks) : tasks'[i] = tasks[i]
        /\ tasks'[Len(tasks) + 1] = added + 1
    BY <1>2, <2>1, Appended DEF Add, TypeOK
  <2> QED
    BY <1>2, <2>2, Lengths DEF InOrder, Add
<1>3. ASSUME UNCHANGED <<tasks, added, started>> PROVE InOrder'
  BY <1>3 DEF InOrder
<1> QED
  BY <1>1, <1>2, <1>3 DEF Next, Work, Call, Check, Return, Sleep, SpuriousWake, Finish,
     NotifyOne, Stop, NotifyAll, Join, vars

-----------------------------------------------------------------------------
(* What the destructor has seen to.                                        *)
Closing == StopIsCall /\ StopWakesAll /\ EndedDrained /\ GoneEnded

LEMMA ClosingStep == TypeOK /\ Closing /\ [Next]_vars => Closing'
<1> SUFFICES ASSUME TypeOK, Closing, [Next]_vars PROVE Closing'
  OBVIOUS
<1> USE DEF Closing
<1>1. ASSUME NEW w \in Workers, TakeTask(w) PROVE Closing'
  <2>1. At("ended") = {} /\ At("ended")' = {} /\ At("asleep")' = At("asleep") \ {w}
    BY <1>1, Moved DEF TakeTask, EndedDrained
  <2>2. destructor # "gone"
    BY <1>1, <2>1 DEF GoneEnded
  <2> QED
    BY <1>1, <2>1, <2>2 DEF TakeTask, StopIsCall, StopWakesAll, EndedDrained, GoneEnded
<1>2. ASSUME NEW w \in Workers, Return(w) PROVE Closing'
  <2>1. At("ended")' = At("ended") \cup {w} /\ At("asleep")' = At("asleep") \ {w}
    BY <1>2, Moved DEF Return
  <2> QED
    BY <1>2, <2>1 DEF Return, StopIsCall, StopWakesAll, EndedDrained, GoneEnded, At
<1>3. ASSUME NEW w \in Workers, Sleep(w) PROVE Closing'
  <2>1. At("ended")' = At("ended") \ {w}
    BY <1>3, Moved DEF Sleep
  <2> QED
    BY <1>3, <2>1 DEF Sleep, StopIsCall, StopWakesAll, EndedDrained, GoneEnded
<1>4. ASSUME NEW w \in Workers, pc[w] \in {"asleep", "running"},
             pc' = [pc EXCEPT ![w] = "checking"],
             UNCHANGED <<tasks, stop, destructor>>
      PROVE  Closing'
  <2>1. At("ended")' = At("ended") /\ At("asleep")' \subseteq At("asleep")
    BY <1>4 DEF TypeOK, At
  <2> QED
    BY <1>4, <2>1 DEF StopIsCall, StopWakesAll, EndedDrained, GoneEnded
<1>5. ASSUME NEW c \in Callers, Add(c) PROVE Closing'
  BY <1>5 DEF Add, StopIsCall, StopWakesAll, EndedDrained, GoneEnded, At
<1>6. ASSUME UNCHANGED <<tasks, stop, pc, destructor>> PROVE Closing'
  BY <1>6 DEF StopIsCall, StopWakesAll, EndedDrained, GoneEnded, At
<1>7. ASSUME NEW c \in Callers, NotifyOne(c) PROVE Closing'
  <2>1. CASE \E w \in At("asleep") : pc' = [pc EXCEPT ![w] = "checking"]
    BY <1>4, <1>7, <2>1 DEF NotifyOne, At
  <2>2. CASE UNCHANGED pc
    BY <1>6, <1>7, <2>2 DEF NotifyOne
  <2> QED
    BY <1>7, <2>1, <2>2 DEF NotifyOne
<1>8. ASSUME Stop PROVE Closing'
  BY <1>8 DEF Stop, StopIsCall, StopWakesAll, EndedDrained, GoneEnded, At
<1>9. ASSUME NotifyAll PROVE Closing'
  <2>1. At("asleep")' = {} /\ At("ended")' = At("ended")
    BY <1>9 DEF NotifyAll, At
  <2> QED
    BY <1>9, <2>1 DEF NotifyAll, StopIsCall, StopWakesAll, EndedDrained, GoneEnded
<1>10. ASSUME Join PROVE Closing'
  BY <1>10 DEF Join, StopIsCall, StopWakesAll, EndedDrained, GoneEnded, At
<1> QED
  BY <1>1, <1>2, <1>3, <1>4, <1>5, <1>6, <1>7, <1>8, <1>9, <1>10
     DEF Next, Work, Call, Check, SpuriousWake, Finish, vars

-----------------------------------------------------------------------------
LEMMA Wakes == TypeOK /\ NoTaskSleeps /\ [Next]_vars => NoTaskSleeps'
<1> SUFFICES ASSUME TypeOK, NoTaskSleeps, [Next]_vars PROVE NoTaskSleeps'
  OBVIOUS
<1> DEFINE C == Cardinality(At("checking"))
           N == Cardinality(notifying)
<1>0. C \in Nat /\ N \in Nat /\ C' \in Nat /\ Len(tasks) \in Nat
  <2>1. (IsFiniteSet(At("checking")) /\ C \in Nat)'
    <3>1. At("checking")' \in SUBSET Workers
      BY DEF At
    <3> QED
      BY <3>1, FS_Subset, FS_CardinalityType, PoolAssumption
  <2> QED
    BY <2>1, Counts, NotifyingCount, Lengths
(* A worker that was asleep or running goes to look.                       *)
<1>1. ASSUME NEW w \in Workers, pc[w] \in {"asleep", "running"},
             pc' = [pc EXCEPT ![w] = "checking"]
      PROVE  /\ C' = C + 1
             /\ At("asleep")' # {} => At("asleep") # {}
  <2>1. At("checking")' = At("checking") \cup {w} /\ w \notin At("checking")
    BY <1>1, Moved DEF At
  <2>2. C' = C + 1
    BY <2>1, Counts, FS_AddElement
  <2>3. At("asleep")' = At("asleep") \ {w}
    BY <1>1, Moved
  <2> QED
    BY <2>2, <2>3
<1>2. ASSUME NEW w \in Workers, TakeTask(w) PROVE NoTaskSleeps'
  <2>1. /\ At("checking")' = At("checking") \ {w} /\ w \in At("checking")
        /\ At("asleep")' = At("asleep") \ {w}
    BY <1>2 DEF TakeTask, TypeOK, At
  <2>2. C' = C - 1
    BY <2>1, Counts, FS_RemoveElement
  <2>3. Len(tasks') = Len(tasks) - 1 /\ notifying' = notifying
    BY <1>2, Popped DEF TakeTask
  <2>4. At("asleep")' # {} => Len(tasks') <= C' + N'
    BY <1>0, <2>1, <2>2, <2>3 DEF NoTaskSleeps
  <2> QED
    BY <2>4 DEF NoTaskSleeps
<1>3. ASSUME NEW w \in Workers, Return(w) \/ Sleep(w) PROVE NoTaskSleeps'
  <2>1. Len(tasks') = 0 /\ notifying' = notifying
    BY <1>3, EmptySeq DEF Return, Sleep
  <2>2. Len(tasks') <= C' + N'
    BY <1>0, <2>1
  <2> QED
    BY <2>2 DEF NoTaskSleeps
<1>4. ASSUME NEW w \in Workers, SpuriousWake(w) \/ Finish(w) PROVE NoTaskSleeps'
  <2>1. C' = C + 1 /\ (At("asleep")' # {} => At("asleep") # {})
    BY <1>1, <1>4 DEF SpuriousWake, Finish
  <2>2. tasks' = tasks /\ notifying' = notifying
    BY <1>4 DEF SpuriousWake, Finish
  <2>3. At("asleep")' # {} => Len(tasks') <= C' + N'
    BY <1>0, <2>1, <2>2 DEF NoTaskSleeps
  <2> QED
    BY <2>3 DEF NoTaskSleeps
<1>5. ASSUME NEW c \in Callers, Add(c) PROVE NoTaskSleeps'
  <2>1. added + 1 \in 1..MaxTasks
    BY <1>5, PoolAssumption DEF Add, TypeOK
  <2>2. Len(tasks') = Len(tasks) + 1
    BY <1>5, <2>1, Appended DEF Add, TypeOK
  <2>3. N' = N + 1
    BY <1>5, NotifyingCount, FS_AddElement DEF Add
  <2>4. At("asleep")' = At("asleep") /\ C' = C
    BY <1>5 DEF Add, At
  <2>5. At("asleep")' # {} => Len(tasks') <= C' + N'
    BY <1>0, <2>2, <2>3, <2>4 DEF NoTaskSleeps
  <2> QED
    BY <2>5 DEF NoTaskSleeps
<1>6. ASSUME NEW c \in Callers, NotifyOne(c) PROVE NoTaskSleeps'
  <2>1. N' = N - 1 /\ tasks' = tasks
    BY <1>6, NotifyingCount, FS_RemoveElement DEF NotifyOne
  <2>2. CASE \E w \in At("asleep") : pc' = [pc EXCEPT ![w] = "checking"]
    <3>1. C' = C + 1 /\ At("asleep") # {}
      BY <1>1, <2>2 DEF At
    <3>2. At("asleep")' # {} => Len(tasks') <= C' + N'
      BY <1>0, <2>1, <3>1 DEF NoTaskSleeps
    <3> QED
      BY <3>2 DEF NoTaskSleeps
  <2>3. CASE At("asleep") = {} /\ UNCHANGED pc
    BY <2>3 DEF NoTaskSleeps, At
  <2> QED
    BY <1>6, <2>2, <2>3 DEF NotifyOne
<1>7. ASSUME NotifyAll PROVE NoTaskSleeps'
  BY <1>7 DEF NotifyAll, NoTaskSleeps, At
<1>8. ASSUME UNCHANGED <<tasks, pc, notifying>> PROVE NoTaskSleeps'
  BY <1>8 DEF NoTaskSleeps, At
<1> QED
  BY <1>2, <1>3, <1>4, <1>5, <1>6, <1>7, <1>8
     DEF Next, Work, Call, Check, Stop, Join, vars

-----------------------------------------------------------------------------
(* The pool's invariant, from which the theorems below follow.             *)
THEOREM PoolInvariant == Spec => []PoolInv
<1>1. Init => PoolInv
  <2> SUFFICES ASSUME Init PROVE PoolInv
    OBVIOUS
  <2>1. TypeOK
    <3>1. <<>> \in Seq(1..MaxTasks)
      BY EmptySeq
    <3>2. 0 \in 0..MaxTasks
      BY PoolAssumption
    <3> QED
      BY <3>1, <3>2 DEF Init, TypeOK
  <2>2. InOrder
    BY EmptySeq DEF Init, InOrder
  <2>3. At("asleep") = {} /\ At("ended") = {}
    BY DEF Init, At
  <2> QED
    BY <2>1, <2>2, <2>3 DEF Init, PoolInv, StopIsCall, StopWakesAll, EndedDrained,
       GoneEnded, NoTaskSleeps
<1>2. PoolInv /\ [Next]_vars => PoolInv'
  BY Types, Order, ClosingStep, Wakes DEF PoolInv, Closing
<1> QED
  BY <1>1, <1>2, PTL DEF Spec

(* The pool's variables have their types.                                  *)
THEOREM PoolTypes == Spec => []TypeOK
<1>1. PoolInv => TypeOK
  BY DEF PoolInv
<1> QED
  BY <1>1, PoolInvariant, PTL

(* Tasks are started in the order in which they were added, each once.     *)
THEOREM NoTaskIsLost == Spec => []NothingLost
<1>1. PoolInv => NothingLost
  <2> SUFFICES ASSUME PoolInv PROVE NothingLost
    OBVIOUS
  <2> DEFINE all == started \o tasks
             ids == [i \in 1..added |-> i]
  <2>1. /\ started \in Seq(1..MaxTasks) /\ tasks \in Seq(1..MaxTasks)
        /\ Len(started) \in Nat /\ Len(tasks) \in Nat /\ added \in Nat
    BY Lengths DEF PoolInv, TypeOK
  <2>2. /\ all \in Seq(1..MaxTasks) /\ Len(all) = added
        /\ \A i \in 1..added : all[i] = i
    <3>1. /\ all \in Seq(1..MaxTasks) /\ Len(all) = Len(started) + Len(tasks)
          /\ \A i \in 1..Len(all) : all[i] = IF i <= Len(started) THEN started[i]
                                             ELSE tasks[i - Len(started)]
      BY <2>1, ConcatProperties
    <3> HIDE DEF all
    <3>2. Len(all) = added
      BY <3>1 DEF PoolInv, InOrder
    <3>3. ASSUME NEW i \in 1..added PROVE all[i] = i
      <4>1. CASE i <= Len(started)
        BY <2>1, <3>1, <3>2, <4>1 DEF PoolInv, InOrder
      <4>2. CASE i > Len(started)
        <5>1. i - Len(started) \in 1..Len(tasks)
          BY <2>1, <3>1, <3>2, <4>2
        <5>2. tasks[i - Len(started)] = Len(started) + (i - Len(started))
          BY <5>1 DEF PoolInv, InOrder
        <5> QED
          BY <2>1, <3>1, <3>2, <4>2, <5>2
      <4> QED
        BY <2>1, <4>1, <4>2
    <3> QED
      BY <3>1, <3>2, <3>3
  <2>3. ids \in Seq(1..added) /\ Len(ids) = added
    BY <2>1
  <2> HIDE DEF all
  <2>4. all \in [1..added -> 1..MaxTasks]
    BY <2>2, LenProperties
  <2>5. all = ids
    BY <2>2, <2>4
  <2> QED
    BY <2>5 DEF NothingLost, all
<1> QED
  BY <1>1, PoolInvariant, PTL

(* Notifying outside the lock loses no wake-up.                            *)
THEOREM NoWakeUpIsLost == Spec => []NoTaskSleeps
<1>1. PoolInv => NoTaskSleeps
  BY DEF PoolInv
<1> QED
  BY <1>1, PoolInvariant, PTL

(* No worker sleeps through the destructor.                                *)
THEOREM StopReachesAll == Spec => []StopWakesAll
<1>1. PoolInv => StopWakesAll
  BY DEF PoolInv
<1> QED
  BY <1>1, PoolInvariant, PTL

(* A pool that has workers has run all it accepted when it is gone; one    *)
(* that has none (hardware_concurrency may say 0) runs nothing.            *)
THEOREM DestroyedIsDone ==
    ASSUME Workers # {}
    PROVE  Spec => []DestroyedMeansDone
<1>1. PoolInv => DestroyedMeansDone
  <2> SUFFICES ASSUME PoolInv, destructor = "gone"
               PROVE  Len(started) = added /\ At("running") = {}
    BY DEF DestroyedMeansDone
  <2>1. At("ended") = Workers /\ tasks = <<>>
    BY DEF PoolInv, GoneEnded, EndedDrained
  <2>2. Len(started) = added
    BY <2>1, Lengths, EmptySeq DEF PoolInv, InOrder
  <2>3. At("running") = {}
    BY <2>1 DEF At
  <2> QED
    BY <2>2, <2>3
<1> QED
  BY <1>1, PoolInvariant, PTL
=============================================================================
