-------------------------- MODULE MultitaskProofs --------------------------
(***************************************************************************)
(* Proofs about Multitask: for any number of runs, tasks, threads and      *)
(* requesters, the threads and the queue never work for more unsettled     *)
(* runs of a requester than allowed, nor for a run that was forgotten; no  *)
(* task is lost; and each run is as ParallelContract promises.             *)
(***************************************************************************)
EXTENDS Multitask, FiniteSetTheorems, SequenceTheorems, TLAPS

\* Where a task is: in the queue once, or on one thread, or in neither.
PlaceInv ==
  /\ \A i, j \in 1 .. Len(queue) : queue[i] = queue[j] => i = j
  /\ \A i \in 1 .. Len(queue) : work[queue[i]] = "none" /\ state[queue[i]] \in {"queued", "cancelled"}
  /\ \A t \in Task : work[t] = "taken" => state[t] = "queued"
  /\ \A t \in Task : work[t] = "running" => state[t] = "running"
  /\ \A t \in Task : work[t] = "closing" => state[t] \in {"succeeded", "failed"}

\* A run with a task that is not done is known.
KeptInv == \A t \in Task : state[t] \in {"queued", "running"} => t[1] \in kept

\* The last task of a run to be done, or its cancellation, sets its finished_at.
FinishedInv ==
  \A r \in kept : Settled(r) /\ (\A t \in TasksOf(r) : work[t] # "closing") => r \in finished

\* No requester has too many unfinished runs.
ActiveInv == \A r \in Run : Cardinality(Active(Requester[r])) <= MaxActive

Inv == TypeOK /\ PlaceInv /\ KeptInv /\ FinishedInv /\ ActiveInv

-----------------------------------------------------------------------------
LEMMA TasksOfRun ==
  /\ \A r \in Run : TasksOf(r) \subseteq Task /\ (\A t \in TasksOf(r) : t[1] = r)
  /\ \A r \in Run : <<r, 1>> \in TasksOf(r)
  /\ \A t \in Task : t[1] \in Run /\ t \in TasksOf(t[1])
<1>1. 1 \in 1 .. Size
  BY MultitaskAssumption
<1> QED BY <1>1 DEF TasksOf, Task

LEMMA InitInv == ASSUME Init PROVE Inv
<1>1. TypeOK
  <2>1. <<>> \in Seq(Task)
    OBVIOUS
  <2> QED BY <2>1 DEF Init, TypeOK, Stages
<1>2. PlaceInv /\ KeptInv /\ FinishedInv
  BY DEF Init, PlaceInv, KeptInv, FinishedInv
<1>3. \A q : Active(q) = {}
  BY DEF Init, Active
<1>4. ActiveInv
  BY <1>3, FS_EmptySet, MultitaskAssumption DEF ActiveInv
<1> QED BY <1>1, <1>2, <1>4 DEF Inv

\* The tasks of a run that is submitted are put at the end of the queue.
LEMMA Appended ==
  ASSUME TypeOK, NEW r \in Run, queue' = queue \o [i \in 1 .. Size |-> <<r, i>>]
  PROVE  /\ queue' \in Seq(Task)
         /\ Len(queue') = Len(queue) + Size
         /\ \A i \in 1 .. Len(queue) : queue'[i] = queue[i]
         /\ \A i \in Len(queue) + 1 .. Len(queue) + Size : queue'[i] = <<r, i - Len(queue)>>
<1> DEFINE s == [i \in 1 .. Size |-> <<r, i>>]
<1>1. s \in Seq(Task) /\ Len(s) = Size
  BY MultitaskAssumption DEF Task
<1>2. \A i \in 1 .. Size : s[i] = <<r, i>>
  OBVIOUS
<1> HIDE DEF s
<1>3. queue \in Seq(Task) /\ queue' = queue \o s /\ Size \in Nat
  BY MultitaskAssumption DEF TypeOK, s
<1>4. /\ queue \o s \in Seq(Task) /\ Len(queue \o s) = Len(queue) + Len(s)
      /\ \A i \in 1 .. Len(queue) + Len(s) :
           (queue \o s)[i] = IF i <= Len(queue) THEN queue[i] ELSE s[i - Len(queue)]
  BY <1>1, <1>3, ConcatProperties
<1>5. Len(queue) \in Nat
  BY <1>3
<1>6. /\ queue' \in Seq(Task) /\ Len(queue') = Len(queue) + Size
      /\ \A i \in 1 .. Len(queue) : queue'[i] = queue[i]
  <2>1. queue' \in Seq(Task) /\ Len(queue') = Len(queue) + Size
    BY <1>1, <1>3, <1>4, Zenon
  <2>2. ASSUME NEW i \in 1 .. Len(queue) PROVE queue'[i] = queue[i]
    <3>1. i \in 1 .. Len(queue) + Len(s) /\ i <= Len(queue)
      BY <1>1, <1>3, <1>5
    <3> QED BY <3>1, <1>3, <1>4, Zenon
  <2> QED BY <2>1, <2>2
<1>7. ASSUME NEW i \in Len(queue) + 1 .. Len(queue) + Size PROVE queue'[i] = <<r, i - Len(queue)>>
  <2>1. i - Len(queue) \in 1 .. Size /\ i \in 1 .. Len(queue) + Len(s) /\ ~ (i <= Len(queue))
    BY <1>1, <1>3, <1>5
  <2>2. queue'[i] = s[i - Len(queue)]
    BY <1>3, <1>4, <2>1
  <2> QED BY <2>1, <2>2, <1>2
<1> QED BY <1>6, <1>7

-----------------------------------------------------------------------------
(***************************************************************************)
(* The steps, one lemma each: what it does to the places of the tasks, to  *)
(* the runs that are known and to those that are finished.                 *)
(***************************************************************************)
Core == TypeOK /\ PlaceInv /\ KeptInv /\ FinishedInv

LEMMA SubmitStep == ASSUME Core, NEW r \in Run, Submit(r) PROVE Core'
<1> USE DEF Core
<1>0. Size \in Nat /\ 1 \in 1 .. Size
  BY MultitaskAssumption
<1>1. /\ \A t \in TasksOf(r) : state[t] = "new"
      /\ state' = [t \in Task |-> IF t \in TasksOf(r) THEN "queued" ELSE state[t]]
      /\ UNCHANGED <<finished, work, closed>>
  BY DEF Submit
<1>2. PICK gone \in Pruned(r) : kept' = (kept \ gone) \cup {r}
  BY DEF Submit
<1>3. \A s \in gone : s \in kept /\ Settled(s)
  BY <1>2 DEF Pruned, Prunable
<1>4. /\ queue' \in Seq(Task) /\ Len(queue') = Len(queue) + Size
      /\ \A i \in 1 .. Len(queue) : queue'[i] = queue[i]
      /\ \A i \in Len(queue) + 1 .. Len(queue) + Size : queue'[i] = <<r, i - Len(queue)>>
  BY Appended DEF Submit
<1>5. TypeOK'
  BY <1>1, <1>2, <1>3, <1>4 DEF TypeOK
<1>6. \A i \in 1 .. Len(queue) : queue[i] \in Task /\ queue[i] \notin TasksOf(r)
  BY <1>1 DEF TypeOK, PlaceInv
<1>7. \A i \in 1 .. Size : <<r, i>> \in TasksOf(r) /\ <<r, i>> \in Task
  BY DEF TasksOf, Task
<1>8. \A t \in TasksOf(r) : work[t] = "none"
  BY <1>1, TasksOfRun DEF TypeOK, PlaceInv, Stages
<1>9. PlaceInv'
  <2>1. \A i \in 1 .. Len(queue) : work'[queue'[i]] = "none" /\ state'[queue'[i]] \in {"queued", "cancelled"}
    BY <1>1, <1>4, <1>6 DEF PlaceInv, TypeOK
  <2>2. \A i \in Len(queue) + 1 .. Len(queue) + Size :
          work'[queue'[i]] = "none" /\ state'[queue'[i]] \in {"queued", "cancelled"}
    <3> SUFFICES ASSUME NEW i \in Len(queue) + 1 .. Len(queue) + Size
                 PROVE  work'[queue'[i]] = "none" /\ state'[queue'[i]] = "queued"
      OBVIOUS
    <3>1. Len(queue) \in Nat /\ i - Len(queue) \in 1 .. Size
      BY <1>0 DEF TypeOK
    <3>2. queue'[i] \in TasksOf(r) /\ queue'[i] \in Task
      BY <3>1, <1>4, <1>7
    <3> QED BY <3>2, <1>1, <1>8
  <2>3. \A i \in 1 .. Len(queue'), j \in 1 .. Len(queue') : queue'[i] = queue'[j] => i = j
    <3> SUFFICES ASSUME NEW i \in 1 .. Len(queue'), NEW j \in 1 .. Len(queue'), queue'[i] = queue'[j]
                 PROVE  i = j
      OBVIOUS
    <3>0. Len(queue) \in Nat
      BY DEF TypeOK
    <3>1. CASE i \in 1 .. Len(queue) /\ j \in 1 .. Len(queue)
      BY <3>1, <1>4 DEF PlaceInv
    <3>2. CASE i \notin 1 .. Len(queue) /\ j \notin 1 .. Len(queue)
      <4>1. queue'[i] = <<r, i - Len(queue)>> /\ queue'[j] = <<r, j - Len(queue)>>
        BY <3>2, <3>0, <1>0, <1>4
      <4> DEFINE a == i - Len(queue)
      <4> DEFINE b == j - Len(queue)
      <4>2. <<r, a>> = <<r, b>>
        BY <4>1
      <4>3. a = b
        <5> HIDE DEF a, b
        <5> QED BY <4>2
      <4> QED BY <4>3, <3>0
    <3>3. CASE i \in 1 .. Len(queue) /\ j \notin 1 .. Len(queue)
      <4>1. queue'[j] = <<r, j - Len(queue)>> /\ j - Len(queue) \in 1 .. Size
        BY <3>3, <3>0, <1>0, <1>4
      <4> QED BY <4>1, <3>3, <1>4, <1>6, <1>7
    <3>4. CASE i \notin 1 .. Len(queue) /\ j \in 1 .. Len(queue)
      <4>1. queue'[i] = <<r, i - Len(queue)>> /\ i - Len(queue) \in 1 .. Size
        BY <3>4, <3>0, <1>0, <1>4
      <4> QED BY <4>1, <3>4, <1>4, <1>6, <1>7
    <3> QED BY <3>1, <3>2, <3>3, <3>4
  <2>4. \A i \in 1 .. Len(queue') : i \in 1 .. Len(queue) \/ i \in Len(queue) + 1 .. Len(queue) + Size
    BY <1>0, <1>4 DEF TypeOK
  <2>5. \A t \in Task : t \in TasksOf(r) => work'[t] = "none"
    BY <1>1, <1>8
  <2> QED BY <1>1, <2>1, <2>2, <2>3, <2>4, <2>5 DEF PlaceInv, TypeOK
<1>10. KeptInv'
  <2> SUFFICES ASSUME NEW t \in Task, state'[t] \in {"queued", "running"} PROVE t[1] \in kept'
    BY DEF KeptInv
  <2>1. CASE t \in TasksOf(r)
    BY <2>1, <1>2, TasksOfRun
  <2>2. CASE t \notin TasksOf(r)
    <3>1. state[t] \in {"queued", "running"} /\ t \in TasksOf(t[1])
      BY <2>2, <1>1, TasksOfRun DEF TypeOK
    <3>2. t[1] \in kept /\ ~ Settled(t[1])
      BY <3>1 DEF KeptInv, Settled, Terminal
    <3> QED BY <3>2, <1>2, <1>3
  <2> QED BY <2>1, <2>2
<1>11. FinishedInv'
  <2> SUFFICES ASSUME NEW s \in kept', Settled(s)', \A t \in TasksOf(s) : work'[t] # "closing"
               PROVE  s \in finished'
    BY DEF FinishedInv, TasksOf
  <2>1. s # r
    <3>1. state'[<<r, 1>>] = "queued"
      BY <1>1, TasksOfRun
    <3> QED BY <3>1, TasksOfRun DEF Settled, TasksOf, Terminal
  <2>2. s \in kept /\ s \in Run
    BY <2>1, <1>2 DEF TypeOK
  <2>3. \A t \in TasksOf(s) : t \in Task /\ t \notin TasksOf(r)
    BY <2>1, <2>2, TasksOfRun
  <2>4. Settled(s)
    BY <2>3, <1>1 DEF Settled, TasksOf
  <2> QED BY <2>2, <2>4, <1>1 DEF FinishedInv
<1> QED BY <1>5, <1>9, <1>10, <1>11

LEMMA CancelStep == ASSUME Core, NEW r \in Run, Cancel(r) PROVE Core'
<1> USE DEF Core
<1>1. /\ r \in kept
      /\ state' = [t \in Task |-> IF t \in TasksOf(r) /\ Cancels(t) THEN "cancelled" ELSE state[t]]
      /\ UNCHANGED <<kept, queue, work, closed>>
  BY DEF Cancel
<1>2. \A t \in Task : state'[t] = state[t] \/ (state'[t] = "cancelled" /\ t \in TasksOf(r) /\ Cancels(t))
  BY <1>1
<1>3. finished' \subseteq Run /\ finished \subseteq finished'
  BY DEF Cancel, FinishedIfSettled, TypeOK
<1>4. TypeOK'
  BY <1>1, <1>3 DEF TypeOK, Terminal
<1>5. \A t \in Task : Cancels(t) => work[t] = "none" /\ state[t] = "queued"
  BY DEF Cancels
<1>6. PlaceInv'
  <2>1. \A i \in 1 .. Len(queue) : queue[i] \in Task
    BY DEF TypeOK
  <2> QED BY <1>1, <1>2, <1>5, <2>1 DEF PlaceInv
<1>7. KeptInv'
  BY <1>1, <1>2 DEF KeptInv
<1>8. FinishedInv'
  <2> SUFFICES ASSUME NEW s \in kept, Settled(s)', \A t \in TasksOf(s) : work[t] # "closing"
               PROVE  s \in finished'
    BY <1>1 DEF FinishedInv, TasksOf
  <2>0. s \in Run
    BY DEF TypeOK
  <2>1. CASE s = r
    <3>1. \A t \in TasksOf(r) : Cancels(t) \/ state[t] \in Terminal
      BY <2>1, <1>2, TasksOfRun DEF Settled, TasksOf
    <3> QED BY <3>1, <2>1, <1>1 DEF Cancel, FinishedIfSettled
  <2>2. CASE s # r
    <3>1. \A t \in TasksOf(s) : t \in Task /\ t \notin TasksOf(r)
      BY <2>2, <2>0, TasksOfRun
    <3>2. Settled(s)
      BY <3>1, <1>1 DEF Settled, TasksOf
    <3> QED BY <3>2, <1>3 DEF FinishedInv
  <2> QED BY <2>1, <2>2
<1> QED BY <1>4, <1>6, <1>7, <1>8

LEMMA CloseStep == ASSUME Core, Close PROVE Core'
<1>1. queue' = <<>> /\ closed' = TRUE /\ UNCHANGED <<kept, state, finished, work>>
  BY DEF Close
<1>2. TypeOK'
  BY <1>1 DEF Core, TypeOK
<1>3. PlaceInv'
  BY <1>1 DEF Core, PlaceInv
<1>4. KeptInv' /\ FinishedInv'
  BY <1>1 DEF Core, KeptInv, FinishedInv, Settled, TasksOf
<1> QED BY <1>2, <1>3, <1>4 DEF Core

LEMMA TakeStep == ASSUME Core, Take PROVE Core'
<1> USE DEF Core
<1> DEFINE h == Head(queue)
<1>0. queue \in Seq(Task) /\ queue # <<>> /\ h = queue[1] /\ h \in Task
  BY DEF Take, TypeOK
<1>1. /\ queue' = Tail(queue) /\ UNCHANGED <<kept, state, finished, closed>>
      /\ work' = IF state[h] = "cancelled" THEN work ELSE [work EXCEPT ![h] = "taken"]
  BY DEF Take
<1>2. /\ queue' \in Seq(Task) /\ Len(queue') = Len(queue) - 1
      /\ \A i \in 1 .. Len(queue') : queue'[i] = queue[i + 1] /\ i + 1 \in 1 .. Len(queue) /\ i + 1 # 1
  BY <1>0, <1>1
<1>3. 1 \in 1 .. Len(queue) /\ work[h] = "none" /\ state[h] \in {"queued", "cancelled"}
  BY <1>0 DEF PlaceInv
<1>4. \A i \in 1 .. Len(queue') : queue'[i] # h /\ queue'[i] \in Task
  BY <1>0, <1>2, <1>3 DEF PlaceInv
<1> HIDE DEF h
<1>5. TypeOK'
  BY <1>0, <1>1, <1>2 DEF TypeOK, Stages
<1>6. \A t \in Task : t # h => work'[t] = work[t]
  BY <1>0, <1>1 DEF TypeOK
<1>7. work'[h] = "none" \/ (work'[h] = "taken" /\ state[h] = "queued")
  BY <1>0, <1>1, <1>3 DEF TypeOK
<1>8. PlaceInv'
  <2>1. \A i, j \in 1 .. Len(queue') : queue'[i] = queue'[j] => i = j
    <3> SUFFICES ASSUME NEW i \in 1 .. Len(queue'), NEW j \in 1 .. Len(queue'), queue'[i] = queue'[j]
                 PROVE  i = j
      OBVIOUS
    <3>1. queue[i + 1] = queue[j + 1] /\ i + 1 \in 1 .. Len(queue) /\ j + 1 \in 1 .. Len(queue)
      BY <1>2
    <3>2. i + 1 = j + 1
      BY <3>1 DEF PlaceInv
    <3> QED BY <3>2, <1>2
  <2>2. \A i \in 1 .. Len(queue') :
          work'[queue'[i]] = "none" /\ state'[queue'[i]] \in {"queued", "cancelled"}
    BY <1>1, <1>2, <1>4, <1>6 DEF PlaceInv
  <2> QED BY <2>1, <2>2, <1>1, <1>6, <1>7 DEF PlaceInv
<1>9. KeptInv'
  BY <1>1 DEF KeptInv
<1>10. FinishedInv'
  <2> SUFFICES ASSUME NEW s \in kept, Settled(s), \A t \in TasksOf(s) : work'[t] # "closing"
               PROVE  s \in finished
    BY <1>1 DEF FinishedInv, TasksOf, Settled
  <2>1. \A t \in TasksOf(s) : work[t] # "closing"
    BY <1>3, <1>6, TasksOfRun DEF TypeOK
  <2> QED BY <2>1 DEF FinishedInv
<1> QED BY <1>5, <1>8, <1>9, <1>10

\* A step of one task on a thread: a task in the queue is on none.
LEMMA NotQueued == ASSUME Core, NEW t \in Task, work[t] # "none"
                   PROVE \A i \in 1 .. Len(queue) : queue[i] # t
  BY DEF Core, PlaceInv

LEMMA BeginStep == ASSUME Core, NEW t \in Task, Begin(t) PROVE Core'
<1> USE DEF Core
<1>1. work[t] = "taken" /\ state[t] = "queued" /\ t[1] \in kept
  BY DEF Begin, PlaceInv, KeptInv
<1>2. /\ work' = [work EXCEPT ![t] = "running"] /\ state' = [state EXCEPT ![t] = "running"]
      /\ UNCHANGED <<kept, finished, queue, closed>>
  BY <1>1 DEF Begin
<1>3. TypeOK'
  BY <1>2 DEF TypeOK, Stages
<1>4. PlaceInv'
  <2>1. \A i \in 1 .. Len(queue) : queue[i] \in Task /\ queue[i] # t
    BY <1>1, NotQueued DEF TypeOK
  <2> QED BY <2>1, <1>2 DEF PlaceInv, TypeOK
<1>5. KeptInv'
  BY <1>1, <1>2 DEF KeptInv, TypeOK
<1>6. FinishedInv'
  <2> SUFFICES ASSUME NEW s \in kept, Settled(s)', \A u \in TasksOf(s) : work'[u] # "closing"
               PROVE  s \in finished
    BY <1>2 DEF FinishedInv, TasksOf
  <2>1. \A u \in TasksOf(s) : u \in Task
    BY TasksOfRun DEF TypeOK
  <2>2. t \notin TasksOf(s)
    BY <1>2 DEF Settled, TypeOK, Terminal, TasksOf
  <2>3. Settled(s) /\ \A u \in TasksOf(s) : work[u] # "closing"
    BY <2>1, <2>2, <1>2 DEF Settled, TypeOK, TasksOf
  <2> QED BY <2>3 DEF FinishedInv
<1> QED BY <1>3, <1>4, <1>5, <1>6

LEMMA FinishStep == ASSUME Core, NEW t \in Task, Finish(t) PROVE Core'
<1> USE DEF Core
<1>1. work[t] = "running"
  BY DEF Finish
<1>2. PICK o \in Outcomes : state' = [state EXCEPT ![t] = o]
  BY DEF Finish
<1>3. work' = [work EXCEPT ![t] = "closing"] /\ UNCHANGED <<kept, finished, queue, closed>>
  BY DEF Finish
<1>4. TypeOK'
  BY <1>2, <1>3 DEF TypeOK, Stages, Outcomes, Terminal
<1>5. PlaceInv'
  <2>1. \A i \in 1 .. Len(queue) : queue[i] \in Task /\ queue[i] # t
    BY <1>1, NotQueued DEF TypeOK
  <2> QED BY <2>1, <1>2, <1>3 DEF PlaceInv, TypeOK, Outcomes
<1>6. KeptInv'
  BY <1>2, <1>3 DEF KeptInv, TypeOK, Outcomes
<1>7. FinishedInv'
  <2> SUFFICES ASSUME NEW s \in kept, Settled(s)', \A u \in TasksOf(s) : work'[u] # "closing"
               PROVE  s \in finished
    BY <1>3 DEF FinishedInv, TasksOf
  <2>1. \A u \in TasksOf(s) : u \in Task
    BY TasksOfRun DEF TypeOK
  <2>2. t \notin TasksOf(s)
    BY <1>3 DEF TypeOK
  <2>3. Settled(s) /\ \A u \in TasksOf(s) : work[u] # "closing"
    BY <2>1, <2>2, <1>2, <1>3 DEF Settled, TypeOK, TasksOf
  <2> QED BY <2>3 DEF FinishedInv
<1> QED BY <1>4, <1>5, <1>6, <1>7

LEMMA LeaveStep == ASSUME Core, NEW t \in Task, Leave(t) PROVE Core'
<1> USE DEF Core
<1>1. /\ work[t] = "closing" /\ work' = [work EXCEPT ![t] = "none"]
      /\ finished' = FinishedIfSettled(t[1], Settled(t[1]))
      /\ UNCHANGED <<kept, state, queue, closed>>
  BY DEF Leave
<1>2. finished' \subseteq Run /\ finished \subseteq finished'
  BY <1>1 DEF FinishedIfSettled, TypeOK
<1>3. TypeOK'
  BY <1>1, <1>2 DEF TypeOK, Stages
<1>4. PlaceInv'
  <2>1. \A i \in 1 .. Len(queue) : queue[i] \in Task /\ queue[i] # t
    BY <1>1, NotQueued DEF TypeOK
  <2> QED BY <2>1, <1>1 DEF PlaceInv, TypeOK
<1>5. KeptInv'
  BY <1>1 DEF KeptInv
<1>6. FinishedInv'
  <2> SUFFICES ASSUME NEW s \in kept, Settled(s), \A u \in TasksOf(s) : work'[u] # "closing"
               PROVE  s \in finished'
    BY <1>1 DEF FinishedInv, TasksOf, Settled
  <2>1. CASE t[1] = s
    BY <2>1, <1>1 DEF FinishedIfSettled
  <2>2. CASE t[1] # s
    <3>1. \A u \in TasksOf(s) : u \in Task /\ u # t
      BY <2>2, TasksOfRun DEF TypeOK
    <3>2. \A u \in TasksOf(s) : work[u] # "closing"
      BY <3>1, <1>1 DEF TypeOK
    <3> QED BY <3>2, <1>2 DEF FinishedInv
  <2> QED BY <2>1, <2>2
<1> QED BY <1>3, <1>4, <1>5, <1>6

LEMMA CoreStep == ASSUME Core, [Next]_vars PROVE Core'
<1>1. CASE UNCHANGED vars
  BY <1>1 DEF vars, Core, TypeOK, PlaceInv, KeptInv, FinishedInv, Settled, TasksOf
<1> QED
  BY <1>1, SubmitStep, CancelStep, CloseStep, TakeStep, BeginStep, FinishStep, LeaveStep DEF Next

-----------------------------------------------------------------------------
(***************************************************************************)
(* The number of unfinished runs.                                          *)
(***************************************************************************)
LEMMA ActiveFinite == ASSUME TypeOK, NEW q PROVE IsFiniteSet(Active(q))
<1>1. Active(q) \subseteq Run
  BY DEF Active, TypeOK
<1> QED BY <1>1, FS_Subset, MultitaskAssumption

\* A task that is done stays done, so only a submission makes a run unfinished.
LEMMA ActiveStep ==
  ASSUME Core, [Next]_vars, \A r \in Run : ~ Submit(r), NEW q
  PROVE  Active(q)' \subseteq Active(q)
<1>1. kept' = kept
  BY DEF Next, vars, Cancel, Close, Take, Begin, Finish, Leave
<1>2. \A t \in Task : state[t] \in Terminal => state'[t] = state[t]
  <2> SUFFICES ASSUME NEW t \in Task, state[t] \in Terminal PROVE state'[t] = state[t]
    OBVIOUS
  <2>1. CASE UNCHANGED state
    BY <2>1
  <2>2. ASSUME NEW r \in Run, Cancel(r) PROVE state'[t] = state[t]
    BY <2>2 DEF Cancel, Cancels, Terminal
  <2>3. ASSUME NEW u \in Task, Begin(u) PROVE state'[t] = state[t]
    BY <2>3 DEF Begin, Core, TypeOK, PlaceInv, Terminal
  <2>4. ASSUME NEW u \in Task, Finish(u) PROVE state'[t] = state[t]
    BY <2>4 DEF Finish, Core, TypeOK, PlaceInv, Terminal
  <2> QED BY <2>1, <2>2, <2>3, <2>4 DEF Next, vars, Close, Take, Leave
<1>3. \A r \in kept : Settled(r) => Settled(r)'
  <2>1. \A r \in kept : \A t \in TasksOf(r) : t \in Task
    BY TasksOfRun DEF Core, TypeOK
  <2> QED BY <2>1, <1>2 DEF Settled, TasksOf
<1> QED BY <1>1, <1>3 DEF Active

LEMMA ActiveInvStep == ASSUME Core, ActiveInv, [Next]_vars PROVE ActiveInv'
<1>0. TypeOK /\ TypeOK'
  BY CoreStep DEF Core
<1> SUFFICES ASSUME NEW r \in Run PROVE Cardinality(Active(Requester[r])') <= MaxActive
  BY DEF ActiveInv, Active
<1> DEFINE q == Requester[r]
<1>1. /\ IsFiniteSet(Active(q)) /\ IsFiniteSet(Active(q)')
      /\ Cardinality(Active(q)) \in Nat /\ Cardinality(Active(q)') \in Nat
      /\ Cardinality(Active(q)) <= MaxActive /\ MaxActive \in Nat
  <2>1. IsFiniteSet(Active(q))
    BY <1>0, ActiveFinite
  <2>2. Active(q)' \subseteq Run
    BY <1>0 DEF Active, TypeOK
  <2>3. IsFiniteSet(Active(q)')
    BY <2>2, FS_Subset, MultitaskAssumption
  <2> QED BY <2>1, <2>3, FS_CardinalityType, MultitaskAssumption DEF ActiveInv
<1>2. CASE \A s \in Run : ~ Submit(s)
  <2>1. Active(q)' \subseteq Active(q)
    BY <1>2, ActiveStep
  <2> QED BY <2>1, <1>1, FS_Subset
<1>3. ASSUME NEW s \in Run, Submit(s) PROVE Cardinality(Active(q)') <= MaxActive
  <2>1. Active(q)' \subseteq (Active(q) \cup (IF Requester[s] = q THEN {s} ELSE {}))
    <3>1. kept' \subseteq kept \cup {s}
      BY <1>3 DEF Submit, Pruned
    <3>2. \A p \in kept : p # s => (Settled(p) => Settled(p)')
      <4>1. \A p \in kept : p # s => \A t \in TasksOf(p) : t \in Task /\ t \notin TasksOf(s)
        BY <1>0, TasksOfRun DEF TypeOK
      <4> QED BY <4>1, <1>3 DEF Submit, Settled, TasksOf
    <3> QED BY <3>1, <3>2 DEF Active
  <2>2. CASE Requester[s] = q
    <3>1. Cardinality(Active(q)) < MaxActive
      BY <1>3, <2>2 DEF Submit
    <3>2. /\ IsFiniteSet(Active(q) \cup {s})
          /\ Cardinality(Active(q) \cup {s}) <= Cardinality(Active(q)) + 1
      <4>1. IsFiniteSet(Active(q)) /\ Cardinality(Active(q)) \in Nat
        BY <1>1
      <4> HIDE DEF q
      <4>2. /\ IsFiniteSet(Active(q) \cup {s})
            /\ Cardinality(Active(q) \cup {s})
                 = IF s \in Active(q) THEN Cardinality(Active(q)) ELSE Cardinality(Active(q)) + 1
        BY <4>1, FS_AddElement, Zenon
      <4> QED BY <4>1, <4>2
    <3>3. Cardinality(Active(q)') <= Cardinality(Active(q) \cup {s})
      BY <2>1, <2>2, <3>2, FS_Subset
    <3>4. Cardinality(Active(q) \cup {s}) \in Nat
      BY <3>2, FS_CardinalityType
    <3> QED BY <3>1, <3>2, <3>3, <3>4, <1>1
  <2>3. CASE Requester[s] # q
    BY <2>1, <2>3, <1>1, FS_Subset
  <2> QED BY <2>2, <2>3
<1> QED BY <1>2, <1>3

-----------------------------------------------------------------------------
\* Where every task and run is: the inductive invariant of the threads.
THEOREM Invariance == Spec => []Inv
<1>1. Init => Inv
  BY InitInv
<1>2. Inv /\ [Next]_vars => Inv'
  BY CoreStep, ActiveInvStep DEF Inv, Core
<1> QED BY <1>1, <1>2, PTL DEF Spec

\* The variables stay in their types.
THEOREM TypeCorrect == Spec => []TypeOK
<1>1. Inv => TypeOK
  BY DEF Inv
<1> QED BY <1>1, Invariance, PTL

\* The result of a task on a thread has a run to be written to, and a run that
\* settled, by its last task or by a cancellation, has the time it finished.
THEOREM RunsStayKnown == Spec => []RunsAreKnown
<1>1. Inv => RunsAreKnown
  BY DEF Inv, PlaceInv, KeptInv, FinishedInv, RunsAreKnown
<1> QED BY <1>1, Invariance, PTL

\* Whatever is cancelled, settled and forgotten, the pool never works for more
\* unsettled runs of a requester than it may have.
THEOREM ActiveStaysBounded == Spec => []ActiveBound
<1>1. ASSUME Inv PROVE ActiveBound
  <2> SUFFICES ASSUME NEW r \in Run PROVE Cardinality(Load(Requester[r])) <= MaxActive
    BY DEF ActiveBound
  <2> DEFINE q == Requester[r]
  <2>1. Load(q) \subseteq Active(q)
    <3> SUFFICES ASSUME NEW s \in Load(q) PROVE s \in Active(q)
      OBVIOUS
    <3>1. PICK t \in TasksOf(s) : InPool(t) /\ state[t] # "cancelled"
      BY DEF Load
    <3>2. s \in Run /\ Requester[s] = q /\ t \in Task /\ t[1] = s
      BY TasksOfRun DEF Load
    <3>3. state[t] \in {"queued", "running"}
      BY <1>1, <3>1, <3>2 DEF Inv, PlaceInv, InPool, Queued
    <3>4. s \in kept /\ ~ Settled(s)
      BY <1>1, <3>2, <3>3 DEF Inv, KeptInv, Settled, Terminal
    <3> QED BY <3>2, <3>4 DEF Active
  <2>2. IsFiniteSet(Active(q)) /\ Cardinality(Active(q)) <= MaxActive
    BY <1>1, ActiveFinite DEF Inv, ActiveInv
  <2>3. Cardinality(Load(q)) <= Cardinality(Active(q)) /\ IsFiniteSet(Load(q))
    BY <2>1, <2>2, FS_Subset
  <2>4. Cardinality(Load(q)) \in Nat /\ Cardinality(Active(q)) \in Nat
    BY <2>2, <2>3, FS_CardinalityType
  <2> QED BY <2>2, <2>3, <2>4, MultitaskAssumption
<1>2. Inv => ActiveBound
  BY <1>1
<1> QED BY <1>2, Invariance, PTL
-----------------------------------------------------------------------------
(***************************************************************************)
(* No task is lost: what is not done has its place in the pool.  With the  *)
(* fairness of the pool this is why runs settle; that every unfinished run *)
(* counts against its requester's capacity makes it matter.                *)
(***************************************************************************)
HeldInv ==
  \A t \in Task :
    /\ state[t] = "queued" => closed \/ Queued(t) \/ work[t] = "taken"
    /\ state[t] = "running" => work[t] = "running"

LEMMA HeldSubmit == ASSUME Core, HeldInv, NEW r \in Run, Submit(r) PROVE HeldInv'
<1>1. /\ state' = [t \in Task |-> IF t \in TasksOf(r) THEN "queued" ELSE state[t]]
      /\ UNCHANGED <<work, closed>>
  BY DEF Submit
<1>2. /\ Len(queue') = Len(queue) + Size
      /\ \A i \in 1 .. Len(queue) : queue'[i] = queue[i]
      /\ \A i \in Len(queue) + 1 .. Len(queue) + Size : queue'[i] = <<r, i - Len(queue)>>
  BY Appended DEF Submit, Core
<1>3. Len(queue) \in Nat /\ Size \in Nat
  BY MultitaskAssumption DEF Core, TypeOK
<1>4. ASSUME NEW t \in TasksOf(r) PROVE Queued(t)'
  <2>1. PICK i \in 1 .. Size : t = <<r, i>>
    BY DEF TasksOf
  <2> DEFINE j == Len(queue) + i
  <2>2. j \in 1 .. Len(queue') /\ j \in Len(queue) + 1 .. Len(queue) + Size /\ j - Len(queue) = i
    BY <1>2, <1>3
  <2> HIDE DEF j
  <2>3. queue'[j] = t
    BY <1>2, <2>1, <2>2
  <2> QED BY <2>2, <2>3 DEF Queued
<1>5. ASSUME NEW t \in Task, Queued(t) PROVE Queued(t)'
  BY <1>2, <1>3, <1>5 DEF Queued
<1> QED BY <1>1, <1>4, <1>5 DEF HeldInv

LEMMA HeldTake == ASSUME Core, HeldInv, Take PROVE HeldInv'
<1> DEFINE h == Head(queue)
<1>1. queue \in Seq(Task) /\ queue # <<>> /\ h = queue[1] /\ h \in Task
  BY DEF Take, Core, TypeOK
<1>2. /\ queue' = Tail(queue) /\ UNCHANGED <<state, closed>>
      /\ work' = IF state[h] = "cancelled" THEN work ELSE [work EXCEPT ![h] = "taken"]
  BY DEF Take
<1>3. work \in [Task -> Stages] /\ state[h] \in {"queued", "cancelled"} /\ work[h] = "none"
  BY <1>1 DEF Core, TypeOK, PlaceInv
<1> HIDE DEF h
<1>4. \A t \in Task : t # h => work'[t] = work[t]
  BY <1>1, <1>2, <1>3
<1>5. state[h] = "queued" => work'[h] = "taken"
  BY <1>1, <1>2, <1>3
<1>6. ASSUME NEW t \in Task, t # h, Queued(t) PROVE Queued(t)'
  <2>1. PICK i \in 1 .. Len(queue) : queue[i] = t
    BY <1>6 DEF Queued
  <2>2. i # 1
    BY <1>1, <1>6, <2>1
  <2>3. i - 1 \in 1 .. Len(queue') /\ queue'[i - 1] = queue[i]
    BY <1>1, <1>2, <2>2
  <2> QED BY <2>1, <2>3 DEF Queued
<1> QED BY <1>2, <1>3, <1>4, <1>5, <1>6 DEF HeldInv

\* What is queued is in the queue, unless the pool was shut down, or with a
\* thread about to begin it; what is running is on a thread (MultitaskManager).
THEOREM NoTaskIsLost == Spec => []HeldInv
<1>1. Init => HeldInv
  BY DEF Init, HeldInv
<1>2. ASSUME Core, HeldInv, [Next]_vars PROVE HeldInv'
  <2> USE <1>2 DEF HeldInv
  <2>1. ASSUME NEW r \in Run, Submit(r) PROVE HeldInv'
    BY <2>1, HeldSubmit
  <2>2. ASSUME NEW r \in Run, Cancel(r) PROVE HeldInv'
    BY <2>2 DEF Cancel, Queued
  <2>3. CASE Close
    BY <2>3 DEF Close
  <2>4. CASE Take
    BY <2>4, HeldTake
  <2>5. ASSUME NEW t \in Task, Begin(t) PROVE HeldInv'
    <3>1. work[t] = "taken" /\ state[t] = "queued" /\ t[1] \in kept
      BY <2>5 DEF Begin, Core, PlaceInv, KeptInv
    <3>2. /\ work' = [work EXCEPT ![t] = "running"] /\ state' = [state EXCEPT ![t] = "running"]
          /\ UNCHANGED <<queue, closed>>
      BY <2>5, <3>1 DEF Begin
    <3>3. \A u \in Task : Queued(u)' <=> Queued(u)
      BY <3>2 DEF Queued
    <3> QED BY <3>2, <3>3 DEF Core, TypeOK
  <2>6. ASSUME NEW t \in Task, Finish(t) PROVE HeldInv'
    BY <2>6 DEF Finish, Core, TypeOK, Outcomes, Queued
  <2>7. ASSUME NEW t \in Task, Leave(t) PROVE HeldInv'
    BY <2>7 DEF Leave, Core, TypeOK, PlaceInv, Queued
  <2>8. CASE UNCHANGED vars
    BY <2>8 DEF vars, Queued
  <2> QED BY <2>1, <2>2, <2>3, <2>4, <2>5, <2>6, <2>7, <2>8 DEF Next
<1>3. Inv => Core
  BY DEF Inv, Core
<1> QED BY <1>1, <1>2, <1>3, Invariance, PTL DEF Spec
-----------------------------------------------------------------------------
(***************************************************************************)
(* The refinement: each step of the manager and of its pool is, for one    *)
(* run, a step of ParallelContract or none.                                *)
(***************************************************************************)

\* A run that was not submitted has no task, and is not known.
WholeInv ==
  \A r \in Run : \A t \in TasksOf(r) :
    state[t] = "new" => r \notin kept /\ \A u \in TasksOf(r) : state[u] = "new"

LEMMA WholeStep == ASSUME Core, WholeInv, [Next]_vars PROVE WholeInv'
<1>1. \A r \in Run : \A t \in TasksOf(r) : t \in Task /\ t[1] = r
  BY TasksOfRun
<1>2. \A r \in Run : \A t \in Task \ TasksOf(r) : t[1] # r
  BY TasksOfRun
<1>3. ASSUME NEW q \in Run, Submit(q) PROVE WholeInv'
  <2>1. /\ state' = [t \in Task |-> IF t \in TasksOf(q) THEN "queued" ELSE state[t]]
        /\ kept' \subseteq kept \cup {q}
    BY <1>3 DEF Submit, Pruned
  <2> SUFFICES ASSUME NEW r \in Run, NEW t \in TasksOf(r), state'[t] = "new"
               PROVE  r \notin kept' /\ \A u \in TasksOf(r) : state'[u] = "new"
    BY DEF WholeInv, TasksOf
  <2>2. r # q /\ state[t] = "new"
    BY <1>1, <2>1
  <2>3. \A u \in TasksOf(r) : state'[u] = state[u]
    BY <1>1, <2>1, <2>2
  <2> QED BY <2>1, <2>2, <2>3 DEF WholeInv
<1>4. CASE /\ kept' = kept
           /\ \A t \in Task : state'[t] = state[t] \/ (state[t] # "new" /\ state'[t] # "new")
  BY <1>1, <1>4 DEF WholeInv, TasksOf
<1>5. ASSUME NEW q \in Run, Cancel(q) PROVE WholeInv'
  BY <1>4, <1>5 DEF Cancel, Cancels
<1>6. ASSUME NEW t \in Task, Begin(t) PROVE WholeInv'
  <2>1. state[t] = "queued"
    BY <1>6 DEF Begin, Core, PlaceInv
  <2> QED BY <1>4, <1>6, <2>1 DEF Begin, Core, TypeOK
<1>7. ASSUME NEW t \in Task, Finish(t) PROVE WholeInv'
  <2>1. state[t] = "running"
    BY <1>7 DEF Finish, Core, PlaceInv
  <2> QED BY <1>4, <1>7, <2>1 DEF Finish, Outcomes, Core, TypeOK
<1>8. CASE UNCHANGED <<kept, state>>
  BY <1>4, <1>8
<1> QED BY <1>3, <1>5, <1>6, <1>7, <1>8 DEF Next, vars, Close, Take, Leave

\* A step that leaves the run alone.
LEMMA Stutters ==
  ASSUME NEW r \in Run, \A t \in TasksOf(r) : state'[t] = state[t],
         r \in kept' <=> r \in kept, r \in finished' <=> r \in finished
  PROVE  KeepsPromise(r)
<1>1. [t \in TasksOf(r) |-> state[t]]' = [t \in TasksOf(r) |-> state[t]]
  BY DEF TasksOf
<1>2. Status(r)' = Status(r)
  BY DEF Status, TasksOf
<1>3. (r \in finished)' = (r \in finished)
  OBVIOUS
<1> QED BY <1>1, <1>2, <1>3 DEF KeepsPromise, Promise!ContractStep, Promise!contractVars

LEMMA SubmitKeeps ==
  ASSUME Core, WholeInv, NEW r \in Run, NEW q \in Run, Submit(q)
  PROVE  KeepsPromise(r)
<1>1. /\ \A t \in TasksOf(q) : state[t] = "new"
      /\ state' = [t \in Task |-> IF t \in TasksOf(q) THEN "queued" ELSE state[t]]
      /\ UNCHANGED finished
  BY DEF Submit
<1>2. PICK gone \in Pruned(q) : kept' = (kept \ gone) \cup {q}
  BY DEF Submit
<1>3. \A t \in TasksOf(r) : t \in Task /\ (r # q => t \notin TasksOf(q))
  BY TasksOfRun
<1>4. CASE r = q
  <2>1. r \notin kept /\ r \in kept'
    BY <1>1, <1>2, <1>4, TasksOfRun DEF WholeInv
  <2>2. Status(r) = "new" /\ Status(r)' = "known"
    BY <1>1, <1>4, <2>1 DEF Status
  <2>3. [t \in TasksOf(r) |-> state[t]]' = [t \in TasksOf(r) |-> "queued"]
    BY <1>1, <1>3, <1>4 DEF TasksOf
  <2>4. Promise(r)!Accepted
    BY <1>1, <2>2, <2>3 DEF Promise!Accepted
  <2> QED BY <2>4 DEF KeepsPromise, Promise!ContractStep, Promise!ContractNext
<1>5. CASE r # q /\ r \in gone
  <2>1. r \in kept /\ r \notin kept' /\ Settled(r)
    BY <1>2, <1>5 DEF Pruned, Prunable
  <2>2. \A t \in TasksOf(r) : state'[t] = state[t] /\ state[t] \in Terminal
    BY <1>1, <1>3, <1>5, <2>1 DEF Settled
  <2>3. Status(r) = "known"
    BY <2>1 DEF Status
  <2>4. Status(r)' = "forgotten"
    <3>1. state'[<<r, 1>>] # "new" /\ <<r, 1>> \in TasksOf(r)
      BY <2>2, TasksOfRun DEF Terminal
    <3> QED BY <2>1, <3>1 DEF Status, TasksOf
  <2>5. [t \in TasksOf(r) |-> state[t]]' = [t \in TasksOf(r) |-> state[t]]
    BY <2>2 DEF TasksOf
  <2>6. Promise(r)!Forgotten
    BY <1>1, <2>2, <2>3, <2>4, <2>5 DEF Promise!Forgotten, Promise!Over, Terminal
  <2> QED BY <2>6 DEF KeepsPromise, Promise!ContractStep, Promise!ContractNext
<1>6. CASE r # q /\ r \notin gone
  <2>1. \A t \in TasksOf(r) : state'[t] = state[t]
    BY <1>1, <1>3, <1>6
  <2>2. r \in kept' <=> r \in kept
    BY <1>2, <1>6
  <2> QED BY <1>1, <2>1, <2>2, Stutters
<1> QED BY <1>4, <1>5, <1>6

LEMMA CancelKeeps ==
  ASSUME Core, NEW r \in Run, NEW q \in Run, Cancel(q)
  PROVE  KeepsPromise(r)
<1>1. /\ q \in kept /\ UNCHANGED kept
      /\ state' = [t \in Task |-> IF t \in TasksOf(q) /\ Cancels(t) THEN "cancelled" ELSE state[t]]
      /\ finished' = FinishedIfSettled(q, \A t \in TasksOf(q) : Cancels(t) \/ state[t] \in Terminal)
  BY DEF Cancel
<1>2. \A t \in TasksOf(r) : t \in Task /\ (r # q => t \notin TasksOf(q))
  BY TasksOfRun
<1>3. CASE r # q
  <2>1. \A t \in TasksOf(r) : state'[t] = state[t]
    BY <1>1, <1>2, <1>3
  <2>2. r \in finished' <=> r \in finished
    BY <1>1, <1>3 DEF FinishedIfSettled
  <2> QED BY <1>1, <2>1, <2>2, Stutters
<1>4. CASE r = q
  <2> DEFINE these == {t \in TasksOf(r) : Cancels(t)}
  <2>1. \A t \in TasksOf(r) : state'[t] = IF t \in these THEN "cancelled" ELSE state[t]
    BY <1>1, <1>2, <1>4
  <2>2. \A t \in these : t \in TasksOf(r) /\ state[t] = "queued"
    BY DEF Cancels
  <2>3. /\ (r \in finished') = (r \in finished)
           \/ (r \in finished' /\ \A t \in TasksOf(r) : t \in these \/ state[t] \in Terminal)
    BY <1>1, <1>4 DEF FinishedIfSettled
  <2>4. Status(r) = "known" /\ Status(r)' = "known"
    BY <1>1, <1>4 DEF Status
  <2> HIDE DEF these
  <2>5. [t \in TasksOf(r) |-> state[t]]'
          = [t \in TasksOf(r) |-> IF t \in these THEN "cancelled" ELSE [u \in TasksOf(r) |-> state[u]][t]]
    BY <2>1 DEF TasksOf
  <2>6. these \in SUBSET {t \in TasksOf(r) : [u \in TasksOf(r) |-> state[u]][t] = "queued"}
    BY <2>2
  <2>7. Promise(r)!FinishedWhenOver
    BY <2>1, <2>3 DEF Promise!FinishedWhenOver, Promise!Over, Terminal, TasksOf
  <2>8. Promise(r)!Cancelled
    BY <2>4, <2>5, <2>6, <2>7 DEF Promise!Cancelled
  <2> QED BY <2>8 DEF KeepsPromise, Promise!ContractStep, Promise!ContractNext
<1> QED BY <1>3, <1>4

\* A step of a thread moves one task of one run.
LEMMA ThreadKeeps ==
  ASSUME Core, NEW r \in Run, NEW t \in Task, NEW st,
         UNCHANGED <<kept, finished>>, state' = [state EXCEPT ![t] = st], t[1] \in kept,
         \/ state[t] = "queued" /\ st = "running"
         \/ state[t] = "running" /\ st \in {"succeeded", "failed"}
  PROVE  KeepsPromise(r)
<1>1. \A u \in TasksOf(r) : u \in Task /\ u[1] = r
  BY TasksOfRun
<1>2. \A u \in TasksOf(r) : state'[u] = IF u = t THEN st ELSE state[u]
  BY <1>1 DEF Core, TypeOK
<1>3. CASE t[1] # r
  <2>1. \A u \in TasksOf(r) : state'[u] = state[u]
    BY <1>1, <1>2, <1>3
  <2> QED BY <2>1, Stutters
<1>4. CASE t[1] = r
  <2>1. t \in TasksOf(r) /\ r \in kept
    BY <1>4, TasksOfRun
  <2>2. Status(r) = "known" /\ Status(r)' = "known"
    BY <2>1 DEF Status
  <2>3. [u \in TasksOf(r) |-> state[u]]' = [[u \in TasksOf(r) |-> state[u]] EXCEPT ![t] = st]
    BY <1>2 DEF TasksOf
  <2>4. Promise(r)!Moves(t, state[t], st)
    BY <2>1, <2>3 DEF Promise!Moves
  <2>5. Promise(r)!Works
    BY <2>1, <2>2, <2>4 DEF Promise!Works
  <2> QED BY <2>5 DEF KeepsPromise, Promise!ContractStep, Promise!ContractNext
<1> QED BY <1>3, <1>4

LEMMA LeaveKeeps ==
  ASSUME Core, NEW r \in Run, NEW t \in Task, Leave(t)
  PROVE  KeepsPromise(r)
<1>1. finished' = FinishedIfSettled(t[1], Settled(t[1])) /\ UNCHANGED <<kept, state>>
  BY DEF Leave
<1>2. CASE finished' = finished
  BY <1>1, <1>2, Stutters
<1>3. CASE finished' # finished
  <2>1. finished' = finished \cup {t[1]} /\ Settled(t[1]) /\ t[1] \in kept
    BY <1>1, <1>3 DEF FinishedIfSettled
  <2>2. CASE t[1] # r
    <3>1. r \in finished' <=> r \in finished
      BY <2>1, <2>2
    <3> QED BY <1>1, <3>1, Stutters
  <2>3. CASE t[1] = r
    <3>1. Status(r) = "known" /\ Status(r)' = "known"
      BY <1>1, <2>1, <2>3 DEF Status
    <3>2. [u \in TasksOf(r) |-> state[u]]' = [u \in TasksOf(r) |-> state[u]]
      BY <1>1 DEF TasksOf
    <3>3. Promise(r)!FinishedWhenOver
      BY <1>1, <2>1, <2>3 DEF Promise!FinishedWhenOver, Promise!Over, Settled, Terminal, TasksOf
    <3>4. Promise(r)!Noted
      BY <3>1, <3>2, <3>3 DEF Promise!Noted
    <3> QED BY <3>4 DEF KeepsPromise, Promise!ContractStep, Promise!ContractNext
  <2> QED BY <2>2, <2>3
<1> QED BY <1>2, <1>3

\* What a requester is told of a run holds, whatever the threads, the queue,
\* the other requesters, the cancellations and the pruning do: each step is, for
\* that run, a step of the contract or none (MultitaskManager).
THEOREM ParallelRunsKeepTheirContract == Spec => ImplementsParallelContract
<1>1. ASSUME Core, WholeInv, [Next]_vars, NEW r \in Run PROVE KeepsPromise(r)
  <2> USE <1>1
  <2>1. ASSUME NEW q \in Run, Submit(q) PROVE KeepsPromise(r)
    BY <2>1, SubmitKeeps
  <2>2. ASSUME NEW q \in Run, Cancel(q) PROVE KeepsPromise(r)
    BY <2>2, CancelKeeps
  <2>3. ASSUME NEW t \in Task, Begin(t) PROVE KeepsPromise(r)
    <3>1. state[t] = "queued" /\ t[1] \in kept
      BY <2>3 DEF Begin, Core, PlaceInv, KeptInv
    <3>2. state' = [state EXCEPT ![t] = "running"] /\ UNCHANGED <<kept, finished>>
      BY <2>3, <3>1 DEF Begin
    <3> QED BY <3>1, <3>2, ThreadKeeps
  <2>4. ASSUME NEW t \in Task, Finish(t) PROVE KeepsPromise(r)
    <3>1. state[t] = "running" /\ t[1] \in kept
      BY <2>4 DEF Finish, Core, PlaceInv, KeptInv
    <3>2. PICK o \in {"succeeded", "failed"} : state' = [state EXCEPT ![t] = o]
      BY <2>4 DEF Finish, Outcomes
    <3> QED BY <2>4, <3>1, <3>2, ThreadKeeps DEF Finish
  <2>5. ASSUME NEW t \in Task, Leave(t) PROVE KeepsPromise(r)
    BY <2>5, LeaveKeeps
  <2>6. CASE UNCHANGED <<kept, state, finished>>
    BY <2>6, Stutters
  <2> QED BY <2>1, <2>2, <2>3, <2>4, <2>5, <2>6 DEF Next, vars, Close, Take
<1>2. Init => WholeInv /\ \A r \in Run : Promise(r)!Begun
  <2> SUFFICES ASSUME Init PROVE WholeInv /\ \A r \in Run : Promise(r)!Begun
    OBVIOUS
  <2>1. kept = {} /\ finished = {} /\ \A r \in Run : \A t \in TasksOf(r) : state[t] = "new"
    BY TasksOfRun DEF Init
  <2>2. WholeInv
    BY <2>1 DEF WholeInv
  <2>3. ASSUME NEW r \in Run PROVE Promise(r)!Begun
    BY <2>1 DEF Promise!Begun, Status
  <2> QED BY <2>2, <2>3
<1>3. Core /\ WholeInv /\ [Next]_vars => WholeInv' /\ \A r \in Run : KeepsPromise(r)
  BY <1>1, WholeStep
<1>4. Inv => Core
  BY DEF Inv, Core
<1> QED BY <1>2, <1>3, <1>4, Invariance, PTL DEF Spec, ImplementsParallelContract
=============================================================================
