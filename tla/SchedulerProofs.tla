--------------------------- MODULE SchedulerProofs ---------------------------
(***************************************************************************)
(* Theorems of Scheduler: the leases are an inductive invariant, and with  *)
(* them no job is at work twice.                                           *)
(***************************************************************************)
EXTENDS Scheduler, TLAPS

\* No value of one kind is a value of the other.
LEMMA NoneIsNew == ASSUME NEW k \in Token PROVE k # None
BY SchedulerAssumption

\* Of the steps of a claim: only the claim itself changes, and it keeps its job
\* and its loop unless it ends.
LEMMA MovesLemma ==
  ASSUME TypeOK, NEW k \in Token, NEW from \in Stages \ {"free"}, NEW to \in Stages,
         Moves(k, from, to)
  PROVE  /\ claim[k].stage = from /\ claim[k].loop \in Loop /\ claim[k].job \in Job
         /\ claim' \in [Token -> Claims]
         /\ \A i \in Token \ {k} : claim'[i] = claim[i]
         /\ to = "free" => claim'[k] = NoClaim
         /\ claim'[k].stage = to
         /\ to # "free" => claim'[k].job = claim[k].job /\ claim'[k].loop = claim[k].loop
<1>1. claim \in [Token -> Claims] /\ claim[k] # NoClaim
  BY DEF TypeOK, Moves, NoClaim
<1>2. claim[k] \in Claims
  BY <1>1
<1>3. claim[k].loop \in Loop /\ claim[k].job \in Job
  BY <1>1, <1>2 DEF TypeOK, Claims
<1>4. NoClaim \in Claims /\ NoClaim.stage = "free"
  BY DEF NoClaim, Claims, Stages
<1>5. [claim[k] EXCEPT !.stage = to] \in Claims
  BY <1>2 DEF Claims
<1>6. claim' = [claim EXCEPT ![k] = IF to = "free" THEN NoClaim
                                    ELSE [claim[k] EXCEPT !.stage = to]]
  BY DEF Moves
<1>7. claim' \in [Token -> Claims] /\ \A i \in Token \ {k} : claim'[i] = claim[i]
  BY <1>1, <1>4, <1>5, <1>6
<1>8. claim'[k] = IF to = "free" THEN NoClaim ELSE [claim[k] EXCEPT !.stage = to]
  BY <1>1, <1>6
<1>9. to # "free" => /\ claim'[k].stage = to /\ claim'[k].job = claim[k].job
                     /\ claim'[k].loop = claim[k].loop
  BY <1>2, <1>8 DEF Claims
<1> QED
  BY <1>3, <1>4, <1>7, <1>8, <1>9 DEF Moves

-----------------------------------------------------------------------------
\* The values of the state, whatever the steps: a claim that is free is NoClaim,
\* the others name a loop and a job.
LEMMA TypeInit == Init => TypeOK
BY SchedulerAssumption DEF Init, TypeOK, Rows, Claims, NoClaim, Stages

LEMMA MovesType ==
  ASSUME TypeOK, NEW k \in Token, NEW from \in Stages \ {"free"}, NEW to \in Stages,
         Moves(k, from, to)
  PROVE  /\ claim' \in [Token -> Claims]
         /\ \A i \in Token : claim'[i] = NoClaim
               \/ (claim'[i].stage # "free" /\ claim'[i].loop # None /\ claim'[i].job # None)
<1>1. claim[k].loop # None /\ claim[k].job # None
  <2>1. claim[k].loop \in Loop /\ claim[k].job \in Job
    BY MovesLemma
  <2> QED
    BY <2>1, SchedulerAssumption
<1>2. claim'[k] = NoClaim
        \/ (claim'[k].stage # "free" /\ claim'[k].loop # None /\ claim'[k].job # None)
  BY <1>1, MovesLemma
<1>3. ASSUME NEW i \in Token \ {k}
      PROVE  claim'[i] = NoClaim
               \/ (claim'[i].stage # "free" /\ claim'[i].loop # None /\ claim'[i].job # None)
  <2>1. claim'[i] = claim[i]
    BY <1>3, MovesLemma
  <2> QED
    BY <2>1 DEF TypeOK
<1> QED
  BY <1>2, <1>3, MovesLemma

LEMMA UnleaseType ==
  ASSUME TypeOK, NEW J, Unlease(J)
  PROVE  token' \in [Job -> Token \cup {None}] /\ lapsed' \in [Job -> BOOLEAN]
BY DEF TypeOK, Unlease

LEMMA TypeStep == TypeOK /\ [Next]_vars => TypeOK'
<1> SUFFICES ASSUME TypeOK, [Next]_vars PROVE TypeOK'
  OBVIOUS
<1> USE DEF rowVars, loopVars, bounds
<1>1. ASSUME NEW j \in Job, Add(j) PROVE TypeOK'
  BY <1>1 DEF TypeOK, Add, Rows
<1>2. ASSUME NEW j \in Job, Pause(j) PROVE TypeOK'
  BY <1>2 DEF TypeOK, Pause, Called
<1>3. ASSUME NEW j \in Job, Resume(j) PROVE TypeOK'
  BY <1>3 DEF TypeOK, Resume, Called
<1>4. ASSUME NEW j \in Job, Cancel(j) PROVE TypeOK'
  BY <1>4, UnleaseType DEF TypeOK, Cancel, Called
<1>5. ASSUME NEW j \in Job, Delete(j) PROVE TypeOK'
  BY <1>5, UnleaseType DEF TypeOK, Delete, Called, Rows
<1>6. ASSUME NEW j \in Job, ComesDue(j) PROVE TypeOK'
  BY <1>6 DEF TypeOK, ComesDue
<1>7. ASSUME NEW j \in Job, LeaseLapses(j) PROVE TypeOK'
  <2>1. Held(j) \in BOOLEAN
    BY DEF Held
  <2> QED
    BY <1>7, <2>1 DEF TypeOK, LeaseLapses
<1>8. ASSUME NEW l \in Loop, Release(l) PROVE TypeOK'
  BY <1>8, UnleaseType DEF TypeOK, Release
<1>9. ASSUME NEW l \in Loop, Select(l) PROVE TypeOK'
  BY <1>9 DEF TypeOK, Select
<1>10. ASSUME NEW l \in Loop, Exit(l) PROVE TypeOK'
  BY <1>10 DEF TypeOK, Exit
<1>11. ASSUME NEW l \in Loop, NEW j \in Job, NEW k \in Token, Mark(l, j, k) PROVE TypeOK'
  <2> DEFINE c == [stage |-> "marked", loop |-> l, job |-> j]
  <2>1. c \in Claims /\ c.stage # "free" /\ c.loop # None /\ c.job # None
    BY SchedulerAssumption DEF Claims, Stages
  <2>2. claim' = [claim EXCEPT ![k] = c]
    BY <1>11 DEF Mark
  <2> HIDE DEF c
  <2>3. /\ claim' \in [Token -> Claims]
        /\ \A i \in Token : claim'[i] = NoClaim
             \/ (claim'[i].stage # "free" /\ claim'[i].loop # None /\ claim'[i].job # None)
    BY <2>1, <2>2 DEF TypeOK
  <2>4. batch' \in [Loop -> SUBSET Job]
    BY <1>11 DEF TypeOK, Mark
  <2>5. token' \in [Job -> Token \cup {None}] /\ lapsed' \in [Job -> BOOLEAN]
    BY <1>11 DEF TypeOK, Mark
  <2> QED
    BY <1>11, <2>3, <2>4, <2>5 DEF TypeOK, Mark
<1>12. ASSUME NEW l \in Loop, Stop(l) PROVE TypeOK'
  BY <1>12 DEF TypeOK, Stop
<1>13. ASSUME NEW l \in Loop, Crash(l) PROVE TypeOK'
  <2>1. NoClaim \in Claims
    BY DEF NoClaim, Claims, Stages
  <2> QED
    BY <1>13, <2>1 DEF TypeOK, Crash
<1>14. ASSUME NEW k \in Token, Executing(k) \/ Start(k), UNCHANGED rowVars PROVE TypeOK'
  <2>1. UNCHANGED <<loopVars, disturbed, bounds>>
    BY <1>14 DEF Executing, Check, Submit, Start, Return, FinishOk, FinishFailed, FinishWrite
  <2>2. PICK from \in Stages \ {"free"}, to \in Stages : Moves(k, from, to)
    BY <1>14 DEF Executing, Check, Submit, Start, Return, FinishOk, FinishFailed, FinishWrite,
         Stages, Granted, OnThread
  <2> QED
    BY <1>14, <2>1, <2>2, MovesType DEF TypeOK
<1>15. ASSUME NEW k \in Token, FinishWrite(k) PROVE TypeOK'
  <2>1. \E from \in {"ok_write", "failed_write"} : Moves(k, from, "free")
    BY <1>15 DEF FinishWrite
  <2>2. PICK from \in Stages \ {"free"}, to \in Stages : Moves(k, from, to)
    BY <2>1 DEF Stages, Granted, OnThread
  <2>3. /\ claim' \in [Token -> Claims]
        /\ \A i \in Token : claim'[i] = NoClaim
              \/ (claim'[i].stage # "free" /\ claim'[i].loop # None /\ claim'[i].job # None)
    BY <2>2, MovesType
  <2>4. token' \in [Job -> Token \cup {None}] /\ lapsed' \in [Job -> BOOLEAN]
    BY <1>15, UnleaseType DEF FinishWrite, TypeOK
  <2>5. enabled' \in [Job -> BOOLEAN] /\ due' \in [Job -> BOOLEAN]
    <3> DEFINE j == claim[k].job
               e == j \in Interval
               d == due[j] /\ j \notin Interval
    <3>1. e \in BOOLEAN /\ d \in BOOLEAN
      OBVIOUS
    <3>2. \/ enabled' = [enabled EXCEPT ![j] = e] /\ due' = [due EXCEPT ![j] = d]
          \/ UNCHANGED <<enabled, due>>
      BY <1>15 DEF FinishWrite
    <3> HIDE DEF e, d
    <3> QED
      BY <3>1, <3>2 DEF TypeOK
  <2> QED
    BY <1>15, <2>3, <2>4, <2>5 DEF FinishWrite, TypeOK
<1>16. ASSUME UNCHANGED vars PROVE TypeOK'
  BY <1>16 DEF TypeOK, vars
<1>17. ASSUME NEW k \in Token, Executing(k) \/ Start(k) PROVE UNCHANGED rowVars \/ FinishWrite(k)
  BY <1>17 DEF Executing, Check, Submit, Start, Return, FinishOk, FinishFailed
<1> QED
  BY <1>1, <1>2, <1>3, <1>4, <1>5, <1>6, <1>7, <1>8, <1>9, <1>10, <1>11, <1>12, <1>13,
     <1>14, <1>15, <1>16, <1>17 DEF Next, Owner, Claiming

\* The state keeps its type for every number of jobs, instances and workers.
THEOREM TypeCorrect == Spec => []TypeOK
BY TypeInit, TypeStep, PTL DEF Spec

-----------------------------------------------------------------------------
(***************************************************************************)
(* The leases.                                                             *)
(***************************************************************************)

LEMMA LeaseInit == Init => LeaseInv
BY SchedulerAssumption DEF Init, LeaseInv, Held, NoClaim, Granted, OnThread

\* A step that leaves the claims alone and takes leases only from the jobs of J,
\* each of which is disturbed or has no claim that was granted.
LEMMA UnleaseKeeps ==
  ASSUME TypeOK, LeaseInv, NEW J, Unlease(J), UNCHANGED claim, disturbed' \in [Job -> BOOLEAN],
         \A j \in Job : disturbed[j] => disturbed'[j],
         \A j \in J : j \in Job => disturbed'[j] \/ ~ Held(j)
  PROVE  LeaseInv'
<1>1. ASSUME NEW k \in Token, claim[k].stage \in Granted, ~ disturbed'[claim[k].job]
      PROVE  token'[claim[k].job] = k
  <2>1. claim[k].job \in Job /\ claim[k].stage # "free"
    BY <1>1 DEF TypeOK, Claims, Granted, OnThread, NoClaim
  <2>2. token[claim[k].job] = k
    BY <1>1, <2>1 DEF LeaseInv
  <2>3. Held(claim[k].job)
    BY <2>1, <2>2, NoneIsNew DEF Held
  <2>4. claim[k].job \notin J
    BY <1>1, <2>1, <2>3
  <2> QED
    BY <2>1, <2>2, <2>4 DEF Unlease
<1>2. ASSUME NEW j \in Job, Held(j)'
      PROVE  claim[token'[j]].job = j /\ (lapsed'[j] => disturbed'[j])
  <2>1. token'[j] = token[j] /\ (lapsed'[j] => lapsed[j]) /\ Held(j)
    BY <1>2 DEF Held, Unlease, TypeOK
  <2> QED
    BY <2>1 DEF LeaseInv
<1> QED
  BY <1>1, <1>2 DEF LeaseInv

\* A step of a claim that leaves the rows alone and grants nothing but what holds
\* the lease.
LEMMA MovesKeeps ==
  ASSUME TypeOK, LeaseInv, NEW k \in Token, NEW from \in Stages \ {"free"}, NEW to \in Stages,
         Moves(k, from, to), UNCHANGED <<token, lapsed, disturbed>>,
         to \in Granted => from \in Granted \/ token[claim[k].job] = k
  PROVE  LeaseInv'
<1>0. /\ claim[k].stage = from /\ claim[k].job \in Job /\ claim'[k].stage = to
      /\ to # "free" => claim'[k].job = claim[k].job
      /\ \A i \in Token \ {k} : claim'[i] = claim[i]
  BY MovesLemma
<1>1. ASSUME NEW i \in Token, claim'[i].stage \in Granted, ~ disturbed[claim'[i].job]
      PROVE  token[claim'[i].job] = i
  <2>1. CASE i = k
    <3>1. to \in Granted /\ to # "free" /\ claim'[k].job = claim[k].job
      BY <1>0, <1>1, <2>1 DEF Granted, OnThread
    <3> QED
      BY <1>0, <1>1, <2>1, <3>1 DEF LeaseInv
  <2>2. CASE i # k
    <3>1. claim'[i] = claim[i]
      BY <1>0, <2>2
    <3> QED
      BY <1>1, <3>1 DEF LeaseInv
  <2> QED
    BY <2>1, <2>2
<1>2. ASSUME NEW j \in Job, Held(j)'
      PROVE  claim'[token[j]].job = j /\ (lapsed[j] => disturbed[j])
  <2>1. token[j] \in Token /\ claim'[token[j]].stage # "free"
    BY <1>2 DEF Held, TypeOK
  <2>2. CASE token[j] = k
    <3>1. claim[k].stage # "free" /\ claim'[k].job = claim[k].job
      BY <1>0, <2>1, <2>2
    <3> QED
      BY <1>2, <2>1, <2>2, <3>1 DEF LeaseInv, Held
  <2>3. CASE token[j] # k
    <3>1. claim'[token[j]] = claim[token[j]]
      BY <1>0, <2>1, <2>3
    <3> QED
      BY <1>2, <3>1 DEF LeaseInv, Held
  <2> QED
    BY <2>2, <2>3
<1> QED
  BY <1>1, <1>2 DEF LeaseInv

\* The UPDATE that marks a row gives the lease to a token nobody has.
LEMMA MarkKeeps ==
  ASSUME TypeOK, LeaseInv, NEW l \in Loop, NEW j \in Job, NEW k \in Token, Mark(l, j, k)
  PROVE  LeaseInv'
<1>1. /\ claim' = [claim EXCEPT ![k] = [stage |-> "marked", loop |-> l, job |-> j]]
      /\ UNCHANGED disturbed /\ claim[k].stage = "free" /\ \A i \in Job : token[i] # k
  BY DEF Mark, NewToken, Unused
<1>2. \/ UNCHANGED <<token, lapsed>>
      \/ /\ token[j] = None /\ token' = [token EXCEPT ![j] = k]
         /\ lapsed' = [lapsed EXCEPT ![j] = FALSE]
  BY DEF Mark, Takes
<1>3. \A i \in Token \ {k} : claim'[i] = claim[i]
  BY <1>1 DEF TypeOK
<1>4. claim'[k].stage = "marked" /\ claim'[k].job = j
  BY <1>1 DEF TypeOK
<1>5. ASSUME NEW i \in Token, claim'[i].stage \in Granted, ~ disturbed[claim'[i].job]
      PROVE  token'[claim'[i].job] = i
  <2>1. i # k
    BY <1>4, <1>5 DEF Granted, OnThread
  <2>2. claim'[i] = claim[i] /\ claim[i].job \in Job
    BY <1>3, <1>5, <2>1 DEF TypeOK, Claims, Granted, OnThread, NoClaim
  <2>3. token[claim[i].job] = i /\ i # None
    BY <1>5, <2>2, NoneIsNew DEF LeaseInv
  <2> QED
    BY <1>2, <2>2, <2>3 DEF TypeOK
<1>6. ASSUME NEW i \in Job, Held(i)'
      PROVE  claim'[token'[i]].job = i /\ (lapsed'[i] => disturbed[i])
  <2>1. CASE token'[i] = k
    <3>1. i = j /\ ~ lapsed'[i]
      BY <1>1, <1>2, <2>1 DEF TypeOK
    <3> QED
      BY <1>4, <2>1, <3>1
  <2>2. CASE token'[i] # k
    <3>1. token'[i] = token[i] /\ lapsed'[i] = lapsed[i] /\ token[i] # None
      BY <1>2, <1>6, <2>2 DEF TypeOK, Held
    <3>2. token[i] \in Token /\ claim'[token[i]] = claim[token[i]]
      BY <1>3, <2>2, <3>1 DEF TypeOK
    <3> QED
      BY <1>6, <3>1, <3>2 DEF LeaseInv, Held
  <2> QED
    BY <2>1, <2>2
<1> QED
  BY <1>1, <1>5, <1>6 DEF LeaseInv

\* The write of finish takes the lease from a job on which, if it is undisturbed,
\* no claim but the one that ends was granted.
LEMMA WriteKeeps ==
  ASSUME TypeOK, LeaseInv, NEW k \in Token, FinishWrite(k)
  PROVE  LeaseInv'
<1>1. PICK s \in {"ok_write", "failed_write"} : Moves(k, s, "free")
  BY DEF FinishWrite
<1>2. s \in Stages \ {"free"} /\ s \in Granted /\ "free" \in Stages
  BY DEF Stages, Granted, OnThread
<1>3. /\ claim[k].stage \in Granted /\ claim[k].job \in Job /\ claim'[k] = NoClaim
      /\ \A i \in Token \ {k} : claim'[i] = claim[i]
  BY <1>1, <1>2, MovesLemma
<1>4. Unlease({claim[k].job}) \/ UNCHANGED <<token, lapsed>>
  BY DEF FinishWrite
<1>5. UNCHANGED disturbed
  BY DEF FinishWrite
<1>6. ASSUME NEW i \in Token, claim'[i].stage \in Granted, ~ disturbed[claim'[i].job]
      PROVE  token'[claim'[i].job] = i
  <2>1. i # k /\ claim'[i] = claim[i]
    BY <1>3, <1>6 DEF NoClaim, Granted, OnThread
  <2>2. claim[i].job \in Job /\ token[claim[i].job] = i
    BY <1>6, <2>1 DEF TypeOK, LeaseInv, Claims, Granted, OnThread, NoClaim
  <2>3. claim[i].job # claim[k].job
    BY <1>3, <1>6, <2>1, <2>2 DEF LeaseInv
  <2> QED
    BY <1>4, <2>1, <2>2, <2>3 DEF Unlease
<1>7. ASSUME NEW j \in Job, Held(j)'
      PROVE  claim'[token'[j]].job = j /\ (lapsed'[j] => disturbed[j])
  <2>1. token'[j] = token[j] /\ (lapsed'[j] => lapsed[j]) /\ token[j] \in Token
    BY <1>4, <1>7 DEF Unlease, Held, TypeOK
  <2>2. token[j] # k
    BY <1>3, <1>7, <2>1 DEF Held, NoClaim
  <2>3. claim'[token[j]] = claim[token[j]]
    BY <1>3, <2>1, <2>2
  <2> QED
    BY <1>7, <2>1, <2>3 DEF LeaseInv, Held
<1> QED
  BY <1>5, <1>6, <1>7 DEF LeaseInv

LEMMA LeaseStep == TypeOK /\ LeaseInv /\ [Next]_vars => LeaseInv'
<1> SUFFICES ASSUME TypeOK, LeaseInv, [Next]_vars PROVE LeaseInv'
  OBVIOUS
<1> USE DEF rowVars, loopVars, bounds
<1>1. ASSUME UNCHANGED <<token, lapsed, claim, disturbed>> PROVE LeaseInv'
  BY <1>1 DEF LeaseInv, Held
<1>2. ASSUME NEW j \in Job, Add(j) \/ Pause(j) \/ Resume(j) \/ ComesDue(j) PROVE LeaseInv'
  BY <1>1, <1>2 DEF Add, Pause, Resume, ComesDue
<1>3. ASSUME NEW j \in Job, Cancel(j) \/ Delete(j) PROVE LeaseInv'
  <2>1. Unlease({j}) /\ UNCHANGED claim /\ disturbed' = [disturbed EXCEPT ![j] = TRUE]
    BY <1>3 DEF Cancel, Delete
  <2>2. /\ disturbed' \in [Job -> BOOLEAN] /\ disturbed'[j]
        /\ \A i \in Job : disturbed[i] => disturbed'[i]
    BY <2>1 DEF TypeOK
  <2> QED
    BY <2>1, <2>2, UnleaseKeeps
<1>4. ASSUME NEW j \in Job, LeaseLapses(j) PROVE LeaseInv'
  <2>1. /\ lapsed' = [lapsed EXCEPT ![j] = TRUE] /\ UNCHANGED <<token, claim>>
        /\ disturbed' = [disturbed EXCEPT ![j] = disturbed[j] \/ Held(j)]
    BY <1>4 DEF LeaseLapses
  <2>2. \A i \in Job : /\ disturbed[i] => disturbed'[i]
                       /\ Held(i) /\ lapsed'[i] => disturbed'[i]
    <3>1. disturbed'[j] = (disturbed[j] \/ Held(j))
      BY <2>1 DEF TypeOK
    <3>2. \A i \in Job \ {j} : disturbed'[i] = disturbed[i] /\ lapsed'[i] = lapsed[i]
      BY <2>1 DEF TypeOK
    <3>3. \A i \in Job : Held(i) /\ lapsed[i] => disturbed[i]
      BY DEF LeaseInv
    <3> QED
      BY <3>1, <3>2, <3>3
  <2>3. \A i \in Job : Held(i)' <=> Held(i)
    BY <2>1 DEF Held
  <2>4. ASSUME NEW k \in Token, claim[k].stage \in Granted, ~ disturbed'[claim[k].job]
        PROVE  token[claim[k].job] = k
    <3>1. claim[k].job \in Job
      BY <2>4 DEF TypeOK, Claims, Granted, OnThread, NoClaim
    <3> QED
      BY <2>2, <2>4, <3>1 DEF LeaseInv
  <2> QED
    BY <2>1, <2>2, <2>3, <2>4 DEF LeaseInv
<1>5. ASSUME NEW l \in Loop, Release(l) PROVE LeaseInv'
  <2> DEFINE J == {j \in Job : Present(j) /\ Releasable(j)}
  <2>1. Unlease(J) /\ UNCHANGED <<claim, disturbed>>
    BY <1>5 DEF Release
  <2>2. \A j \in J : disturbed[j] \/ ~ Held(j)
    BY DEF LeaseInv, Releasable
  <2> HIDE DEF J
  <2> QED
    BY <2>1, <2>2, UnleaseKeeps DEF TypeOK
<1>6. ASSUME NEW l \in Loop, Select(l) \/ Exit(l) \/ Stop(l) PROVE LeaseInv'
  BY <1>1, <1>6 DEF Select, Exit, Stop
<1>7. ASSUME NEW l \in Loop, Crash(l) PROVE LeaseInv'
  <2>1. /\ UNCHANGED <<token, lapsed, disturbed>>
        /\ \A k \in Token : claim'[k] = NoClaim \/ claim'[k] = claim[k]
    BY <1>7 DEF Crash
  <2>2. NoClaim.stage = "free" /\ "free" \notin Granted
    BY DEF NoClaim, Granted, OnThread
  <2>3. ASSUME NEW j \in Job, Held(j)'
        PROVE  Held(j) /\ claim'[token[j]] = claim[token[j]]
    <3>1. token[j] \in Token
      BY <2>1, <2>3 DEF Held, TypeOK
    <3> QED
      BY <2>1, <2>2, <2>3, <3>1 DEF Held
  <2>4. ASSUME NEW k \in Token, claim'[k].stage \in Granted
        PROVE  claim'[k] = claim[k]
    BY <2>1, <2>2, <2>4
  <2> QED
    BY <2>1, <2>3, <2>4 DEF LeaseInv
<1>8. ASSUME NEW k \in Token, Check(k) PROVE LeaseInv'
  <2> DEFINE to == IF Present(claim[k].job) /\ token[claim[k].job] = k THEN "claimed" ELSE "free"
  <2>1. Moves(k, "marked", to) /\ UNCHANGED <<token, lapsed, disturbed>>
    BY <1>8 DEF Check
  <2>2. /\ "marked" \in Stages \ {"free"} /\ to \in Stages
        /\ to \in Granted => token[claim[k].job] = k
    BY DEF Stages, Granted, OnThread
  <2> HIDE DEF to
  <2> QED
    BY <2>1, <2>2, MovesKeeps
<1>9. ASSUME NEW k \in Token,
             Submit(k) \/ Start(k) \/ Return(k) \/ FinishOk(k) \/ FinishFailed(k)
      PROVE  LeaseInv'
  <2>1. UNCHANGED <<token, lapsed, disturbed>>
    BY <1>9 DEF Submit, Start, Return, FinishOk, FinishFailed
  <2>2. PICK from \in Granted, to \in Stages : Moves(k, from, to)
    BY <1>9 DEF Submit, Start, Return, FinishOk, FinishFailed, Stages, Granted, OnThread
  <2>3. from \in Stages \ {"free"}
    BY DEF Stages, Granted, OnThread
  <2> QED
    BY <2>1, <2>2, <2>3, MovesKeeps
<1>10. ASSUME UNCHANGED vars PROVE LeaseInv'
  BY <1>1, <1>10 DEF vars
<1> QED
  BY <1>2, <1>3, <1>4, <1>5, <1>6, <1>7, <1>8, <1>9, <1>10, MarkKeeps, WriteKeeps
     DEF Next, Owner, Claiming, Executing

\* Every claim that was granted on an undisturbed job holds its lease.
THEOREM LeasesHold == Spec => []LeaseInv
BY TypeInit, TypeStep, LeaseInit, LeaseStep, PTL DEF Spec

\* For every number of jobs, instances, threads and crashes: no job is at work
\* twice, unless the owner cancelled it or its lease lapsed under the claim.
THEOREM NeverTwice == Spec => []OneRunner
<1>1. TypeOK /\ LeaseInv => OneRunner
  BY DEF TypeOK, LeaseInv, OneRunner
<1> QED
  BY <1>1, TypeInit, TypeStep, LeaseInit, LeaseStep, PTL DEF Spec
=============================================================================
