---------------------------- MODULE JobTable_proofs ----------------------------
(***************************************************************************)
(* What the table of jobs keeps for any number of jobs, panes and upgrades, *)
(* and for any cap.                                                         *)
(***************************************************************************)
EXTENDS JobTable, FiniteSetTheorems, TLAPS

\* What an id is good for: one past the newest named no job yet.  It is the
\* part of the invariant that makes ids unique.
IdInv ==
  /\ lastId \in Nat
  /\ status \in [Jobs -> {"none", "running", "done", "lost"}]
  /\ listed \subseteq Jobs
  /\ \A j \in Jobs : j > lastId => status[j] = "none"
  /\ \A j \in listed : status[j] \in {"running", "done"}

\* The cap takes finished jobs only, and none that is waited for.
LEMMA ReapedAreFinished ==
  ASSUME NEW finished \in SUBSET Jobs
  PROVE  \A j \in Reaped(finished) : j \in finished /\ ~Waited(j)
<1>1. \A j \in Jobs : j <= j
  BY TableAssumption DEF Jobs
<1> QED BY <1>1 DEF Reaped

LEMMA IdsInductive == Spec => []IdInv
<1>1. Init => IdInv
  BY DEF Init, IdInv
<1>2. IdInv /\ [Next]_vars => IdInv'
  <2> SUFFICES ASSUME IdInv, [Next]_vars PROVE IdInv'
    OBVIOUS
  <2> USE DEF IdInv
  <2>1. CASE Submit
    <3>1. lastId' \in Jobs /\ lastId' = lastId + 1
      BY <2>1, TableAssumption DEF Submit, Jobs
    <3>2. \A j \in Jobs : j \in Nat
      BY TableAssumption DEF Jobs
    <3> QED BY <2>1, <3>1, <3>2 DEF Submit
  <2>2. CASE Sweep
    BY <2>2 DEF Sweep
  <2>3. ASSUME NEW j \in Jobs, Idles(j) \/ Lands(j) \/ Kill(j) PROVE IdInv'
    BY <2>3 DEF Idles, Lands, Kill
  <2>4. ASSUME NEW j \in Jobs, Finish(j) PROVE IdInv'
    BY <2>4 DEF Finish
  <2>5. ASSUME NEW j \in Jobs, Finds(j) \/ WaitEnters(j) \/ WaitLeaves(j) \/ WaitTimesOut(j) PROVE IdInv'
    BY <2>5 DEF Finds, WaitEnters, WaitLeaves, WaitTimesOut
  <2>6. ASSUME NEW p \in Panes, FollowEnds(p) \/ ViewCloses(p) \/ FollowLeaves(p) PROVE IdInv'
    BY <2>6 DEF FollowEnds, ViewCloses, FollowLeaves
  <2>7. ASSUME NEW p \in Panes, NEW j \in Jobs, ViewOpens(p, j) PROVE IdInv'
    BY <2>7 DEF ViewOpens
  <2>8. CASE UpgradeChecks \/ UpgradeAborts \/ ExecCrashes
    BY <2>8 DEF UpgradeChecks, UpgradeAborts, ExecCrashes
  <2>9. CASE Exec
    BY <2>9 DEF Exec
  <2>10. CASE UNCHANGED vars
    BY <2>10 DEF vars
  <2> QED BY <2>1, <2>2, <2>3, <2>4, <2>5, <2>6, <2>7, <2>8, <2>9, <2>10 DEF Next
<1> QED BY <1>1, <1>2, PTL DEF Spec

-----------------------------------------------------------------------------
\* What one step may do to the table, in the terms of the three theorems.
LEMMA WhatLeaves ==
  ASSUME IdInv, [Next]_vars
  PROVE  \A j \in listed : j \notin listed' =>
            /\ ~Waited(j)
            /\ status'[j] = "running" => j \in killed'
<1> USE DEF IdInv
<1>1. CASE \E j \in Jobs : Finish(j)
  <2>1. PICK i \in Jobs : Finish(i)
    BY <1>1
  <2> DEFINE finished == {k \in listed : status'[k] = "done"}
  <2>2. finished \in SUBSET Jobs
    OBVIOUS
  <2>3. \A j \in Reaped(finished) : j \in finished /\ ~Waited(j)
    BY <2>2, ReapedAreFinished
  <2>4. listed' = listed \ Reaped(finished)
    BY <2>1 DEF Finish
  <2> HIDE DEF finished
  <2>5. \A j \in listed : j \notin listed' => j \in finished /\ ~Waited(j)
    BY <2>3, <2>4
  <2> QED BY <2>5 DEF finished
<1>2. CASE Sweep
  BY <1>2 DEF Sweep, Swept
<1>3. CASE listed \subseteq listed'
  BY <1>3
<1>4. \/ \E j \in Jobs : Finish(j)
      \/ Sweep
      \/ listed \subseteq listed'
  BY DEF Next, vars, Submit, Idles, Lands, Kill, Finds, WaitEnters, WaitLeaves, WaitTimesOut,
         FollowEnds, ViewCloses, FollowLeaves, ViewOpens, UpgradeChecks, UpgradeAborts, Exec, ExecCrashes
<1> QED BY <1>1, <1>2, <1>3, <1>4

\* Neither the cap nor the sweep takes a job that a command waits for or a pane
\* follows, whatever the order in which jobs end, viewers come and images change.
THEOREM WatchedJobsStay == Spec => WaitedStay
<1>1. IdInv /\ [Next]_vars =>
        [\A j \in listed :
           j \in waits \/ (\E p \in Panes : views[p] = j /\ follow[p] = "on") => j \in listed']_vars
  BY WhatLeaves DEF Waited
<1> QED BY <1>1, IdsInductive, PTL DEF Spec, WaitedStay

\* A job that runs on when the table forgets it was told to end in that step or
\* before.
THEOREM ForgottenJobsWereEnded == Spec => RunningLeaveKilled
<1>1. IdInv /\ [Next]_vars =>
        [\A j \in listed : j \notin listed' /\ status'[j] = "running" => j \in killed']_vars
  BY WhatLeaves
<1> QED BY <1>1, IdsInductive, PTL DEF Spec, RunningLeaveKilled

\* No id names a second job, in this image or in one that an upgrade makes.
THEOREM IdsAreNew == Spec => IdsNeverRepeat
<1>1. ASSUME IdInv, [Next]_vars
      PROVE  \A j \in Jobs : j \in listed' \ listed => status[j] = "none"
  <2>1. CASE Submit
    <3>1. lastId' \in Jobs /\ lastId' > lastId /\ listed' = listed \cup {lastId'}
      BY <2>1, <1>1, TableAssumption DEF Submit, Jobs, IdInv
    <3> QED BY <3>1, <1>1 DEF IdInv
  <2>2. CASE listed' \subseteq listed
    BY <2>2
  <2>3. Submit \/ listed' \subseteq listed
    BY <1>1 DEF Next, vars, Finish, Sweep, Idles, Lands, Kill, Finds, WaitEnters, WaitLeaves, WaitTimesOut,
       FollowEnds, ViewCloses, FollowLeaves, ViewOpens, UpgradeChecks, UpgradeAborts, Exec, ExecCrashes
  <2> QED BY <2>1, <2>2, <2>3
<1>2. IdInv /\ [Next]_vars => [\A j \in Jobs : j \in listed' \ listed => status[j] = "none"]_vars
  BY <1>1
<1> QED BY <1>2, IdsInductive, PTL DEF Spec, IdsNeverRepeat
-----------------------------------------------------------------------------
\* A set of numbers has a least one.
LEMMA Least ==
  ASSUME NEW T \in SUBSET Nat, T # {}
  PROVE  \E m \in T : \A i \in T : m <= i
<1> DEFINE R == {ss \in Nat \X Nat : ss[1] < ss[2]}
<1>1. IsWellFoundedOn(R, Nat)
  BY NatLessThanWellFounded DEF OpToRel
<1>2. \E m \in T : \A i \in T : <<i, m>> \notin R
  BY <1>1, WFMin
<1>3. \A i, m \in Nat : <<i, m>> \notin R => m <= i
  OBVIOUS
<1> QED BY <1>2, <1>3

\* What the reap leaves past the cap it left for the oldest of it: that one is
\* waited for.
LEMMA CapKept ==
  ASSUME IdInv, NEW j \in Jobs, Finish(j), j \in listed, Cardinality(Finished') > Cap
  PROVE  \E k \in Finished' : Waited(k)' /\ \A i \in Finished' : k <= i
<1> DEFINE F == {k \in listed : status'[k] = "done"}
           G == Finished'
           UpFrom(m) == {k \in F : k >= m}
<1>1. Jobs \subseteq Nat /\ Cap \in Nat /\ IsFiniteSet(Jobs)
  <2>1. MaxJobs \in Nat /\ Cap \in Nat
    BY TableAssumption
  <2>2. IsFiniteSet(1..MaxJobs)
    BY <2>1, FS_Interval
  <2> QED BY <2>1, <2>2 DEF Jobs
<1>2. F \subseteq Jobs
  BY DEF IdInv
<1>3. listed' = listed \ Reaped(F)
  BY DEF Finish
<1>4. G = F \ Reaped(F)
  BY <1>3 DEF Finished
<1>5. \A k : Waited(k)' <=> Waited(k)
  BY DEF Finish, Waited
<1>6. IsFiniteSet(F) /\ \A m : IsFiniteSet(UpFrom(m))
  <2>1. \A m : UpFrom(m) \subseteq Jobs
    BY <1>2
  <2> QED BY <1>1, <1>2, <2>1, FS_Subset
<1>7. Cardinality(G) > Cap
  OBVIOUS
<1> HIDE DEF F, G
<1>8. G # {}
  <2>1. Cardinality({}) = 0
    BY FS_EmptySet
  <2> QED BY <1>1, <1>7, <2>1
<1>9. G \in SUBSET Nat
  BY <1>1, <1>2, <1>4
<1>10. PICK m \in G : \A i \in G : m <= i
  BY <1>8, <1>9, Least
<1>11. m \in F /\ m \notin Reaped(F) /\ m \in Nat
  BY <1>4, <1>9, <1>10
<1>12. G \subseteq UpFrom(m)
  BY <1>4, <1>9, <1>10
<1>13. Cardinality(UpFrom(m)) > Cap
  <2> HIDE DEF UpFrom
  <2>1. Cardinality(G) <= Cardinality(UpFrom(m))
    BY <1>6, <1>12, FS_Subset
  <2>2. Cardinality(UpFrom(m)) \in Nat /\ Cardinality(G) \in Nat
    BY <1>6, <1>12, FS_Subset, FS_CardinalityType
  <2> QED BY <1>1, <1>7, <2>1, <2>2
<1>14. PICK k \in F : k <= m /\ Waited(k)
  BY <1>11, <1>13 DEF Reaped
<1>15. k \notin Reaped(F)
  <2>1. k \in Nat
    BY <1>1, <1>2, <1>14
  <2> QED BY <1>14, <2>1 DEF Reaped
<1>16. k \in G
  BY <1>4, <1>14, <1>15
<1>17. k = m
  BY <1>9, <1>10, <1>14, <1>16
<1> QED BY <1>5, <1>10, <1>14, <1>17 DEF G

\* After a job ends the table holds no more finished jobs than the cap, unless
\* a job that is waited for is the oldest of them: a reap stops at nothing else.
THEOREM EveryFinishReaps == Spec => FinishesKeepTheCap
<1>1. ASSUME IdInv, [Next]_vars
      PROVE  \A j \in Jobs : status[j] = "running" /\ status'[j] = "done" /\ j \in listed =>
               \/ Cardinality(Finished') <= Cap
               \/ \E k \in Finished' : Waited(k)' /\ \A i \in Finished' : k <= i
  <2> SUFFICES ASSUME NEW j \in Jobs, status[j] = "running", status'[j] = "done", j \in listed,
                      ~(Cardinality(Finished') <= Cap)
               PROVE  \E k \in Finished' : Waited(k)' /\ \A i \in Finished' : k <= i
    OBVIOUS
  <2>1. \E i \in Jobs : Finish(i)
    BY <1>1 DEF IdInv, Next, vars, Submit, Sweep, Idles, Lands, Kill, Finds, WaitEnters, WaitLeaves,
       WaitTimesOut, FollowEnds, ViewCloses, FollowLeaves, ViewOpens, UpgradeChecks, UpgradeAborts, Exec,
       ExecCrashes
  <2>2. Finish(j)
    BY <1>1, <2>1 DEF Finish, IdInv
  <2>3. Cardinality(Finished') \in Nat /\ Cap \in Nat
    <3>1. Finished' \subseteq Jobs
      BY <1>1, <2>2 DEF Finished, Finish, IdInv
    <3>2. MaxJobs \in Nat /\ Cap \in Nat
      BY TableAssumption
    <3>3. IsFiniteSet(Jobs)
      BY <3>2, FS_Interval DEF Jobs
    <3> QED BY <3>1, <3>2, <3>3, FS_Subset, FS_CardinalityType
  <2>4. Cardinality(Finished') > Cap
    BY <2>3
  <2> QED BY <1>1, <2>2, <2>4, CapKept
<1>2. IdInv /\ [Next]_vars =>
        [\A j \in Jobs : status[j] = "running" /\ status'[j] = "done" /\ j \in listed =>
           \/ Cardinality(Finished') <= Cap
           \/ \E k \in Finished' : Waited(k)' /\ \A i \in Finished' : k <= i]_vars
  BY <1>1
<1> QED BY <1>2, IdsInductive, PTL DEF Spec, FinishesKeepTheCap
================================================================================
