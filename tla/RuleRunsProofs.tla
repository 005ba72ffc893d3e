--------------------------- MODULE RuleRunsProofs ---------------------------
(***************************************************************************)
(* Proofs about the runs of a rule and the row that shows them, for any    *)
(* number of jobs.                                                         *)
(***************************************************************************)
EXTENDS RuleRuns, TLAPS

-----------------------------------------------------------------------------
(* The parts of the invariant, of a job that has become v.                 *)

\* k, with the fields of v, was overtaken.
OvertakenAs(k, v) ==
  \E i \in Jobs : /\ job[i].ran /\ job[i].shows /\ job[i].begun < v.begun
                  /\ i \notin v.known /\ k \notin job[i].known

\* Standing, but for the lock.
Stands(j, v) ==
  /\ v.known \subseteq Committed
  /\ v.stage \in Pending /\ ~ v.blind =>
       IF v.shows
         THEN \A k \in v.known : ~ job[k].blind => v.begun >= job[k].begun \/ Overtaken(k)
         ELSE /\ snapshot.run # NoJob
              /\ job[snapshot.run].begun >= v.begun \/ OvertakenAs(j, v)

Holds(v, j, owner) == v.stage \in Pending \ {"compared"} /\ v.shows => owner = j

Knows(j, v) ==
  v.stage \in {"looked", "closing"} /\ ~ v.found =>
    \A i \in Jobs : incident[i] = "open" =>
      /\ i \notin v.known /\ j \notin job[i].known
      /\ ~ (job[i].shows /\ v.shows)

LEMMA Parts ==
  ASSUME RuleInv, NEW j \in Jobs
  PROVE  /\ job[j] \in Job /\ Sound(job[j])
         /\ Stands(j, job[j]) /\ Holds(job[j], j, lock) /\ Knows(j, job[j])
<1>1. job[j] \in Job /\ Sound(job[j]) /\ Standing(j) /\ Aware(j)
  BY DEF RuleInv, TypeOK
<1>2. Stands(j, job[j]) /\ Holds(job[j], j, lock)
  BY <1>1 DEF Standing, Stands, Holds, Latest, Overtaken, OvertakenAs, Overlap
<1>3. Knows(j, job[j])
  BY <1>1 DEF Aware, Knows, Apart, Overlap
<1> QED
  BY <1>1, <1>2, <1>3

\* A job whose run is not committed moves, and commits none: what is said of the others
\* is about what they keep and about runs that are committed.
LEMMA OneMoves ==
  ASSUME RuleInv, NEW j \in Jobs, NEW v \in Job,
         job' = [job EXCEPT ![j] = v], ~ job[j].ran, ~ v.ran,
         clock' \in Nat, incident' = incident,
         snapshot' \in Row, snapshot'.run = snapshot.run, snapshot.there => snapshot'.there,
         lock' \in Jobs \cup {NoJob}, \A k \in Jobs \ {j} : lock = k => lock' = k,
         Sound(v), Stands(j, v), Holds(v, j, lock'), Knows(j, v)
  PROVE  RuleInv'
<1>1. job \in [Jobs -> Job] /\ incident \in [Jobs -> Incidents] /\ snapshot \in Row
  BY DEF RuleInv, TypeOK
<1>2. job'[j] = v /\ \A k \in Jobs \ {j} : job'[k] = job[k]
  BY <1>1
<1>3. TypeOK'
  BY <1>1 DEF TypeOK
<1>4. \A k \in Jobs : job'[k].ran <=> job[k].ran
  BY <1>2
<1>5. \A k \in Jobs : job[k].ran => k # j /\ job'[k] = job[k]
  BY <1>2
<1>6. Committed' = Committed
  BY <1>4 DEF Committed
<1>7. snapshot.run # NoJob => snapshot.run \in Jobs /\ job[snapshot.run].ran /\ snapshot.there
  BY <1>1 DEF RuleInv, LatestShown, Row
<1>8. snapshot.run # NoJob => job'[snapshot.run] = job[snapshot.run]
  BY <1>5, <1>7
<1>9. ASSUME NEW k \in Jobs PROVE /\ k # j => (Overtaken(k)' <=> Overtaken(k))
                                  /\ Overtaken(j)' <=> OvertakenAs(j, v)
  BY <1>2, <1>4, <1>5 DEF Overtaken, Overlap, OvertakenAs
<1>10. \A k \in Jobs \ {j} : Latest(k) => Latest(k)'
  BY <1>2, <1>8, <1>9 DEF Latest
<1>11. LatestShown'
  BY <1>4, <1>5, <1>7, <1>8, <1>10 DEF RuleInv, LatestShown
<1>12. RowsAgree'
  <2> SUFFICES ASSUME NEW k \in Jobs PROVE Sound(job'[k])
    BY DEF RowsAgree, Sound
  <2> QED
    BY <1>2 DEF RuleInv
<1>13. \A i \in Jobs : incident[i] # "none" => job[i].ran
  BY DEF RuleInv
<1>14. OneIncident' /\ \A i \in Jobs : incident'[i] # "none" => job'[i].ran
  BY <1>4, <1>5, <1>13 DEF RuleInv, OneIncident, Apart, Overlap
<1>15. ASSUME NEW k \in Jobs PROVE Sound(job'[k]) /\ Standing(k)' /\ Aware(k)'
  <2>1. CASE k = j
    <3>1. \A i \in Jobs : i \in v.known => job'[i] = job[i] /\ i # j
      BY <1>5 DEF Stands, Committed
    <3>2. Standing(j)'
      BY <1>2, <1>6, <1>8, <1>9, <3>1
         DEF Standing, Stands, Holds, Latest, Committed
    <3>3. Aware(j)'
      BY <1>2, <1>5, <1>13 DEF Aware, Knows, Apart, Overlap
    <3> QED
      BY <2>1, <1>2, <3>2, <3>3
  <2>2. CASE k # j
    <3>0. job'[k] = job[k] /\ Sound(job[k]) /\ Standing(k) /\ Aware(k)
      BY <2>2, <1>2 DEF RuleInv
    <3>1. \A i \in Jobs : i \in job[k].known => job'[i] = job[i] /\ i # j
      BY <1>5, <3>0 DEF Standing, Committed
    <3>2. Standing(k)'
      BY <2>2, <3>0, <3>1, <1>6, <1>9, <1>10 DEF Standing, Committed
    <3>3. Aware(k)'
      BY <3>0, <1>5, <1>13 DEF Aware, Apart, Overlap
    <3> QED
      BY <3>0, <3>2, <3>3
  <2> QED
    BY <2>1, <2>2
<1> QED
  BY <1>3, <1>11, <1>12, <1>14, <1>15, <1>2 DEF RuleInv


\* A job goes on to v, and what it is about to write, if anything, it was about to write.
Onward(j, v) ==
  /\ v \in Job /\ ~ job[j].ran /\ ~ v.ran /\ Sound(v) /\ v.known = job[j].known
  /\ v.stage \in Pending =>
       job[j].stage \in Pending /\ v.begun = job[j].begun /\ v.blind = job[j].blind
         /\ v.shows = job[j].shows
  /\ v.stage \in {"looked", "closing"} /\ ~ v.found =>
       \/ \A i \in Jobs : incident[i] # "open"
       \/ job[j].stage \in {"looked", "closing"} /\ ~ job[j].found

\* The row goes on: it may come, and may get another job.
Grows(next) == next \in Row /\ next.run = snapshot.run /\ (snapshot.there => next.there)

LEMMA Goes ==
  ASSUME RuleInv, NEW j \in Jobs, NEW v, Onward(j, v), job' = [job EXCEPT ![j] = v],
         clock' \in Nat, incident' = incident, Grows(snapshot'),
         lock' \in Jobs \cup {NoJob}, \A k \in Jobs \ {j} : lock = k => lock' = k,
         Holds(v, j, lock')
  PROVE  RuleInv'
<1>1. v \in Job /\ ~ job[j].ran /\ ~ v.ran /\ Sound(v)
  BY DEF Onward
<1>2. Stands(j, v)
  BY Parts DEF Onward, Stands, OvertakenAs
<1>3. Knows(j, v)
  BY Parts, Zenon DEF Onward, Knows, Pending
<1> QED
  BY <1>1, <1>2, <1>3, OneMoves DEF Grows

LEMMA Noted == ASSUME RuleInv, NEW j \in Jobs PROVE Grows(WithJob(j))
<1>1. snapshot \in Row
  BY DEF RuleInv, TypeOK
<1> QED
  BY <1>1 DEF WithJob, Grows, Row

LEMMA InvariantInit == Init => RuleInv
<1> SUFFICES ASSUME Init PROVE RuleInv
  OBVIOUS
<1>1. Blank \in Row /\ Free \in Job
  BY DEF Blank, Row, Free, Job, Stages, Statuses
<1>2. \A j \in Jobs : job[j] = Free /\ incident[j] = "none"
  BY DEF Init
<1>3. TypeOK
  BY <1>1 DEF Init, TypeOK, Incidents
<1>4. \A j \in Jobs : /\ ~ job[j].ran /\ job[j].stage = "free" /\ job[j].known = {}
                      /\ ~ job[j].shows
  BY <1>2 DEF Free
<1>5. snapshot.run = NoJob
  BY DEF Init, Blank
<1>6. LatestShown /\ RowsAgree /\ OneIncident
  BY <1>2, <1>4, <1>5 DEF LatestShown, RowsAgree, OneIncident
<1>7. \A j \in Jobs : Sound(job[j]) /\ Standing(j) /\ Aware(j)
  BY <1>4 DEF Sound, Standing, Aware, Pending
<1> QED
  BY <1>2, <1>3, <1>6, <1>7 DEF RuleInv

-----------------------------------------------------------------------------
(* The two steps that decide what is shown.                                *)

\* A run is compared: the row that is read speaks for every run that is committed.
LEMMA Compared ==
  ASSUME RuleInv, NEW j \in Jobs, NEW fails \in BOOLEAN, Compare(j, fails)
  PROVE  RuleInv'
<1>1. PICK blind \in BOOLEAN :
        job' = [job EXCEPT ![j] = [job[j] EXCEPT
                  !.stage = "compared", !.fails = fails, !.blind = blind, !.known = Committed,
                  !.shows = ~ blind /\ IsNewerRun(j), !.inserts = ~ blind /\ ~ snapshot.there]]
  BY DEF Compare
<1> DEFINE v == [job[j] EXCEPT
                  !.stage = "compared", !.fails = fails, !.blind = blind, !.known = Committed,
                  !.shows = ~ blind /\ IsNewerRun(j), !.inserts = ~ blind /\ ~ snapshot.there]
<1>2. job[j] \in Job /\ job \in [Jobs -> Job] /\ snapshot \in Row /\ Committed \in SUBSET Jobs
  BY DEF RuleInv, TypeOK, Committed
<1>3. v \in Job
  BY <1>2 DEF Job, Stages, Row
<1>4. /\ v.stage = "compared" /\ v.blind = blind /\ v.known = Committed
      /\ v.shows = (~ blind /\ IsNewerRun(j)) /\ v.begun = job[j].begun /\ v.ran = job[j].ran
  BY <1>2 DEF Job
<1>5. ~ job[j].ran /\ job[j].stage = "running"
  BY Parts DEF Compare, Sound
<1>6. job' = [job EXCEPT ![j] = v] /\ UNCHANGED <<clock, snapshot, lock, incident>>
  BY <1>1 DEF Compare
<1> HIDE DEF v
<1>7. Sound(v)
  BY <1>4, <1>5 DEF Sound
<1>8. Stands(j, v)
  <2>1. CASE blind
    BY <2>1, <1>4 DEF Stands
  <2>2. CASE ~ blind /\ ~ IsNewerRun(j)
    <3>1. /\ snapshot.run # NoJob /\ snapshot.run \in Jobs
          /\ ~ (job[j].begun >= job[snapshot.run].begun)
      BY <2>2, <1>2 DEF IsNewerRun, Row
    <3>2. job[j].begun \in Nat /\ job[snapshot.run].begun \in Nat
      BY <3>1, <1>2 DEF Job
    <3> QED
      BY <2>2, <3>1, <3>2, <1>4 DEF Stands
  <2>3. CASE ~ blind /\ IsNewerRun(j)
    <3> SUFFICES ASSUME NEW k \in Committed, ~ job[k].blind, ~ Overtaken(k)
                 PROVE  job[j].begun >= job[k].begun
      BY <2>3, <1>4 DEF Stands
    <3>1. k \in Jobs /\ snapshot.run # NoJob /\ job[snapshot.run].begun >= job[k].begun
      BY DEF Committed, RuleInv, LatestShown, Latest
    <3>2. snapshot.run \in Jobs /\ job[j].begun >= job[snapshot.run].begun
      BY <2>3, <3>1, <1>2 DEF IsNewerRun, Row
    <3>3. job[j].begun \in Nat /\ job[snapshot.run].begun \in Nat /\ job[k].begun \in Nat
      BY <3>1, <3>2, <1>2 DEF Job
    <3> QED
      BY <3>1, <3>2, <3>3
  <2> QED
    BY <2>1, <2>2, <2>3
<1>9. Holds(v, j, lock) /\ Knows(j, v)
  BY <1>4 DEF Holds, Knows
<1>10. clock \in Nat /\ lock \in Jobs \cup {NoJob}
  BY DEF RuleInv, TypeOK
<1> QED
  BY <1>2, <1>3, <1>4, <1>5, <1>6, <1>7, <1>8, <1>9, <1>10, OneMoves

\* A run is committed.  Whoever waits to write had not compared itself with it, so what it
\* replaces is overtaken; and of those that look for an incident it alone holds the row.
LEMMA Finished ==
  ASSUME RuleInv, NEW j \in Jobs, Finish(j)
  PROVE  RuleInv'
<1> DEFINE v == [Through(j, "over") EXCEPT
                   !.status = "success", !.ran = TRUE,
                   !.dq = IF job[j].dq = "none" THEN "none" ELSE "success"]
<1>1. /\ job[j] \in Job /\ job \in [Jobs -> Job] /\ snapshot \in Row /\ clock \in Nat
      /\ lock \in Jobs \cup {NoJob} /\ incident \in [Jobs -> Incidents] /\ j # NoJob
  BY JobsAssumption DEF RuleInv, TypeOK
<1>2. v \in Job
  BY <1>1 DEF Through, Job, Stages, Statuses
<1>3. /\ v.stage = "over" /\ v.ran /\ v.begun = job[j].begun /\ v.known = job[j].known
      /\ v.blind = job[j].blind /\ v.shows = job[j].shows
  BY <1>1 DEF Through, Job
<1>4. Sound(v)
  BY <1>1, Parts DEF Through, Job, Sound
<1>5. /\ job' = [job EXCEPT ![j] = v] /\ snapshot' = WithRun(j, WithJob(j))
      /\ incident' = [incident EXCEPT ![j] = IF job[j].fails /\ ~ job[j].found THEN "open" ELSE @]
      /\ lock' = Unlocked(j) /\ clock' = clock
  BY DEF Finish
<1> HIDE DEF v
<1>6. job[j].stage = "closing" /\ ~ job[j].ran
  BY Parts DEF Finish, Sound
<1>7. job'[j] = v /\ \A k \in Jobs \ {j} : job'[k] = job[k]
  BY <1>1, <1>5
\* What runs are compared by stays.
<1>8. \A k \in Jobs : /\ job'[k].begun = job[k].begun /\ job'[k].known = job[k].known
                      /\ job'[k].blind = job[k].blind /\ job'[k].shows = job[k].shows
                      /\ job[k].ran => job'[k].ran
                      /\ job'[k].ran => k = j \/ job[k].ran
                      /\ job[k].begun \in Nat
  BY <1>1, <1>3, <1>6, <1>7 DEF Job
<1>9. job'[j].ran
  BY <1>3, <1>7
<1>10. \A k \in Jobs : Overtaken(k) => Overtaken(k)'
  BY <1>8 DEF Overtaken, Overlap
<1>11. \A k \in Jobs : job[k].known \subseteq Committed
  BY DEF RuleInv, Standing
<1>12. Grows(WithJob(j))
  BY Noted
<1>13. snapshot' \in Row /\ snapshot'.run = (IF job[j].shows THEN j ELSE snapshot.run)
       /\ (snapshot.there \/ job[j].shows => snapshot'.there)
  BY <1>5, <1>12 DEF WithRun, Grows, Row
<1>14. snapshot.run # NoJob => snapshot.run \in Jobs /\ snapshot.there /\ job[snapshot.run].ran
  BY <1>1 DEF RuleInv, LatestShown, Row
\* A later run that j did not know of, and that did not know of j, is overtaken by it.
<1>15. ASSUME NEW k \in Jobs, k # j, job[j].shows, k \notin job[j].known
       PROVE  job'[j].begun >= job'[k].begun \/ Overtaken(k)'
  <2>1. CASE job[j].begun < job[k].begun
    <3>1. j \notin job[k].known
      BY <1>6, <1>11 DEF Committed
    <3> QED
      BY <2>1, <3>1, <1>8, <1>9, <1>15 DEF Overtaken, Overlap
  <2>2. CASE ~ (job[j].begun < job[k].begun)
    BY <2>2, <1>8
  <2> QED
    BY <2>1, <2>2
<1>16. ASSUME NEW k \in Jobs, Latest(k), k # j, job[k].ran => ~ job[k].blind
       PROVE  Latest(k)'
  <2>1. CASE ~ job[j].shows
    BY <2>1, <1>8, <1>10, <1>13, <1>14, <1>16 DEF Latest
  <2>2. CASE job[j].shows
    <3>1. CASE k \in job[j].known
      <4>1. /\ job[k].ran /\ ~ job[k].blind
            /\ job[j].begun >= job[k].begun \/ Overtaken(k)
        BY <2>2, <3>1, <1>6, <1>11, <1>16, Parts DEF Committed, Stands, Sound, Pending
      <4> QED
        BY <2>2, <4>1, <1>1, <1>8, <1>10, <1>13 DEF Latest
    <3>2. CASE k \notin job[j].known
      BY <2>2, <3>2, <1>1, <1>13, <1>15, <1>16 DEF Latest
    <3> QED
      BY <3>1, <3>2
  <2> QED
    BY <2>1, <2>2
<1>17. TypeOK'
  BY <1>1, <1>2, <1>5, <1>13 DEF TypeOK, Incidents, Unlocked
<1>18. LatestShown'
  <2>1. ASSUME NEW k \in Jobs, job'[k].ran, ~ job'[k].blind PROVE Latest(k)'
    <3>1. CASE k = j /\ job[j].shows
      BY <3>1, <1>1, <1>8, <1>13 DEF Latest
    <3>2. CASE k = j /\ ~ job[j].shows
      <4>1. /\ snapshot.run # NoJob
            /\ job[snapshot.run].begun >= job[j].begun \/ Overtaken(j)
        BY <2>1, <3>2, <1>6, <1>8 DEF RuleInv, Standing, Latest, Pending
      <4> QED
        BY <3>2, <4>1, <1>8, <1>10, <1>13, <1>14 DEF Latest
    <3>3. CASE k # j
      <4>1. job[k].ran /\ ~ job[k].blind /\ Latest(k)
        BY <2>1, <3>3, <1>8 DEF RuleInv, LatestShown
      <4> QED
        BY <3>3, <4>1, <1>16
    <3> QED
      BY <3>1, <3>2, <3>3
  <2>2. snapshot'.run # NoJob => snapshot'.there /\ job'[snapshot'.run].ran
    BY <1>8, <1>9, <1>13, <1>14
  <2> QED
    BY <2>1, <2>2 DEF LatestShown
<1>19. RowsAgree'
  <2> SUFFICES ASSUME NEW k \in Jobs PROVE Sound(job'[k])
    BY DEF RowsAgree, Sound
  <2> QED
    BY <1>4, <1>7 DEF RuleInv
<1>20. \A i \in Jobs : incident[i] # "none" => job[i].ran
  BY DEF RuleInv
<1>21. \A i \in Jobs \ {j} : incident'[i] = incident[i]
  BY <1>1, <1>5
<1>22. incident'[j] = "open" => ~ job[j].found
  BY <1>1, <1>5, <1>6, <1>20
\* Who looks has not been committed, and j holds the row if it shows its run.
<1>23. ASSUME NEW k \in Jobs, k # j, job[k].stage \in {"looked", "closing"}
       PROVE  Apart(j, k)'
  <2>1. j \notin job[k].known /\ k \notin job[j].known
    <3>1. ~ job[k].ran
      BY <1>23, Parts DEF Sound
    <3> QED
      BY <3>1, <1>6, <1>11 DEF Committed
  <2>2. ~ (job[j].shows /\ job[k].shows)
    BY <1>6, <1>23 DEF RuleInv, Standing, Pending
  <2> QED
    BY <2>1, <2>2, <1>8 DEF Apart, Overlap
<1>24. OneIncident' /\ \A i \in Jobs : incident'[i] # "none" => job'[i].ran
  <2>1. \A i \in Jobs : incident[i] = "open" /\ ~ job[j].found => Apart(i, j)
    BY <1>6 DEF RuleInv, Aware
  <2>2. \A i \in Jobs : incident[i] = "open" /\ ~ job[j].found => Apart(i, j)' /\ Apart(j, i)'
    BY <2>1, <1>8 DEF Apart, Overlap
  <2>3. ASSUME NEW i \in Jobs, NEW k \in Jobs, i # k, incident'[i] = "open", incident'[k] = "open"
        PROVE  Apart(i, k)'
    <3>1. CASE i # j /\ k # j
      BY <2>3, <3>1, <1>8, <1>21 DEF RuleInv, OneIncident, Apart, Overlap
    <3>2. CASE i = j \/ k = j
      BY <2>2, <2>3, <3>2, <1>21, <1>22
    <3> QED
      BY <3>1, <3>2
  <2>4. \A i \in Jobs : incident'[i] # "none" => job'[i].ran
    BY <1>8, <1>9, <1>20, <1>21
  <2> QED
    BY <2>3, <2>4 DEF OneIncident
<1>25. ASSUME NEW k \in Jobs PROVE Sound(job'[k]) /\ Standing(k)' /\ Aware(k)'
  <2>1. \A i \in Jobs : i \in Committed => i \in Committed'
    BY <1>8 DEF Committed
  <2>2. CASE k = j
    <3>1. Standing(j)'
      BY <2>1, <1>3, <1>7, <1>8, <1>11 DEF Standing, Pending, Committed
    <3> QED
      BY <2>2, <3>1, <1>3, <1>4, <1>7 DEF Aware
  <2>3. CASE k # j
    <3>1. job'[k] = job[k] /\ Sound(job[k]) /\ Standing(k) /\ Aware(k)
      BY <2>3, <1>7 DEF RuleInv
    <3>2. job[k].known \subseteq Committed'
      BY <2>1, <1>11 DEF Committed
    <3>3. ASSUME job[k].stage \in Pending, ~ job[k].blind
          PROVE  IF job[k].shows
                   THEN \A i \in job[k].known :
                          ~ job'[i].blind => job'[k].begun >= job'[i].begun \/ Overtaken(i)'
                   ELSE Latest(k)'
      <4>1. CASE job[k].shows
        <5>1. \A i \in job[k].known :
                ~ job[i].blind => job[k].begun >= job[i].begun \/ Overtaken(i)
          BY <3>1, <3>3, <4>1 DEF Standing
        <5>2. \A i \in job[k].known : i \in Jobs
          BY <1>11 DEF Committed
        <5> QED
          BY <4>1, <5>1, <5>2, <1>8, <1>10
      <4>2. CASE ~ job[k].shows
        <5>1. Latest(k)
          BY <3>1, <3>3, <4>2 DEF Standing
        <5> QED
          BY <2>3, <3>3, <4>2, <5>1, <1>16
      <4> QED
        BY <4>1, <4>2
    <3>4. Holds(job[k], k, lock')
      BY <2>3, <1>5, Parts DEF Holds, Unlocked
    <3>5. Standing(k)'
      BY <3>1, <3>2, <3>3, <3>4 DEF Standing, Holds, Committed
    <3>6. Aware(k)'
      <4> SUFFICES ASSUME job[k].stage \in {"looked", "closing"}, ~ job[k].found,
                          NEW i \in Jobs, incident'[i] = "open"
                   PROVE  Apart(i, k)'
        BY <3>1 DEF Aware
      <4>1. CASE i = j
        BY <2>3, <4>1, <1>23
      <4>2. CASE i # j
        BY <4>2, <3>1, <1>8, <1>21 DEF Aware, Apart, Overlap
      <4> QED
        BY <4>1, <4>2
    <3> QED
      BY <3>1, <3>5, <3>6
  <2> QED
    BY <2>2, <2>3
<1> QED
  BY <1>17, <1>18, <1>19, <1>24, <1>25 DEF RuleInv

-----------------------------------------------------------------------------
(* The other steps.                                                        *)

\* A user changes an incident: none is open that was not.
LEMMA Reviewed ==
  ASSUME RuleInv, NEW i \in Jobs, SetAside(i) \/ Reopen(i)
  PROVE  RuleInv'
<1>1. UNCHANGED <<clock, job, snapshot, lock>>
  BY DEF SetAside, Reopen
<1>2. /\ incident' \in [Jobs -> Incidents]
      /\ \A k \in Jobs : /\ incident'[k] = "open" => incident[k] = "open"
                         /\ incident'[k] # "none" => incident[k] # "none"
  BY DEF SetAside, Reopen, RuleInv, TypeOK, Incidents
<1>3. TypeOK' /\ LatestShown' /\ RowsAgree'
  BY <1>1, <1>2 DEF RuleInv, TypeOK, LatestShown, RowsAgree, Latest, Overtaken, Overlap
<1>4. OneIncident' /\ \A k \in Jobs : incident'[k] # "none" => job'[k].ran
  BY <1>1, <1>2 DEF RuleInv, OneIncident, Apart, Overlap
<1>5. \A k \in Jobs : Sound(job'[k]) /\ Standing(k)'
  BY <1>1 DEF RuleInv, Standing, Latest, Overtaken, Overlap, Committed
<1>6. \A k \in Jobs : Aware(k)'
  BY <1>1, <1>2 DEF RuleInv, Aware, Apart, Overlap
<1> QED
  BY <1>3, <1>4, <1>5, <1>6 DEF RuleInv

LEMMA InvariantStep == RuleInv /\ [Next]_vars => RuleInv'
<1> SUFFICES ASSUME RuleInv, [Next]_vars PROVE RuleInv'
  OBVIOUS
<1>0. /\ clock \in Nat /\ clock + 1 \in Nat /\ lock \in Jobs \cup {NoJob}
      /\ snapshot \in Row /\ Grows(snapshot)
  BY DEF RuleInv, TypeOK, Grows
<1>1. ASSUME NEW j \in Jobs, NEW kind \in Kinds, Request(j, kind) PROVE RuleInv'
  <2> DEFINE v == [Free EXCEPT !.stage = "created", !.status = "queued",
                               !.dq = IF kind.tracked THEN "queued" ELSE "none",
                               !.named = kind.named, !.made = clock + 1]
  <2>1. Free \in Job /\ kind.named \in BOOLEAN
    BY KindsAssumption DEF Free, Job, Stages, Statuses
  <2>2. v \in Job
    BY <2>1, <1>0 DEF Job, Stages, Statuses
  <2>3. Onward(j, v) /\ Holds(v, j, lock)
    BY <1>1, <2>2 DEF Request, Free, Onward, Holds, Sound, Pending
  <2>4. job' = [job EXCEPT ![j] = v] /\ clock' = clock + 1 /\ UNCHANGED <<snapshot, lock, incident>>
    BY <1>1 DEF Request
  <2> HIDE DEF v
  <2> QED
    BY <2>3, <2>4, <1>0, Goes
<1>2. ASSUME NEW j \in Jobs, Serve(j) PROVE RuleInv'
  <2>0. job[j] \in Job /\ Sound(job[j]) /\ Holds(job[j], j, lock) /\ Grows(WithJob(j))
    BY Parts, Noted
  <2> DEFINE Quietly(v) ==
               Onward(j, v) /\ job' = [job EXCEPT ![j] = v] /\ Holds(v, j, lock')
             Reads(v, g) ==
               /\ v \in Job /\ v.stage = g /\ v.status = job[j].status /\ v.dq = job[j].dq
               /\ v.begun = job[j].begun /\ v.ran = job[j].ran /\ v.shows = job[j].shows
               /\ v.blind = job[j].blind /\ v.known = job[j].known /\ v.found = job[j].found
  \* What is read of the row is kept, and no more.
  <2>1. ASSUME NEW g \in Stages, NEW sync \in Syncs PROVE Reads(Decided(j, g, sync), g)
    <3>1. IsNewerJob(j) \in BOOLEAN /\ snapshot.there \in BOOLEAN
      BY <1>0 DEF IsNewerJob, Row
    <3> QED
      BY <2>0, <3>1 DEF Decided, Job
  <2>2. CASE NoteRead(j)
    <3>1. CASE job[j].named
      <4>1. PICK sync \in Syncs : job' = [job EXCEPT ![j] = Decided(j, "noting", sync)]
        BY <2>2, <3>1 DEF NoteRead
      <4> DEFINE v == Decided(j, "noting", sync)
      <4>2. Reads(v, "noting")
        BY <2>1 DEF Stages
      <4> HIDE DEF v
      <4>3. Quietly(v) /\ UNCHANGED <<clock, snapshot, lock, incident>>
        BY <4>1, <4>2, <2>0, <2>2 DEF v, NoteRead, Onward, Holds, Sound, Pending
      <4> QED
        BY <4>3, <1>0, Goes
    <3>2. CASE ~ job[j].named
      <4> DEFINE v == [job[j] EXCEPT !.stage = "launched"]
      <4>1. v \in Job
        BY <2>0 DEF Job, Stages
      <4>2. Quietly(v) /\ UNCHANGED <<clock, snapshot, lock, incident>>
        BY <2>0, <2>2, <3>2, <4>1 DEF NoteRead, Job, Onward, Holds, Sound, Pending
      <4> HIDE DEF v
      <4> QED
        BY <4>2, <1>0, Goes
    <3> QED
      BY <3>1, <3>2
  <2>3. CASE Note(j)
    <3> DEFINE v == Through(j, "launched")
    <3>1. v \in Job
      BY <2>0 DEF Through, Job, Stages
    <3>2. Quietly(v) /\ UNCHANGED <<clock, lock, incident>> /\ snapshot' = WithJob(j)
      BY <2>0, <2>3, <3>1 DEF Note, NoteJob, Through, Job, Onward, Holds, Sound, Pending
    <3> HIDE DEF v
    <3> QED
      BY <3>2, <2>0, <1>0, Goes
  <2>4. CASE StartRead(j)
    <3>1. PICK sync \in Syncs : job' = [job EXCEPT ![j] = Decided(j, "starting", sync)]
      BY <2>4 DEF StartRead
    <3> DEFINE v == Decided(j, "starting", sync)
    <3>2. Reads(v, "starting")
      BY <2>1 DEF Stages
    <3> HIDE DEF v
    <3>3. Quietly(v) /\ UNCHANGED <<clock, snapshot, lock, incident>>
      BY <3>1, <3>2, <2>0, <2>4 DEF v, StartRead, Onward, Holds, Sound, Pending
    <3> QED
      BY <3>3, <1>0, Goes
  <2>5. CASE Start(j)
    <3> DEFINE v == [Through(j, "running") EXCEPT
                       !.status = "running",
                       !.dq = IF job[j].dq = "none" THEN "none" ELSE "running",
                       !.begun = clock + 1]
    <3>1. v \in Job
      BY <2>0, <1>0 DEF Through, Job, Stages, Statuses
    <3>2. Quietly(v) /\ UNCHANGED <<lock, incident>> /\ snapshot' = WithJob(j) /\ clock' = clock + 1
      BY <2>0, <2>5, <3>1 DEF Start, NoteJob, Through, Job, Onward, Holds, Sound, Pending
    <3> HIDE DEF v
    <3> QED
      BY <3>2, <2>0, <1>0, Goes
  <2>6. ASSUME NEW fails \in BOOLEAN, Compare(j, fails) PROVE RuleInv'
    BY <2>6, Compared
  <2>7. CASE SparkFails(j)
    <3> DEFINE v == [job[j] EXCEPT !.stage = "failing",
                                   !.dq = IF job[j].dq = "none" THEN "none" ELSE "failed"]
    <3>1. v \in Job
      BY <2>0 DEF Job, Stages, Statuses
    <3>2. Quietly(v) /\ UNCHANGED <<clock, snapshot, lock, incident>>
      BY <2>0, <2>7, <3>1 DEF SparkFails, Job, Onward, Holds, Sound, Pending
    <3> HIDE DEF v
    <3> QED
      BY <3>2, <1>0, Goes
  <2>8. CASE Show(j)
    <3> DEFINE v == Through(j, "shown")
    <3>1. v \in Job
      BY <2>0 DEF Through, Job, Stages
    <3>2. Quietly(v) /\ UNCHANGED <<clock, snapshot, incident>>
      BY <2>0, <2>8, <3>1 DEF Show, Through, Job, Onward, Holds, Sound, Pending
    <3>3. lock' \in Jobs \cup {NoJob} /\ \A k \in Jobs \ {j} : lock = k => lock' = k
      BY <2>8, <1>0, JobsAssumption DEF Show, CanWrite
    <3> HIDE DEF v
    <3> QED
      BY <3>2, <3>3, <1>0, Goes
  <2>9. CASE Look(j)
    <3> DEFINE v == [job[j] EXCEPT !.stage = "looked",
                                   !.found = \E i \in Jobs : incident[i] \in {"open", "back"}]
    <3>1. /\ v \in Job /\ v.stage = "looked"
          /\ v.found = (\E i \in Jobs : incident[i] \in {"open", "back"})
      BY <2>0 DEF Job, Stages
    <3>2. Quietly(v) /\ UNCHANGED <<clock, snapshot, lock, incident>>
      BY <2>0, <2>9, <3>1 DEF Look, Job, Onward, Holds, Sound, Pending
    <3> HIDE DEF v
    <3> QED
      BY <3>2, <1>0, Goes
  <2>10. CASE CloseRead(j)
    <3>1. PICK sync \in Syncs : job' = [job EXCEPT ![j] = Decided(j, "closing", sync)]
      BY <2>10 DEF CloseRead
    <3> DEFINE v == Decided(j, "closing", sync)
    <3>2. Reads(v, "closing")
      BY <2>1 DEF Stages
    <3> HIDE DEF v
    <3>3. Quietly(v) /\ UNCHANGED <<clock, snapshot, lock, incident>>
      BY <3>1, <3>2, <2>0, <2>10 DEF v, CloseRead, Onward, Holds, Sound, Pending
    <3> QED
      BY <3>3, <1>0, Goes
  <2>11. CASE Finish(j)
    BY <2>11, Finished
  <2>12. CASE Collide(j)
    <3> DEFINE g == Collided(job[j].stage)
               v == Undone(j, g)
    <3>1. g \in {"dead", "failing", "failed job"} /\ ~ job[j].ran
      BY <2>0, <2>12 DEF Collide, Collided, Sound
    <3>2. v \in Job
      BY <2>0, <3>1 DEF Undone, Through, Job, Stages
    <3>3. Quietly(v) /\ UNCHANGED <<clock, snapshot, lock, incident>>
      BY <2>0, <2>12, <3>1, <3>2 DEF Collide, Undone, Through, Job, Onward, Holds, Sound, Pending
    <3> HIDE DEF v
    <3> QED
      BY <3>3, <1>0, Goes
  <2>13. CASE FailRead(j)
    <3>1. CASE job[j].named
      <4>1. PICK sync \in Syncs : job' = [job EXCEPT ![j] = Decided(j, "told", sync)]
        BY <2>13, <3>1 DEF FailRead
      <4> DEFINE v == Decided(j, "told", sync)
      <4>2. Reads(v, "told")
        BY <2>1 DEF Stages
      <4> HIDE DEF v
      <4>3. Quietly(v) /\ UNCHANGED <<clock, snapshot, lock, incident>>
        BY <4>1, <4>2, <2>0, <2>13 DEF v, FailRead, Onward, Holds, Sound, Pending
      <4> QED
        BY <4>3, <1>0, Goes
    <3>2. CASE ~ job[j].named
      <4> DEFINE v == [job[j] EXCEPT !.stage = "failed job", !.status = "failed"]
      <4>1. v \in Job
        BY <2>0 DEF Job, Stages, Statuses
      <4>2. Quietly(v) /\ UNCHANGED <<clock, snapshot, lock, incident>>
        BY <2>0, <2>13, <3>2, <4>1 DEF FailRead, Job, Onward, Holds, Sound, Pending
      <4> HIDE DEF v
      <4> QED
        BY <4>2, <1>0, Goes
    <3> QED
      BY <3>1, <3>2
  <2>14. CASE FailNote(j)
    <3> DEFINE v == [Through(j, "failed job") EXCEPT !.status = "failed"]
    <3>1. v \in Job
      BY <2>0 DEF Through, Job, Stages, Statuses
    <3>2. Quietly(v) /\ UNCHANGED <<clock, lock, incident>> /\ snapshot' = WithJob(j)
      BY <2>0, <2>14, <3>1 DEF FailNote, NoteJob, Through, Job, Onward, Holds, Sound, Pending
    <3> HIDE DEF v
    <3> QED
      BY <3>2, <2>0, <1>0, Goes
  <2>15. CASE FailRun(j)
    <3> DEFINE v == [job[j] EXCEPT !.stage = "failed run",
                                   !.dq = IF job[j].dq = "none" THEN "none" ELSE "failed"]
    <3>1. v \in Job
      BY <2>0 DEF Job, Stages, Statuses
    <3>2. Quietly(v) /\ UNCHANGED <<clock, snapshot, lock, incident>>
      BY <2>0, <2>15, <3>1 DEF FailRun, Job, Onward, Holds, Sound, Pending
    <3> HIDE DEF v
    <3> QED
      BY <3>2, <1>0, Goes
  <2>16. CASE FailJob(j)
    <3> DEFINE v == [job[j] EXCEPT !.stage = "over", !.status = "failed"]
    <3>1. v \in Job
      BY <2>0 DEF Job, Stages, Statuses
    <3>2. Quietly(v) /\ UNCHANGED <<clock, snapshot, lock, incident>>
      BY <2>0, <2>16, <3>1 DEF FailJob, Job, Onward, Holds, Sound, Pending
    <3> HIDE DEF v
    <3> QED
      BY <3>2, <1>0, Goes
  <2> QED
    BY <1>2, <2>2, <2>3, <2>4, <2>5, <2>6, <2>7, <2>8, <2>9, <2>10, <2>11, <2>12, <2>13, <2>14,
       <2>15, <2>16 DEF Serve
<1>3. ASSUME NEW j \in Jobs, Fault(j) \/ Die(j) PROVE RuleInv'
  <2>1. PICK g \in {"failing", "dead"} : job' = [job EXCEPT ![j] = Undone(j, g)]
    BY <1>3 DEF Fault, Die
  <2> DEFINE v == Undone(j, g)
  <2>2. job[j] \in Job /\ Sound(job[j]) /\ job[j].stage # "over" /\ ~ job[j].ran
    BY <1>3, Parts DEF Fault, Die, OnItsWay, Sound
  <2>3. v \in Job
    BY <2>2 DEF Undone, Through, Job, Stages
  <2>4. Onward(j, v) /\ \A owner : Holds(v, j, owner)
    BY <2>2, <2>3 DEF Undone, Through, Job, Onward, Holds, Sound, Pending
  <2>5. /\ UNCHANGED <<clock, snapshot, incident>> /\ lock' \in Jobs \cup {NoJob}
        /\ \A k \in Jobs \ {j} : lock = k => lock' = k
    BY <1>3, <1>0 DEF Fault, Die, Unlocked
  <2>6. job' = [job EXCEPT ![j] = v]
    BY <2>1
  <2> HIDE DEF v
  <2> QED
    BY <2>4, <2>5, <2>6, <1>0, Goes
<1>4. ASSUME NEW j \in Jobs, FailNoteFails(j) PROVE RuleInv'
  <2> DEFINE v == Through(j, "failed job")
  <2>1. job[j] \in Job /\ Sound(job[j]) /\ ~ job[j].ran
    BY <1>4, Parts DEF FailNoteFails, Sound
  <2>2. v \in Job
    BY <2>1 DEF Through, Job, Stages
  <2>3. Onward(j, v) /\ Holds(v, j, lock)
    BY <2>1, <2>2 DEF Through, Job, Onward, Holds, Sound, Pending
  <2>4. job' = [job EXCEPT ![j] = v] /\ UNCHANGED <<clock, snapshot, lock, incident>>
    BY <1>4 DEF FailNoteFails
  <2> HIDE DEF v
  <2> QED
    BY <2>3, <2>4, <1>0, Goes
<1>5. ASSUME NEW i \in Jobs, SetAside(i) \/ Reopen(i) PROVE RuleInv'
  BY <1>5, Reviewed
<1>6. CASE UNCHANGED vars
  BY <1>6 DEF vars, RuleInv, TypeOK, LatestShown, RowsAgree, OneIncident, Standing, Aware,
              Latest, Overtaken, Overlap, Apart, Committed
<1> QED
  BY <1>1, <1>2, <1>3, <1>4, <1>5, <1>6 DEF Next

-----------------------------------------------------------------------------
\* RuleInv is an invariant: what a job has read of the snapshot row, or missed of it, and
\* of the incidents stands until it writes, whatever the other jobs and the users do.
THEOREM Invariant == Spec => []RuleInv
<1> QED
  BY InvariantInit, InvariantStep, PTL DEF Spec

\* The variables keep their types.
THEOREM Typed == Spec => []TypeOK
<1>1. RuleInv => TypeOK
  BY DEF RuleInv
<1> QED
  BY <1>1, Invariant, PTL

\* A run that was compared (latest_runs.py) is shown until a newer one is: an older one takes
\* its place only if it was compared before this one was committed.
THEOREM Shows == Spec => []LatestShown
<1>1. RuleInv => LatestShown
  BY DEF RuleInv
<1> QED
  BY <1>1, Invariant, PTL

\* Once its thread is over, a job (spark_rules_worker.py) and its dq_run tell the same end.
THEOREM Agree == Spec => []RowsAgree
<1>1. RuleInv => RowsAgree
  BY DEF RuleInv
<1> QED
  BY <1>1, Invariant, PTL

\* Two runs of a rule that both take the snapshot row never open an incident each
\* (incident_signals.py), while neither incident is set aside: the row's lock keeps the
\* second from looking before the first has committed.
THEOREM OneOpens == Spec => []OneIncident
<1>1. RuleInv => OneIncident
  BY DEF RuleInv
<1> QED
  BY <1>1, Invariant, PTL

=============================================================================
