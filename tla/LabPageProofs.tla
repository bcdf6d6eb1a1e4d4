---------------------------- MODULE LabPageProofs ----------------------------
(***************************************************************************)
(* Proofs about the page of the lab: the comparison with its overlapping   *)
(* runs, for any inputs, cohorts and number of runs; the scenario editor,  *)
(* for all fields, values, texts and revisions; and the inputs that follow *)
(* the level on display, for any levels, items, observed progressions and  *)
(* number of acts, and whose builds may be worn together; and what a level *)
(* is answered with: the progression of items, for any frames stored, and  *)
(* the ranks of skills, for any timelines.                                 *)
(***************************************************************************)
EXTENDS LabRun, ScenarioEditor, LabInputs, Progression, SkillTimeline, InductionLemmas,
  SequenceTheorems, TLAPS

-----------------------------------------------------------------------------
(* The comparison.                                                         *)

(* A run that has not shown its comparison yet. *)
Unanswered(r) == runs[r].cohort = None \/ runs[r].left = SliceRequests + 1

(* Whatever is asked of the worker, the run has a cohort and requests left. *)
QueuedAsk ==
  \A n \in DOMAIN queue : queue[n] \in DOMAIN runs =>
    runs[queue[n]].cohort # None /\ runs[queue[n]].left # 0

(* A run has the cohort that its filters ask for. *)
RunsMatch ==
  \A r \in DOMAIN runs : runs[r].cohort # None => runs[r].cohort = CohortKey(runs[r].of)

(* While there is neither a comparison nor a message, one is to come: the  *)
(* run that dropped the message has not been answered, or was put off by   *)
(* ranks that it corrected.                                                *)
ToCome == result = None /\ ~error => timer # None \/ \E r \in DOMAIN runs : Unanswered(r)
Busy == loading => timer # None \/ DOMAIN runs # {}

LabInv == TypeOK /\ QueuedAsk /\ RunsMatch /\ DatasetMatches /\ ToCome /\ Busy

LEMMA SomeSettings ==
  ASSUME NEW s \in Settings
  PROVE  /\ s.main \in Mains /\ s.champion \in Champions /\ s.selected \in Targets \cup {None}
         /\ s # None
         /\ CohortKey(s) \in Cohorts /\ CohortKey(s) # None
         /\ Corrected(s) \in Settings
         /\ s.main \in Illegal => Corrected(s).main # s.main
         /\ \A m \in Mains : [s EXCEPT !.main = m] \in Settings
         /\ \A c \in Champions : [s EXCEPT !.champion = c] \in Settings
                                 /\ [s EXCEPT !.champion = c].main = s.main
         /\ \A t \in Targets : [s EXCEPT !.selected = t] \in Settings
                               /\ [s EXCEPT !.selected = t].main = s.main
<1>1. /\ s.main \in Mains /\ s.champion \in Champions /\ s.selected \in Targets \cup {None}
      /\ s # None
  BY NoneAssumption DEF Settings
<1>2. CohortKey(s) \in Cohorts /\ CohortKey(s) # None
  BY <1>1, LabAssumption, NoneAssumption DEF CohortKey, Cohorts
<1>3. /\ \A m \in Mains : [s EXCEPT !.main = m] \in Settings /\ [s EXCEPT !.main = m].main = m
      /\ \A c \in Champions : [s EXCEPT !.champion = c] \in Settings
                              /\ [s EXCEPT !.champion = c].main = s.main
      /\ \A t \in Targets : [s EXCEPT !.selected = t] \in Settings
                            /\ [s EXCEPT !.selected = t].main = s.main
  BY DEF Settings
<1>4. Corrected(s) \in Settings /\ (s.main \in Illegal => Corrected(s).main # s.main)
  BY <1>1, <1>3, LabAssumption DEF Corrected
<1> QED BY <1>1, <1>2, <1>3, <1>4

(* A changed input leaves a timer; no change takes one away.                *)
LEMMA ChangeKeeps ==
  ASSUME TypeOK, NEW next \in Settings, Change(next)
  PROVE  /\ settings' \in Settings /\ timer' \in Settings \cup {None}
         /\ timer # None => timer' # None
         /\ next.main # settings.main => timer' # None
BY SomeSettings DEF TypeOK, Change

(* A run is started: it has the number started + 1, which no request in the *)
(* queue has.                                                               *)
LEMMA RunAdded ==
  ASSUME TypeOK, QueuedAsk, RunsMatch, started < MaxRuns,
         NEW of \in Settings, NEW run \in Run, run.of = of,
         \/ run.cohort = None /\ queue' = queue
         \/ run.cohort = CohortKey(of) /\ run.left # 0 /\ Ask(started + 1),
         started' = started + 1, runs' = With(runs, started + 1, run)
  PROVE  /\ started' \in 0..MaxRuns
         /\ DOMAIN runs' \subseteq 1..started'
         /\ \A r \in DOMAIN runs' : runs'[r] \in Run
         /\ queue' \in Seq(1..started')
         /\ \A r \in DOMAIN runs' :
              runs'[r].cohort # None => \E n \in 1..Len(queue') : queue'[n] = r
         /\ QueuedAsk' /\ RunsMatch'
         /\ started + 1 \in DOMAIN runs' /\ runs'[started + 1] = run
<1>1. started \in Nat /\ MaxRuns \in Nat /\ queue \in Seq(1..started) /\ DOMAIN runs \subseteq 1..started
  BY LabAssumption DEF TypeOK
<1>2. /\ DOMAIN runs' = DOMAIN runs \cup {started + 1}
      /\ runs'[started + 1] = run
      /\ \A r \in DOMAIN runs : r # started + 1 /\ runs'[r] = runs[r]
  <2>1. \A r \in DOMAIN runs : r # started + 1 BY <1>1
  <2> QED BY <2>1 DEF With
<1>3. Len(queue) \in Nat /\ \A n \in 1..Len(queue) : queue[n] \in 1..started
  BY <1>1
<1>4. queue \in Seq(1..(started + 1))
  BY <1>1
<1>5. /\ queue' \in Seq(1..(started + 1))
      /\ Len(queue') \in Nat /\ Len(queue') >= Len(queue)
      /\ \A n \in 1..Len(queue) : queue'[n] = queue[n]
      /\ \A n \in 1..Len(queue') : n \in 1..Len(queue)
                                   \/ (queue'[n] = started + 1 /\ run.cohort = CohortKey(of) /\ run.left # 0)
      /\ run.cohort # None => \E n \in 1..Len(queue') : queue'[n] = started + 1
  <2>1. CASE run.cohort = None /\ queue' = queue
    <3>1. queue' \in Seq(1..(started + 1)) /\ Len(queue') = Len(queue)
      BY <2>1, <1>4
    <3>2. /\ \A n \in 1..Len(queue) : queue'[n] = queue[n]
          /\ \A n \in 1..Len(queue') : n \in 1..Len(queue)
      BY <2>1
    <3>3. Len(queue') \in Nat /\ Len(queue') >= Len(queue)
      BY <3>1, <1>3
    <3>4. ~(run.cohort # None)
      BY <2>1
    <3> QED BY <3>1, <3>2, <3>3, <3>4
  <2>2. CASE run.cohort = CohortKey(of) /\ run.left # 0 /\ Ask(started + 1)
    <3>1. queue' = Append(queue, started + 1) /\ started + 1 \in 1..(started + 1)
      BY <2>2, <1>1 DEF Ask
    <3>2. /\ queue' \in Seq(1..(started + 1)) /\ Len(queue') = Len(queue) + 1
          /\ queue'[Len(queue) + 1] = started + 1
          /\ \A n \in 1..Len(queue) : queue'[n] = queue[n]
      BY <3>1, <1>3, <1>4
    <3>3. Len(queue) + 1 \in 1..Len(queue')
      BY <3>2, <1>3
    <3>4. \A n \in 1..Len(queue') : n \in 1..Len(queue) \/ n = Len(queue) + 1
      BY <3>2, <1>3
    <3> QED BY <3>2, <3>3, <3>4, <2>2, <1>3
  <2> QED BY <2>1, <2>2
<1>6. started' \in 0..MaxRuns
  BY <1>1
<1>7. DOMAIN runs' \subseteq 1..started' /\ \A r \in DOMAIN runs' : runs'[r] \in Run
  BY <1>1, <1>2 DEF TypeOK
<1>8. ASSUME NEW r \in DOMAIN runs', runs'[r].cohort # None
      PROVE  \E n \in 1..Len(queue') : queue'[n] = r
  <2>1. CASE r = started + 1
    BY <2>1, <1>2, <1>5, <1>8
  <2>2. CASE r \in DOMAIN runs
    <3>1. PICK n \in 1..Len(queue) : queue[n] = r
      BY <2>2, <1>2, <1>8 DEF TypeOK
    <3>2. n \in 1..Len(queue') /\ queue'[n] = r
      BY <3>1, <1>3, <1>5
    <3> QED BY <3>2
  <2> QED BY <2>1, <2>2, <1>2
<1>9. QueuedAsk'
  <2> SUFFICES ASSUME NEW n \in DOMAIN queue', queue'[n] \in DOMAIN runs'
               PROVE  runs'[queue'[n]].cohort # None /\ runs'[queue'[n]].left # 0
    BY DEF QueuedAsk
  <2>1. n \in 1..Len(queue') /\ DOMAIN queue = 1..Len(queue)
    BY <1>1, <1>5
  <2>2. CASE n \in 1..Len(queue)
    <3>1. queue'[n] = queue[n] /\ queue[n] \in 1..started
      BY <2>2, <1>3, <1>5
    <3>2. queue[n] # started + 1
      BY <3>1, <1>1
    <3>3. queue[n] \in DOMAIN runs /\ runs'[queue'[n]] = runs[queue[n]]
      BY <3>1, <3>2, <1>2
    <3> QED BY <3>3, <2>1, <2>2 DEF QueuedAsk
  <2>3. CASE queue'[n] = started + 1 /\ run.cohort = CohortKey(of) /\ run.left # 0
    BY <2>3, <1>2, SomeSettings
  <2> QED BY <2>1, <2>2, <2>3, <1>5
<1>10. RunsMatch'
  BY <1>2 DEF RunsMatch
<1> QED BY <1>1, <1>2, <1>5, <1>6, <1>7, <1>8, <1>9, <1>10

(* A run is started, or put off by the ranks that it corrects.              *)
LEMMA StartKeeps ==
  ASSUME LabInv, NEW of \in Settings, NEW known \in Targets \cup {None},
         NEW cached \in Cohorts \cup {None}, Start(of, known, cached),
         settings' \in Settings, timer' \in Settings \cup {None}, cohort' \in Cohorts \cup {None},
         of.main \in Illegal => timer' # None
  PROVE  LabInv'
<1> USE DEF LabInv
<1>1. error' = FALSE /\ result' = result /\ result' \in Shown \cup {None} /\ started < MaxRuns
  BY DEF Start, TypeOK
<1>2. DatasetMatches'
  BY <1>1 DEF DatasetMatches
<1>3. CASE of.main \in Illegal
  <2>1. loading' = FALSE /\ UNCHANGED <<started, runs, queue>> /\ timer' # None
    BY <1>3 DEF Start
  <2>2. TypeOK'
    BY <1>1, <2>1 DEF TypeOK
  <2>3. QueuedAsk' /\ RunsMatch' /\ ToCome' /\ Busy'
    BY <2>1 DEF QueuedAsk, RunsMatch, ToCome, Busy
  <2> QED BY <1>2, <2>2, <2>3
<1>4. CASE of.main \notin Illegal
  <2>1. PICK run \in Run :
          /\ run.of = of
          /\ run.cohort = None \/ run.left = SliceRequests + 1
          /\ \/ run.cohort = None /\ queue' = queue
             \/ run.cohort = CohortKey(of) /\ run.left # 0 /\ Ask(started + 1)
          /\ started' = started + 1 /\ runs' = With(runs, started + 1, run)
    <3>0. SliceRequests + 1 # 0 /\ SliceRequests + 1 \in 0..(SliceRequests + 1) /\ 0 \in 0..(SliceRequests + 1)
      BY LabAssumption
    <3>1. CASE Reusable(of, cached)
      <4> DEFINE run == [of |-> of, known |-> known, cohort |-> cached, left |-> SliceRequests + 1]
      <4>1. runs' = With(runs, started + 1, run) /\ Ask(started + 1) /\ started' = started + 1
        BY <3>1, <1>4 DEF Start
      <4>2. cached = CohortKey(of) /\ cached \in Cohorts
        BY <3>1, SomeSettings DEF Reusable
      <4>3. run \in Run
        BY <3>0, <4>2 DEF Run
      <4>4. run.of = of /\ run.cohort = CohortKey(of) /\ run.left = SliceRequests + 1
        BY <4>2
      <4> HIDE DEF run
      <4> QED BY <3>0, <4>1, <4>3, <4>4
    <3>2. CASE ~Reusable(of, cached)
      <4> DEFINE run == [of |-> of, known |-> known, cohort |-> None, left |-> 0]
      <4>1. runs' = With(runs, started + 1, run) /\ queue' = queue /\ started' = started + 1
        BY <3>2, <1>4 DEF Start
      <4>3. run \in Run
        BY <3>0 DEF Run
      <4>4. run.of = of /\ run.cohort = None
        OBVIOUS
      <4> HIDE DEF run
      <4> QED BY <4>1, <4>3, <4>4
    <3> QED BY <3>1, <3>2
  <2>2. /\ started' \in 0..MaxRuns
        /\ DOMAIN runs' \subseteq 1..started'
        /\ \A r \in DOMAIN runs' : runs'[r] \in Run
        /\ queue' \in Seq(1..started')
        /\ \A r \in DOMAIN runs' :
             runs'[r].cohort # None => \E n \in 1..Len(queue') : queue'[n] = r
        /\ QueuedAsk' /\ RunsMatch'
        /\ started + 1 \in DOMAIN runs' /\ runs'[started + 1] = run
    BY <2>1, <1>1, RunAdded
  <2>3. loading' = TRUE
    BY <1>4 DEF Start
  <2>4. TypeOK'
    BY <1>1, <2>2, <2>3 DEF TypeOK
  <2>5. /\ started + 1 \in DOMAIN runs'
        /\ runs'[started + 1].cohort = None \/ runs'[started + 1].left = SliceRequests + 1
    BY <2>1, <2>2
  <2>6. ToCome' /\ Busy'
    BY <2>5 DEF ToCome, Busy, Unanswered
  <2> QED BY <1>2, <2>2, <2>4, <2>6
<1> QED BY <1>3, <1>4

(* The answers awaited by a run that is no longer under way are dropped.    *)
LEMMA FailKeeps ==
  ASSUME LabInv, NEW R, Fail(R),
         settings' \in Settings, timer' \in Settings \cup {None}, cohort' \in Cohorts \cup {None},
         started' = started,
         \/ queue' = queue
         \/ queue # <<>> /\ queue' = Tail(queue) /\ R = {r \in DOMAIN runs : runs[r].cohort # None}
  PROVE  LabInv'
<1> USE DEF LabInv
<1>1. result' = None /\ error' = TRUE /\ loading' = FALSE
  BY DEF Fail
<1>2. DOMAIN runs' = DOMAIN runs \ R /\ \A r \in DOMAIN runs' : runs'[r] = runs[r]
  BY DEF Fail, Without
<1>3. queue' \in Seq(1..started) /\ \A n \in DOMAIN queue' : \E m \in DOMAIN queue : queue'[n] = queue[m]
  <2>1. CASE queue' = queue
    BY <2>1 DEF TypeOK
  <2>2. CASE queue # <<>> /\ queue' = Tail(queue)
    <3>1. queue \in Seq(1..started)
      BY DEF TypeOK
    <3>2. /\ queue' \in Seq(1..started) /\ Len(queue') = Len(queue) - 1
          /\ \A n \in 1..Len(queue') : queue'[n] = queue[n + 1]
      BY <2>2, <3>1
    <3>3. \A n \in 1..Len(queue') : n + 1 \in 1..Len(queue)
      BY <3>1, <3>2
    <3> QED BY SMTT(30), <3>1, <3>2, <3>3
  <2> QED BY <2>1, <2>2
<1>4. TypeOK'
  <2>1. ASSUME NEW r \in DOMAIN runs', runs'[r].cohort # None
        PROVE  \E n \in 1..Len(queue') : queue'[n] = r
    <3>1. r \in DOMAIN runs /\ r \notin R /\ runs[r].cohort # None
      BY <2>1, <1>2
    <3>2. queue' = queue
      BY <3>1
    <3> QED BY <3>1, <3>2 DEF TypeOK
  <2>2. DOMAIN runs' \subseteq 1..started' /\ \A r \in DOMAIN runs' : runs'[r] \in Run
    BY <1>2 DEF TypeOK
  <2>3. started' \in 0..MaxRuns /\ queue' \in Seq(1..started')
    BY <1>3 DEF TypeOK
  <2> QED BY <1>1, <2>1, <2>2, <2>3 DEF TypeOK
<1>5. QueuedAsk'
  BY <1>2, <1>3 DEF QueuedAsk
<1>6. RunsMatch'
  BY <1>2 DEF RunsMatch
<1> QED BY <1>1, <1>4, <1>5, <1>6 DEF DatasetMatches, ToCome, Busy

(* Only the cohort that the filters ask for is given to a run.              *)
LEMMA LoadedKeeps ==
  ASSUME LabInv, NEW r, CohortLoaded(r)
  PROVE  LabInv'
<1> USE DEF LabInv
<1> DEFINE key == CohortKey(runs[r].of)
           next == IF runs[r].known \in TargetsOf[key] THEN settings
                   ELSE [settings EXCEPT !.selected = CHOOSE t \in TargetsOf[key] : TRUE]
<1>1. /\ r \in DOMAIN runs /\ runs[r].cohort = None /\ TargetsOf[key] # {}
      /\ cohort' = key /\ Ask(r) /\ Change(next)
      /\ runs' = [runs EXCEPT ![r].cohort = key, ![r].left = SliceRequests + 1]
      /\ UNCHANGED <<started, loading, error, result>>
  BY DEF CohortLoaded
<1>2. runs[r] \in Run /\ runs[r].of \in Settings /\ key \in Cohorts /\ key # None
  BY <1>1, SomeSettings DEF TypeOK, Run
<1>3. next \in Settings
  <2>1. settings \in Settings
    BY DEF TypeOK
  <2>2. TargetsOf[key] \subseteq Targets
    BY <1>2, LabAssumption DEF Cohorts
  <2>3. (CHOOSE t \in TargetsOf[key] : TRUE) \in Targets
    BY <1>1, <2>2
  <2> QED BY <2>1, <2>3, SomeSettings
<1>4. /\ settings' \in Settings /\ timer' \in Settings \cup {None}
      /\ timer # None => timer' # None
  BY <1>1, <1>3, ChangeKeeps
<1>5. /\ DOMAIN runs' = DOMAIN runs
      /\ runs'[r].of = runs[r].of /\ runs'[r].cohort = key /\ runs'[r].left = SliceRequests + 1
      /\ runs'[r] \in Run
      /\ \A y \in DOMAIN runs : y # r => runs'[y] = runs[y]
  <2>1. /\ DOMAIN runs' = DOMAIN runs
        /\ runs'[r] = [[runs[r] EXCEPT !.cohort = key] EXCEPT !.left = SliceRequests + 1]
        /\ \A y \in DOMAIN runs : y # r => runs'[y] = runs[y]
    BY <1>1
  <2>2. SliceRequests + 1 \in 0..(SliceRequests + 1)
    BY LabAssumption
  <2> QED BY <2>1, <2>2, <1>2 DEF Run
<1> HIDE DEF key, next
<1>6. /\ queue \in Seq(1..started) /\ r \in 1..started
      /\ queue' = Append(queue, r)
  BY <1>1 DEF TypeOK, Ask
<1>7. /\ queue' \in Seq(1..started) /\ Len(queue) \in Nat /\ Len(queue') = Len(queue) + 1
      /\ queue'[Len(queue) + 1] = r
      /\ \A n \in 1..Len(queue) : queue'[n] = queue[n]
  BY <1>6
<1>8. TypeOK'
  <2>1. ASSUME NEW y \in DOMAIN runs', runs'[y].cohort # None
        PROVE  \E n \in 1..Len(queue') : queue'[n] = y
    <3>1. CASE y = r
      BY <3>1, <1>7
    <3>2. CASE y # r
      <4>1. PICK n \in 1..Len(queue) : queue[n] = y
        BY <3>2, <2>1, <1>5 DEF TypeOK
      <4>2. n \in 1..Len(queue') /\ queue'[n] = y
        BY <4>1, <1>7
      <4> QED BY <4>2
    <3> QED BY <3>1, <3>2
  <2>2. DOMAIN runs' \subseteq 1..started' /\ \A y \in DOMAIN runs' : runs'[y] \in Run
    BY <1>1, <1>5 DEF TypeOK
  <2>3. /\ started' \in 0..MaxRuns /\ queue' \in Seq(1..started') /\ loading' \in BOOLEAN
        /\ error' \in BOOLEAN /\ result' \in Shown \cup {None} /\ cohort' \in Cohorts \cup {None}
    BY <1>1, <1>2, <1>7 DEF TypeOK
  <2> QED BY <1>4, <2>1, <2>2, <2>3 DEF TypeOK
<1>9. QueuedAsk'
  <2> SUFFICES ASSUME NEW n \in DOMAIN queue', queue'[n] \in DOMAIN runs'
               PROVE  runs'[queue'[n]].cohort # None /\ runs'[queue'[n]].left # 0
    BY DEF QueuedAsk
  <2>1. runs'[r].cohort # None /\ runs'[r].left # 0
    BY <1>2, <1>5, LabAssumption
  <2>2. DOMAIN queue = 1..Len(queue) /\ (n \in 1..Len(queue) \/ n = Len(queue) + 1)
    BY <1>6, <1>7
  <2>3. CASE queue'[n] = r
    BY <2>1, <2>3
  <2>4. CASE queue'[n] # r
    <3>1. n \in DOMAIN queue /\ queue'[n] = queue[n]
      BY <2>2, <2>4, <1>7
    <3> QED BY <3>1, <2>4, <1>5 DEF QueuedAsk
  <2> QED BY <2>3, <2>4
<1>10. RunsMatch'
  BY <1>5 DEF RunsMatch, key
<1>11. DatasetMatches' /\ Busy'
  BY <1>1, <1>4, <1>5 DEF DatasetMatches, Busy
<1>12. ToCome'
  <2> SUFFICES ASSUME result' = None, ~error'
               PROVE  timer' # None \/ \E y \in DOMAIN runs' : Unanswered(y)'
    BY DEF ToCome
  <2>1. r \in DOMAIN runs' /\ runs'[r].left = SliceRequests + 1
    BY <1>1, <1>5
  <2> QED BY <2>1 DEF Unanswered
<1> QED BY <1>8, <1>9, <1>10, <1>11, <1>12

(* The answer to the main request shows the comparison with the cohort that *)
(* the run asked for; each other one leaves the runs before it as they are. *)
LEMMA AnswerKeeps ==
  ASSUME LabInv, WorkerAnswers
  PROVE  LabInv'
<1> USE DEF LabInv
<1> DEFINE r == Head(queue)
           main == runs[r].left = SliceRequests + 1
<1>1. /\ queue # <<>> /\ queue \in Seq(1..started)
      /\ UNCHANGED <<settings, timer, started, cohort, error>>
  BY DEF WorkerAnswers, TypeOK
<1>2. /\ Tail(queue) \in Seq(1..started) /\ Len(Tail(queue)) = Len(queue) - 1
      /\ Len(queue) \in Nat \ {0} /\ r = queue[1] /\ r \in 1..started
      /\ \A n \in 1..Len(Tail(queue)) : n + 1 \in 1..Len(queue) /\ Tail(queue)[n] = queue[n + 1]
      /\ \A n \in 1..Len(queue) : n = 1 \/ (n - 1 \in 1..Len(Tail(queue)) /\ Tail(queue)[n - 1] = queue[n])
      /\ DOMAIN queue = 1..Len(queue)
  <2>1. /\ Tail(queue) \in Seq(1..started) /\ Len(Tail(queue)) = Len(queue) - 1
        /\ Len(queue) \in Nat \ {0} /\ r = queue[1] /\ DOMAIN queue = 1..Len(queue)
        /\ \A n \in 1..Len(Tail(queue)) : Tail(queue)[n] = queue[n + 1]
    BY <1>1
  <2>2. r \in 1..started
    <3>0. queue \in Seq(1..started)
      BY <1>1
    <3>1. \A n \in 1..Len(queue) : queue[n] \in 1..started
      BY <3>0, ElementOfSeq
    <3>2. 1 \in 1..Len(queue)
      BY <2>1
    <3> QED BY <2>1, <3>1, <3>2
  <2>3. \A n \in 1..Len(Tail(queue)) : n + 1 \in 1..Len(queue)
    BY <2>1
  <2>4. ASSUME NEW n \in 1..Len(queue), n # 1
        PROVE  n - 1 \in 1..Len(Tail(queue)) /\ Tail(queue)[n - 1] = queue[n]
    <3>1. n - 1 \in 1..Len(Tail(queue)) /\ (n - 1) + 1 = n
      BY <2>1, <2>4
    <3> QED BY <2>1, <3>1
  <2> HIDE DEF r
  <2> QED BY <2>1, <2>2, <2>3, <2>4
<1> HIDE DEF r
<1>3. /\ \A y \in DOMAIN runs :
           runs[y].cohort # None /\ y # r => \E n \in 1..Len(Tail(queue)) : Tail(queue)[n] = y
      /\ \A n \in 1..Len(Tail(queue)) : Tail(queue)[n] \in DOMAIN runs =>
           runs[Tail(queue)[n]].cohort # None /\ runs[Tail(queue)[n]].left # 0
  <2>1. ASSUME NEW y \in DOMAIN runs, runs[y].cohort # None, y # r
        PROVE  \E n \in 1..Len(Tail(queue)) : Tail(queue)[n] = y
    <3>1. PICK n \in 1..Len(queue) : queue[n] = y
      BY <2>1 DEF TypeOK
    <3>2. n # 1
      BY <3>1, <2>1, <1>2
    <3> QED BY <3>1, <3>2, <1>2
  <2> QED BY <2>1, <1>2 DEF QueuedAsk
<1>4. CASE r \notin DOMAIN runs
  <2>1. queue' = Tail(queue) /\ UNCHANGED <<runs, result, loading>>
    BY <1>4 DEF WorkerAnswers, r
  <2>2. TypeOK'
    <3>1. \A y \in DOMAIN runs' : runs'[y].cohort # None => \E n \in 1..Len(queue') : queue'[n] = y
      BY <1>3, <1>4, <2>1
    <3> QED BY <1>1, <1>2, <2>1, <3>1 DEF TypeOK
  <2>3. QueuedAsk'
    BY <1>2, <1>3, <2>1 DEF QueuedAsk
  <2> QED BY <1>1, <2>1, <2>2, <2>3 DEF RunsMatch, DatasetMatches, ToCome, Busy, Unanswered
<1>5. CASE r \in DOMAIN runs
  <2>1. /\ runs[r] \in Run /\ runs[r].cohort # None /\ runs[r].left # 0
        /\ runs[r].cohort = CohortKey(runs[r].of)
    BY <1>5, <1>2 DEF TypeOK, QueuedAsk, RunsMatch
  <2>2. result' = IF main THEN [of |-> runs[r].of, cohort |-> runs[r].cohort] ELSE result
    BY <1>5 DEF WorkerAnswers, r
  <2>3. result' \in Shown \cup {None} /\ DatasetMatches' /\ (main => result' # None)
    <3>1. CASE main
      <4>1. result' = [of |-> runs[r].of, cohort |-> runs[r].cohort] /\ result' \in Shown
        BY <3>1, <2>1, <2>2 DEF Run, Shown
      <4>2. result'.of = runs[r].of /\ result'.cohort = runs[r].cohort
        BY <4>1
      <4> QED BY <4>1, <4>2, <2>1, NoneAssumption DEF DatasetMatches, CohortKey
    <3>2. CASE ~main
      BY <3>2, <2>2 DEF TypeOK, DatasetMatches
    <3> QED BY <3>1, <3>2
  <2>4. CASE runs' = Without(runs, {r}) /\ queue' = Tail(queue) /\ loading' = FALSE
             /\ (main \/ runs[r].left = 1)
    <3>1. DOMAIN runs' = DOMAIN runs \ {r} /\ \A y \in DOMAIN runs' : runs'[y] = runs[y]
      BY <2>4 DEF Without
    <3>2. TypeOK'
      <4>1. \A y \in DOMAIN runs' : runs'[y].cohort # None => \E n \in 1..Len(queue') : queue'[n] = y
        BY <1>3, <2>4, <3>1
      <4>2. DOMAIN runs' \subseteq 1..started' /\ \A y \in DOMAIN runs' : runs'[y] \in Run
        BY <1>1, <3>1 DEF TypeOK
      <4> QED BY <1>1, <1>2, <2>3, <2>4, <4>1, <4>2 DEF TypeOK
    <3>3. QueuedAsk'
      <4> SUFFICES ASSUME NEW n \in DOMAIN queue', queue'[n] \in DOMAIN runs'
                   PROVE  runs'[queue'[n]].cohort # None /\ runs'[queue'[n]].left # 0
        BY DEF QueuedAsk
      <4>1. n \in 1..Len(Tail(queue)) /\ queue'[n] = Tail(queue)[n]
        BY <1>2, <2>4
      <4> QED BY <1>3, <3>1, <4>1
    <3>4. RunsMatch'
      BY <3>1 DEF RunsMatch
    <3>5. ToCome'
      BY <1>1, <2>1, <2>2, <2>3, <2>4, <3>1 DEF ToCome, Unanswered
    <3> QED BY <2>3, <2>4, <3>2, <3>3, <3>4, <3>5 DEF Busy
  <2>5. CASE runs' = [runs EXCEPT ![r].left = @ - 1] /\ queue' = Append(Tail(queue), r) /\ UNCHANGED loading
             /\ runs[r].left # 1
    <3>1. /\ DOMAIN runs' = DOMAIN runs
          /\ \A y \in DOMAIN runs : y # r => runs'[y] = runs[y]
          /\ runs'[r] = [runs[r] EXCEPT !.left = runs[r].left - 1]
      BY <1>5, <2>5
    <3>2. /\ runs'[r] \in Run /\ runs'[r].of = runs[r].of /\ runs'[r].cohort = runs[r].cohort
          /\ runs'[r].left # 0
      BY <2>1, <2>5, <3>1, LabAssumption DEF Run
    <3>3. /\ queue' \in Seq(1..started) /\ Len(queue') = Len(Tail(queue)) + 1
          /\ queue'[Len(Tail(queue)) + 1] = r /\ Len(Tail(queue)) \in Nat
          /\ \A n \in 1..Len(Tail(queue)) : queue'[n] = Tail(queue)[n]
      BY <1>2, <2>5
    <3>4. TypeOK'
      <4>1. ASSUME NEW y \in DOMAIN runs', runs'[y].cohort # None
            PROVE  \E n \in 1..Len(queue') : queue'[n] = y
        <5>1. CASE y = r
          BY <5>1, <3>3
        <5>2. CASE y # r
          <6>1. PICK n \in 1..Len(Tail(queue)) : Tail(queue)[n] = y
            BY <5>2, <4>1, <3>1, <1>3
          <6>2. n \in 1..Len(queue') /\ queue'[n] = y
            BY <6>1, <3>3
          <6> QED BY <6>2
        <5> QED BY <5>1, <5>2
      <4>2. DOMAIN runs' \subseteq 1..started' /\ \A y \in DOMAIN runs' : runs'[y] \in Run
        BY <1>1, <3>1, <3>2 DEF TypeOK
      <4> QED BY <1>1, <2>3, <2>5, <3>3, <4>1, <4>2 DEF TypeOK
    <3>5. QueuedAsk'
      <4> SUFFICES ASSUME NEW n \in DOMAIN queue', queue'[n] \in DOMAIN runs'
                   PROVE  runs'[queue'[n]].cohort # None /\ runs'[queue'[n]].left # 0
        BY DEF QueuedAsk
      <4>1. n \in 1..Len(Tail(queue)) \/ n = Len(Tail(queue)) + 1
        BY <3>3
      <4>2. CASE queue'[n] = r
        BY <4>2, <2>1, <3>2
      <4>3. CASE queue'[n] # r
        <5>1. n \in 1..Len(Tail(queue)) /\ queue'[n] = Tail(queue)[n]
          BY <4>1, <4>3, <3>3
        <5> QED BY <5>1, <4>3, <3>1, <1>3
      <4> QED BY <4>2, <4>3
    <3>6. RunsMatch'
      BY <2>1, <3>1, <3>2 DEF RunsMatch
    <3>7. ToCome'
      <4> SUFFICES ASSUME result' = None, ~error', timer' = None
                   PROVE  \E y \in DOMAIN runs' : Unanswered(y)'
        BY DEF ToCome
      <4>1. result = None /\ ~main
        BY <2>2, <2>3
      <4>2. PICK y \in DOMAIN runs : Unanswered(y)
        BY <4>1, <1>1 DEF ToCome
      <4>3. y # r
        BY <4>1, <4>2, <2>1 DEF Unanswered
      <4>4. y \in DOMAIN runs' /\ runs'[y] = runs[y]
        BY <4>2, <4>3, <3>1
      <4> QED BY <4>2, <4>4 DEF Unanswered
    <3>8. Busy'
      BY <1>1, <2>5, <3>1 DEF Busy
    <3> QED BY <2>3, <3>4, <3>5, <3>6, <3>7, <3>8
  <2>6. \/ runs' = Without(runs, {r}) /\ queue' = Tail(queue) /\ loading' = FALSE
           /\ (main \/ runs[r].left = 1)
        \/ runs' = [runs EXCEPT ![r].left = @ - 1] /\ queue' = Append(Tail(queue), r) /\ UNCHANGED loading
           /\ runs[r].left # 1
    BY <1>5 DEF WorkerAnswers, r
  <2> QED BY <2>4, <2>5, <2>6
<1> QED BY <1>4, <1>5

LEMMA LabInitInv == Init => LabInv
<1> SUFFICES ASSUME Init PROVE LabInv OBVIOUS
<1>1. /\ settings \in Settings /\ settings # None /\ timer = settings
      /\ started = 0 /\ runs = <<>> /\ queue = <<>> /\ cohort = None
      /\ loading = TRUE /\ error = FALSE /\ result = None
  BY NoneAssumption DEF Init
<1>2. DOMAIN runs = {} /\ DOMAIN queue = {} /\ queue \in Seq(1..started) /\ 0 \in 0..MaxRuns
  BY <1>1, LabAssumption
<1>3. TypeOK
  BY <1>1, <1>2 DEF TypeOK
<1> QED BY <1>1, <1>2, <1>3 DEF LabInv, QueuedAsk, RunsMatch, DatasetMatches, ToCome, Busy

LEMMA LabNextInv == LabInv /\ [Next]_vars => LabInv'
<1> SUFFICES ASSUME LabInv, [Next]_vars PROVE LabInv' OBVIOUS
<1>0. /\ settings \in Settings /\ timer \in Settings \cup {None} /\ cohort \in Cohorts \cup {None} /\ TypeOK
      /\ settings.selected \in Targets \cup {None}
  BY SomeSettings DEF LabInv, TypeOK
<1>1. ASSUME NEW m \in Mains, ChangeMain(m) PROVE LabInv'
  <2>1. [settings EXCEPT !.main = m] \in Settings
    BY <1>0, SomeSettings
  <2>2. /\ settings' \in Settings /\ timer' \in Settings \cup {None}
        /\ timer # None => timer' # None
    BY <1>0, <1>1, <2>1, ChangeKeeps DEF ChangeMain
  <2>3. UNCHANGED <<started, runs, queue, cohort, loading, error, result>>
    BY <1>1 DEF ChangeMain
  <2>4. TypeOK'
    BY <1>0, <2>2, <2>3 DEF TypeOK
  <2> QED BY <2>2, <2>3, <2>4 DEF LabInv, QueuedAsk, RunsMatch, DatasetMatches, ToCome, Busy, Unanswered
<1>2. ASSUME TimerFires PROVE LabInv'
  <2>1. timer \in Settings /\ timer.selected \in Targets \cup {None}
        /\ Start(timer, timer.selected, cohort) /\ cohort' = cohort
    BY <1>0, <1>2, SomeSettings DEF TimerFires
  <2>2. /\ settings' \in Settings /\ timer' \in Settings \cup {None}
        /\ timer.main \in Illegal => timer' # None
    <3>1. CASE timer.main \in Illegal
      BY <3>1, <1>0, <1>2, SomeSettings, ChangeKeeps DEF TimerFires
    <3>2. CASE timer.main \notin Illegal
      BY <3>2, <1>0, <1>2 DEF TimerFires
    <3> QED BY <3>1, <3>2
  <2> QED BY <1>0, <2>1, <2>2, StartKeeps
<1>3. ASSUME RunButton PROVE LabInv'
  <2>1. Start(settings, settings.selected, cohort) /\ Change(Corrected(settings)) /\ cohort' = cohort
    BY <1>3 DEF RunButton
  <2>2. /\ settings' \in Settings /\ timer' \in Settings \cup {None}
        /\ settings.main \in Illegal => timer' # None
    BY <1>0, <2>1, SomeSettings, ChangeKeeps
  <2> QED BY <1>0, <2>1, <2>2, StartKeeps
<1>4. ASSUME NEW c \in Champions, ApplyChampionFilter(c) PROVE LabInv'
  <2> DEFINE of == [settings EXCEPT !.champion = c]
  <2>1. Start(of, settings.selected, None) /\ Change(Corrected(of)) /\ cohort' = None
    BY <1>4 DEF ApplyChampionFilter
  <2>2. of \in Settings /\ of.main = settings.main
    BY <1>0, SomeSettings
  <2> HIDE DEF of
  <2>3. /\ settings' \in Settings /\ timer' \in Settings \cup {None}
        /\ of.main \in Illegal => timer' # None
    BY <1>0, <2>1, <2>2, SomeSettings, ChangeKeeps
  <2> QED BY <1>0, <2>1, <2>2, <2>3, StartKeeps
<1>5. ASSUME NEW t \in Targets, SelectTarget(t) PROVE LabInv'
  <2> DEFINE of == [settings EXCEPT !.selected = t]
  <2>1. Start(of, settings.selected, cohort) /\ Change(Corrected(of)) /\ cohort' = cohort
    BY <1>5 DEF SelectTarget
  <2>2. of \in Settings /\ of.main = settings.main
    BY <1>0, SomeSettings
  <2> HIDE DEF of
  <2>3. /\ settings' \in Settings /\ timer' \in Settings \cup {None}
        /\ of.main \in Illegal => timer' # None
    BY <1>0, <2>1, <2>2, SomeSettings, ChangeKeeps
  <2> QED BY <1>0, <2>1, <2>2, <2>3, StartKeeps
<1>6. ASSUME NEW r \in 1..MaxRuns, CohortLoaded(r) PROVE LabInv'
  BY <1>6, LoadedKeeps
<1>7. ASSUME NEW r \in 1..MaxRuns, CohortFails(r) PROVE LabInv'
  <2>1. Fail({r}) /\ UNCHANGED <<settings, timer, started, queue>>
        /\ r \in DOMAIN runs
        /\ cohort' \in {cohort, CohortKey(runs[r].of)}
    BY <1>7 DEF CohortFails
  <2>2. runs[r].of \in Settings
    BY <1>0, <2>1 DEF TypeOK, Run
  <2>3. cohort' \in Cohorts \cup {None}
    BY <1>0, <2>1, <2>2, SomeSettings
  <2> QED BY <1>0, <2>1, <2>3, FailKeeps
<1>8. ASSUME WorkerAnswers PROVE LabInv'
  BY <1>8, AnswerKeeps
<1>9. ASSUME WorkerThrows PROVE LabInv'
  <2> DEFINE waiting == {r \in DOMAIN runs : runs[r].cohort # None}
  <2>1. queue # <<>> /\ queue' = Tail(queue) /\ UNCHANGED <<settings, timer, started, cohort>>
    BY <1>9 DEF WorkerThrows
  <2>2. CASE Fail(waiting)
    BY <1>0, <2>1, <2>2, FailKeeps
  <2>3. CASE waiting = {} /\ UNCHANGED <<runs, result, error, loading>>
    <3>1. queue \in Seq(1..started)
      BY <1>0 DEF TypeOK
    <3>2. /\ queue' \in Seq(1..started)
          /\ \A n \in DOMAIN queue' : \E m \in DOMAIN queue : queue'[n] = queue[m]
      <4>1. /\ queue' \in Seq(1..started) /\ Len(queue') = Len(queue) - 1
            /\ \A n \in 1..Len(queue') : queue'[n] = queue[n + 1]
        BY <2>1, <3>1
      <4>2. \A n \in 1..Len(queue') : n + 1 \in 1..Len(queue)
        BY <3>1, <4>1
      <4> QED BY SMTT(30), <3>1, <4>1, <4>2
    <3>3. TypeOK'
      BY <1>0, <2>1, <2>3, <3>2 DEF TypeOK
    <3>4. QueuedAsk'
      BY <2>3, <3>2 DEF LabInv, QueuedAsk
    <3> QED BY <2>1, <2>3, <3>3, <3>4 DEF LabInv, RunsMatch, DatasetMatches, ToCome, Busy, Unanswered
  <2> QED BY <1>9, <2>2, <2>3 DEF WorkerThrows
<1>10. CASE UNCHANGED vars
  <2>1. TypeOK'
    BY <1>0, <1>10 DEF TypeOK, vars
  <2> QED BY <2>1, <1>10 DEF vars, LabInv, QueuedAsk, RunsMatch, DatasetMatches, ToCome, Busy, Unanswered
<1> QED BY <1>1, <1>2, <1>3, <1>4, <1>5, <1>6, <1>7, <1>8, <1>9, <1>10 DEF Next

(* The runs of the lab, however many overlap, keep their invariant.         *)
THEOREM ComparisonInvariant == Spec => []LabInv
BY LabInitInv, LabNextInv, PTL DEF Spec

THEOREM ComparisonTyped == Spec => []TypeOK
BY ComparisonInvariant, PTL DEF LabInv

(* What is shown was compared with the cohort of its own filters: the cache *)
(* never serves one run what another one loaded for other filters.          *)
THEOREM ComparisonMatches == Spec => []DatasetMatches
BY ComparisonInvariant, PTL DEF LabInv

(* The lab is never left blank: when no timer and no run is under way, it   *)
(* shows a comparison or an error and is not loading.                       *)
THEOREM LabNeverBlank == Spec => []NeverBlank
<1>1. LabInv => NeverBlank
  <2> SUFFICES ASSUME LabInv, timer = None, runs = <<>>
               PROVE  ~loading /\ (result # None \/ error)
    BY DEF NeverBlank, Quiet
  <2>1. DOMAIN runs = {}
    OBVIOUS
  <2> QED BY <2>1 DEF LabInv, ToCome, Busy
<1> QED BY <1>1, ComparisonInvariant, PTL

-----------------------------------------------------------------------------
(* The editor.                                                             *)

(* The pending request is the newest one and was made at this revision;     *)
(* while it is pending nothing has been done since.                         *)
PendingNewest ==
  /\ pending # None => /\ pending.requestId = requestSequence
                       /\ pending.revision = revision
  /\ \A s \in sent : s.request.requestId <= requestSequence
  /\ \A s \in sent : (pending # None /\ s.request.requestId = requestSequence)
                        => s.asked = acts

(* A text lies beside an override of the search settings that holds its     *)
(* amount, if it has one.                                                   *)
TextOverridden ==
  text # None =>
    /\ overrides[Search] # Unset
    /\ ParseAmount[text] # None => overrides[Search].amount = ParseAmount[text]

EditorInv == EditorTypeOK /\ PendingNewest /\ TextOverridden /\ OnlyCurrentAnswers

LEMMA SearchIsField == Search \in Fields /\ ValuesOf(Search) = Constraints
BY DEF Fields, ValuesOf

LEMMA DraftSearch ==
  ASSUME EditorTypeOK
  PROVE  /\ Draft[Search] \in Constraints
         /\ Draft[Search] = IF overrides[Search] = Unset THEN defaults[Search]
                                                         ELSE overrides[Search]
<1>1. defaults[Search] \in Constraints
  BY SearchIsField DEF EditorTypeOK, Scenarios
<1>2. overrides[Search] \in Constraints \cup {Unset}
  BY SearchIsField DEF EditorTypeOK
<1>3. Draft[Search] = IF overrides[Search] = Unset THEN defaults[Search]
                                                   ELSE overrides[Search]
  BY SearchIsField DEF Draft
<1> QED BY <1>1, <1>2, <1>3

-----------------------------------------------------------------------------
(* What the invariant says holds of a fresh editor.                         *)
LEMMA EditorInitInv == EditorInit => EditorInv
<1> SUFFICES ASSUME EditorInit PROVE EditorInv OBVIOUS
<1>1. EditorTypeOK
  <2>1. defaults \in Scenarios /\ overrides = [f \in Fields |-> Unset]
    BY EditorAssumption DEF EditorInit
  <2>2. overrides \in [Fields -> Values \cup Constraints \cup {Unset}]
    BY <2>1
  <2>3. \A f \in Fields : overrides[f] \in ValuesOf(f) \cup {Unset}
    BY <2>1
  <2>4. 0 \in 0..MaxSafe
    BY EditorAssumption
  <2>5. revision \in 0..MaxSafe /\ requestSequence \in 0..MaxSafe
    BY <2>4 DEF EditorInit
  <2>7. pending \in Requests \cup {None} /\ issues \in BOOLEAN /\ text \in Texts \cup {None}
    BY DEF EditorInit
  <2>8. acts \in Nat /\ gap \in Int
    BY DEF EditorInit
  <2>6. sent \subseteq [request : Requests, asked : Nat]
    BY DEF EditorInit
  <2> QED BY <2>1, <2>2, <2>3, <2>5, <2>6, <2>7, <2>8 DEF EditorTypeOK
<1> QED BY <1>1 DEF EditorInv, EditorInit, PendingNewest, TextOverridden, OnlyCurrentAnswers

(* Every edit and reset gives up the pending request.                       *)
LEMMA ReviseInv ==
  ASSUME EditorInv, NEW o, Revise(o),
         o \in [Fields -> Values \cup Constraints \cup {Unset}],
         \A f \in Fields : o[f] \in ValuesOf(f) \cup {Unset},
         text' \in Texts \cup {None},
         text' # None =>
           /\ o[Search] # Unset
           /\ ParseAmount[text'] # None => o[Search].amount = ParseAmount[text']
  PROVE  EditorInv'
<1> USE DEF EditorInv
<1>1. EditorTypeOK'
  <2>1. revision' \in 0..MaxSafe /\ acts' \in Nat
    BY EditorAssumption DEF EditorTypeOK, Revise
  <2>2. overrides' = o /\ pending' = None /\ issues' = FALSE
        /\ UNCHANGED <<defaults, requestSequence, sent, gap>>
    BY DEF Revise
  <2>3. /\ overrides' \in [Fields -> Values \cup Constraints \cup {Unset}]
        /\ \A f \in Fields : overrides'[f] \in ValuesOf(f) \cup {Unset}
    BY <2>2
  <2>4. /\ defaults' \in Scenarios /\ requestSequence' \in 0..MaxSafe
        /\ pending' \in Requests \cup {None} /\ issues' \in BOOLEAN
        /\ sent' \subseteq [request : Requests, asked : Nat] /\ gap' \in Int
    BY <2>2 DEF EditorTypeOK
  <2> QED BY <2>1, <2>3, <2>4 DEF EditorTypeOK
<1>2. PendingNewest'
  BY DEF PendingNewest, Revise
<1>3. TextOverridden'
  BY DEF TextOverridden, Revise
<1>4. OnlyCurrentAnswers'
  BY DEF OnlyCurrentAnswers, Revise
<1> QED BY <1>1, <1>2, <1>3, <1>4

(* Overriding one field with a value of its own keeps the overrides typed.  *)
LEMMA OverrideTyped ==
  ASSUME EditorTypeOK, NEW f \in Fields, NEW v \in ValuesOf(f) \cup {Unset}
  PROVE  /\ [overrides EXCEPT ![f] = v] \in [Fields -> Values \cup Constraints \cup {Unset}]
         /\ \A g \in Fields : [overrides EXCEPT ![f] = v][g] \in ValuesOf(g) \cup {Unset}
         /\ \A g \in Fields : [overrides EXCEPT ![f] = v][g] = IF g = f THEN v ELSE overrides[g]
<1>1. v \in Values \cup Constraints \cup {Unset}
  BY DEF ValuesOf
<1>2. \A g \in Fields : [overrides EXCEPT ![f] = v][g] = IF g = f THEN v ELSE overrides[g]
  BY DEF EditorTypeOK
<1>3. [overrides EXCEPT ![f] = v] \in [Fields -> Values \cup Constraints \cup {Unset}]
  BY <1>1 DEF EditorTypeOK
<1>4. ASSUME NEW g \in Fields
      PROVE  [overrides EXCEPT ![f] = v][g] \in ValuesOf(g) \cup {Unset}
  BY <1>2 DEF EditorTypeOK
<1> QED BY <1>2, <1>3, <1>4

(* A text that stays or comes must still lie beside its override.           *)
LEMMA FieldInv ==
  ASSUME EditorInv, NEW f \in Fields, NEW v \in ValuesOf(f) \cup {Unset},
         Revise([overrides EXCEPT ![f] = v]),
         text' \in Texts \cup {None},
         text' # None /\ f = Search =>
           v # Unset /\ (ParseAmount[text'] # None => v.amount = ParseAmount[text']),
         text' # None /\ f # Search => text' = text
  PROVE  EditorInv'
<1> DEFINE o == [overrides EXCEPT ![f] = v]
<1>1. /\ o \in [Fields -> Values \cup Constraints \cup {Unset}]
      /\ \A g \in Fields : o[g] \in ValuesOf(g) \cup {Unset}
      /\ \A g \in Fields : o[g] = IF g = f THEN v ELSE overrides[g]
  BY OverrideTyped DEF EditorInv
<1> HIDE DEF o
<1>2. o[Search] = IF f = Search THEN v ELSE overrides[Search]
  BY <1>1, SearchIsField
<1>3. text' # None =>
        /\ o[Search] # Unset
        /\ ParseAmount[text'] # None => o[Search].amount = ParseAmount[text']
  BY <1>2 DEF EditorInv, TextOverridden
<1>4. Revise(o)
  BY DEF o
<1> QED BY <1>1, <1>3, <1>4, ReviseInv

LEMMA ResetAllInv ==
  ASSUME EditorInv, ResetAll PROVE EditorInv'
<1> DEFINE o == [f \in Fields |-> Unset]
<1>1. /\ o \in [Fields -> Values \cup Constraints \cup {Unset}]
      /\ \A g \in Fields : o[g] \in ValuesOf(g) \cup {Unset}
  OBVIOUS
<1>2. Revise(o) /\ text' = None
  BY DEF ResetAll
<1> HIDE DEF o
<1> QED BY <1>1, <1>2, ReviseInv

(* Typing an amount and setting the rest both override the whole group.     *)
LEMMA GroupInv ==
  ASSUME EditorInv, NEW c \in Constraints, Revise([overrides EXCEPT ![Search] = c]),
         text' \in Texts \cup {None},
         text' # None /\ ParseAmount[text'] # None => c.amount = ParseAmount[text']
  PROVE  EditorInv'
<1>1. c \in ValuesOf(Search) \cup {Unset} /\ c # Unset
  BY SearchIsField, EditorAssumption
<1> QED BY <1>1, SearchIsField, FieldInv

LEMMA TypeAmountInv ==
  ASSUME EditorInv, NEW t \in Texts, TypeAmount(t) PROVE EditorInv'
<1> DEFINE amount == IF ParseAmount[t] = None THEN Draft[Search].amount ELSE ParseAmount[t]
           c == [amount |-> amount, rest |-> Draft[Search].rest]
<1>1. Draft[Search] \in Constraints
  BY DraftSearch DEF EditorInv
<1>2. amount \in Amounts
  BY <1>1, EditorAssumption DEF Constraints, Amounts
<1>3. c \in Constraints /\ c.amount = amount
  BY <1>1, <1>2 DEF Constraints
<1>4. Revise([overrides EXCEPT ![Search] = c]) /\ text' = t
  BY DEF TypeAmount
<1>5. text' # None /\ ParseAmount[text'] # None => c.amount = ParseAmount[text']
  BY <1>3, <1>4
<1> HIDE DEF c
<1> QED BY <1>3, <1>4, <1>5, GroupInv

LEMMA EditSettingsInv ==
  ASSUME EditorInv, NEW s \in SearchSettings, EditSettings(s) PROVE EditorInv'
<1> DEFINE c == [amount |-> Draft[Search].amount, rest |-> s]
<1>1. Draft[Search] \in Constraints
  BY DraftSearch DEF EditorInv
<1>2. c \in Constraints /\ c.amount = Draft[Search].amount
  BY <1>1 DEF Constraints
<1>3. Revise([overrides EXCEPT ![Search] = c]) /\ text' = text
  BY DEF EditSettings
<1>4. text # None => Draft[Search] = overrides[Search]
  BY DraftSearch DEF EditorInv, TextOverridden
<1>5. text' # None /\ ParseAmount[text'] # None => c.amount = ParseAmount[text']
  BY <1>2, <1>3, <1>4 DEF EditorInv, TextOverridden
<1>6. text' \in Texts \cup {None}
  BY <1>3 DEF EditorInv, EditorTypeOK
<1> HIDE DEF c
<1> QED BY <1>2, <1>3, <1>5, <1>6, GroupInv

(* A request is the newest when it is made.                                 *)
LEMMA RequestInv ==
  ASSUME EditorInv, RequestDefaults PROVE EditorInv'
<1> USE DEF EditorInv
<1> DEFINE request == [requestId |-> requestSequence + 1, revision |-> revision]
           new == [request |-> request, asked |-> acts + 1]
<1>1. /\ requestSequence < MaxSafe /\ requestSequence' = requestSequence + 1
      /\ pending' = request /\ acts' = acts + 1 /\ sent' = sent \cup {new}
      /\ UNCHANGED <<defaults, overrides, revision, text, gap>> /\ issues' = FALSE
  BY DEF RequestDefaults
<1>2. /\ revision \in 0..MaxSafe /\ requestSequence \in 0..MaxSafe /\ acts \in Nat
      /\ MaxSafe \in Nat
  BY EditorAssumption DEF EditorTypeOK
<1>3. request \in Requests
  BY <1>1, <1>2 DEF Requests
<1>4. new \in [request : Requests, asked : Nat]
  BY <1>2, <1>3
<1>5. EditorTypeOK'
  <2>1. requestSequence' \in 0..MaxSafe /\ acts' \in Nat
    BY <1>1, <1>2
  <2>2. pending' \in Requests \cup {None} /\ issues' \in BOOLEAN
    BY <1>1, <1>3
  <2>3. sent' \subseteq [request : Requests, asked : Nat]
    BY <1>1, <1>4 DEF EditorTypeOK
  <2> HIDE DEF new
  <2>4. /\ defaults' \in Scenarios
        /\ overrides' \in [Fields -> Values \cup Constraints \cup {Unset}]
        /\ \A f \in Fields : overrides'[f] \in ValuesOf(f) \cup {Unset}
        /\ revision' \in 0..MaxSafe /\ text' \in Texts \cup {None} /\ gap' \in Int
    BY <1>1 DEF EditorTypeOK
  <2> QED BY <2>1, <2>2, <2>3, <2>4 DEF EditorTypeOK
<1>6. PendingNewest'
  <2>1. pending' # None => /\ pending'.requestId = requestSequence'
                           /\ pending'.revision = revision'
    BY <1>1
  <2>2. new.request.requestId = requestSequence + 1 /\ new.asked = acts + 1
    OBVIOUS
  <2>3. ASSUME NEW s \in sent'
        PROVE  /\ s.request.requestId <= requestSequence'
               /\ s.request.requestId = requestSequence' => s.asked = acts'
    <3>1. CASE s = new
      BY <1>1, <1>2, <2>2, <3>1
    <3>2. CASE s \in sent
      <4>1. s.request.requestId \in Nat /\ s.request.requestId <= requestSequence
        BY <3>2 DEF EditorTypeOK, Requests, PendingNewest
      <4> QED BY <1>1, <1>2, <4>1
    <3> QED BY <1>1, <3>1, <3>2
  <2> QED BY <2>1, <2>3 DEF PendingNewest
<1>7. TextOverridden'
  BY <1>1 DEF TextOverridden
<1>8. OnlyCurrentAnswers'
  BY <1>1 DEF OnlyCurrentAnswers
<1> QED BY <1>5, <1>6, <1>7, <1>8

(* An answer that matches is an answer to the newest request, after which   *)
(* nothing was done.                                                        *)
LEMMA ReceiveInv ==
  ASSUME EditorInv, NEW s \in sent, NEW value \in Lawful, ReceiveDefaults(s, value)
  PROVE  EditorInv'
<1> USE DEF EditorInv
<1>1. s.request.requestId = requestSequence /\ pending # None
  BY DEF ReceiveDefaults, MatchesRequest, PendingNewest
<1>2. s.asked = acts
  BY <1>1 DEF PendingNewest
<1>3. gap' = 0
  BY <1>2 DEF ReceiveDefaults, EditorTypeOK
<1>4. EditorTypeOK'
  <2>1. revision' \in 0..MaxSafe /\ gap' \in Int
    BY <1>3, EditorAssumption DEF ReceiveDefaults, EditorTypeOK
  <2>2. /\ defaults' = value /\ pending' = None /\ issues' = FALSE
        /\ UNCHANGED <<overrides, requestSequence, text, sent, acts>>
    BY DEF ReceiveDefaults
  <2>3. /\ defaults' \in Scenarios
        /\ pending' \in Requests \cup {None} /\ issues' \in BOOLEAN
    BY <2>2, EditorAssumption
  <2>4. /\ overrides' \in [Fields -> Values \cup Constraints \cup {Unset}]
        /\ \A f \in Fields : overrides'[f] \in ValuesOf(f) \cup {Unset}
        /\ requestSequence' \in 0..MaxSafe /\ text' \in Texts \cup {None}
        /\ sent' \subseteq [request : Requests, asked : Nat] /\ acts' \in Nat
    BY <2>2 DEF EditorTypeOK
  <2> QED BY <2>1, <2>3, <2>4 DEF EditorTypeOK
<1>5. PendingNewest'
  BY DEF ReceiveDefaults, PendingNewest
<1>6. TextOverridden'
  BY DEF ReceiveDefaults, TextOverridden
<1> QED BY <1>3, <1>4, <1>5, <1>6 DEF OnlyCurrentAnswers

LEMMA RefuseInv ==
  ASSUME EditorInv, NEW s \in sent, RefuseDefaults(s) PROVE EditorInv'
BY DEF EditorInv, RefuseDefaults, EditorTypeOK, PendingNewest, TextOverridden, OnlyCurrentAnswers

LEMMA EditorNextInv == EditorInv /\ [EditorNext]_editorVars => EditorInv'
<1> SUFFICES ASSUME EditorInv, [EditorNext]_editorVars PROVE EditorInv' OBVIOUS
<1>0. text \in Texts \cup {None}
  BY DEF EditorInv, EditorTypeOK
<1>1. ASSUME NEW f \in Fields, NEW v \in ValuesOf(f), EditField(f, v) PROVE EditorInv'
  BY <1>0, <1>1, FieldInv DEF EditField
<1>2. ASSUME NEW f \in Fields, ResetField(f) PROVE EditorInv'
  BY <1>0, <1>2, FieldInv DEF ResetField
<1>3. CASE UNCHANGED editorVars
  BY <1>3 DEF editorVars, EditorInv, EditorTypeOK, PendingNewest, TextOverridden, OnlyCurrentAnswers
<1> QED BY <1>1, <1>2, <1>3, ResetAllInv, TypeAmountInv, EditSettingsInv,
           RequestInv, ReceiveInv, RefuseInv DEF EditorNext

LEMMA AlwaysEditorInv == EditorSpec => []EditorInv
BY EditorInitInv, EditorNextInv, PTL DEF EditorSpec

-----------------------------------------------------------------------------
(* Every reachable editor has its type.                                     *)
THEOREM EditorTyped == EditorSpec => []EditorTypeOK
<1>1. EditorInv => EditorTypeOK BY DEF EditorInv
<1> QED BY <1>1, AlwaysEditorInv, PTL

(* Late, repeated and reordered answers never replace the defaults of an    *)
(* editor in which something was done since they were asked for.            *)
THEOREM LateAnswersIgnored == EditorSpec => []OnlyCurrentAnswers
<1>1. EditorInv => OnlyCurrentAnswers BY DEF EditorInv
<1> QED BY <1>1, AlwaysEditorInv, PTL

(* The amount that is serialized is the amount on display, and no amount is *)
(* serialized while the text on display is none.                            *)
THEOREM AmountAsShown == EditorSpec => []SerializedAsShown
<1>1. ASSUME EditorInv PROVE SerializedAsShown
  <2>1. /\ Draft[Search] \in Constraints
        /\ Draft[Search] = IF overrides[Search] = Unset THEN defaults[Search]
                                                        ELSE overrides[Search]
    BY <1>1, DraftSearch DEF EditorInv
  <2>2. CASE text = None
    BY <2>2 DEF SerializedAsShown, SerializedAmount, ShownAmount
  <2>3. CASE text # None /\ ParseAmount[text] = None
    BY <2>3 DEF SerializedAsShown, SerializedAmount, ShownAmount
  <2>4. CASE text # None /\ ParseAmount[text] # None
    <3>1. Draft[Search].amount = ParseAmount[text]
      BY <1>1, <2>1, <2>4 DEF EditorInv, TextOverridden
    <3> QED BY <2>4, <3>1 DEF SerializedAsShown, SerializedAmount, ShownAmount
  <2> QED BY <2>2, <2>3, <2>4
<1> QED BY <1>1, AlwaysEditorInv, PTL

-----------------------------------------------------------------------------
(* The ranks of skills: what every level and every correction of ranks     *)
(* gives is legal.                                                         *)

(* The ranks that the page works with have a whole number for each key.     *)
AnyRanks == [SkillKeys -> Int]

LEMMA BoundIs ==
  \A l \in Levels :
    /\ \A k \in {"q", "w", "e"} : Bound(l)[k] = IF 5 <= l THEN 5 ELSE l
    /\ Bound(l)["r"] = IF l >= 16 THEN 3 ELSE IF l >= 11 THEN 2 ELSE IF l >= 6 THEN 1 ELSE 0
BY DEF Bound, SkillKeys, Least, Levels

LEMMA LegalIs ==
  \A l \in Levels, x \in AnyRanks :
    IsLegalSkillRanks(x, l) <=>
      /\ 0 <= x["q"] /\ x["q"] <= Bound(l)["q"] /\ 0 <= x["w"] /\ x["w"] <= Bound(l)["w"]
      /\ 0 <= x["e"] /\ x["e"] <= Bound(l)["e"] /\ 0 <= x["r"] /\ x["r"] <= Bound(l)["r"]
      /\ x["q"] + x["w"] + x["e"] + x["r"] <= l
<1> SUFFICES ASSUME NEW l \in Levels, NEW x \in AnyRanks
             PROVE  IsLegalSkillRanks(x, l) <=>
      /\ 0 <= x["q"] /\ x["q"] <= Bound(l)["q"] /\ 0 <= x["w"] /\ x["w"] <= Bound(l)["w"]
      /\ 0 <= x["e"] /\ x["e"] <= Bound(l)["e"] /\ 0 <= x["r"] /\ x["r"] <= Bound(l)["r"]
      /\ x["q"] + x["w"] + x["e"] + x["r"] <= l
  OBVIOUS
<1>1. \A k \in SkillKeys : x[k] \in Int /\ Bound(l)[k] \in Int
  BY BoundIs DEF AnyRanks, SkillKeys, Levels
<1>2. (\A k \in SkillKeys : x[k] \in 0..Bound(l)[k]) <=>
        \A k \in SkillKeys : 0 <= x[k] /\ x[k] <= Bound(l)[k]
  BY <1>1
<1> HIDE DEF AnyRanks
<1> QED BY <1>2 DEF IsLegalSkillRanks, Total, SkillKeys

LEMMA LegalAbove ==
  \A l, m \in Levels, x \in AnyRanks :
    l <= m /\ IsLegalSkillRanks(x, l) => IsLegalSkillRanks(x, m)
<1> SUFFICES ASSUME NEW l \in Levels, NEW m \in Levels, NEW x \in AnyRanks, l <= m, IsLegalSkillRanks(x, l)
             PROVE  IsLegalSkillRanks(x, m)
  OBVIOUS
<1>1. \A k \in SkillKeys : Bound(l)[k] <= Bound(m)[k] /\ Bound(l)[k] \in Int /\ Bound(m)[k] \in Int
  BY BoundIs DEF SkillKeys, Levels
<1>2. x["q"] \in Int /\ x["w"] \in Int /\ x["e"] \in Int /\ x["r"] \in Int
  BY DEF AnyRanks, SkillKeys
<1> QED BY SMTT(30), <1>1, <1>2, LegalIs DEF SkillKeys, Levels

LEMMA DefaultLegal ==
  \A l \in Levels : DefaultSkillRanks(l) \in AnyRanks /\ IsLegalSkillRanks(DefaultSkillRanks(l), l)
<1> SUFFICES ASSUME NEW l \in Levels
             PROVE  DefaultSkillRanks(l) \in AnyRanks /\ IsLegalSkillRanks(DefaultSkillRanks(l), l)
  OBVIOUS
<1> DEFINE d == DefaultSkillRanks(l)
           r == Bound(l)["r"]
           n == l - r
<1>1. d["r"] = r /\ d["q"] = Spent(n).q /\ d["w"] = Spent(n).w /\ d["e"] = Spent(n).e
  BY DEF DefaultSkillRanks, SkillKeys, Spent
<1>2. r \in Int /\ n \in 1..15 /\ r >= 0 /\ Bound(l)["q"] \in Int /\ Bound(l)["w"] = Bound(l)["q"]
      /\ Bound(l)["e"] = Bound(l)["q"] /\ (n <= Bound(l)["q"] \/ Bound(l)["q"] = 5)
  BY BoundIs DEF Levels
<1> HIDE DEF n, r
<1>3. /\ Spent(n).q = IF 5 <= n THEN 5 ELSE n
      /\ Spent(n).w = IF 5 <= n THEN (IF 5 <= n - 5 THEN 5 ELSE n - 5) ELSE 0
      /\ Spent(n).e = IF 10 <= n THEN (IF 5 <= n - 10 THEN 5 ELSE n - 10) ELSE 0
  BY <1>2 DEF Spent, Least
<1>4. d = [k \in SkillKeys |-> d[k]]
  BY DEF DefaultSkillRanks
<1> HIDE DEF d
<1>5. d["q"] \in Int /\ d["w"] \in Int /\ d["e"] \in Int /\ d["r"] \in Int
  BY <1>1, <1>2, <1>3
<1>6. d \in AnyRanks
  BY <1>4, <1>5 DEF AnyRanks, SkillKeys
<1>7. d["q"] + d["w"] + d["e"] + d["r"] <= l
  BY <1>1, <1>2, <1>3, <1>5 DEF n, Levels
<1>8. /\ 0 <= d["q"] /\ d["q"] <= Bound(l)["q"] /\ 0 <= d["w"] /\ d["w"] <= Bound(l)["w"]
      /\ 0 <= d["e"] /\ d["e"] <= Bound(l)["e"] /\ 0 <= d["r"] /\ d["r"] <= Bound(l)["r"]
  BY <1>1, <1>2, <1>3 DEF r
<1>9. IsLegalSkillRanks(d, l)
  BY <1>6, <1>7, <1>8, LegalIs
<1> QED BY <1>6, <1>9 DEF d

LEMMA ClampLegal ==
  \A l \in Levels, x \in AnyRanks :
    ClampSkillRanks(x, l) \in AnyRanks /\ IsLegalSkillRanks(ClampSkillRanks(x, l), l)
<1> SUFFICES ASSUME NEW l \in Levels, NEW x \in AnyRanks
             PROVE  ClampSkillRanks(x, l) \in AnyRanks /\ IsLegalSkillRanks(ClampSkillRanks(x, l), l)
  OBVIOUS
<1> DEFINE next == [k \in SkillKeys |-> Clipped(x[k], Bound(l)[k])]
           over == Clipped(Total(next) - l, Total(next))
           e == Least(next["e"], over)
           w == Least(next["w"], over - e)
           q == Least(next["q"], over - e - w)
           c == [next EXCEPT !["e"] = @ - e, !["w"] = @ - w, !["q"] = @ - q,
                   !["r"] = @ - (over - e - w - q)]
<1>1. ClampSkillRanks(x, l) = c
  BY DEF ClampSkillRanks
<1>2. \A k \in SkillKeys : Bound(l)[k] \in Int /\ Bound(l)[k] >= 0 /\ x[k] \in Int
  BY BoundIs DEF SkillKeys, Levels, AnyRanks
<1>3. \A k \in SkillKeys : next[k] \in Int /\ 0 <= next[k] /\ next[k] <= Bound(l)[k]
  BY <1>2 DEF Clipped, Least
<1>4. DOMAIN next = SkillKeys
  OBVIOUS
<1>5. /\ c["e"] = next["e"] - e /\ c["w"] = next["w"] - w /\ c["q"] = next["q"] - q
      /\ c["r"] = next["r"] - (((over - e) - w) - q)
      /\ c = [k \in SkillKeys |-> c[k]]
  BY <1>4 DEF SkillKeys
<1> DEFINE sum == Total(next)
<1>6. sum = next["q"] + next["w"] + next["e"] + next["r"]
  BY DEF Total
<1> HIDE DEF next, c
<1>7. /\ next["q"] \in Int /\ next["w"] \in Int /\ next["e"] \in Int /\ next["r"] \in Int
      /\ 0 <= next["q"] /\ 0 <= next["w"] /\ 0 <= next["e"] /\ 0 <= next["r"]
      /\ next["q"] <= Bound(l)["q"] /\ next["w"] <= Bound(l)["w"]
      /\ next["e"] <= Bound(l)["e"] /\ next["r"] <= Bound(l)["r"]
  BY <1>3 DEF SkillKeys
<1>8. sum \in Int /\ l \in Int /\ l > 0
  BY <1>6, <1>7 DEF Levels
<1>9. over \in Int /\ 0 <= over /\ over <= sum /\ sum - over <= l
  <2>1. over = IF sum - l < 0 THEN 0 ELSE IF sum <= sum - l THEN sum ELSE sum - l
    BY DEF Clipped, Least
  <2> HIDE DEF over, sum
  <2>2. sum >= 0
    BY <1>6, <1>7
  <2> QED BY <1>8, <2>1, <2>2
<1> HIDE DEF over, sum
<1>10. e \in Int /\ 0 <= e /\ e <= next["e"] /\ e <= over /\ (e = next["e"] \/ e = over)
  BY <1>7, <1>9 DEF Least
<1> HIDE DEF e
<1>11. w \in Int /\ 0 <= w /\ w <= next["w"] /\ w <= over - e /\ (w = next["w"] \/ w = over - e)
  BY <1>7, <1>9, <1>10 DEF Least
<1> HIDE DEF w
<1>12. q \in Int /\ 0 <= q /\ q <= next["q"] /\ q <= (over - e) - w /\ (q = next["q"] \/ q = (over - e) - w)
  BY <1>7, <1>9, <1>10, <1>11 DEF Least
<1> HIDE DEF q
<1>13. /\ c["q"] \in Int /\ c["w"] \in Int /\ c["e"] \in Int /\ c["r"] \in Int
       /\ 0 <= c["q"] /\ 0 <= c["w"] /\ 0 <= c["e"] /\ 0 <= c["r"]
       /\ c["q"] <= next["q"] /\ c["w"] <= next["w"] /\ c["e"] <= next["e"] /\ c["r"] <= next["r"]
       /\ c["q"] + c["w"] + c["e"] + c["r"] = sum - over
  <2> DEFINE left == ((over - e) - w) - q
  <2>1. left \in Int /\ 0 <= left /\ left <= next["r"]
    <3>1. left \in Int /\ 0 <= left
      BY <1>9, <1>10, <1>11, <1>12
    <3>2. left > 0 => e = next["e"] /\ w = next["w"] /\ q = next["q"]
      BY <1>9, <1>10, <1>11, <1>12
    <3>3. over <= next["q"] + next["w"] + next["e"] + next["r"] /\ over \in Int
      BY <1>6, <1>9
    <3>4. e = next["e"] /\ w = next["w"] /\ q = next["q"] => left <= next["r"]
      BY <1>7, <3>3
    <3> QED BY <1>7, <3>1, <3>2, <3>4
  <2>l. left + e + w + q = over
    BY <1>9, <1>10, <1>11, <1>12
  <2> HIDE DEF left
  <2>r. c["r"] = next["r"] - left
    BY <1>5 DEF left
  <2>2. /\ c["r"] \in Int /\ 0 <= c["r"] /\ c["r"] <= next["r"]
        /\ c["q"] + c["w"] + c["e"] + c["r"] = sum - over
    <3>1. c["r"] \in Int /\ 0 <= c["r"] /\ c["r"] <= next["r"]
      BY <1>7, <2>1, <2>r
    <3>2. sum - over = (next["q"] - q) + (next["w"] - w) + (next["e"] - e) + (next["r"] - left)
      <4>1. over = left + e + w + q /\ left \in Int /\ e \in Int /\ w \in Int /\ q \in Int
        BY <1>10, <1>11, <1>12, <2>1, <2>l
      <4> QED BY <1>6, <1>7, <4>1
    <3> QED BY <1>5, <2>r, <3>1, <3>2
  <2>3. c["q"] \in Int /\ 0 <= c["q"] /\ c["q"] <= next["q"]
    BY <1>5, <1>7, <1>12
  <2>4. c["w"] \in Int /\ 0 <= c["w"] /\ c["w"] <= next["w"]
    BY <1>5, <1>7, <1>11
  <2>5. c["e"] \in Int /\ 0 <= c["e"] /\ c["e"] <= next["e"]
    BY <1>5, <1>7, <1>10
  <2> QED BY <2>2, <2>3, <2>4, <2>5
<1>14. c \in AnyRanks
  BY <1>5, <1>13 DEF AnyRanks, SkillKeys
<1>15. /\ c["q"] <= Bound(l)["q"] /\ c["w"] <= Bound(l)["w"]
       /\ c["e"] <= Bound(l)["e"] /\ c["r"] <= Bound(l)["r"]
       /\ c["q"] + c["w"] + c["e"] + c["r"] <= l
  <2>1. Bound(l)["q"] \in Int /\ Bound(l)["w"] \in Int /\ Bound(l)["e"] \in Int /\ Bound(l)["r"] \in Int
    BY <1>2 DEF SkillKeys
  <2> QED BY <1>7, <1>8, <1>9, <1>13, <2>1
<1>16. IsLegalSkillRanks(c, l)
  BY <1>13, <1>14, <1>15, LegalIs
<1> QED BY <1>1, <1>14, <1>16

-----------------------------------------------------------------------------
(* The inputs that follow the level on display.                            *)

(* The fields of the page and of what the user chose.                       *)
PageShaped(p) ==
  p = [level |-> p.level, progression |-> p.progression, loading |-> p.loading, failed |-> p.failed,
       ranks |-> p.ranks, notice |-> p.notice, actions |-> p.actions, continueAutos |-> p.continueAutos,
       a |-> p.a, b |-> p.b, slotCount |-> p.slotCount, edited |-> p.edited]
MineShaped(m) == m = [ranks |-> m.ranks, actions |-> m.actions, builds |-> m.builds]

(* What the user chose is marked as edited and on display: ranks unless     *)
(* they were illegal at some level l since.                                 *)
Kept(p, m, l) ==
  /\ m.builds # None => "builds" \in p.edited /\ m.builds = <<p.a, p.b>>
  /\ m.actions # None => "combo" \in p.edited /\ m.actions = p.actions
  /\ m.ranks # None =>
       /\ "ranks" \in p.edited /\ m.ranks \in AnyRanks
       /\ IsLegalSkillRanks(p.ranks, p.level)
       /\ IsLegalSkillRanks(m.ranks, l) => p.ranks = m.ranks

Following(p) ==
  ~p.loading /\ ~p.failed =>
    /\ p.progression = p.level
    /\ "builds" \notin p.edited => [a |-> p.a, b |-> p.b] = Seeded(p.level)
    /\ "ranks" \notin p.edited => p.ranks = LevelRanks(p.level, p.level)
    /\ "combo" \notin p.edited => p.actions = DefaultActions(p.level)
    /\ "slots" \notin p.edited => p.slotCount = DefaultSlotCount(p.level, p.level)

PageTyped(p) ==
  /\ PageShaped(p)
  /\ p.level \in ShownLevels /\ p.progression \in ShownLevels \cup {None}
  /\ p.ranks \in AnyRanks

InputsGood(p, m, l) ==
  /\ PageTyped(p) /\ MineShaped(m)
  /\ l \in Levels /\ l <= p.level
  /\ Kept(p, m, l)

InputsInv == InputsGood(page, mine, low) /\ Following(page)

(* What a level has by itself is legal at it,                               *)
LEMMA LevelRanksLegal ==
  \A p \in ShownLevels \cup {None}, l \in ShownLevels :
    LevelRanks(p, l) \in AnyRanks /\ IsLegalSkillRanks(LevelRanks(p, l), l)
<1> SUFFICES ASSUME NEW p \in ShownLevels \cup {None}, NEW l \in ShownLevels
             PROVE  LevelRanks(p, l) \in AnyRanks /\ IsLegalSkillRanks(LevelRanks(p, l), l)
  OBVIOUS
<1>1. l \in Levels
  BY InputsAssumption
<1>2. p # None => Observed[p].ranks \in AnyRanks \cup {None}
  BY InputsAssumption DEF AnyRanks
<1> QED BY <1>1, <1>2, DefaultLegal DEF LevelRanks

(* and a pair of builds is what a level is seeded with.                     *)
LEMMA SeededShape == \A l : Seeded(l) = [a |-> Seeded(l).a, b |-> Seeded(l).b]
BY DEF Seeded

(* The effects of a new level, one by one.                                  *)
LEMMA SlotCountEffect ==
  ASSUME NEW p, PageShaped(p)
  PROVE  LET s == WithSlotCount(p)
         IN  /\ s = [p EXCEPT !.slotCount = s.slotCount] /\ PageShaped(s)
             /\ IF "slots" \in p.edited THEN s.slotCount = p.slotCount
                ELSE s.slotCount = DefaultSlotCount(p.progression, p.level)
<1>1. CASE "slots" \in p.edited
  BY <1>1 DEF WithSlotCount, PageShaped
<1>2. CASE "slots" \notin p.edited
  <2> DEFINE n == DefaultSlotCount(p.progression, p.level)
  <2>1. WithSlotCount(p) = [p EXCEPT !.slotCount = n]
    BY <1>2 DEF WithSlotCount
  <2> HIDE DEF n
  <2> QED BY <1>2, <2>1 DEF PageShaped, n
<1> QED BY <1>1, <1>2

LEMMA LoadedGood ==
  ASSUME NEW p, NEW m, NEW l, InputsGood(p, m, l)
  PROVE  InputsGood(Loaded(p), m, l) /\ Following(Loaded(p))
<1> DEFINE ranks == IF "ranks" \in p.edited THEN p.ranks ELSE LevelRanks(p.level, p.level)
           notice == IF "ranks" \in p.edited THEN p.notice ELSE FALSE
           actions == IF "combo" \in p.edited THEN p.actions ELSE DefaultActions(p.level)
           autos == IF "combo" \in p.edited THEN p.continueAutos ELSE TRUE
           a == IF "builds" \in p.edited THEN p.a ELSE Seeded(p.level).a
           b == IF "builds" \in p.edited THEN p.b ELSE Seeded(p.level).b
           q == [p EXCEPT !.progression = p.level, !.loading = FALSE, !.ranks = ranks,
                          !.notice = notice, !.actions = actions, !.continueAutos = autos,
                          !.a = a, !.b = b]
<1>1. Loaded(p) = WithSlotCount(q)
  BY DEF Loaded
<1>2. PageShaped(p)
  BY DEF InputsGood, PageTyped
<1>3. /\ ranks \in AnyRanks
      /\ "ranks" \notin p.edited => ranks = LevelRanks(p.level, p.level)
      /\ "ranks" \in p.edited => ranks = p.ranks
      /\ "combo" \notin p.edited => actions = DefaultActions(p.level)
      /\ "combo" \in p.edited => actions = p.actions
      /\ "builds" \notin p.edited => [a |-> a, b |-> b] = Seeded(p.level)
      /\ "builds" \in p.edited => <<a, b>> = <<p.a, p.b>>
  BY LevelRanksLegal, SeededShape DEF InputsGood, PageTyped
<1> HIDE DEF ranks, notice, actions, autos, a, b
<1>4. /\ PageShaped(q) /\ q.level = p.level /\ q.progression = p.level /\ q.loading = FALSE
      /\ q.failed = p.failed /\ q.ranks = ranks /\ q.actions = actions /\ q.a = a /\ q.b = b
      /\ q.edited = p.edited
  <2>1. q = [p EXCEPT !.progression = p.level, !.loading = FALSE, !.ranks = ranks,
                      !.notice = notice, !.actions = actions, !.continueAutos = autos,
                      !.a = a, !.b = b]
    OBVIOUS
  <2> HIDE DEF q
  <2>2. PageShaped(q)
    BY <1>2, <2>1 DEF PageShaped
  <2> QED BY <1>2, <2>1, <2>2 DEF PageShaped
<1> HIDE DEF q
<1> DEFINE s == WithSlotCount(q)
<1>5. /\ PageShaped(s) /\ s = [q EXCEPT !.slotCount = s.slotCount]
      /\ "slots" \notin q.edited => s.slotCount = DefaultSlotCount(q.progression, q.level)
  BY <1>4, SlotCountEffect
<1> HIDE DEF s
<1>6. /\ PageShaped(s) /\ s.level = p.level /\ s.progression = p.level /\ s.loading = FALSE
      /\ s.failed = p.failed /\ s.ranks = ranks /\ s.actions = actions /\ s.a = a /\ s.b = b
      /\ s.edited = p.edited
      /\ "slots" \notin p.edited => s.slotCount = DefaultSlotCount(p.level, p.level)
  BY <1>4, <1>5 DEF PageShaped
<1>7. PageTyped(s)
  BY <1>3, <1>6 DEF InputsGood, PageTyped
<1>8. Kept(s, m, l)
  <2>1. m.ranks # None => "ranks" \in p.edited
    BY DEF InputsGood, Kept
  <2> QED BY <1>3, <1>6, <2>1 DEF InputsGood, Kept
<1>9. Following(s)
  BY <1>3, <1>6 DEF Following
<1>10. InputsGood(s, m, l)
  BY <1>6, <1>7, <1>8 DEF InputsGood
<1> QED BY <1>1, <1>9, <1>10 DEF s

(* The page turned to another level, before it is loaded.                   *)
LEMMA TurnedGood ==
  ASSUME NEW p, NEW m, NEW l, InputsGood(p, m, l), NEW to \in ShownLevels
  PROVE  LET turned == WithLegalRanks(WithSlotCount(
                         [p EXCEPT !.level = to, !.loading = TRUE, !.failed = FALSE]))
         IN  /\ InputsGood(turned, m, IF to < l THEN to ELSE l)
             /\ Following(turned)
<1> DEFINE q == [p EXCEPT !.level = to, !.loading = TRUE, !.failed = FALSE]
           s == WithSlotCount(q)
           t == WithLegalRanks(s)
           low2 == IF to < l THEN to ELSE l
<1>1. /\ PageShaped(q) /\ q.level = to /\ q.loading = TRUE
      /\ q.progression = p.progression /\ q.ranks = p.ranks
      /\ q.actions = p.actions /\ q.a = p.a /\ q.b = p.b /\ q.edited = p.edited
  <2>1. PageShaped(p)
    BY DEF InputsGood, PageTyped
  <2>2. q = [p EXCEPT !.level = to, !.loading = TRUE, !.failed = FALSE]
    OBVIOUS
  <2> HIDE DEF q
  <2>3. PageShaped(q)
    BY <2>1, <2>2 DEF PageShaped
  <2> QED BY <2>1, <2>2, <2>3 DEF PageShaped
<1> HIDE DEF q
<1>2. PageShaped(s) /\ s = [q EXCEPT !.slotCount = s.slotCount]
  BY <1>1, SlotCountEffect
<1> HIDE DEF s
<1>3. /\ PageShaped(s) /\ s.level = to /\ s.loading = TRUE
      /\ s.progression = p.progression /\ s.ranks = p.ranks
      /\ s.actions = p.actions /\ s.a = p.a /\ s.b = p.b /\ s.edited = p.edited
  BY <1>1, <1>2 DEF PageShaped
<1>c. ClampSkillRanks(p.ranks, to) \in AnyRanks /\ IsLegalSkillRanks(ClampSkillRanks(p.ranks, to), to)
  BY ClampLegal, InputsAssumption DEF InputsGood, PageTyped
<1>4. /\ PageShaped(t) /\ t.level = to /\ t.loading = TRUE
      /\ t.progression = p.progression
      /\ t.actions = p.actions /\ t.a = p.a /\ t.b = p.b /\ t.edited = p.edited
      /\ t.ranks \in AnyRanks
      /\ "ranks" \in p.edited => IsLegalSkillRanks(t.ranks, to)
      /\ IsLegalSkillRanks(p.ranks, to) => t.ranks = p.ranks
  <2>0. p.ranks \in AnyRanks
    BY DEF InputsGood, PageTyped
  <2>1. CASE "ranks" \in s.edited /\ ~IsLegalSkillRanks(s.ranks, s.level)
    <3> DEFINE x == ClampSkillRanks(p.ranks, to)
    <3>1. t = [s EXCEPT !.ranks = x, !.notice = TRUE]
      BY <1>3, <2>1 DEF WithLegalRanks
    <3> HIDE DEF x
    <3>2. /\ PageShaped(t) /\ t.level = to /\ t.loading = TRUE
          /\ t.progression = p.progression
          /\ t.actions = p.actions /\ t.a = p.a /\ t.b = p.b /\ t.edited = p.edited
          /\ t.ranks = x
      BY <1>3, <3>1 DEF PageShaped
    <3> QED BY <1>3, <1>c, <2>1, <3>2 DEF x
  <2>2. CASE ~("ranks" \in s.edited /\ ~IsLegalSkillRanks(s.ranks, s.level))
    <3>1. t = s
      BY <2>2 DEF WithLegalRanks
    <3> QED BY <1>3, <2>0, <2>2, <3>1
  <2> QED BY <2>1, <2>2
<1> HIDE DEF t
<1>5. l \in Levels /\ to \in Levels /\ low2 \in Levels /\ low2 <= to /\ low2 <= l
  BY InputsAssumption DEF InputsGood, Levels
<1>6. PageTyped(t)
  BY <1>4 DEF InputsGood, PageTyped
<1>7. Kept(t, m, low2)
  <2> HIDE DEF low2
  <2>1. m.ranks # None => "ranks" \in p.edited /\ m.ranks \in AnyRanks
    BY DEF InputsGood, Kept
  <2>2. ASSUME m.ranks # None, IsLegalSkillRanks(m.ranks, low2) PROVE t.ranks = m.ranks
    <3>1. IsLegalSkillRanks(m.ranks, l) /\ IsLegalSkillRanks(m.ranks, to)
      BY <1>5, <2>1, <2>2, LegalAbove
    <3>2. p.ranks = m.ranks
      BY <2>2, <3>1 DEF InputsGood, Kept
    <3> QED BY <1>4, <3>1, <3>2
  <2>3. m.builds # None => "builds" \in p.edited /\ m.builds = <<p.a, p.b>>
    BY DEF InputsGood, Kept
  <2>4. m.actions # None => "combo" \in p.edited /\ m.actions = p.actions
    BY DEF InputsGood, Kept
  <2> QED BY <1>4, <2>1, <2>2, <2>3, <2>4 DEF Kept
<1>8. InputsGood(t, m, low2)
  BY <1>4, <1>5, <1>6, <1>7 DEF InputsGood
<1>9. Following(t)
  BY <1>4 DEF Following
<1> QED BY <1>8, <1>9 DEF t, s, q

(* An edit of one group marks it and leaves the others alone.               *)
LEMMA RanksEdit ==
  ASSUME NEW p, NEW m, NEW l, InputsGood(p, m, l), Following(p),
         NEW next \in AnyRanks, IsLegalSkillRanks(next, p.level)
  PROVE  LET q == [[p EXCEPT !.ranks = next, !.notice = FALSE] EXCEPT !.edited = @ \cup {"ranks"}]
             c == [m EXCEPT !.ranks = next]
         IN  InputsGood(q, c, p.level) /\ Following(q)
<1> DEFINE r == [p EXCEPT !.ranks = next, !.notice = FALSE]
           q == [r EXCEPT !.edited = @ \cup {"ranks"}]
           c == [m EXCEPT !.ranks = next]
<1>1. PageShaped(p) /\ MineShaped(m)
  BY DEF InputsGood, PageTyped
<1>2. r = [p EXCEPT !.ranks = next, !.notice = FALSE] /\ q = [r EXCEPT !.edited = @ \cup {"ranks"}]
      /\ c = [m EXCEPT !.ranks = next]
  OBVIOUS
<1> HIDE DEF r, q, c
<1>3. PageShaped(r) /\ PageShaped(q) /\ MineShaped(c)
  <2>1. PageShaped(r)
    BY <1>1, <1>2 DEF PageShaped
  <2>2. PageShaped(q)
    BY <1>2, <2>1 DEF PageShaped
  <2> QED BY <1>1, <1>2, <2>1, <2>2 DEF MineShaped
<1>4. /\ q.level = p.level /\ q.progression = p.progression /\ q.loading = p.loading
      /\ q.failed = p.failed /\ q.ranks = next /\ q.actions = p.actions /\ q.a = p.a /\ q.b = p.b
      /\ q.slotCount = p.slotCount /\ q.edited = p.edited \cup {"ranks"}
  BY <1>1, <1>2, <1>3 DEF PageShaped
<1>5. c.ranks = next /\ c.actions = m.actions /\ c.builds = m.builds
  BY <1>1, <1>2 DEF MineShaped
<1>6. p.level \in Levels /\ p.level <= p.level
  <2>1. p.level \in Levels
    BY InputsAssumption DEF InputsGood, PageTyped
  <2> QED BY <2>1 DEF Levels
<1>7. InputsGood(q, c, p.level)
  BY <1>3, <1>4, <1>5, <1>6 DEF InputsGood, PageTyped, Kept
<1>8. Following(q)
  BY <1>4 DEF Following
<1> QED BY <1>7, <1>8 DEF q, r, c

LEMMA ActionsEdit ==
  ASSUME NEW p, NEW m, NEW l, InputsGood(p, m, l), Following(p), NEW actions, NEW autos
  PROVE  LET q == [[p EXCEPT !.actions = actions, !.continueAutos = autos] EXCEPT !.edited = @ \cup {"combo"}]
             c == [m EXCEPT !.actions = actions]
         IN  InputsGood(q, c, l) /\ Following(q)
<1> DEFINE r == [p EXCEPT !.actions = actions, !.continueAutos = autos]
           q == [r EXCEPT !.edited = @ \cup {"combo"}]
           c == [m EXCEPT !.actions = actions]
<1>1. PageShaped(p) /\ MineShaped(m)
  BY DEF InputsGood, PageTyped
<1>2. r = [p EXCEPT !.actions = actions, !.continueAutos = autos]
      /\ q = [r EXCEPT !.edited = @ \cup {"combo"}]
      /\ c = [m EXCEPT !.actions = actions]
  OBVIOUS
<1> HIDE DEF r, q, c
<1>3. PageShaped(r) /\ PageShaped(q) /\ MineShaped(c)
  <2>1. PageShaped(r)
    BY <1>1, <1>2 DEF PageShaped
  <2>2. PageShaped(q)
    BY <1>2, <2>1 DEF PageShaped
  <2> QED BY <1>1, <1>2, <2>1, <2>2 DEF MineShaped
<1>4. /\ q.level = p.level /\ q.progression = p.progression /\ q.loading = p.loading
      /\ q.failed = p.failed /\ q.ranks = p.ranks /\ q.actions = actions /\ q.a = p.a /\ q.b = p.b
      /\ q.slotCount = p.slotCount /\ q.edited = p.edited \cup {"combo"}
  BY <1>1, <1>2, <1>3 DEF PageShaped
<1>5. c.actions = actions /\ c.ranks = m.ranks /\ c.builds = m.builds
  BY <1>1, <1>2 DEF MineShaped
<1>6. InputsGood(q, c, l)
  BY <1>3, <1>4, <1>5 DEF InputsGood, PageTyped, Kept
<1>7. Following(q)
  BY <1>4 DEF Following
<1> QED BY <1>6, <1>7 DEF q, r, c

LEMMA BuildsEdit ==
  ASSUME NEW p, NEW m, NEW l, InputsGood(p, m, l), Following(p), NEW a, NEW b, NEW autos
  PROVE  LET q == [[p EXCEPT !.a = a, !.b = b, !.continueAutos = autos] EXCEPT !.edited = @ \cup {"builds"}]
             c == [m EXCEPT !.builds = <<a, b>>]
         IN  InputsGood(q, c, l) /\ Following(q)
<1> DEFINE r == [p EXCEPT !.a = a, !.b = b, !.continueAutos = autos]
           q == [r EXCEPT !.edited = @ \cup {"builds"}]
           c == [m EXCEPT !.builds = <<a, b>>]
<1>1. PageShaped(p) /\ MineShaped(m)
  BY DEF InputsGood, PageTyped
<1>2. r = [p EXCEPT !.a = a, !.b = b, !.continueAutos = autos]
      /\ q = [r EXCEPT !.edited = @ \cup {"builds"}]
      /\ c = [m EXCEPT !.builds = <<a, b>>]
  OBVIOUS
<1> HIDE DEF r, q, c
<1>3. PageShaped(r) /\ PageShaped(q) /\ MineShaped(c)
  <2>1. PageShaped(r)
    BY <1>1, <1>2 DEF PageShaped
  <2>2. PageShaped(q)
    BY <1>2, <2>1 DEF PageShaped
  <2> QED BY <1>1, <1>2, <2>1, <2>2 DEF MineShaped
<1>4. /\ q.level = p.level /\ q.progression = p.progression /\ q.loading = p.loading
      /\ q.failed = p.failed /\ q.ranks = p.ranks /\ q.actions = p.actions /\ q.a = a /\ q.b = b
      /\ q.slotCount = p.slotCount /\ q.edited = p.edited \cup {"builds"}
  BY <1>1, <1>2, <1>3 DEF PageShaped
<1>5. c.builds = <<a, b>> /\ c.ranks = m.ranks /\ c.actions = m.actions
  BY <1>1, <1>2 DEF MineShaped
<1>6. InputsGood(q, c, l)
  BY <1>3, <1>4, <1>5 DEF InputsGood, PageTyped, Kept
<1>7. Following(q)
  BY <1>4 DEF Following
<1> QED BY <1>6, <1>7 DEF q, r, c

LEMMA SlotsEdit ==
  ASSUME NEW p, NEW m, NEW l, InputsGood(p, m, l), Following(p), NEW n
  PROVE  LET q == [[p EXCEPT !.slotCount = n] EXCEPT !.edited = @ \cup {"slots"}]
         IN  InputsGood(q, m, l) /\ Following(q)
<1> DEFINE r == [p EXCEPT !.slotCount = n]
           q == [r EXCEPT !.edited = @ \cup {"slots"}]
<1>1. PageShaped(p) /\ MineShaped(m)
  BY DEF InputsGood, PageTyped
<1>2. r = [p EXCEPT !.slotCount = n] /\ q = [r EXCEPT !.edited = @ \cup {"slots"}]
  OBVIOUS
<1> HIDE DEF r, q
<1>3. PageShaped(r) /\ PageShaped(q)
  <2>1. PageShaped(r)
    BY <1>1, <1>2 DEF PageShaped
  <2> QED BY <1>2, <2>1 DEF PageShaped
<1>4. /\ q.level = p.level /\ q.progression = p.progression /\ q.loading = p.loading
      /\ q.failed = p.failed /\ q.ranks = p.ranks /\ q.actions = p.actions /\ q.a = p.a /\ q.b = p.b
      /\ q.slotCount = n /\ q.edited = p.edited \cup {"slots"}
  BY <1>1, <1>2, <1>3 DEF PageShaped
<1>5. InputsGood(q, m, l)
  BY <1>1, <1>3, <1>4 DEF InputsGood, PageTyped, Kept
<1>6. Following(q)
  BY <1>4 DEF Following
<1> QED BY <1>5, <1>6 DEF q, r

LEMMA ResetGood ==
  ASSUME NEW p, NEW m, NEW l, InputsGood(p, m, l), Following(p), NEW c,
         c = [ranks |-> None, actions |-> None, builds |-> None]
  PROVE  LET q == [p EXCEPT !.a = Seeded(p.progression).a, !.b = Seeded(p.progression).b,
                            !.edited = @ \cap {"slots"},
                            !.ranks = LevelRanks(p.progression, p.level),
                            !.actions = DefaultActions(p.level), !.continueAutos = TRUE]
         IN  InputsGood(q, c, l) /\ Following(q)
<1> DEFINE a == Seeded(p.progression).a
           b == Seeded(p.progression).b
           ranks == LevelRanks(p.progression, p.level)
           actions == DefaultActions(p.level)
           q == [p EXCEPT !.a = a, !.b = b, !.edited = @ \cap {"slots"}, !.ranks = ranks,
                          !.actions = actions, !.continueAutos = TRUE]
<1>1. PageShaped(p)
  BY DEF InputsGood, PageTyped
<1>2. q = [p EXCEPT !.a = a, !.b = b, !.edited = @ \cap {"slots"}, !.ranks = ranks,
                    !.actions = actions, !.continueAutos = TRUE]
  OBVIOUS
<1>3. ranks \in AnyRanks /\ [a |-> a, b |-> b] = Seeded(p.progression)
  BY LevelRanksLegal, SeededShape DEF InputsGood, PageTyped
<1> HIDE DEF a, b, ranks, actions, q
<1>4. PageShaped(q)
  BY <1>1, <1>2 DEF PageShaped
<1>5. /\ q.level = p.level /\ q.progression = p.progression /\ q.loading = p.loading
      /\ q.failed = p.failed /\ q.ranks = ranks /\ q.actions = actions /\ q.a = a /\ q.b = b
      /\ q.slotCount = p.slotCount /\ q.edited = p.edited \cap {"slots"}
  BY <1>1, <1>2, <1>4 DEF PageShaped
<1>6. MineShaped(c) /\ c.ranks = None /\ c.actions = None /\ c.builds = None
  BY DEF MineShaped
<1>7. InputsGood(q, c, l)
  BY <1>3, <1>4, <1>5, <1>6 DEF InputsGood, PageTyped, Kept
<1>8. Following(q)
  BY <1>3, <1>5 DEF Following, ranks, actions
<1> QED BY <1>7, <1>8 DEF q, a, b, ranks, actions

(* Whatever the panels do to the builds is one edit of the two.             *)
LEMMA OneEditOfBuilds ==
  ASSUME PageShaped(page), EditOfBuilds
  PROVE  /\ low' = low
         /\ \E a, b, autos :
              /\ page' = [[page EXCEPT !.a = a, !.b = b, !.continueAutos = autos]
                            EXCEPT !.edited = @ \cup {"builds"}]
              /\ mine' = [mine EXCEPT !.builds = <<a, b>>]
<1> DEFINE Edits(a, b, autos) ==
             /\ page' = [[page EXCEPT !.a = a, !.b = b, !.continueAutos = autos]
                           EXCEPT !.edited = @ \cup {"builds"}]
             /\ mine' = [mine EXCEPT !.builds = <<a, b>>]
<1>1. ASSUME NEW a, NEW b, EditBuilds(a, b) PROVE low' = low /\ Edits(a, b, page.continueAutos)
  <2>1. [page EXCEPT !.a = a, !.b = b] =
          [page EXCEPT !.a = a, !.b = b, !.continueAutos = page.continueAutos]
    <3> DEFINE x == [page EXCEPT !.a = a, !.b = b]
               y == [page EXCEPT !.a = a, !.b = b, !.continueAutos = page.continueAutos]
    <3>1. x = [page EXCEPT !.a = a, !.b = b]
          /\ y = [page EXCEPT !.a = a, !.b = b, !.continueAutos = page.continueAutos]
      OBVIOUS
    <3> HIDE DEF x, y
    <3>2. x = y
      BY <3>1 DEF PageShaped
    <3> QED BY <3>2 DEF x, y
  <2> QED BY <1>1, <2>1 DEF EditBuilds, EditInput
<1>2. ASSUME NEW side \in {"a", "b"}, NEW build, NEW autos, UseOptimizerBuild(build, side, autos)
      PROVE  low' = low /\ \E a, b : Edits(a, b, autos)
  <2>1. CASE side = "a"
    <3>1. [page EXCEPT !.a = build, !.continueAutos = autos] =
            [page EXCEPT !.a = build, !.b = page.b, !.continueAutos = autos]
      <4> DEFINE x == [page EXCEPT !.a = build, !.continueAutos = autos]
                 y == [page EXCEPT !.a = build, !.b = page.b, !.continueAutos = autos]
      <4>1. x = [page EXCEPT !.a = build, !.continueAutos = autos]
            /\ y = [page EXCEPT !.a = build, !.b = page.b, !.continueAutos = autos]
        OBVIOUS
      <4> HIDE DEF x, y
      <4>2. x = y
        BY <4>1 DEF PageShaped
      <4> QED BY <4>2 DEF x, y
    <3>2. low' = low /\ Edits(build, page.b, autos)
      BY <1>2, <2>1, <3>1 DEF UseOptimizerBuild, EditInput
    <3> HIDE DEF Edits
    <3> QED BY <3>2
  <2>2. CASE side = "b"
    <3>1. [page EXCEPT !.b = build, !.continueAutos = autos] =
            [page EXCEPT !.a = page.a, !.b = build, !.continueAutos = autos]
      <4> DEFINE x == [page EXCEPT !.b = build, !.continueAutos = autos]
                 y == [page EXCEPT !.a = page.a, !.b = build, !.continueAutos = autos]
      <4>1. x = [page EXCEPT !.b = build, !.continueAutos = autos]
            /\ y = [page EXCEPT !.a = page.a, !.b = build, !.continueAutos = autos]
        OBVIOUS
      <4> HIDE DEF x, y
      <4>2. x = y
        BY <4>1 DEF PageShaped
      <4> QED BY <4>2 DEF x, y
    <3>2. low' = low /\ Edits(page.a, build, autos)
      BY <1>2, <2>2, <3>1 DEF UseOptimizerBuild, EditInput
    <3> HIDE DEF Edits
    <3> QED BY <3>2
  <2> QED BY <2>1, <2>2
<1>3. (\E a, b : EditBuilds(a, b))
      \/ \E side \in {"a", "b"}, build \in Candidates, autos \in {page.continueAutos, FALSE} :
           UseOptimizerBuild(build, side, autos)
  <2>1. ASSUME NEW side, NEW slots, EditSide(side, slots) PROVE \E a, b : EditBuilds(a, b)
    BY <2>1 DEF EditSide
  <2> QED BY <2>1 DEF EditOfBuilds, UpdateSide, AddSide, UpdateShared, AddShared, SuggestAlternative
<1> HIDE DEF Edits
<1>4. low' = low /\ \E a, b, autos : Edits(a, b, autos)
  BY <1>1, <1>2, <1>3
<1> QED BY <1>4 DEF Edits

LEMMA InputsInitInv == InputsInit => InputsInv
<1> SUFFICES ASSUME InputsInit PROVE InputsInv
  OBVIOUS
<1>1. /\ PageShaped(page) /\ page.level = 13 /\ page.progression = None /\ page.loading = TRUE
      /\ page.ranks = DefaultSkillRanks(13)
      /\ MineShaped(mine) /\ mine.ranks = None /\ mine.actions = None /\ mine.builds = None /\ low = 13
  BY DEF InputsInit, PageShaped, MineShaped
<1>2. 13 \in ShownLevels /\ 13 \in Levels /\ DefaultSkillRanks(13) \in AnyRanks
  BY InputsAssumption, DefaultLegal
<1> QED BY <1>1, <1>2 DEF InputsInv, InputsGood, PageTyped, Kept, Following

LEMMA InputsNextInv == InputsInv /\ [InputsNext]_inputVars => InputsInv'
<1> SUFFICES ASSUME InputsInv, [InputsNext]_inputVars PROVE InputsInv'
  OBVIOUS
<1> USE DEF InputsInv
<1>g. InputsGood(page, mine, low) /\ Following(page) /\ PageShaped(page) /\ PageTyped(page)
  BY DEF InputsGood, PageTyped
<1>1. CASE \E l \in ShownLevels : SetLevel(l)
  <2>1. PICK l \in ShownLevels : SetLevel(l)
    BY <1>1
  <2> DEFINE turned == WithLegalRanks(WithSlotCount(
                         [page EXCEPT !.level = l, !.loading = TRUE, !.failed = FALSE]))
  <2>2. page' \in {turned, Loaded(turned)} /\ low' = (IF l < low THEN l ELSE low) /\ mine' = mine
    BY <2>1 DEF SetLevel
  <2>3. InputsGood(turned, mine, IF l < low THEN l ELSE low) /\ Following(turned)
    BY <1>g, TurnedGood
  <2> HIDE DEF turned
  <2>4. InputsGood(Loaded(turned), mine, IF l < low THEN l ELSE low) /\ Following(Loaded(turned))
    BY <2>3, LoadedGood
  <2> QED BY <2>2, <2>3, <2>4
<1>2. CASE ProgressionLoaded
  <2>1. page' = Loaded(page) /\ mine' = mine /\ low' = low
    BY <1>2 DEF ProgressionLoaded
  <2> QED BY <1>g, <2>1, LoadedGood
<1>3. CASE ProgressionFails
  <2>1. page' = [page EXCEPT !.loading = FALSE, !.failed = TRUE] /\ mine' = mine /\ low' = low
    BY <1>3 DEF ProgressionFails
  <2>2. PageShaped(page')
    BY <1>g, <2>1 DEF PageShaped
  <2>3. /\ page'.level = page.level /\ page'.progression = page.progression
        /\ page'.failed = TRUE /\ page'.ranks = page.ranks /\ page'.actions = page.actions
        /\ page'.a = page.a /\ page'.b = page.b /\ page'.edited = page.edited
    BY <1>g, <2>1 DEF PageShaped
  <2>4. InputsGood(page', mine, low)
    BY <1>g, <2>2, <2>3 DEF InputsGood, PageTyped, Kept
  <2>5. Following(page')
    BY <2>3 DEF Following
  <2> QED BY <2>1, <2>4, <2>5
<1>4. CASE \E l \in ShownLevels : StaleLoaded(l)
  BY <1>g, <1>4 DEF StaleLoaded
<1>5. CASE CorrectRanks
  <2> DEFINE x == ClampSkillRanks(page.ranks, page.level)
  <2>1. /\ page' = [page EXCEPT !.ranks = x, !.notice = TRUE] /\ mine' = mine /\ low' = low
        /\ ~IsLegalSkillRanks(page.ranks, page.level)
    BY <1>5 DEF CorrectRanks
  <2>2. x \in AnyRanks
    BY <1>g, ClampLegal, InputsAssumption DEF PageTyped
  <2> HIDE DEF x
  <2>3. PageShaped(page')
    BY <1>g, <2>1 DEF PageShaped
  <2>4. /\ page'.level = page.level /\ page'.progression = page.progression
        /\ page'.loading = page.loading /\ page'.slotCount = page.slotCount
        /\ page'.failed = page.failed /\ page'.ranks = x /\ page'.actions = page.actions
        /\ page'.a = page.a /\ page'.b = page.b /\ page'.edited = page.edited
    BY <1>g, <2>1 DEF PageShaped
  <2>5. mine.ranks = None
    BY <1>g, <2>1 DEF InputsGood, Kept
  <2>6. ~page.loading /\ ~page.failed => "ranks" \in page.edited
    <3>1. IsLegalSkillRanks(LevelRanks(page.level, page.level), page.level)
      BY <1>g, LevelRanksLegal DEF PageTyped
    <3> QED BY <1>g, <2>1, <3>1 DEF Following
  <2>7. InputsGood(page', mine, low)
    BY <1>g, <2>2, <2>3, <2>4, <2>5 DEF InputsGood, PageTyped, Kept
  <2>8. Following(page')
    BY <1>g, <2>4, <2>6 DEF Following
  <2> QED BY <2>1, <2>7, <2>8
<1>6. CASE \E key \in SkillKeys, delta \in {-1, 1} : AdjustRank(key, delta)
  <2>1. PICK key \in SkillKeys, delta \in {-1, 1} : AdjustRank(key, delta)
    BY <1>6
  <2> DEFINE next == Adjusted(page.ranks, key, delta)
  <2>2. next \in AnyRanks
    BY <1>g DEF PageTyped, AnyRanks, Adjusted
  <2>3. /\ IsLegalSkillRanks(next, page.level) /\ low' = page.level
        /\ page' = [[page EXCEPT !.ranks = next, !.notice = FALSE] EXCEPT !.edited = @ \cup {"ranks"}]
        /\ mine' = [mine EXCEPT !.ranks = next]
    BY <2>1 DEF AdjustRank, EditInput
  <2> HIDE DEF next
  <2> QED BY <1>g, <2>2, <2>3, RanksEdit
<1>7. CASE EditOfActions
  <2>1. PICK actions, autos : EditActions(actions, autos)
    BY <1>7 DEF EditOfActions, ApplyComboPreset, AddAction, RemoveAction, MoveAction
  <2>2. /\ page' = [[page EXCEPT !.actions = actions, !.continueAutos = autos]
                      EXCEPT !.edited = @ \cup {"combo"}]
        /\ mine' = [mine EXCEPT !.actions = actions] /\ low' = low
    BY <2>1 DEF EditActions, EditInput
  <2> DEFINE q == [[page EXCEPT !.actions = actions, !.continueAutos = autos]
                     EXCEPT !.edited = @ \cup {"combo"}]
             c == [mine EXCEPT !.actions = actions]
  <2>3. InputsGood(q, c, low) /\ Following(q)
    BY <1>g, ActionsEdit, Zenon
  <2>4. page' = q /\ mine' = c /\ low' = low
    BY <2>2
  <2> HIDE DEF q, c
  <2> QED BY <2>3, <2>4
<1>8. CASE ToggleAutos
  <2>1. page' = [page EXCEPT !.continueAutos = ~page.continueAutos] /\ mine' = mine /\ low' = low
    BY <1>8 DEF ToggleAutos
  <2>2. PageShaped(page')
    BY <1>g, <2>1 DEF PageShaped
  <2>3. /\ page'.level = page.level /\ page'.progression = page.progression
        /\ page'.loading = page.loading /\ page'.slotCount = page.slotCount
        /\ page'.failed = page.failed /\ page'.ranks = page.ranks /\ page'.actions = page.actions
        /\ page'.a = page.a /\ page'.b = page.b /\ page'.edited = page.edited
    BY <1>g, <2>1 DEF PageShaped
  <2>4. InputsGood(page', mine, low)
    BY <1>g, <2>2, <2>3 DEF InputsGood, PageTyped, Kept
  <2>5. Following(page')
    BY <1>g, <2>3 DEF Following
  <2> QED BY <2>1, <2>4, <2>5
<1>9. CASE \E n \in 3..6 : UpdateOptimizerSlotCount(n)
  <2>1. PICK n \in 3..6 : UpdateOptimizerSlotCount(n)
    BY <1>9
  <2>2. /\ page' = [[page EXCEPT !.slotCount = n] EXCEPT !.edited = @ \cup {"slots"}]
        /\ mine' = mine /\ low' = low
    BY <2>1 DEF UpdateOptimizerSlotCount, EditInput
  <2> DEFINE q == [[page EXCEPT !.slotCount = n] EXCEPT !.edited = @ \cup {"slots"}]
  <2>3. InputsGood(q, mine, low) /\ Following(q)
    BY <1>g, SlotsEdit, Zenon
  <2>4. page' = q /\ mine' = mine /\ low' = low
    BY <2>2
  <2> HIDE DEF q
  <2> QED BY <2>3, <2>4
<1>10. CASE EditOfBuilds
  <2>1. /\ low' = low
        /\ \E a, b, autos :
             /\ page' = [[page EXCEPT !.a = a, !.b = b, !.continueAutos = autos]
                           EXCEPT !.edited = @ \cup {"builds"}]
             /\ mine' = [mine EXCEPT !.builds = <<a, b>>]
    BY <1>g, <1>10, OneEditOfBuilds
  <2>2. PICK a, b, autos :
             /\ page' = [[page EXCEPT !.a = a, !.b = b, !.continueAutos = autos]
                           EXCEPT !.edited = @ \cup {"builds"}]
             /\ mine' = [mine EXCEPT !.builds = <<a, b>>]
    BY <2>1
  <2> DEFINE q == [[page EXCEPT !.a = a, !.b = b, !.continueAutos = autos]
                     EXCEPT !.edited = @ \cup {"builds"}]
             c == [mine EXCEPT !.builds = <<a, b>>]
  <2>3. InputsGood(q, c, low) /\ Following(q)
    BY <1>g, BuildsEdit, Zenon
  <2>4. page' = q /\ mine' = c /\ low' = low
    BY <2>1, <2>2
  <2> HIDE DEF q, c
  <2> QED BY <2>3, <2>4
<1>11. CASE ResetToDefault
  <2>1. /\ page' = [page EXCEPT !.a = Seeded(page.progression).a, !.b = Seeded(page.progression).b,
                            !.edited = @ \cap {"slots"},
                            !.ranks = LevelRanks(page.progression, page.level),
                            !.actions = DefaultActions(page.level), !.continueAutos = TRUE]
        /\ mine' = [ranks |-> None, actions |-> None, builds |-> None] /\ low' = low
    BY <1>11 DEF ResetToDefault
  <2> QED BY <1>g, <2>1, ResetGood
<1>12. CASE UNCHANGED inputVars
  BY <1>g, <1>12 DEF inputVars
<1> QED BY <1>1, <1>2, <1>3, <1>4, <1>5, <1>6, <1>7, <1>8, <1>9, <1>10, <1>11, <1>12 DEF InputsNext

(* For any levels, items and observed progressions, and any number of acts: *)
(* no answer that arrives late takes back an edit of builds, opener or      *)
(* ranks, and what is not edited follows the level on display once it is    *)
(* loaded (app/page.tsx:232-290).                                           *)
THEOREM AlwaysInputsFollow == InputsSpec => []InputsFollow
<1>1. InputsInv => InputsFollow
  BY DEF InputsInv, InputsGood, Kept, Following, InputsFollow
<1> QED BY <1>1, InputsInitInv, InputsNextInv, PTL DEF InputsSpec

-----------------------------------------------------------------------------
(* The builds: no edit that the panels offer repeats an item.               *)
Build(s) == s \in Seq(Nat) /\ Len(s) \in 1..6 /\ Unrepeated(s)

BuildsInv == Build(page.a) /\ Build(page.b)

LEMMA BuildIs ==
  ASSUME NEW s, Build(s)
  PROVE  /\ s \in Seq(Nat) /\ Len(s) \in 1..6 /\ DOMAIN s = 1..Len(s) /\ \A i \in DOMAIN s : s[i] \in Nat
         /\ \A i, j \in DOMAIN s : s[i] = s[j] /\ s[i] > 0 => i = j
         /\ Items(s) = {s[i] : i \in {j \in DOMAIN s : s[j] > 0}}
<1>1. s \in Seq(Nat) /\ Len(s) \in 1..6 /\ Unrepeated(s)
  BY DEF Build
<1>2. DOMAIN s = 1..Len(s) /\ \A i \in DOMAIN s : s[i] \in Nat
  BY <1>1, LenProperties, ElementOfSeq
<1>3. Items(s) = {s[i] : i \in {j \in DOMAIN s : s[j] > 0}}
  BY DEF Items, ToSet
<1> QED BY <1>1, <1>2, <1>3 DEF Unrepeated

LEMMA ItemsKnown ==
  /\ SupportedItems \subseteq Nat \ {0}
  /\ InfinityEdge \in SupportedItems /\ LordDominiks \in SupportedItems /\ InfinityEdge # LordDominiks
BY InputsAssumption

(* A slot more, a slot that closes up, an item that was not there. *)
LEMMA SlotAdded ==
  ASSUME NEW s, Build(s), Len(s) < 6, NEW x \in Nat, x > 0 => x \notin Items(s)
  PROVE  Build(Append(s, x))
<1>1. /\ s \in Seq(Nat) /\ Len(s) \in 1..6 /\ DOMAIN s = 1..Len(s) /\ \A i \in DOMAIN s : s[i] \in Nat
      /\ \A i, j \in DOMAIN s : s[i] = s[j] /\ s[i] > 0 => i = j
      /\ Items(s) = {s[i] : i \in {j \in DOMAIN s : s[j] > 0}}
  BY BuildIs
<1> DEFINE t == Append(s, x)
<1>2. t \in Seq(Nat) /\ Len(t) = Len(s) + 1 /\ DOMAIN t = 1..(Len(s) + 1)
      /\ (\A i \in 1..Len(s) : t[i] = s[i]) /\ t[Len(s) + 1] = x
  BY <1>1, AppendProperties
<1>3. x > 0 => \A i \in DOMAIN s : s[i] # x
  BY <1>1
<1> HIDE DEF t
<1>4. \A i, j \in DOMAIN t : t[i] = t[j] /\ t[i] > 0 => i = j
  <2> SUFFICES ASSUME NEW i \in DOMAIN t, NEW j \in DOMAIN t, t[i] = t[j], t[i] > 0 PROVE i = j
    OBVIOUS
  <2>1. (i \in DOMAIN s \/ i = Len(s) + 1) /\ (j \in DOMAIN s \/ j = Len(s) + 1)
    BY <1>1, <1>2
  <2> QED BY <1>1, <1>2, <1>3, <2>1
<1>5. Build(t)
  <2>1. Len(t) \in 1..6
    <3>1. Len(s) \in 1..6 /\ Len(s) < 6 /\ Len(t) = Len(s) + 1
      BY <1>1, <1>2
    <3> QED BY ONLY <3>1
  <2> QED BY <1>2, <1>4, <2>1 DEF Build, Unrepeated
<1> QED BY <1>5 DEF t

LEMMA SlotReplaced ==
  ASSUME NEW s, Build(s), NEW k, NEW x \in Nat, x > 0 => x \notin Items(s)
  PROVE  Build([s EXCEPT ![k] = x])
<1>1. /\ s \in Seq(Nat) /\ Len(s) \in 1..6 /\ DOMAIN s = 1..Len(s) /\ \A i \in DOMAIN s : s[i] \in Nat
      /\ \A i, j \in DOMAIN s : s[i] = s[j] /\ s[i] > 0 => i = j
      /\ Items(s) = {s[i] : i \in {j \in DOMAIN s : s[j] > 0}}
  BY BuildIs
<1> DEFINE t == [s EXCEPT ![k] = x]
<1>2. t = [i \in 1..Len(s) |-> IF i = k THEN x ELSE s[i]]
  BY <1>1
<1>3. x > 0 => \A i \in DOMAIN s : s[i] # x
  BY <1>1
<1> HIDE DEF t
<1>4. DOMAIN t = 1..Len(s) /\ \A i \in 1..Len(s) : t[i] = IF i = k THEN x ELSE s[i]
  BY <1>2
<1>5. t \in Seq(Nat) /\ Len(t) = Len(s)
  <2>1. Len(s) \in Nat /\ \A i \in 1..Len(s) : s[i] \in Nat
    BY <1>1
  <2>2. \A i \in 1..Len(s) : t[i] \in Nat
    BY <1>4, <2>1
  <2>3. t = [i \in 1..Len(s) |-> t[i]]
    BY <1>2, <1>4
  <2>4. t \in [1..Len(s) -> Nat]
    BY <2>2, <2>3
  <2>5. t \in Seq(Nat)
    BY <2>1, <2>4, SeqDef
  <2> QED BY <1>4, <2>1, <2>5, LenProperties
<1>6. \A i, j \in DOMAIN t : t[i] = t[j] /\ t[i] > 0 => i = j
  BY <1>1, <1>3, <1>4
<1>7. Build(t)
  BY <1>1, <1>5, <1>6 DEF Build, Unrepeated
<1> QED BY <1>7 DEF t

LEMMA SlotRemoved ==
  ASSUME NEW s, Build(s), NEW k \in DOMAIN s, Len(s) # 1
  PROVE  Build(RemoveAt(s, k))
<1>1. /\ s \in Seq(Nat) /\ Len(s) \in 1..6 /\ DOMAIN s = 1..Len(s) /\ \A i \in DOMAIN s : s[i] \in Nat
      /\ \A i, j \in DOMAIN s : s[i] = s[j] /\ s[i] > 0 => i = j
  BY BuildIs
<1> DEFINE t == RemoveAt(s, k)
<1>2. /\ t \in Seq(Nat) /\ Len(t) = Len(s) - 1
      /\ \A i \in 1..(Len(s) - 1) : t[i] = IF i < k THEN s[i] ELSE s[i + 1]
  <2> DEFINE u == SubSeq(s, 1, k - 1)
             v == SubSeq(s, k + 1, Len(s))
  <2>0. k \in 1..Len(s)
    BY <1>1
  <2>1. u \in Seq(Nat) /\ Len(u) = k - 1 /\ \A i \in 1..(k - 1) : u[i] = s[i]
    <3>1. \A i \in 1..(k - 1) : s[i] \in Nat
      BY <1>1, <2>0
    <3> QED BY <1>1, <2>0, <3>1, SubSeqProperties
  <2>2. v \in Seq(Nat) /\ Len(v) = Len(s) - k /\ \A i \in 1..(Len(s) - k) : v[i] = s[k + i]
    <3>1. \A i \in (k + 1)..Len(s) : s[i] \in Nat
      BY <1>1, <2>0
    <3>2. /\ v \in Seq(Nat) /\ Len(v) = IF k + 1 <= Len(s) THEN Len(s) - (k + 1) + 1 ELSE 0
          /\ \A i \in 1..(Len(s) - (k + 1) + 1) : v[i] = s[(k + 1) + i - 1]
      <4>1. k + 1 \in Int /\ Len(s) \in Int
        BY <1>1, <2>0
      <4> DEFINE m == k + 1
      <4>2. m \in Int
        BY <4>1
      <4>3. \A i \in m..Len(s) : s[i] \in Nat
        BY <3>1
      <4> HIDE DEF m
      <4>4. /\ SubSeq(s, m, Len(s)) \in Seq(Nat)
            /\ Len(SubSeq(s, m, Len(s))) = IF m <= Len(s) THEN Len(s) - m + 1 ELSE 0
            /\ \A i \in 1..(Len(s) - m + 1) : SubSeq(s, m, Len(s))[i] = s[m + i - 1]
        BY <4>1, <4>2, <4>3, SubSeqProperties
      <4> QED BY <4>4 DEF m
    <3> HIDE DEF v
    <3>3. Len(s) \in Nat /\ k \in Nat /\ k <= Len(s)
      BY <1>1, <2>0
    <3>4. ASSUME NEW i \in 1..(Len(s) - k) PROVE v[i] = s[k + i]
      <4>1. i \in 1..(Len(s) - (k + 1) + 1) /\ (k + 1) + i - 1 = k + i
        BY <3>3
      <4> QED BY <3>2, <4>1
    <3> QED BY <3>2, <3>3, <3>4
  <2>3. t = u \o v
    BY DEF RemoveAt
  <2> HIDE DEF t, u, v
  <2>4. t \in Seq(Nat) /\ Len(t) = Len(s) - 1
    <3>1. t \in Seq(Nat) /\ Len(t) = Len(u) + Len(v)
      BY <2>1, <2>2, <2>3, ConcatProperties
    <3>2. Len(s) \in Nat /\ k \in Nat
      BY <1>1, <2>0
    <3> QED BY <2>1, <2>2, <3>1, <3>2
  <2>5. \A i \in 1..(Len(s) - 1) : t[i] = IF i <= Len(u) THEN u[i] ELSE v[i - Len(u)]
    <3>1. \A i \in 1..(Len(u) + Len(v)) : t[i] = IF i <= Len(u) THEN u[i] ELSE v[i - Len(u)]
      BY <2>1, <2>2, <2>3, ConcatProperties
    <3>2. Len(u) + Len(v) = Len(s) - 1
      BY <1>1, <2>0, <2>1, <2>2
    <3> QED BY <3>1, <3>2
  <2>6. ASSUME NEW i \in 1..(Len(s) - 1) PROVE t[i] = IF i < k THEN s[i] ELSE s[i + 1]
    <3>1. CASE i < k
      BY <1>1, <2>0, <2>1, <2>5, <3>1
    <3>2. CASE ~(i < k)
      <4>0. i \in Int /\ k \in Int /\ Len(s) \in Int /\ k <= i /\ i <= Len(s) - 1
        BY <1>1, <2>0, <3>2
      <4>1. i - (k - 1) \in 1..(Len(s) - k) /\ k + (i - (k - 1)) = i + 1 /\ ~(i <= k - 1)
        BY ONLY <4>0
      <4>2. t[i] = v[i - (k - 1)]
        BY <2>1, <2>5, <4>1
      <4>3. v[i - (k - 1)] = s[k + (i - (k - 1))]
        BY <2>2, <4>1
      <4> QED BY <3>2, <4>1, <4>2, <4>3
    <3> QED BY <3>1, <3>2
  <2> QED BY <2>4, <2>6
<1>3. DOMAIN t = 1..(Len(s) - 1)
  BY <1>2, LenProperties
<1> HIDE DEF t
<1>4. \A i, j \in DOMAIN t : t[i] = t[j] /\ t[i] > 0 => i = j
  <2> SUFFICES ASSUME NEW i \in DOMAIN t, NEW j \in DOMAIN t, t[i] = t[j], t[i] > 0 PROVE i = j
    OBVIOUS
  <2> DEFINE Old(m) == IF m < k THEN m ELSE m + 1
  <2>1. Old(i) \in DOMAIN s /\ t[i] = s[Old(i)] /\ Old(j) \in DOMAIN s /\ t[j] = s[Old(j)]
    <3>1. i \in 1..(Len(s) - 1) /\ j \in 1..(Len(s) - 1) /\ Len(s) \in Nat /\ k \in 1..Len(s)
      BY <1>1, <1>3
    <3>2. Old(i) \in 1..Len(s) /\ Old(j) \in 1..Len(s)
      BY <3>1
    <3>3. t[i] = s[Old(i)] /\ t[j] = s[Old(j)]
      BY <1>2, <3>1
    <3> HIDE DEF Old
    <3> QED BY <1>1, <3>2, <3>3
  <2>2. Old(i) = Old(j)
    BY <1>1, <2>1
  <2>3. k \in Nat /\ i \in Nat /\ j \in Nat
    <3>1. i \in 1..(Len(s) - 1) /\ j \in 1..(Len(s) - 1) /\ Len(s) \in Nat /\ k \in 1..Len(s)
      BY <1>1, <1>3
    <3> HIDE DEF Old
    <3> QED BY <3>1
  <2> QED BY <2>2, <2>3
<1>5. Build(t)
  <2>1. Len(t) \in 1..6
    <3>1. Len(s) \in 1..6 /\ Len(s) # 1 /\ Len(t) = Len(s) - 1
      BY <1>1, <1>2
    <3>2. \A n \in 1..6 : n # 1 => n - 1 \in 1..6
      OBVIOUS
    <3> QED BY <3>1, <3>2
  <2> QED BY <1>2, <1>4, <2>1 DEF Build, Unrepeated
<1> QED BY <1>5 DEF t

LEMMA SlotWritten ==
  ASSUME NEW s, Build(s), NEW k \in DOMAIN s, NEW value, value = None \/ value \in SupportedItems \ Items(s)
  PROVE  Build(WriteSlot(s, k, value))
<1>1. CASE value # None
  BY <1>1, SlotReplaced, ItemsKnown DEF WriteSlot
<1>2. CASE value = None /\ Len(s) # 1
  BY <1>2, SlotRemoved DEF WriteSlot
<1>3. CASE value = None /\ Len(s) = 1
  <2>1. Build(<<0>>)
    BY DEF Build, Unrepeated
  <2> QED BY <1>3, <2>1 DEF WriteSlot
<1> QED BY <1>1, <1>2, <1>3

LEMMA SlotsGrow == ASSUME NEW s, Build(s) PROVE Build(AddSlot(s))
<1>1. Len(s) \in 1..6
  BY DEF Build
<1> QED BY <1>1, SlotAdded DEF AddSlot

LEMMA LastReplaced ==
  ASSUME NEW s, Build(s), NEW item \in SupportedItems \ Items(s)
  PROVE  Build(ReplaceLastLegendary(s, item))
BY SlotAdded, SlotReplaced, ItemsKnown DEF ReplaceLastLegendary

(* Where a list has its items for the first time none is repeated. *)
LEMMA FirstOnce ==
  ASSUME NEW items \in Seq(Nat), NEW S
  PROVE  /\ FirstPlaces(items, S) \subseteq Int /\ IsFiniteSet(FirstPlaces(items, S))
         /\ \A i \in FirstPlaces(items, S) : items[i] \in S
         /\ \A i, j \in FirstPlaces(items, S) : items[i] = items[j] => i = j
<1>1. DOMAIN items = 1..Len(items) /\ Len(items) \in Nat
  BY LenProperties
<1>2. IsFiniteSet(1..Len(items)) /\ FirstPlaces(items, S) \in SUBSET (1..Len(items))
  BY <1>1, FS_Interval DEF FirstPlaces
<1>3. ASSUME NEW i \in FirstPlaces(items, S), NEW j \in FirstPlaces(items, S), items[i] = items[j]
      PROVE  i = j
  <2>1. i \in 1..Len(items) /\ j \in 1..Len(items)
    BY <1>2
  <2>2. (j \in 1..(i - 1) => items[j] # items[i]) /\ (i \in 1..(j - 1) => items[i] # items[j])
    BY DEF FirstPlaces
  <2> QED BY <1>1, <1>3, <2>1, <2>2
<1>4. \A i \in FirstPlaces(items, S) : items[i] \in S
  BY DEF FirstPlaces
<1> QED BY <1>2, <1>3, <1>4, FS_Subset

LEMMA SeededBuilds ==
  ASSUME NEW l \in ShownLevels \cup {None}
  PROVE  Build(Seeded(l).a) /\ Build(Seeded(l).b)
<1> DEFINE S == SupportedItems \ {InfinityEdge, LordDominiks}
           seenItems == IF l = None THEN <<>> ELSE Observed[l].items
           K == FirstPlaces(seenItems, S)
           core == At(seenItems, K)
           boot == IF l = None THEN None ELSE Observed[l].boot
           all == IF boot \in SupportedItems /\ ~Contains(core, boot) THEN Append(core, boot) ELSE core
           base == IF all = <<>> THEN FallbackCore ELSE SubSeq(all, 1, IF Len(all) < 5 THEN Len(all) ELSE 5)
           Good(s) == s \in Seq(S) /\ Unrepeated(s)
<1>1. Seeded(l) = [a |-> Append(base, InfinityEdge), b |-> Append(base, LordDominiks)]
  BY DEF Seeded
<1>2. S \subseteq Nat /\ (boot \in SupportedItems => boot \in S)
  BY InputsAssumption
<1>3. seenItems \in Seq(Nat)
  BY InputsAssumption, EmptySeq
<1>4. Good(core)
  <2>1. /\ K \subseteq Int /\ IsFiniteSet(K) /\ \A i \in K : seenItems[i] \in S
        /\ \A i, j \in K : seenItems[i] = seenItems[j] => i = j
    BY <1>3, FirstOnce
  <2> HIDE DEF K, seenItems, S
  <2>2. core \in Seq(S)
    <3>1. K \subseteq Int /\ IsFiniteSet(K) /\ \A i \in K : seenItems[i] \in S
      BY <2>1
    <3> QED BY <3>1, AtPlaces
  <2>3. \A i, j \in DOMAIN core : core[i] = core[j] => i = j
    <3>1. DOMAIN core = 1..Cardinality(K)
      BY <2>1, AtPlaces
    <3>2. \A m, n \in 1..Cardinality(K) : core[m] = core[n] => m = n
      BY <2>1, AtPlaces
    <3> HIDE DEF core
    <3> QED BY <3>1, <3>2
  <2> QED BY <2>2, <2>3 DEF Unrepeated
<1>5. Good(all)
  <2> HIDE DEF core
  <2>1. CASE boot \in SupportedItems /\ ~Contains(core, boot)
    <3>1. all = Append(core, boot)
      BY <2>1
    <3>2. boot \in S
      BY <1>2, <2>1
    <3> HIDE DEF all, boot, S
    <3>3. /\ core \in Seq(S) /\ Len(core) \in Nat /\ DOMAIN core = 1..Len(core)
          /\ \A i, j \in DOMAIN core : core[i] = core[j] /\ core[i] > 0 => i = j
      BY <1>4, LenProperties DEF Unrepeated
    <3>4. \A i \in 1..Len(core) : core[i] # boot
      BY <2>1 DEF Contains
    <3>5. /\ all \in Seq(S) /\ DOMAIN all = 1..(Len(core) + 1)
          /\ (\A i \in 1..Len(core) : all[i] = core[i]) /\ all[Len(core) + 1] = boot
      BY <3>1, <3>2, <3>3, AppendProperties
    <3>6. \A i, j \in DOMAIN all : all[i] = all[j] /\ all[i] > 0 => i = j
      <4> SUFFICES ASSUME NEW i \in DOMAIN all, NEW j \in DOMAIN all, all[i] = all[j], all[i] > 0 PROVE i = j
        OBVIOUS
      <4>1. (i \in DOMAIN core \/ i = Len(core) + 1) /\ (j \in DOMAIN core \/ j = Len(core) + 1)
        BY <3>3, <3>5
      <4> QED BY <3>3, <3>4, <3>5, <4>1
    <3> QED BY <3>5, <3>6 DEF Unrepeated
  <2>2. CASE ~(boot \in SupportedItems /\ ~Contains(core, boot))
    <3>1. all = core
      BY <2>2
    <3> QED BY <1>4, <3>1
  <2> QED BY <2>1, <2>2
<1>6. Good(base) /\ Len(base) \in 1..5
  <2> HIDE DEF all
  <2>1. CASE all = <<>>
    <3>1. base = FallbackCore
      BY <2>1
    <3>2. Good(FallbackCore) /\ Len(FallbackCore) \in 1..5
      BY InputsAssumption
    <3> QED BY <3>1, <3>2
  <2>2. CASE all # <<>>
    <3> DEFINE n == IF Len(all) < 5 THEN Len(all) ELSE 5
    <3>1. base = SubSeq(all, 1, n)
      BY <2>2
    <3> HIDE DEF base, S
    <3>2. /\ all \in Seq(S) /\ Len(all) \in Nat /\ DOMAIN all = 1..Len(all) /\ \A i \in 1..Len(all) : all[i] \in S
          /\ \A i, j \in DOMAIN all : all[i] = all[j] /\ all[i] > 0 => i = j
      BY <1>5, LenProperties, ElementOfSeq DEF Unrepeated
    <3>3. Len(all) # 0
      BY <2>2, <3>2, EmptySeq
    <3>4. n \in 1..5 /\ n <= Len(all) /\ \A i \in 1..n : all[i] \in S
      BY <3>2, <3>3
    <3> HIDE DEF n
    <3>5. /\ base \in Seq(S) /\ Len(base) = n
          /\ \A i \in 1..n : base[i] = all[i]
      BY <3>1, <3>4, SubSeqProperties
    <3>6. DOMAIN base = 1..n
      BY <3>5, LenProperties
    <3>7. \A i, j \in DOMAIN base : base[i] = base[j] /\ base[i] > 0 => i = j
      <4>1. \A i \in 1..n : i \in DOMAIN all
        BY <3>2, <3>4
      <4> QED BY <3>2, <3>5, <3>6, <4>1
    <3> QED BY <3>4, <3>5, <3>7 DEF Unrepeated
  <2> QED BY <2>1, <2>2
<1> HIDE DEF base
<1>7. Build(base) /\ Len(base) < 6
  <2>1. base \in Seq(Nat)
    <3> HIDE DEF S
    <3> QED BY <1>2, <1>6, SeqMonotonic
  <2>2. Len(base) \in 1..6 /\ Len(base) < 6 /\ Unrepeated(base)
    <3>1. Len(base) \in 1..5 /\ Unrepeated(base)
      BY <1>6
    <3>2. \A n \in 1..5 : n \in 1..6 /\ n < 6
      OBVIOUS
    <3> QED BY <3>1, <3>2, Zenon
  <2> QED BY <2>1, <2>2 DEF Build
<1>8. ASSUME NEW x \in {InfinityEdge, LordDominiks} PROVE Build(Append(base, x))
  <2>1. x \in Nat
    BY ItemsKnown
  <2>2. \A i \in DOMAIN base : base[i] # x
    <3>1. \A i \in DOMAIN base : base[i] \in S
      <4> HIDE DEF S
      <4> QED BY <1>6, LenProperties, ElementOfSeq
    <3> QED BY <3>1
  <2>3. x \notin Items(base)
    BY <1>7, <2>2, BuildIs
  <2> QED BY <1>7, <2>1, <2>3, SlotAdded
<1> QED BY <1>1, <1>8

(* The slots that hold an item, in a row. *)
LEMMA CompactItems ==
  ASSUME NEW s, Build(s)
  PROVE  Items(s) = {Compact(s)[n] : n \in DOMAIN Compact(s)}
<1>1. /\ s \in Seq(Nat) /\ Len(s) \in 1..6 /\ DOMAIN s = 1..Len(s)
      /\ Items(s) = {s[i] : i \in {j \in DOMAIN s : s[j] > 0}}
  BY BuildIs
<1>2. PICK K : K = {j \in DOMAIN s : s[j] > 0}
  OBVIOUS
<1>3. K \subseteq Int /\ IsFiniteSet(K)
  <2>1. IsFiniteSet(1..Len(s)) /\ K \in SUBSET (1..Len(s)) /\ Len(s) \in Nat
    BY <1>1, <1>2, FS_Interval
  <2>2. IsFiniteSet(K)
    BY <2>1, FS_Subset
  <2>3. K \subseteq Int
    BY <2>1
  <2> QED BY <2>2, <2>3
<1>4. Compact(s) = At(s, K)
  BY <1>2 DEF Compact
<1>5. /\ DOMAIN At(s, K) = 1..Cardinality(K)
      /\ \A n \in 1..Cardinality(K) : Nth(K, n) \in K /\ At(s, K)[n] = s[Nth(K, n)]
      /\ \A i \in K : Place(K, i) \in 1..Cardinality(K) /\ At(s, K)[Place(K, i)] = s[i]
  <2>1. At(s, K) = [n \in 1..Cardinality(K) |-> s[Nth(K, n)]]
    BY DEF At
  <2>2. DOMAIN At(s, K) = 1..Cardinality(K) /\ \A n \in 1..Cardinality(K) : At(s, K)[n] = s[Nth(K, n)]
    BY <2>1
  <2>3. \A n \in 1..Cardinality(K) : Nth(K, n) \in K
    BY <1>3, NthPlace
  <2>4. \A i \in K : Place(K, i) \in 1..Cardinality(K) /\ Nth(K, Place(K, i)) = i
    BY <1>3, NthPlace
  <2> QED BY <2>2, <2>3, <2>4
<1>6. Items(s) = {s[i] : i \in K}
  BY <1>1, <1>2
<1>7. {s[i] : i \in K} = {At(s, K)[n] : n \in DOMAIN At(s, K)}
  BY <1>5
<1> QED BY <1>4, <1>6, <1>7

(* Two builds without a slot of their own hold the same items. *)
LEMMA SameItems ==
  ASSUME Build(page.a), Build(page.b), SameBuilds
  PROVE  Items(page.b) \subseteq Items(page.a)
<1> DEFINE ca == Compact(page.a)
           cb == Compact(page.b)
<1>2. Items(page.a) = {ca[n] : n \in DOMAIN ca} /\ Items(page.b) = {cb[n] : n \in DOMAIN cb}
  BY CompactItems
<1>3. OnlyIn(cb, ca) = {}
  BY DEF SameBuilds
<1> HIDE DEF ca, cb
<1>4. ASSUME NEW i \in DOMAIN cb PROVE \E j \in DOMAIN ca : ca[j] = cb[i]
  <2>1. PICK pair \in Shared(cb, ca) : pair[1] = i
    BY <1>3, <1>4 DEF OnlyIn
  <2> QED BY <2>1 DEF Shared
<1> QED BY <1>2, <1>4

(* What is suggested is in neither build, if they are the same. *)
LEMMA AlternativesFresh ==
  ASSUME page.progression \in ShownLevels \cup {None}
  PROVE  AlternativeQuestions \subseteq SupportedItems \ Items(page.a)
<1> DEFINE current == Items(page.a)
           fresh == SupportedItems \ current
           common == IF page.progression = None THEN <<>> ELSE Observed[page.progression].common
           K == {i \in DOMAIN common : common[i] \in fresh}
           seenItems == At(common, K)
           sorted == <<LordDominiks>> \o SortedItems
           L == {i \in FirstPlaces(sorted, SupportedItems) :
                   sorted[i] \notin Boots \cup current \cup ToSet(seenItems)}
           rest == At(sorted, L)
           all == seenItems \o rest
<1>1. AlternativeQuestions = {all[k] : k \in 1..(IF Len(all) < 3 THEN Len(all) ELSE 3)}
  BY DEF AlternativeQuestions
<1>2. seenItems \in Seq(fresh)
  <2>1. common \in Seq(Nat)
    BY InputsAssumption, EmptySeq
  <2>2. K \subseteq Int /\ IsFiniteSet(K)
    <3>1. DOMAIN common = 1..Len(common) /\ Len(common) \in Nat
      BY <2>1, LenProperties
    <3>2. K \in SUBSET (1..Len(common)) /\ IsFiniteSet(1..Len(common))
      <4> HIDE DEF common
      <4> QED BY <3>1, FS_Interval
    <3> QED BY <3>2, FS_Subset
  <2>3. \A i \in K : common[i] \in fresh
    OBVIOUS
  <2> HIDE DEF K, common, fresh
  <2> QED BY <2>2, <2>3, AtPlaces
<1>3. rest \in Seq(fresh)
  <2>1. SupportedItems \subseteq Nat /\ LordDominiks \in Nat
    BY ItemsKnown
  <2>2. L \subseteq Int /\ IsFiniteSet(L) /\ \A i \in L : sorted[i] \in fresh
    <3>1. ASSUME IsFiniteSet(DOMAIN sorted), DOMAIN sorted \subseteq Int
          PROVE  L \subseteq Int /\ IsFiniteSet(L)
      <4>1. L \in SUBSET (DOMAIN sorted)
        BY DEF FirstPlaces
      <4> QED BY <3>1, <4>1, FS_Subset
    <3>2. IsFiniteSet(DOMAIN sorted) /\ DOMAIN sorted \subseteq Int
      <4> DEFINE N == Cardinality(SupportedItems)
      <4>1. IsFiniteSet(SupportedItems)
        BY InputsAssumption
      <4>2. N \in Nat
        BY <4>1, FS_CardinalityType
      <4>3. SortedItems = [n \in 1..N |-> Nth(SupportedItems, n)]
        BY DEF SortedItems, Ascending
      <4> HIDE DEF N
      <4>4. SortedItems \in Seq({Nth(SupportedItems, n) : n \in 1..N})
        BY <4>2, <4>3
      <4>5. DOMAIN sorted = 1..Len(sorted) /\ Len(sorted) \in Nat
        BY <4>4, LenProperties, ConcatProperties
      <4> QED BY <4>5, FS_Interval
    <3>3. \A i \in L : sorted[i] \in fresh
      BY DEF FirstPlaces
    <3> QED BY <3>1, <3>2, <3>3
  <2> HIDE DEF L, sorted, fresh
  <2> QED BY <2>2, AtPlaces
<1> HIDE DEF seenItems, rest, fresh
<1>4. all \in Seq(fresh) /\ Len(all) \in Nat /\ \A k \in 1..Len(all) : all[k] \in fresh
  <2>1. all \in Seq(fresh)
    BY <1>2, <1>3, ConcatProperties
  <2> HIDE DEF all
  <2> QED BY <2>1, LenProperties, ElementOfSeq
<1> HIDE DEF all
<1>5. \A k \in 1..(IF Len(all) < 3 THEN Len(all) ELSE 3) : all[k] \in fresh
  BY <1>4
<1>6. AlternativeQuestions \subseteq fresh
  BY <1>1, <1>5
<1> QED BY <1>6 DEF fresh

LEMMA BuildsStep == InputsInv /\ BuildsInv /\ [InputsNext]_inputVars => BuildsInv'
<1> SUFFICES ASSUME InputsInv, BuildsInv, [InputsNext]_inputVars PROVE BuildsInv'
  OBVIOUS
<1>g. /\ PageShaped(page) /\ page.level \in ShownLevels /\ page.progression \in ShownLevels \cup {None}
      /\ Build(page.a) /\ Build(page.b)
  BY DEF InputsInv, InputsGood, PageTyped, BuildsInv
<1> DEFINE Stay(q) == q.a = page.a /\ q.b = page.b
<1>0. ASSUME Stay(page') PROVE BuildsInv'
  BY <1>0, <1>g DEF BuildsInv
<1>l. ASSUME NEW p, PageShaped(p), p.level \in ShownLevels, Stay(p)
      PROVE  Build(Loaded(p).a) /\ Build(Loaded(p).b)
  <2> DEFINE x == IF "builds" \in p.edited THEN p.a ELSE Seeded(p.level).a
             y == IF "builds" \in p.edited THEN p.b ELSE Seeded(p.level).b
             ranks == IF "ranks" \in p.edited THEN p.ranks ELSE LevelRanks(p.level, p.level)
             notice == IF "ranks" \in p.edited THEN p.notice ELSE FALSE
             actions == IF "combo" \in p.edited THEN p.actions ELSE DefaultActions(p.level)
             autos == IF "combo" \in p.edited THEN p.continueAutos ELSE TRUE
             r == [p EXCEPT !.progression = p.level, !.loading = FALSE, !.ranks = ranks, !.notice = notice,
                            !.actions = actions, !.continueAutos = autos, !.a = x, !.b = y]
  <2>1. Loaded(p) = WithSlotCount(r)
    BY DEF Loaded
  <2>2. Build(x) /\ Build(y)
    BY <1>g, <1>l, SeededBuilds
  <2>a. r = [p EXCEPT !.progression = p.level, !.loading = FALSE, !.ranks = ranks, !.notice = notice,
                      !.actions = actions, !.continueAutos = autos, !.a = x, !.b = y]
    OBVIOUS
  <2> HIDE DEF x, y, ranks, notice, actions, autos, r
  <2>3. PageShaped(r) /\ r.a = x /\ r.b = y
    BY <1>l, <2>a DEF PageShaped
  <2>4. WithSlotCount(r) = [r EXCEPT !.slotCount = WithSlotCount(r).slotCount] /\ PageShaped(WithSlotCount(r))
    BY <2>3, SlotCountEffect
  <2>5. WithSlotCount(r).a = r.a /\ WithSlotCount(r).b = r.b
    <3> DEFINE n == WithSlotCount(r).slotCount
               w == WithSlotCount(r)
    <3>1. w = [r EXCEPT !.slotCount = n]
      BY <2>4
    <3> HIDE DEF n, w
    <3>2. w.a = r.a /\ w.b = r.b
      BY <2>3, <3>1 DEF PageShaped
    <3> QED BY <3>2 DEF w
  <2> QED BY <2>1, <2>2, <2>3, <2>5
<1>1. CASE \E l \in ShownLevels : SetLevel(l)
  <2>1. PICK l \in ShownLevels : SetLevel(l)
    BY <1>1
  <2> DEFINE turned == WithLegalRanks(WithSlotCount(
                         [page EXCEPT !.level = l, !.loading = TRUE, !.failed = FALSE]))
  <2>2. page' \in {turned, Loaded(turned)}
    BY <2>1 DEF SetLevel
  <2>3. PageShaped(turned) /\ turned.level = l /\ Stay(turned)
    <3> DEFINE p == [page EXCEPT !.level = l, !.loading = TRUE, !.failed = FALSE]
               w == WithSlotCount(p)
    <3>0. p = [page EXCEPT !.level = l, !.loading = TRUE, !.failed = FALSE]
      OBVIOUS
    <3> HIDE DEF p
    <3>1. PageShaped(p) /\ p.level = l /\ Stay(p)
      BY <1>g, <3>0 DEF PageShaped
    <3>2. w = [p EXCEPT !.slotCount = w.slotCount] /\ PageShaped(w)
      BY <3>1, SlotCountEffect
    <3> HIDE DEF w
    <3>3. w.level = l /\ Stay(w)
      <4> DEFINE n == w.slotCount
      <4>1. w = [p EXCEPT !.slotCount = n]
        BY <3>2
      <4> HIDE DEF n
      <4> QED BY <3>1, <4>1 DEF PageShaped
    <3>4. turned = WithLegalRanks(w)
      BY DEF w, p
    <3>5. CASE turned = w
      BY <3>2, <3>3, <3>5
    <3>6. CASE turned = [w EXCEPT !.ranks = ClampSkillRanks(w.ranks, w.level), !.notice = TRUE]
      <4> DEFINE x == ClampSkillRanks(w.ranks, w.level)
                 t == turned
      <4>1. t = [w EXCEPT !.ranks = x, !.notice = TRUE]
        BY <3>6
      <4> HIDE DEF x, t
      <4>2. PageShaped(t) /\ t.level = w.level /\ t.a = w.a /\ t.b = w.b
        BY <3>2, <4>1 DEF PageShaped
      <4> QED BY <3>3, <4>2 DEF t
    <3> HIDE DEF turned
    <3> QED BY <3>4, <3>5, <3>6 DEF WithLegalRanks
  <2> HIDE DEF turned
  <2>4. Build(Loaded(turned).a) /\ Build(Loaded(turned).b)
    BY <1>l, <2>3
  <2> QED BY <1>g, <2>2, <2>3, <2>4 DEF BuildsInv
<1>2. CASE ProgressionLoaded
  <2>1. page' = Loaded(page)
    BY <1>2 DEF ProgressionLoaded
  <2> QED BY <1>g, <1>l, <2>1 DEF BuildsInv
<1>3. CASE ProgressionFails \/ CorrectRanks \/ ToggleAutos \/ (\E l \in ShownLevels : StaleLoaded(l))
           \/ UNCHANGED inputVars
  <2> DEFINE x == ClampSkillRanks(page.ranks, page.level)
  <2>1. \/ page' = [page EXCEPT !.loading = FALSE, !.failed = TRUE]
        \/ page' = [page EXCEPT !.ranks = x, !.notice = TRUE]
        \/ page' = [page EXCEPT !.continueAutos = ~page.continueAutos]
        \/ page' = page
    BY <1>3 DEF ProgressionFails, CorrectRanks, ToggleAutos, StaleLoaded, inputVars
  <2> HIDE DEF x
  <2>2. Stay(page')
    BY <1>g, <2>1 DEF PageShaped
  <2> QED BY <1>0, <2>2
<1>4. CASE \E key \in SkillKeys, delta \in {-1, 1} : AdjustRank(key, delta)
  <2>1. PICK key \in SkillKeys, delta \in {-1, 1} : AdjustRank(key, delta)
    BY <1>4
  <2> DEFINE next == Adjusted(page.ranks, key, delta)
  <2>2. page' = [[page EXCEPT !.ranks = next, !.notice = FALSE] EXCEPT !.edited = @ \cup {"ranks"}]
    BY <2>1 DEF AdjustRank, EditInput
  <2> HIDE DEF next
  <2>3. Stay(page')
    BY <1>g, <2>2 DEF PageShaped
  <2> QED BY <1>0, <2>3
<1>5. CASE EditOfActions
  <2>1. PICK actions, autos : EditActions(actions, autos)
    BY <1>5 DEF EditOfActions, ApplyComboPreset, AddAction, RemoveAction, MoveAction
  <2>2. page' = [[page EXCEPT !.actions = actions, !.continueAutos = autos] EXCEPT !.edited = @ \cup {"combo"}]
    BY <2>1 DEF EditActions, EditInput
  <2>3. Stay(page')
    BY <1>g, <2>2 DEF PageShaped
  <2> QED BY <1>0, <2>3
<1>6. CASE \E n \in 3..6 : UpdateOptimizerSlotCount(n)
  <2>1. PICK n \in 3..6 : UpdateOptimizerSlotCount(n)
    BY <1>6
  <2>2. page' = [[page EXCEPT !.slotCount = n] EXCEPT !.edited = @ \cup {"slots"}]
    BY <2>1 DEF UpdateOptimizerSlotCount, EditInput
  <2>3. Stay(page')
    BY <1>g, <2>2 DEF PageShaped
  <2> QED BY <1>0, <2>3
<1>7. CASE ResetToDefault
  <2> DEFINE a == Seeded(page.progression).a
             b == Seeded(page.progression).b
             ranks == LevelRanks(page.progression, page.level)
             actions == DefaultActions(page.level)
  <2>1. page' = [page EXCEPT !.a = a, !.b = b, !.edited = @ \cap {"slots"}, !.ranks = ranks,
                             !.actions = actions, !.continueAutos = TRUE]
    BY <1>7 DEF ResetToDefault
  <2>2. Build(a) /\ Build(b)
    BY <1>g, SeededBuilds
  <2> HIDE DEF a, b, ranks, actions
  <2>3. page'.a = a /\ page'.b = b
    BY <1>g, <2>1 DEF PageShaped
  <2> QED BY <2>2, <2>3 DEF BuildsInv
<1>8. CASE EditOfBuilds
  <2>1. ASSUME NEW a, NEW b, EditBuilds(a, b), Build(a), Build(b) PROVE BuildsInv'
    <3>1. page' = [[page EXCEPT !.a = a, !.b = b] EXCEPT !.edited = @ \cup {"builds"}]
      BY <2>1 DEF EditBuilds, EditInput
    <3>2. page'.a = a /\ page'.b = b
      BY <1>g, <3>1 DEF PageShaped
    <3> QED BY <2>1, <3>2 DEF BuildsInv
  <2>2. ASSUME NEW side \in {"a", "b"}, NEW slots, EditSide(side, slots), Build(slots) PROVE BuildsInv'
    BY <1>g, <2>1, <2>2 DEF EditSide
  <2>3. \A side \in {"a", "b"} : Side(side) \in {page.a, page.b} /\ Build(Side(side))
    BY <1>g DEF Side
  <2>4. ASSUME NEW side \in {"a", "b"}, NEW i \in OnlyIn(Side(side), Other(side)), NEW value \in SideOffers(side, i),
               UpdateSide(side, i, value)
        PROVE  BuildsInv'
    <3>1. i \in DOMAIN Side(side)
      BY DEF OnlyIn
    <3>2. value = None \/ value \in SupportedItems \ Items(Side(side))
      BY DEF SideOffers
    <3>3. Build(WriteSlot(Side(side), i, value))
      BY <2>3, <3>1, <3>2, SlotWritten
    <3> QED BY <2>2, <2>4, <3>3 DEF UpdateSide
  <2>5. ASSUME NEW side \in {"a", "b"}, AddSide(side) PROVE BuildsInv'
    BY <2>2, <2>3, <2>5, SlotsGrow DEF AddSide
  <2>6. ASSUME NEW side \in {"a", "b"}, NEW build \in Candidates, NEW autos, UseOptimizerBuild(build, side, autos)
        PROVE  BuildsInv'
    <3>1. Build(build)
      <4>1. build \in Seq(SupportedItems) /\ Len(build) \in 1..6 /\ Unrepeated(build)
        BY InputsAssumption
      <4>2. build \in Seq(Nat)
        BY <4>1, ItemsKnown, SeqMonotonic
      <4> QED BY <4>1, <4>2 DEF Build
    <3>2. \/ page' = [[page EXCEPT !.a = build, !.continueAutos = autos] EXCEPT !.edited = @ \cup {"builds"}]
          \/ page' = [[page EXCEPT !.b = build, !.continueAutos = autos] EXCEPT !.edited = @ \cup {"builds"}]
      BY <2>6 DEF UseOptimizerBuild, EditInput
    <3>3. page'.a \in {build, page.a} /\ page'.b \in {build, page.b}
      BY <1>g, <3>2 DEF PageShaped
    <3> QED BY <1>g, <3>1, <3>3 DEF BuildsInv
  <2>7. ASSUME NEW pair \in Shared(page.a, page.b), NEW value \in SharedOffers, UpdateShared(pair, value)
        PROVE  BuildsInv'
    <3>1. pair[1] \in DOMAIN page.a /\ pair[2] \in DOMAIN page.b
      BY DEF Shared
    <3>2. value = None \/ (value \in SupportedItems \ Items(page.a) /\ value \in SupportedItems \ Items(page.b))
      BY DEF SharedOffers
    <3>3. Build(WriteSlot(page.a, pair[1], value)) /\ Build(WriteSlot(page.b, pair[2], value))
      BY <1>g, <3>1, <3>2, SlotWritten
    <3> QED BY <2>1, <2>7, <3>3 DEF UpdateShared
  <2>8. ASSUME AddShared PROVE BuildsInv'
    BY <1>g, <2>1, <2>8, SlotsGrow DEF AddShared
  <2>9. ASSUME SameBuilds, NEW item \in AlternativeQuestions, SuggestAlternative(item) PROVE BuildsInv'
    <3>1. item \in SupportedItems \ Items(page.b)
      BY <1>g, <2>9, SameItems, AlternativesFresh
    <3>2. Build(ReplaceLastLegendary(page.b, item))
      BY <1>g, <3>1, LastReplaced
    <3> QED BY <2>2, <2>9, <3>2 DEF SuggestAlternative
  <2> QED BY <1>8, <2>4, <2>5, <2>6, <2>7, <2>8, <2>9 DEF EditOfBuilds
<1> QED BY <1>1, <1>2, <1>3, <1>4, <1>5, <1>6, <1>7, <1>8 DEF InputsNext

(* For any items, observed progressions and proposed builds, and any number *)
(* of acts: the builds of the page have one to six slots and no item twice, *)
(* so that the lab never refuses to simulate what its panels led to.        *)
THEOREM AlwaysBuildsWellFormed == InputsSpec => []BuildsWellFormed
<1>1. InputsInit => InputsInv /\ BuildsInv
  <2> SUFFICES ASSUME InputsInit PROVE BuildsInv
    BY InputsInitInv
  <2>1. Build(FallbackCore) /\ Len(FallbackCore) < 6
    <3>1. FallbackCore \in Seq(Nat)
      <4>1. SupportedItems \ {InfinityEdge, LordDominiks} \subseteq Nat
        BY ItemsKnown
      <4> QED BY <4>1, InputsAssumption, SeqMonotonic
    <3>2. Len(FallbackCore) \in 1..5 /\ Unrepeated(FallbackCore)
      BY InputsAssumption
    <3>3. \A n \in 1..5 : n \in 1..6 /\ n < 6
      OBVIOUS
    <3> QED BY <3>1, <3>2, <3>3, Zenon DEF Build
  <2>2. ASSUME NEW x \in {InfinityEdge, LordDominiks} PROVE Build(Append(FallbackCore, x))
    <3>1. \A i \in DOMAIN FallbackCore : FallbackCore[i] # x
      <4>1. \A i \in DOMAIN FallbackCore : FallbackCore[i] \in SupportedItems \ {InfinityEdge, LordDominiks}
        BY InputsAssumption, LenProperties, ElementOfSeq
      <4> QED BY <4>1
    <3>2. x \in Nat /\ x \notin Items(FallbackCore)
      BY <2>1, <3>1, ItemsKnown, BuildIs
    <3> QED BY <2>1, <3>2, SlotAdded
  <2>3. page.a = Append(FallbackCore, InfinityEdge) /\ page.b = Append(FallbackCore, LordDominiks)
    BY DEF InputsInit
  <2> QED BY <2>2, <2>3 DEF BuildsInv
<1>2. InputsInv /\ BuildsInv /\ [InputsNext]_inputVars => (InputsInv /\ BuildsInv)'
  BY InputsNextInv, BuildsStep
<1>3. BuildsInv => BuildsWellFormed
  BY DEF BuildsInv, Build, BuildsWellFormed
<1> QED BY <1>1, <1>2, <1>3, PTL DEF InputsSpec

-----------------------------------------------------------------------------
(* The recommendation of a level.  Of one match, participant and level at  *)
(* most one frame is read, the last, because each store keeps one of a     *)
(* time.  The core, the boots and the count are found by the least of some *)
(* measure of the frames in the pool, so somebody in it has them.          *)

OneOfATime ==
  /\ observed \in SUBSET Frames /\ IsFiniteSet(observed)
  /\ \A o, p \in observed :
       (o.store = "compact" /\ p.store = "compact" /\ Vote(o) = Vote(p)) => o = p

LEMMA OneOfATimeInit == ProgressionInit => OneOfATime
BY FS_EmptySet DEF ProgressionInit, OneOfATime

LEMMA OneOfATimeStep == OneOfATime /\ [ProgressionNext]_observed => OneOfATime'
<1> SUFFICES ASSUME OneOfATime, [ProgressionNext]_observed PROVE OneOfATime'
  OBVIOUS
<1>1. CASE UNCHANGED observed
  BY <1>1 DEF OneOfATime
<1>2. ASSUME NEW frame \in Frames \ observed, ObserveFrame(frame) PROVE OneOfATime'
  <2> DEFINE rest == {o \in observed : ~(frame.store = "compact" /\ o.store = "compact"
                                         /\ Vote(o) = Vote(frame))}
  <2>1. observed' = {frame} \cup rest
    BY <1>2 DEF ObserveFrame
  <2>2. IsFiniteSet(rest) /\ rest \in SUBSET observed
    BY FS_Subset DEF OneOfATime
  <2>3. IsFiniteSet({frame} \cup rest)
    <3> HIDE DEF rest
    <3>1. IsFiniteSet(rest \cup {frame})
      BY <2>2, FS_AddElement
    <3> QED BY <3>1
  <2>4. ASSUME NEW o \in {frame} \cup rest, NEW p \in {frame} \cup rest,
               o.store = "compact", p.store = "compact", Vote(o) = Vote(p)
        PROVE  o = p
    <3>1. CASE o = frame
      BY <2>4, <3>1
    <3>2. CASE p = frame
      BY <2>4, <3>2
    <3>3. CASE o \in rest /\ p \in rest
      BY <2>2, <2>4, <3>3 DEF OneOfATime
    <3> QED BY <3>1, <3>2, <3>3
  <2> HIDE DEF rest
  <2>5. \A o, p \in observed' :
          (o.store = "compact" /\ p.store = "compact" /\ Vote(o) = Vote(p)) => o = p
    BY <2>1, <2>4
  <2>6. observed' \in SUBSET Frames /\ IsFiniteSet(observed')
    BY <2>1, <2>2, <2>3 DEF OneOfATime
  <2> QED BY <2>5, <2>6 DEF OneOfATime, Vote
<1> QED BY <1>1, <1>2 DEF ProgressionNext

(* No two frames that are read are of the same vote. *)
LEMMA OneReadOfAVote ==
  ASSUME OneOfATime
  PROVE  /\ \A o, p \in Observations : Vote(o) = Vote(p) => o = p
         /\ Deduped = Observations
         /\ Observations \in SUBSET observed
<1>1. ASSUME NEW o \in Observations, NEW p \in Observations, Vote(o) = Vote(p) PROVE o = p
  <2>1. /\ o \in observed /\ p \in observed /\ o \in Frames /\ p \in Frames
        /\ Readable(o) /\ Readable(p)
        /\ o.time <= p.time /\ p.time <= o.time
        /\ o.time \in Nat /\ p.time \in Nat
    BY <1>1, ProgressionAssumption DEF Observations, OneOfATime
  <2>2. o.store \in {"compact", "legacy"} /\ p.store \in {"compact", "legacy"}
    BY <2>1, ProgressionAssumption
  <2>3. CASE o.store = "compact" \/ p.store = "compact"
    BY <1>1, <2>1, <2>2, <2>3 DEF Readable, OneOfATime
  <2>4. CASE o.store = "legacy" /\ p.store = "legacy"
    <3>1. o.match = p.match /\ o.participant = p.participant /\ o.time = p.time
      BY <1>1, <2>1 DEF Vote
    <3> QED BY <2>1, <2>4, <3>1, ProgressionAssumption
  <2> QED BY <2>2, <2>3, <2>4
<1>2. ASSUME NEW o \in Observations PROVE ~Later(o, o)
  <2>1. o.time \in Nat /\ o.items \in Seq(Nat)
    BY ProgressionAssumption DEF Observations, OneOfATime
  <2>2. ~JoinedBefore(o.items, o.items)
    <3> DEFINE differ == {k \in 1..Min({Len(o.items), Len(o.items)}) : o.items[k] # o.items[k]}
    <3>1. differ = {} /\ ~(Len(o.items) < Len(o.items))
      BY <2>1
    <3> QED BY <3>1 DEF JoinedBefore
  <2> QED BY <2>1, <2>2 DEF Later
<1>3. Deduped = Observations
  BY <1>1, <1>2 DEF Deduped
<1> QED BY <1>1, <1>3 DEF Observations

(* Where a measure is least, and where it is greatest. *)
LEMMA LeastMeasure ==
  ASSUME NEW S, S # {}, NEW w, \A x \in S : w[x] \in Nat
  PROVE  \E m \in S : \A x \in S : w[m] <= w[x]
<1> DEFINE W == {w[x] : x \in S}
<1>1. W \subseteq Nat /\ W # {}
  OBVIOUS
<1>2. PICK m \in W : \A k \in W : m <= k
  <2> HIDE DEF W
  <2> QED BY <1>1, LeastNatural
<1> QED BY <1>2

LEMMA GreatestMeasure ==
  ASSUME NEW S, IsFiniteSet(S), S # {}, NEW w, \A x \in S : w[x] \in Nat
  PROVE  \E m \in S : \A x \in S : w[x] <= w[m]
<1> DEFINE R == {x \in S \X S : w[x[2]] <= w[x[1]]}
<1>1. \A x, y \in S : <<x, y>> \in R <=> w[y] <= w[x]
  OBVIOUS
<1> HIDE DEF R
<1>2. ASSUME NEW x \in S, NEW y \in S PROVE <<x, y>> \in R \/ <<y, x>> \in R
  <2>1. w[y] <= w[x] \/ w[x] <= w[y]
    OBVIOUS
  <2> QED BY <1>1, <2>1
<1>3. ASSUME NEW x \in S, NEW y \in S, NEW z \in S, <<x, y>> \in R, <<y, z>> \in R
      PROVE  <<x, z>> \in R
  <2>1. w[y] <= w[x] /\ w[z] <= w[y]
    BY <1>1, <1>3
  <2>2. w[z] <= w[x]
    BY <2>1
  <2> QED BY <1>1, <2>2
<1>4. \E m \in S : \A x \in S : <<m, x>> \in R
  BY <1>2, <1>3, LeastOf
<1> QED BY <1>1, <1>4

(* Every vote has a last frame. *)
LEMMA EveryVoteRead ==
  ASSUME OneOfATime
  PROVE  {Vote(o) : o \in Observations} = {Vote(o) : o \in {p \in observed : Readable(p)}}
<1> SUFFICES ASSUME NEW o \in observed, Readable(o)
             PROVE  \E q \in Observations : Vote(q) = Vote(o)
  BY DEF Observations
<1> DEFINE same == {p \in observed : Readable(p) /\ Vote(p) = Vote(o)}
           w == [p \in same |-> p.time]
<1>1. IsFiniteSet(same) /\ same # {} /\ \A p \in same : w[p] \in Nat
  BY FS_Subset, ProgressionAssumption DEF OneOfATime
<1>2. PICK q \in same : \A p \in same : w[p] <= w[q]
  <2> HIDE DEF w, same
  <2> QED BY <1>1, GreatestMeasure
<1>3. \A p \in same : p.time <= q.time
  BY <1>2
<1> QED BY <1>2, <1>3 DEF Observations

(* The rows of a pool. *)
LEMMA CountsNatural ==
  \A o \in Frames : CompletedCount(o) \in Nat
<1> SUFFICES ASSUME NEW o \in Frames PROVE CompletedCount(o) \in Nat
  OBVIOUS
<1>1. o.items \in Seq(Nat)
  BY ProgressionAssumption
<1>2. IsFiniteSet(1..Len(o.items))
  BY <1>1, FS_Interval
<1>3. Completed(o) \in SUBSET (1..Len(o.items))
  BY <1>1 DEF Completed
<1>4. IsFiniteSet(Completed(o))
  BY <1>2, <1>3, FS_Subset
<1> QED BY <1>4, FS_CardinalityType DEF CompletedCount

LEMMA NthCountNatural ==
  ASSUME NEW rows \in SUBSET Frames, IsFiniteSet(rows), rows # {},
         NEW n \in Nat, n <= Cardinality(rows)
  PROVE  NthCount(rows, n) \in Nat
<1> DEFINE C == {c \in {CompletedCount(o) : o \in rows} :
                   Cardinality({o \in rows : CompletedCount(o) <= c}) >= n}
           w == [o \in rows |-> CompletedCount(o)]
<1>1. \A o \in rows : CompletedCount(o) \in Nat
  BY CountsNatural
<1>2. PICK last \in rows : \A o \in rows : CompletedCount(o) <= CompletedCount(last)
  <2>1. \A o \in rows : w[o] \in Nat
    BY <1>1
  <2>2. \E last \in rows : \A o \in rows : w[o] <= w[last]
    <3> HIDE DEF w
    <3> QED BY <2>1, GreatestMeasure
  <2> QED BY <2>2
<1>3. {o \in rows : CompletedCount(o) <= CompletedCount(last)} = rows
  BY <1>2
<1>4. CompletedCount(last) \in C
  <2>1. Cardinality({o \in rows : CompletedCount(o) <= CompletedCount(last)}) >= n
    BY <1>3, FS_CardinalityType
  <2> QED BY <2>1
<1>5. C \in SUBSET Nat /\ C # {}
  BY <1>1, <1>4
<1> HIDE DEF C
<1>6. Min(C) \in C
  BY <1>5, MaxMinOfNaturals
<1>7. Min(C) \in Nat
  BY <1>5, <1>6
<1> QED BY <1>7 DEF NthCount, C

LEMMA MedianNatural ==
  ASSUME NEW rows \in SUBSET Frames, IsFiniteSet(rows), rows # {}
  PROVE  TwiceMedian(rows) \in Nat
<1> DEFINE n == Cardinality(rows)
           half == n \div 2
<1>1. n \in Nat /\ n >= 1
  BY FS_CardinalityType, FS_EmptySet
<1>2. half \in Nat /\ half + 1 \in Nat /\ half <= n /\ (n # 1 => half + 1 <= n)
      /\ (n = 1 => half + 1 <= n)
  <2> HIDE DEF n
  <2> QED BY <1>1
<1> HIDE DEF half
<1>3. NthCount(rows, half) \in Nat /\ NthCount(rows, half + 1) \in Nat
  BY <1>2, NthCountNatural
<1> QED BY <1>3 DEF TwiceMedian, half

(* The count the pool goes by is one of its counts, and as frequent as any. *)
LEMMA ModeFrequent ==
  ASSUME NEW rows \in SUBSET Frames, IsFiniteSet(rows), rows # {}
  PROVE  /\ Mode(rows) \in DOMAIN Distribution(rows)
         /\ \A c \in DOMAIN Distribution(rows) :
              Distribution(rows)[c] <= Distribution(rows)[Mode(rows)]
<1> DEFINE d == Distribution(rows)
           most == {c \in DOMAIN d : \A e \in DOMAIN d : d[e] <= d[c]}
           far(c) == Distance(2 * c, TwiceMedian(rows))
           near == {c \in most : \A e \in most : far(c) <= far(e)}
<1>1. DOMAIN d = {CompletedCount(o) : o \in rows} /\ DOMAIN d \in SUBSET Nat /\ DOMAIN d # {}
  BY CountsNatural DEF Distribution
<1>2. ASSUME NEW c PROVE Cardinality({o \in rows : CompletedCount(o) = c}) \in Nat
  BY FS_Subset, FS_CardinalityType
<1>3. most # {}
  <2> DEFINE w == [o \in rows |-> d[CompletedCount(o)]]
  <2>1. \A o \in rows : w[o] \in Nat
    BY <1>2 DEF Distribution
  <2>2. PICK m \in rows : \A o \in rows : w[o] <= w[m]
    <3> HIDE DEF w
    <3> QED BY <2>1, GreatestMeasure
  <2>3. \A o \in rows : d[CompletedCount(o)] <= d[CompletedCount(m)]
    <3> HIDE DEF d
    <3> QED BY <2>2
  <2> HIDE DEF d
  <2>4. CompletedCount(m) \in DOMAIN d
    BY <1>1
  <2>5. \A e \in DOMAIN d : d[e] <= d[CompletedCount(m)]
    BY <1>1, <2>3
  <2> QED BY <2>4, <2>5
<1>4. near # {}
  <2> DEFINE w == [c \in most |-> far(c)]
  <2>1. \A c \in most : w[c] \in Nat
    <3>1. \A c \in most : c \in Nat
      BY <1>1
    <3> QED BY <3>1, MedianNatural DEF Distance
  <2>2. \E m \in most : \A x \in most : w[m] <= w[x]
    <3> HIDE DEF w, most
    <3> QED BY <1>3, <2>1, LeastMeasure
  <2>3. \E m \in most : \A x \in most : far(m) <= far(x)
    <3> HIDE DEF far, most
    <3> QED BY <2>2
  <2> HIDE DEF far, most, w
  <2> QED BY <2>3
<1>5. Min(near) \in near
  <2>1. near \in SUBSET Nat
    BY <1>1
  <2> HIDE DEF near
  <2> QED BY <1>4, <2>1, MaxMinOfNaturals
<1>6. Mode(rows) = Min(near)
  BY DEF Mode
<1>7. Mode(rows) \in most
  <2> HIDE DEF most, far
  <2> QED BY <1>5, <1>6
<1> QED BY <1>7

(* How often a count and the counts below it are held. *)
LEMMA CountsBelow ==
  ASSUME NEW rows \in SUBSET Frames, IsFiniteSet(rows), NEW c \in Nat, NEW e \in Nat, c < e,
         Rarity(rows, c).exact > 0, Rarity(rows, e).exact > 0
  PROVE  Rarity(rows, c).midrank < Rarity(rows, e).midrank
<1> DEFINE Below(k) == {o \in rows : CompletedCount(o) < k}
           Exact(k) == {o \in rows : CompletedCount(o) = k}
<1>1. ASSUME NEW T \in SUBSET rows PROVE IsFiniteSet(T) /\ Cardinality(T) \in Nat
  BY FS_Subset, FS_CardinalityType
<1>2. Below(c) \cup Exact(c) \in SUBSET Below(e) /\ Below(c) \cap Exact(c) = {}
  <2>1. \A o \in rows : CompletedCount(o) \in Nat
    BY CountsNatural
  <2> QED BY <2>1
<1>3. Below(c) \in SUBSET rows /\ Below(e) \in SUBSET rows /\ Exact(c) \in SUBSET rows
      /\ Exact(e) \in SUBSET rows
  OBVIOUS
<1>4. /\ Rarity(rows, c).midrank = 2 * Cardinality(Below(c)) + Cardinality(Exact(c))
      /\ Rarity(rows, e).midrank = 2 * Cardinality(Below(e)) + Cardinality(Exact(e))
      /\ Cardinality(Exact(c)) > 0 /\ Cardinality(Exact(e)) > 0
  BY DEF Rarity
<1> HIDE DEF Below, Exact
<1>5. Cardinality(Below(c) \cup Exact(c)) = Cardinality(Below(c)) + Cardinality(Exact(c))
  <2>1. Cardinality({}) = 0
    BY FS_EmptySet
  <2>2. Cardinality(Below(c) \cup Exact(c)) =
          Cardinality(Below(c)) + Cardinality(Exact(c)) - Cardinality(Below(c) \cap Exact(c))
    BY <1>1, <1>3, FS_Union
  <2> QED BY <1>1, <1>2, <1>3, <2>1, <2>2
<1>6. Cardinality(Below(c) \cup Exact(c)) <= Cardinality(Below(e))
  BY <1>1, <1>2, <1>3, FS_Subset
<1> QED BY <1>1, <1>3, <1>4, <1>5, <1>6

(* The recommended core is the pattern of somebody, *)
LEMMA CoreSeen ==
  ASSUME NEW rows \in SUBSET Frames, IsFiniteSet(rows),
         NEW patterns \in SUBSET Patterns(rows), patterns # {}
  PROVE  /\ FirstOf(rows, patterns) \in patterns
         /\ \E o \in rows : Pattern(o) = FirstOf(rows, patterns)
<1> DEFINE w == [p \in patterns |-> Listed(rows, p)]
<1>1. IsFiniteSet(Patterns(rows))
  <2> DEFINE f == [o \in rows |-> Pattern(o)]
  <2>1. f \in Surjection(rows, Patterns(rows))
    BY DEF Surjection, Patterns
  <2> HIDE DEF f
  <2> QED BY <2>1, FS_Surjection
<1>2. \A p \in patterns : w[p] \in Nat
  <2>1. SUFFICES ASSUME NEW p \in patterns PROVE Listed(rows, p) \in Nat
    OBVIOUS
  <2>2. {a \in Patterns(rows) : Ahead(rows, a, p)} \in SUBSET Patterns(rows)
    OBVIOUS
  <2>3. IsFiniteSet({a \in Patterns(rows) : Ahead(rows, a, p)})
    BY <1>1, <2>2, FS_Subset
  <2> QED BY <2>3, FS_CardinalityType DEF Listed
<1>3. \E p \in patterns : \A q \in patterns : w[p] <= w[q]
  <2> HIDE DEF w
  <2> QED BY <1>2, LeastMeasure
<1>4. \E p \in patterns : \A q \in patterns : Listed(rows, p) <= Listed(rows, q)
  BY <1>3
<1>5. FirstOf(rows, patterns) \in patterns
  BY <1>4 DEF FirstOf
<1> QED BY <1>5 DEF Patterns

(* and the boots are worn.                                                  *)
LEMMA BootsWorn ==
  ASSUME NEW rows \in SUBSET Frames, IsFiniteSet(rows), CommonBoots(rows) # NoBoots
  PROVE  \E o \in rows : CommonBoots(rows) \in BootsOf(o)
<1> DEFINE worn == UNION {BootsOf(o) : o \in rows}
           most == {b \in worn : \A c \in worn : Wearing(rows, b) >= Wearing(rows, c)}
           w == [b \in worn |-> Wearing(rows, b)]
<1>1. worn # {} /\ CommonBoots(rows) = Min(most)
  BY DEF CommonBoots
<1>2. worn \in SUBSET Nat
  <2>1. ASSUME NEW o \in rows PROVE BootsOf(o) \in SUBSET Nat
    <3>1. o.items \in Seq(Nat)
      BY ProgressionAssumption
    <3> QED BY <3>1 DEF BootsOf, Range
  <2> QED BY <2>1
<1>3. most # {}
  <2>1. Cardinality(rows) \in Nat /\ \A b \in worn : w[b] \in Nat /\ w[b] <= Cardinality(rows)
    <3>1. SUFFICES ASSUME NEW b \in worn
                   PROVE  Wearing(rows, b) \in Nat /\ Wearing(rows, b) <= Cardinality(rows)
      <4> HIDE DEF worn
      <4> QED BY FS_CardinalityType
    <3>2. {o \in rows : b \in BootsOf(o)} \in SUBSET rows
      OBVIOUS
    <3>3. /\ IsFiniteSet({o \in rows : b \in BootsOf(o)})
          /\ Cardinality({o \in rows : b \in BootsOf(o)}) <= Cardinality(rows)
      BY <3>2, FS_Subset
    <3> QED BY <3>3, FS_CardinalityType DEF Wearing
  <2> DEFINE v == [b \in worn |-> Cardinality(rows) - w[b]]
  <2>2. \A b \in worn : v[b] \in Nat
    <3> HIDE DEF worn, w
    <3> QED BY <2>1
  <2>3. PICK b \in worn : \A c \in worn : v[b] <= v[c]
    <3> HIDE DEF v, worn
    <3> QED BY <1>1, <2>2, LeastMeasure
  <2>4. \A c \in worn : w[b] >= w[c]
    <3> HIDE DEF worn, w
    <3> QED BY <2>1, <2>3
  <2>5. \A c \in worn : Wearing(rows, b) >= Wearing(rows, c)
    <3> HIDE DEF worn
    <3> QED BY <2>4
  <2> HIDE DEF worn
  <2> QED BY <2>5
<1>4. Min(most) \in most
  <2>1. most \in SUBSET Nat
    <3> HIDE DEF worn
    <3> QED BY <1>2
  <2> HIDE DEF most
  <2> QED BY <1>3, <2>1, MaxMinOfNaturals
<1>5. Min(most) \in worn
  <2> HIDE DEF worn
  <2> QED BY <1>4
<1> QED BY <1>1, <1>5

(* A core is held by at least those whose pattern contains it.              *)
LEMMA CoreHeld ==
  ASSUME NEW rows \in SUBSET Frames, IsFiniteSet(rows), NEW o \in rows,
         Pattern(o) \cap Supported # {}
  PROVE  CoreFrequencies(rows)[Pattern(o) \cap Supported] >= Seen(rows, Pattern(o))
<1> DEFINE core == Pattern(o) \cap Supported
           holding == {p \in rows : core \subseteq Pattern(p)}
           same == {p \in rows : Pattern(p) = Pattern(o)}
<1>1. core \in DOMAIN CoreFrequencies(rows)
  <2>1. core \in (SUBSET (Pattern(o) \cap Supported)) \ {{}}
    OBVIOUS
  <2> QED BY <2>1 DEF CoreFrequencies
<1>2. CoreFrequencies(rows)[core] = Cardinality(holding)
  BY <1>1 DEF CoreFrequencies
<1>3. same \in SUBSET holding /\ holding \in SUBSET rows
  OBVIOUS
<1>4. Seen(rows, Pattern(o)) = Cardinality(same)
  BY DEF Seen
<1> HIDE DEF same, holding
<1>5. IsFiniteSet(holding) /\ IsFiniteSet(same) /\ Cardinality(same) <= Cardinality(holding)
  <2>1. IsFiniteSet(holding)
    BY <1>3, FS_Subset
  <2> QED BY <1>3, <2>1, FS_Subset
<1>6. Cardinality(same) \in Nat /\ Cardinality(holding) \in Nat
  BY <1>5, FS_CardinalityType
<1> QED BY <1>2, <1>4, <1>5, <1>6

-----------------------------------------------------------------------------
(* What a level is answered from.  Without a low sample it is the level     *)
(* itself.                                                                  *)
LEMMA PoolNear ==
  ASSUME NEW level \in 1..18
  PROVE  \A l \in ChoosePool(level) : l \in 1..18 /\ Distance(l, level) <= 2
<1> DEFINE enough == {r \in 0..2 : Cardinality(AtLevel(Near(level, r))) >= FewFrames}
<1>1. enough # {} => Min(enough) \in enough
  <2>1. enough \in SUBSET Nat
    OBVIOUS
  <2> HIDE DEF enough
  <2> QED BY <2>1, MaxMinOfNaturals
<1>2. \E r \in 0..2 : ChoosePool(level) \subseteq Near(level, r)
  <2>1. enough \subseteq 0..2
    OBVIOUS
  <2>2. CASE enough # {}
    <3>1. ChoosePool(level) = Near(level, Min(enough))
      BY <2>2 DEF ChoosePool
    <3> HIDE DEF enough
    <3> QED BY <1>1, <2>1, <2>2, <3>1
  <2>3. CASE enough = {}
    <3>1. ChoosePool(level) \subseteq Near(level, 2)
      BY <2>3 DEF ChoosePool
    <3> QED BY <3>1
  <2> QED BY <2>2, <2>3
<1> QED BY <1>2 DEF Near, Distance

LEMMA PoolHeld ==
  ASSUME OneOfATime, NEW level \in AnsweredLevels
  PROVE  /\ level \in 1..18
         /\ AtLevel(ChoosePool(level)) # {}
         /\ Cardinality(AtLevel({level})) >= FewFrames => ChoosePool(level) = {level}
<1> DEFINE enough == {r \in 0..2 : Cardinality(AtLevel(Near(level, r))) >= FewFrames}
<1>1. PICK o \in Deduped : level \in Near(o.level, 2)
  BY DEF AnsweredLevels
<1>2. o.level \in 1..18
  BY OneReadOfAVote, ProgressionAssumption DEF OneOfATime
<1>3. level \in 1..18 /\ o.level \in Near(level, 2)
  BY <1>1, <1>2 DEF Near
<1>4. AtLevel(Near(level, 2)) # {}
  BY <1>1, <1>3 DEF AtLevel
<1>5. enough # {} => Min(enough) \in enough /\ \A r \in enough : Min(enough) <= r
  <2>1. enough \in SUBSET Nat
    OBVIOUS
  <2> HIDE DEF enough
  <2> QED BY <2>1, MaxMinOfNaturals
<1>6. enough # {} => AtLevel(ChoosePool(level)) # {}
  <2> SUFFICES ASSUME enough # {} PROVE AtLevel(ChoosePool(level)) # {}
    OBVIOUS
  <2>1. ChoosePool(level) = Near(level, Min(enough))
    BY DEF ChoosePool
  <2>2. Cardinality(AtLevel(Near(level, Min(enough)))) >= FewFrames
    BY <1>5
  <2>3. Cardinality({}) = 0 /\ FewFrames \in Nat \ {0}
    BY FS_EmptySet, ProgressionAssumption
  <2> HIDE DEF enough
  <2> QED BY <2>1, <2>2, <2>3
<1>7. enough = {} => ChoosePool(level) = Near(level, 2)
  BY <1>4 DEF ChoosePool
<1>8. Near(level, 0) = {level}
  BY <1>3 DEF Near
<1>9. ASSUME Cardinality(AtLevel({level})) >= FewFrames PROVE ChoosePool(level) = {level}
  <2>1. 0 \in enough
    BY <1>8, <1>9
  <2>2. enough \subseteq 0..2
    OBVIOUS
  <2>3. ChoosePool(level) = Near(level, Min(enough))
    BY <2>1 DEF ChoosePool
  <2> HIDE DEF enough
  <2>4. Min(enough) = 0
    <3>1. Min(enough) \in enough /\ Min(enough) <= 0
      BY <1>5, <2>1
    <3>2. Min(enough) \in 0..2
      BY <2>2, <3>1
    <3> QED BY <3>1, <3>2
  <2> QED BY <1>8, <2>3, <2>4
<1> HIDE DEF enough
<1> QED BY <1>3, <1>4, <1>6, <1>7, <1>9

LEMMA SelectionObserved ==
  ASSUME OneOfATime, NEW level \in AnsweredLevels, NEW s, s = Selection(level)
  PROVE  LET cores == CoreFrequencies(s.rows)
         IN  /\ \A o \in s.rows : Distance(o.level, level) <= 2
             /\ Seen(s.rows, s.observed) > 0
             /\ s.supported # {} => cores[s.supported] >= Seen(s.rows, s.observed)
             /\ \A c \in DOMAIN Distribution(s.rows) :
                  /\ Rarity(s.rows, c).exact <= Rarity(s.rows, s.count).exact
                  /\ c < s.count => Rarity(s.rows, c).midrank < Rarity(s.rows, s.count).midrank
             /\ ~s.lowSample => ~s.fallbackUsed
             /\ s.boots # NoBoots => \E o \in s.rows : s.boots \in BootsOf(o)
<1> DEFINE rows == AtLevel(ChoosePool(level))
           fitting == {p \in CommonPatterns(rows) : Cardinality(p) = Mode(rows)}
           among == IF fitting = {} THEN Patterns(rows) ELSE fitting
           core == FirstOf(rows, among)
           least == Min({Cardinality(rows), Cardinality(AtLevel({level}))})
<1>1. /\ s.rows = rows /\ s.count = Mode(rows) /\ s.observed = core
      /\ s.supported = core \cap Supported /\ s.boots = CommonBoots(rows)
      /\ s.fallbackUsed = (ChoosePool(level) # {level})
      /\ s.lowSample = (least < FewFrames)
  BY DEF Selection
<1>2. /\ rows \in SUBSET Frames /\ rows # {} /\ IsFiniteSet(rows)
      /\ IsFiniteSet(AtLevel({level}))
  <2>1. /\ rows \in SUBSET observed /\ AtLevel({level}) \in SUBSET observed
        /\ IsFiniteSet(observed) /\ observed \in SUBSET Frames
    BY OneReadOfAVote DEF AtLevel, OneOfATime
  <2>2. rows # {}
    BY PoolHeld
  <2> HIDE DEF rows
  <2> QED BY <2>1, <2>2, FS_Subset
<1>3. PICK o \in rows : Pattern(o) = core
  <2>1. among \in SUBSET Patterns(rows) /\ among # {}
    <3> HIDE DEF rows
    <3> QED BY <1>2 DEF Patterns, CommonPatterns
  <2> HIDE DEF rows, among
  <2> QED BY <1>2, <2>1, CoreSeen
<1> HIDE DEF fitting, among
<1>4. \A p \in rows : Distance(p.level, level) <= 2
  <2>1. \A p \in rows : p.level \in ChoosePool(level)
    BY DEF AtLevel
  <2> HIDE DEF rows
  <2> QED BY <2>1, PoolHeld, PoolNear
<1>5. \A k : Cardinality({p \in rows : CompletedCount(p) = k}) \in Nat
  <2> SUFFICES ASSUME NEW k PROVE Cardinality({p \in rows : CompletedCount(p) = k}) \in Nat
    OBVIOUS
  <2> HIDE DEF rows
  <2>1. {p \in rows : CompletedCount(p) = k} \in SUBSET rows
    OBVIOUS
  <2>2. IsFiniteSet({p \in rows : CompletedCount(p) = k})
    BY <1>2, <2>1, FS_Subset
  <2> QED BY <2>2, FS_CardinalityType
<1>6. Seen(rows, core) > 0
  <2> DEFINE same == {p \in rows : Pattern(p) = core}
  <2> HIDE DEF rows, core
  <2>1. same \in SUBSET rows /\ same # {}
    BY <1>3
  <2> HIDE DEF same
  <2>2. IsFiniteSet(same)
    BY <1>2, <2>1, FS_Subset
  <2>3. Cardinality(same) \in Nat /\ Cardinality(same) # 0
    BY <2>1, <2>2, FS_CardinalityType, FS_EmptySet
  <2>4. Seen(rows, core) = Cardinality(same)
    BY DEF Seen, same
  <2> QED BY <2>3, <2>4
<1>7. core \cap Supported # {} => CoreFrequencies(rows)[core \cap Supported] >= Seen(rows, core)
  <2> HIDE DEF rows, core
  <2> QED BY <1>2, <1>3, CoreHeld
<1>8. ASSUME NEW c \in DOMAIN Distribution(rows)
      PROVE  /\ Rarity(rows, c).exact <= Rarity(rows, Mode(rows)).exact
             /\ c < Mode(rows) => Rarity(rows, c).midrank < Rarity(rows, Mode(rows)).midrank
  <2> HIDE DEF rows
  <2>1. Mode(rows) \in DOMAIN Distribution(rows)
        /\ Distribution(rows)[c] <= Distribution(rows)[Mode(rows)]
    BY <1>2, <1>8, ModeFrequent
  <2>2. \A k : Rarity(rows, k).exact = Cardinality({p \in rows : CompletedCount(p) = k})
    BY DEF Rarity
  <2>3. ASSUME NEW k \in DOMAIN Distribution(rows)
        PROVE  /\ Distribution(rows)[k] = Rarity(rows, k).exact
               /\ k \in Nat /\ Rarity(rows, k).exact > 0
    <3>1. PICK p \in rows : CompletedCount(p) = k
      BY DEF Distribution
    <3>2. Distribution(rows)[k] = Rarity(rows, k).exact
      BY <2>2 DEF Distribution
    <3>3. k \in Nat
      BY <1>2, <3>1, CountsNatural
    <3>4. {q \in rows : CompletedCount(q) = k} # {}
      BY <3>1
    <3>5. IsFiniteSet({q \in rows : CompletedCount(q) = k})
      BY <1>2, FS_Subset
    <3>6. Cardinality({q \in rows : CompletedCount(q) = k}) # 0
      BY <3>4, <3>5, FS_EmptySet
    <3> QED BY <1>5, <2>2, <3>2, <3>3, <3>6
  <2>4. c < Mode(rows) => Rarity(rows, c).midrank < Rarity(rows, Mode(rows)).midrank
    BY <1>2, <1>8, <2>1, <2>3, CountsBelow
  <2>5. /\ Distribution(rows)[c] = Rarity(rows, c).exact
        /\ Distribution(rows)[Mode(rows)] = Rarity(rows, Mode(rows)).exact
    BY <1>8, <2>1, <2>3
  <2> QED BY <2>1, <2>4, <2>5
<1>9. ~(least < FewFrames) => ChoosePool(level) = {level}
  <2>1. Cardinality(rows) \in Nat /\ Cardinality(AtLevel({level})) \in Nat
        /\ FewFrames \in Nat
    BY <1>2, FS_CardinalityType, ProgressionAssumption
  <2> HIDE DEF rows
  <2>2. least <= Cardinality(AtLevel({level})) /\ least \in Nat
    BY <2>1, MaxMinOfTwo
  <2> HIDE DEF least
  <2>3. ~(least < FewFrames) => Cardinality(AtLevel({level})) >= FewFrames
    BY <2>1, <2>2
  <2> QED BY <2>3, PoolHeld
<1>10. CommonBoots(rows) # NoBoots => \E p \in rows : CommonBoots(rows) \in BootsOf(p)
  <2> HIDE DEF rows
  <2> QED BY <1>2, BootsWorn
<1> HIDE DEF rows, core, least
<1> QED BY <1>1, <1>4, <1>6, <1>7, <1>8, <1>9, <1>10

LEMMA OneOfATimeRecommends == OneOfATime => RecommendedObserved
<1> SUFFICES ASSUME OneOfATime PROVE RecommendedObserved
  OBVIOUS
<1>1. {Vote(o) : o \in Deduped} = {Vote(o) : o \in {p \in observed : Readable(p)}}
  BY OneReadOfAVote, EveryVoteRead
<1>2. Cardinality({Vote(o) : o \in Deduped}) = Cardinality(Deduped)
  <2> DEFINE f == [o \in Deduped |-> Vote(o)]
             V == {Vote(o) : o \in Deduped}
  <2>1. f \in Surjection(Deduped, V)
    BY DEF Surjection
  <2>2. f \in Injection(Deduped, V)
    <3>1. \A o, p \in Deduped : Vote(o) = Vote(p) => o = p
      BY OneReadOfAVote
    <3>2. \A o, p \in Deduped : f[o] = f[p] => o = p
      BY <3>1
    <3>3. f \in [Deduped -> V]
      OBVIOUS
    <3> HIDE DEF f, V
    <3> QED BY <3>2, <3>3 DEF Injection, IsInjective
  <2>3. IsFiniteSet(Deduped)
    BY OneReadOfAVote, FS_Subset DEF OneOfATime
  <2> HIDE DEF f, V
  <2>4. Cardinality(V) = Cardinality(Deduped)
    BY <2>1, <2>2, <2>3, FS_Surjection
  <2> QED BY <2>4 DEF V
<1>3. \A level \in AnsweredLevels : AtLevel(ChoosePool(level)) # {}
  BY PoolHeld
<1> QED BY <1>1, <1>2, <1>3, SelectionObserved DEF RecommendedObserved

(* What a level recommends is observed, by as many as it says, and each     *)
(* match, participant and level has one vote.                               *)
THEOREM AlwaysRecommended == ProgressionSpec => []RecommendedObserved
<1>1. ProgressionSpec => []OneOfATime
  BY OneOfATimeInit, OneOfATimeStep, PTL DEF ProgressionSpec
<1> QED BY <1>1, OneOfATimeRecommends, PTL

-----------------------------------------------------------------------------
(* The ranks of a level.  The ranks that the player has spent are the       *)
(* points of the timeline so far, and they are legal at every frame that is *)
(* cut after them.  As the levels of the frames never fall, the points for  *)
(* a level are all the player's up to the last of them, so no skill passes  *)
(* its last rank, and those for a lower level come first.                   *)

OwnUpTo(pts, n, k) == {i \in 1..n : pts[i].player = Champion /\ pts[i].key = k}
RanksUpTo(pts, n) == [k \in SkillKeys |-> Cardinality(OwnUpTo(pts, n, k))]
PointForms == [player : {Champion, Anybody}, key : SkillKeys, frame : Nat]

InPlay ==
  /\ reached \in 1..TopRank
  /\ cuts \in Seq(1..TopRank)
  /\ \A f, g \in DOMAIN cuts : f <= g => cuts[f] <= cuts[g]
  /\ \A f \in DOMAIN cuts : cuts[f] <= reached
  /\ points \in Seq(PointForms)
  /\ \A n \in DOMAIN points : points[n].frame \in 1..Len(cuts) + 1
  /\ \A m, n \in DOMAIN points : m <= n => points[m].frame <= points[n].frame
  /\ spent = RanksUpTo(points, Len(points))
  /\ IsLegalSkillRanks(spent, reached)
  /\ \A n \in DOMAIN points :
       points[n].frame <= Len(cuts) =>
         IsLegalSkillRanks(RanksUpTo(points, n), cuts[points[n].frame])

(* What is read from one timeline.                                          *)
Holds(order, k) == {n \in DOMAIN order : order[n] = k}
SoundMatch(seen) ==
  /\ DOMAIN seen \subseteq 1..TopRank
  /\ \A l \in DOMAIN seen :
       /\ seen[l].ranks \in [SkillKeys -> Nat] /\ IsLegalSkillRanks(seen[l].ranks, l)
       /\ \A k \in SkillKeys : Cardinality(Holds(seen[l].order, k)) = seen[l].ranks[k]
  /\ \A l, h \in DOMAIN seen : l <= h =>
       /\ Len(seen[l].order) <= Len(seen[h].order)
       /\ \A n \in DOMAIN seen[l].order : seen[l].order[n] = seen[h].order[n]

SkillsInv ==
  /\ InPlay
  /\ archived \in Seq({archived[m] : m \in DOMAIN archived})
  /\ \A m \in DOMAIN archived : SoundMatch(archived[m].seen)

LEMMA TopIsLevel == 1..TopRank \subseteq Levels /\ TopRank \in Nat /\ 1 \in 1..TopRank
BY TimelineAssumption DEF Levels

LEMMA RanksTyped ==
  ASSUME NEW pts, NEW n \in Nat
  PROVE  /\ RanksUpTo(pts, n) \in [SkillKeys -> Nat] /\ RanksUpTo(pts, n) \in AnyRanks
         /\ \A k : IsFiniteSet(OwnUpTo(pts, n, k))
<1>1. ASSUME NEW k PROVE IsFiniteSet(OwnUpTo(pts, n, k)) /\ Cardinality(OwnUpTo(pts, n, k)) \in Nat
  <2>1. IsFiniteSet(1..n)
    BY FS_Interval
  <2>2. OwnUpTo(pts, n, k) \in SUBSET (1..n)
    BY DEF OwnUpTo
  <2>3. IsFiniteSet(OwnUpTo(pts, n, k))
    BY <2>1, <2>2, FS_Subset
  <2> QED BY <2>3, FS_CardinalityType
<1>2. RanksUpTo(pts, n) \in [SkillKeys -> Nat]
  BY <1>1 DEF RanksUpTo
<1> QED BY <1>1, <1>2 DEF AnyRanks

(* One more point, and fewer points.                                        *)
LEMMA RanksAppended ==
  ASSUME NEW pts \in Seq(PointForms), NEW e \in PointForms
  PROVE  /\ Append(pts, e) \in Seq(PointForms) /\ Len(Append(pts, e)) = Len(pts) + 1
         /\ Len(pts) \in Nat
         /\ \A n \in 1..Len(pts) : Append(pts, e)[n] = pts[n]
         /\ Append(pts, e)[Len(pts) + 1] = e
         /\ \A n \in 0..Len(pts) : RanksUpTo(Append(pts, e), n) = RanksUpTo(pts, n)
         /\ RanksUpTo(Append(pts, e), Len(pts) + 1)
              = IF e.player = Champion THEN Adjusted(RanksUpTo(pts, Len(pts)), e.key, 1)
                ELSE RanksUpTo(pts, Len(pts))
<1> DEFINE more == Append(pts, e)
           n == Len(pts)
<1>1. /\ more \in Seq(PointForms) /\ Len(more) = n + 1 /\ n \in Nat
      /\ \A i \in 1..n : more[i] = pts[i]
      /\ more[n + 1] = e
  BY AppendProperties, LenProperties
<1> HIDE DEF more, n
<1>2. ASSUME NEW m \in 0..n PROVE RanksUpTo(more, m) = RanksUpTo(pts, m)
  <2>1. ASSUME NEW k PROVE OwnUpTo(more, m, k) = OwnUpTo(pts, m, k)
    <3>1. \A i \in 1..m : more[i] = pts[i]
      BY <1>1
    <3> QED BY <3>1 DEF OwnUpTo
  <2> QED BY <2>1 DEF RanksUpTo
<1>3. ASSUME NEW k \in SkillKeys
      PROVE  RanksUpTo(more, n + 1)[k] = IF e.player = Champion /\ e.key = k THEN RanksUpTo(pts, n)[k] + 1
                                         ELSE RanksUpTo(pts, n)[k]
  <2>1. OwnUpTo(more, n + 1, k) = IF e.player = Champion /\ e.key = k THEN OwnUpTo(pts, n, k) \cup {n + 1}
                                  ELSE OwnUpTo(pts, n, k)
    <3>1. \A i : i \in 1..n + 1 <=> i \in 1..n \/ i = n + 1
      BY <1>1
    <3> QED BY <1>1, <3>1 DEF OwnUpTo
  <2>2. n + 1 \notin OwnUpTo(pts, n, k)
    BY <1>1 DEF OwnUpTo
  <2>3. IsFiniteSet(OwnUpTo(pts, n, k))
    BY <1>1, RanksTyped
  <2>4. Cardinality(OwnUpTo(pts, n, k) \cup {n + 1}) = Cardinality(OwnUpTo(pts, n, k)) + 1
    BY <2>2, <2>3, FS_AddElement
  <2> QED BY <2>1, <2>4 DEF RanksUpTo
<1>4. RanksUpTo(more, n + 1)
        = IF e.player = Champion THEN Adjusted(RanksUpTo(pts, n), e.key, 1) ELSE RanksUpTo(pts, n)
  <2>1. e.key \in SkillKeys
    BY DEF PointForms
  <2> QED BY <1>3, <2>1 DEF RanksUpTo, Adjusted
<1>5. n \in 0..n
  BY <1>1
<1> QED BY <1>1, <1>2, <1>4 DEF more, n

LEMMA FewerLegal ==
  ASSUME NEW l \in Levels, NEW x \in [SkillKeys -> Nat], NEW y \in AnyRanks,
         \A k \in SkillKeys : x[k] <= y[k], IsLegalSkillRanks(y, l)
  PROVE  IsLegalSkillRanks(x, l)
<1>1. x \in AnyRanks
  BY DEF AnyRanks
<1>2. \A k \in {"q", "w", "e", "r"} : x[k] \in Nat /\ y[k] \in Int /\ x[k] <= y[k]
  BY DEF AnyRanks, SkillKeys
<1>3. Bound(l)["q"] \in Int /\ Bound(l)["w"] \in Int /\ Bound(l)["e"] \in Int /\ Bound(l)["r"] \in Int
      /\ l \in Int
  BY BoundIs DEF SkillKeys, Levels
<1> QED BY SMTT(30), <1>1, <1>2, <1>3, LegalIs

LEMMA RanksRise ==
  ASSUME NEW pts, NEW m \in Nat, NEW n \in Nat, m <= n
  PROVE  \A k \in SkillKeys : RanksUpTo(pts, m)[k] <= RanksUpTo(pts, n)[k]
<1> SUFFICES ASSUME NEW k \in SkillKeys PROVE RanksUpTo(pts, m)[k] <= RanksUpTo(pts, n)[k]
  OBVIOUS
<1>1. OwnUpTo(pts, m, k) \in SUBSET OwnUpTo(pts, n, k)
  BY DEF OwnUpTo
<1>2. Cardinality(OwnUpTo(pts, m, k)) <= Cardinality(OwnUpTo(pts, n, k))
  BY <1>1, RanksTyped, FS_Subset
<1> QED BY <1>2 DEF RanksUpTo

-----------------------------------------------------------------------------
(* What is extracted of a timeline that is complete.                        *)
LEMMA PointsInitial ==
  ASSUME InPlay, \A n \in DOMAIN points : points[n].frame <= Len(cuts), NEW l \in 1..TopRank
  PROVE  /\ PointsOf(l) \in SUBSET (1..Len(points)) /\ IsFiniteSet(PointsOf(l))
         /\ Len(points) \in Nat /\ DOMAIN points = 1..Len(points)
         /\ \A n \in PointsOf(l), m \in 1..Len(points) :
              (m <= n /\ points[m].player = Champion) => m \in PointsOf(l)
         /\ \A n \in PointsOf(l) : /\ points[n].key \in SkillKeys /\ points[n].player = Champion
                                   /\ cuts[points[n].frame] \in 1..TopRank /\ cuts[points[n].frame] <= l
                                   /\ IsLegalSkillRanks(RanksUpTo(points, n), cuts[points[n].frame])
<1>1. Len(points) \in Nat /\ DOMAIN points = 1..Len(points) /\ Len(cuts) \in Nat
      /\ DOMAIN cuts = 1..Len(cuts)
  BY LenProperties DEF InPlay
<1>2. PointsOf(l) \in SUBSET (1..Len(points))
  BY <1>1 DEF PointsOf
<1>3. IsFiniteSet(PointsOf(l))
  <2>1. IsFiniteSet(1..Len(points))
    BY <1>1, FS_Interval
  <2> QED BY <1>2, <2>1, FS_Subset
<1>4. ASSUME NEW n \in 1..Len(points)
      PROVE  /\ points[n].frame \in DOMAIN cuts /\ points[n].key \in SkillKeys
             /\ cuts[points[n].frame] \in 1..TopRank
             /\ IsLegalSkillRanks(RanksUpTo(points, n), cuts[points[n].frame])
  <2>1. points[n] \in PointForms /\ points[n].frame \in 1..Len(cuts) + 1 /\ points[n].frame <= Len(cuts)
    BY <1>1 DEF InPlay
  <2>2. points[n].frame \in DOMAIN cuts
    BY <1>1, <2>1
  <2>3. cuts[points[n].frame] \in 1..TopRank
    <3>1. cuts \in Seq(1..TopRank)
      BY DEF InPlay
    <3> QED BY <1>1, <2>2, <3>1, ElementOfSeq
  <2> QED BY <1>1, <2>1, <2>2, <2>3 DEF InPlay, PointForms
<1>5. ASSUME NEW n \in PointsOf(l), NEW m \in 1..Len(points), m <= n, points[m].player = Champion
      PROVE  m \in PointsOf(l)
  <2>1. n \in 1..Len(points) /\ cuts[points[n].frame] <= l
    BY <1>2 DEF PointsOf
  <2>2. points[m].frame <= points[n].frame
    BY <1>1, <1>5, <2>1 DEF InPlay
  <2>3. points[m].frame \in DOMAIN cuts /\ points[n].frame \in DOMAIN cuts
    BY <1>4, <2>1
  <2>4. cuts[points[m].frame] <= cuts[points[n].frame]
    BY <2>2, <2>3 DEF InPlay
  <2>5. cuts[points[m].frame] \in 1..TopRank /\ cuts[points[n].frame] \in 1..TopRank
    BY <1>4, <2>1
  <2>6. cuts[points[m].frame] <= l
    BY <2>1, <2>4, <2>5, TopIsLevel
  <2> QED BY <1>1, <1>5, <2>6 DEF PointsOf
<1>6. \A n \in PointsOf(l) : points[n].player = Champion /\ cuts[points[n].frame] <= l
  BY DEF PointsOf
<1> QED BY <1>1, <1>2, <1>3, <1>4, <1>5, <1>6

LEMMA BoundLast ==
  \A l \in Levels, k \in SkillKeys :
    Bound(l)[k] <= LastRank(k) /\ Bound(l)[k] \in Int /\ LastRank(k) \in Int
<1> SUFFICES ASSUME NEW l \in Levels, NEW k \in SkillKeys
             PROVE  Bound(l)[k] <= LastRank(k) /\ Bound(l)[k] \in Int /\ LastRank(k) \in Int
  OBVIOUS
<1>1. CASE k = "r"
  <2>1. LastRank(k) = 3
    BY <1>1 DEF LastRank
  <2> QED BY <1>1, <2>1, BoundIs
<1>2. CASE k # "r"
  <2>1. LastRank(k) = 5 /\ k \in {"q", "w", "e"}
    BY <1>2 DEF LastRank, SkillKeys
  <2>2. Bound(l)[k] = IF 5 <= l THEN 5 ELSE l
    BY <2>1, BoundIs
  <2> QED BY <2>1, <2>2 DEF Levels
<1> QED BY <1>1, <1>2

LEMMA NoneBeyondLast ==
  ASSUME InPlay, \A n \in DOMAIN points : points[n].frame <= Len(cuts), NEW l \in 1..TopRank
  PROVE  Counted(l) = PointsOf(l)
<1> SUFFICES ASSUME NEW n \in PointsOf(l)
             PROVE  Cardinality(SameBefore(PointsOf(l), n)) < LastRank(points[n].key)
  BY DEF Counted
<1> DEFINE k == points[n].key
           same == OwnUpTo(points, n, k)
<1>1. /\ PointsOf(l) \in SUBSET (1..Len(points)) /\ Len(points) \in Nat /\ n \in 1..Len(points)
      /\ k \in SkillKeys /\ cuts[points[n].frame] \in Levels
      /\ IsLegalSkillRanks(RanksUpTo(points, n), cuts[points[n].frame])
      /\ \A m \in PointsOf(l) : points[m].player = Champion
  BY PointsInitial, TopIsLevel
<1>2. SameBefore(PointsOf(l), n) \in SUBSET (same \ {n}) /\ n \in same
  BY <1>1 DEF SameBefore, OwnUpTo
<1>3. IsFiniteSet(same) /\ RanksUpTo(points, n)[k] = Cardinality(same) /\ RanksUpTo(points, n) \in AnyRanks
  BY <1>1, RanksTyped DEF RanksUpTo
<1>4. Cardinality(same) <= LastRank(k)
  <2>1. Bound(cuts[points[n].frame])[k] <= LastRank(k)
    BY <1>1, BoundLast
  <2>2. RanksUpTo(points, n)[k] \in 0..Bound(cuts[points[n].frame])[k]
    BY <1>1 DEF IsLegalSkillRanks
  <2>3. Bound(cuts[points[n].frame])[k] \in Int /\ LastRank(k) \in Int
    BY <1>1, BoundLast
  <2> HIDE DEF k, same
  <2> QED BY <1>3, <2>1, <2>2, <2>3
<1> HIDE DEF k, same
<1>5. IsFiniteSet(same \ {n}) /\ Cardinality(same \ {n}) = Cardinality(same) - 1 /\ Cardinality(same) \in Nat
  BY <1>2, <1>3, FS_RemoveElement, FS_CardinalityType
<1>6. /\ Cardinality(SameBefore(PointsOf(l), n)) <= Cardinality(same \ {n})
      /\ Cardinality(SameBefore(PointsOf(l), n)) \in Nat
  BY <1>2, <1>5, FS_Subset, FS_CardinalityType
<1>7. LastRank(k) \in Int
  BY DEF LastRank
<1>8. Cardinality(SameBefore(PointsOf(l), n)) < LastRank(k)
  BY <1>4, <1>5, <1>6, <1>7
<1> QED BY <1>8 DEF k

LEMMA ObservationHolds ==
  ASSUME InPlay, \A n \in DOMAIN points : points[n].frame <= Len(cuts), NEW l \in 1..TopRank
  PROVE  /\ Observation(l).ranks \in [SkillKeys -> Nat]
         /\ \A k \in SkillKeys : Cardinality(Holds(Observation(l).order, k)) = Observation(l).ranks[k]
<1> DEFINE K == PointsOf(l)
           order == [j \in 1..Cardinality(K) |-> points[Nth(K, j)].key]
<1>1. K \subseteq Int /\ IsFiniteSet(K)
  <2>1. K \in SUBSET (1..Len(points)) /\ IsFiniteSet(K) /\ 1..Len(points) \subseteq Int
    BY PointsInitial
  <2> HIDE DEF K
  <2> QED BY <2>1
<1>2. /\ Observation(l).order = order
      /\ Observation(l).ranks = [k \in SkillKeys |-> Cardinality({n \in K : points[n].key = k})]
  BY NoneBeyondLast DEF Observation
<1> HIDE DEF K
<1>3. ASSUME NEW k \in SkillKeys
      PROVE  /\ IsFiniteSet({n \in K : points[n].key = k})
             /\ Cardinality({n \in K : points[n].key = k}) \in Nat
             /\ Cardinality(Holds(order, k)) = Cardinality({n \in K : points[n].key = k})
  <2> DEFINE T == {n \in K : points[n].key = k}
             H == Holds(order, k)
             f == [n \in T |-> Place(K, n)]
  <2>1. T \in SUBSET K
    OBVIOUS
  <2>2. IsFiniteSet(T) /\ Cardinality(T) \in Nat
    <3> HIDE DEF T
    <3> QED BY <1>1, <2>1, FS_Subset, FS_CardinalityType
  <2>3. /\ \A n \in 1..Cardinality(K) : Nth(K, n) \in K /\ Place(K, Nth(K, n)) = n
        /\ \A i \in K : Place(K, i) \in 1..Cardinality(K) /\ Nth(K, Place(K, i)) = i
    BY <1>1, NthPlace
  <2>4. \A j : j \in H <=> j \in 1..Cardinality(K) /\ points[Nth(K, j)].key = k
    BY DEF Holds
  <2> HIDE DEF H
  <2>5. f \in [T -> H]
    BY <2>3, <2>4
  <2>6. \A m, n \in T : f[m] = f[n] => m = n
    BY <2>3
  <2>7. \A j \in H : \E n \in T : f[n] = j
    <3> SUFFICES ASSUME NEW j \in H PROVE \E n \in T : f[n] = j
      OBVIOUS
    <3>1. Nth(K, j) \in T /\ Place(K, Nth(K, j)) = j
      BY <2>3, <2>4
    <3> QED BY <3>1
  <2> HIDE DEF f, T
  <2>8. f \in Injection(T, H) /\ f \in Surjection(T, H)
    BY <2>5, <2>6, <2>7 DEF Injection, IsInjective, Surjection
  <2>9. Cardinality(H) = Cardinality(T)
    BY <2>2, <2>8, FS_Surjection
  <2> QED BY <2>2, <2>9 DEF T, H
<1> HIDE DEF order
<1> QED BY <1>2, <1>3

LEMMA ObservationLegal ==
  ASSUME InPlay, \A n \in DOMAIN points : points[n].frame <= Len(cuts), NEW l \in 1..TopRank,
         Total(Observation(l).ranks) > 0
  PROVE  IsLegalSkillRanks(Observation(l).ranks, l)
<1> DEFINE K == PointsOf(l)
<1>1. /\ K \in SUBSET (1..Len(points)) /\ IsFiniteSet(K) /\ Len(points) \in Nat
      /\ \A n \in K, m \in 1..Len(points) : (m <= n /\ points[m].player = Champion) => m \in K
      /\ \A n \in K : /\ points[n].player = Champion
                      /\ cuts[points[n].frame] \in 1..TopRank /\ cuts[points[n].frame] <= l
                      /\ IsLegalSkillRanks(RanksUpTo(points, n), cuts[points[n].frame])
  BY PointsInitial
<1>2. Observation(l).ranks = [k \in SkillKeys |-> Cardinality({n \in K : points[n].key = k})]
  BY NoneBeyondLast DEF Observation
<1>3. K # {}
  <2> SUFFICES ASSUME K = {} PROVE FALSE
    OBVIOUS
  <2>1. Cardinality({}) = 0
    BY FS_EmptySet
  <2>2. \A k \in SkillKeys : {n \in K : points[n].key = k} = {}
    OBVIOUS
  <2>3. \A k \in SkillKeys : Observation(l).ranks[k] = 0
    <3> HIDE DEF K
    <3> QED BY <1>2, <2>1, <2>2
  <2>4. "q" \in SkillKeys /\ "w" \in SkillKeys /\ "e" \in SkillKeys /\ "r" \in SkillKeys
    BY DEF SkillKeys
  <2>5. Total(Observation(l).ranks) = 0 + 0 + 0 + 0
    BY <2>3, <2>4 DEF Total
  <2> QED BY <2>5
<1> HIDE DEF K
<1>4. Max(K) \in K /\ \A n \in K : n <= Max(K)
  <2>1. K \in SUBSET Nat
    BY <1>1
  <2> QED BY <1>1, <1>3, <2>1, MaxMinOfNaturals
<1> DEFINE m == Max(K)
<1>5. m \in 1..Len(points) /\ m \in K
  BY <1>1, <1>4
<1>6. Observation(l).ranks = RanksUpTo(points, m)
  <2>1. ASSUME NEW k \in SkillKeys PROVE {n \in K : points[n].key = k} = OwnUpTo(points, m, k)
    <3>1. ASSUME NEW n \in K PROVE n \in 1..m /\ points[n].player = Champion
      <4>1. n \in 1..Len(points) /\ n <= m
        BY <1>1, <1>4
      <4> HIDE DEF m
      <4> QED BY <1>1, <1>5, <4>1
    <3>2. ASSUME NEW n \in 1..m, points[n].player = Champion PROVE n \in K
      <4> HIDE DEF m
      <4>1. n \in 1..Len(points) /\ n <= m
        BY <1>1, <1>5
      <4> QED BY <1>1, <1>5, <3>2, <4>1
    <3> HIDE DEF m
    <3> QED BY <3>1, <3>2 DEF OwnUpTo
  <2> HIDE DEF m
  <2> QED BY <1>2, <2>1 DEF RanksUpTo
<1> HIDE DEF m
<1>7. cuts[points[m].frame] \in Levels /\ cuts[points[m].frame] <= l /\ l \in Levels
  BY <1>1, <1>5, TopIsLevel
<1>8. RanksUpTo(points, m) \in AnyRanks
  BY <1>1, <1>5, RanksTyped
<1> QED BY <1>1, <1>5, <1>6, <1>7, <1>8, LegalAbove

LEMMA ObservationsGrow ==
  ASSUME InPlay, \A n \in DOMAIN points : points[n].frame <= Len(cuts),
         NEW l \in 1..TopRank, NEW h \in 1..TopRank, l <= h
  PROVE  /\ Len(Observation(l).order) <= Len(Observation(h).order)
         /\ \A n \in DOMAIN Observation(l).order : Observation(l).order[n] = Observation(h).order[n]
<1> DEFINE K == PointsOf(l)
           L == PointsOf(h)
<1>1. /\ K \in SUBSET (1..Len(points)) /\ IsFiniteSet(K) /\ Len(points) \in Nat
      /\ \A n \in K, m \in 1..Len(points) : (m <= n /\ points[m].player = Champion) => m \in K
  BY PointsInitial
<1>2. /\ L \in SUBSET (1..Len(points)) /\ IsFiniteSet(L)
      /\ \A n \in L : points[n].player = Champion /\ cuts[points[n].frame] \in 1..TopRank
  BY PointsInitial
<1>3. K \subseteq L
  <2>1. \A n \in K : cuts[points[n].frame] \in 1..TopRank
    BY PointsInitial
  <2> QED BY <2>1, TopIsLevel DEF PointsOf
<1>4. /\ Observation(l).order = [j \in 1..Cardinality(K) |-> points[Nth(K, j)].key]
      /\ Observation(h).order = [j \in 1..Cardinality(L) |-> points[Nth(L, j)].key]
  BY NoneBeyondLast DEF Observation
<1> HIDE DEF K, L
<1>5. Cardinality(K) \in Nat /\ Cardinality(L) \in Nat /\ Cardinality(K) <= Cardinality(L)
  BY <1>1, <1>2, <1>3, FS_Subset, FS_CardinalityType
<1>6. ASSUME NEW j \in 1..Cardinality(K) PROVE Nth(L, j) = Nth(K, j)
  <2> DEFINE i == Nth(K, j)
  <2>1. K \subseteq Int /\ L \subseteq Int
    BY <1>1, <1>2
  <2>2. i \in K /\ Place(K, i) = j
    BY <1>1, <2>1, NthPlace
  <2>3. \A x \in L : x <= i => x \in K
    BY <1>1, <1>2, <2>2
  <2> HIDE DEF i
  <2>4. {x \in L : x <= i} = {x \in K : x <= i}
    BY <1>3, <2>3
  <2>5. Place(L, i) = j
    BY <2>2, <2>4 DEF Place
  <2>6. Nth(L, Place(L, i)) = i
    BY <1>2, <1>3, <2>1, <2>2, NthPlace
  <2> QED BY <2>5, <2>6 DEF i
<1>7. Len(Observation(l).order) = Cardinality(K) /\ Len(Observation(h).order) = Cardinality(L)
  BY <1>4, <1>5
<1>8. ASSUME NEW j \in 1..Cardinality(K) PROVE Observation(l).order[j] = Observation(h).order[j]
  <2>1. j \in 1..Cardinality(L)
    BY <1>5
  <2> QED BY <1>4, <1>6, <2>1
<1>9. DOMAIN Observation(l).order = 1..Cardinality(K)
  BY <1>4
<1> QED BY <1>5, <1>7, <1>8, <1>9

LEMMA ExtractedSound ==
  ASSUME InPlay, \A n \in DOMAIN points : points[n].frame <= Len(cuts)
  PROVE  SoundMatch(Extracted)
<1>1. /\ DOMAIN Extracted = {l \in 1..TopRank : Total(Observation(l).ranks) > 0}
      /\ \A l \in DOMAIN Extracted : Extracted[l] = Observation(l)
  BY DEF Extracted
<1>2. ASSUME NEW l \in DOMAIN Extracted
      PROVE  /\ Extracted[l].ranks \in [SkillKeys -> Nat] /\ IsLegalSkillRanks(Extracted[l].ranks, l)
             /\ \A k \in SkillKeys : Cardinality(Holds(Extracted[l].order, k)) = Extracted[l].ranks[k]
  <2>1. l \in 1..TopRank /\ Total(Observation(l).ranks) > 0 /\ Extracted[l] = Observation(l)
    BY <1>1
  <2> QED BY <2>1, ObservationHolds, ObservationLegal
<1>3. ASSUME NEW l \in DOMAIN Extracted, NEW h \in DOMAIN Extracted, l <= h
      PROVE  /\ Len(Extracted[l].order) <= Len(Extracted[h].order)
             /\ \A n \in DOMAIN Extracted[l].order : Extracted[l].order[n] = Extracted[h].order[n]
  <2>1. l \in 1..TopRank /\ h \in 1..TopRank /\ Extracted[l] = Observation(l) /\ Extracted[h] = Observation(h)
    BY <1>1
  <2> QED BY <1>3, <2>1, ObservationsGrow
<1> QED BY <1>1, <1>2, <1>3 DEF SoundMatch

-----------------------------------------------------------------------------
(* Where a match begins. *)
Fresh == reached = 1 /\ spent = NoRanks /\ points = <<>> /\ cuts = <<>>

LEMMA FreshInPlay == Fresh => InPlay
<1> SUFFICES ASSUME Fresh PROVE InPlay
  OBVIOUS
<1>1. reached \in 1..TopRank /\ cuts = <<>> /\ points = <<>> /\ reached = 1
  BY TopIsLevel DEF Fresh
<1>2. spent = RanksUpTo(points, Len(points))
  <2>1. Len(points) = 0
    BY <1>1
  <2>2. \A k : OwnUpTo(points, 0, k) = {}
    BY DEF OwnUpTo
  <2>3. Cardinality({}) = 0
    BY FS_EmptySet
  <2> QED BY <2>1, <2>2, <2>3 DEF Fresh, NoRanks, RanksUpTo
<1>3. IsLegalSkillRanks(spent, reached)
  <2>1. 1 \in Levels
    BY DEF Levels
  <2>2. \A k \in SkillKeys : spent[k] = 0
    BY DEF Fresh, NoRanks
  <2>3. spent \in AnyRanks
    BY DEF Fresh, NoRanks, AnyRanks
  <2>4. spent["q"] = 0 /\ spent["w"] = 0 /\ spent["e"] = 0 /\ spent["r"] = 0
    BY <2>2 DEF SkillKeys
  <2>5. Bound(1)["q"] = 1 /\ Bound(1)["w"] = 1 /\ Bound(1)["e"] = 1 /\ Bound(1)["r"] = 0
    BY <2>1, BoundIs
  <2>6. IsLegalSkillRanks(spent, 1)
    BY <2>1, <2>3, <2>4, <2>5, LegalIs
  <2> QED BY <1>1, <2>6
<1> QED BY <1>1, <1>2, <1>3 DEF InPlay

LEMMA PointAppended ==
  ASSUME InPlay, NEW player \in {Champion, Anybody}, NEW key \in SkillKeys,
         points' = Append(points, Point(player, key)), UNCHANGED <<reached, cuts>>,
         spent' = IF player = Champion THEN Adjusted(spent, key, 1) ELSE spent,
         IsLegalSkillRanks(spent', reached)
  PROVE  InPlay'
<1> DEFINE e == Point(player, key)
           more == Append(points, e)
           n == Len(points)
<1>1. /\ points \in Seq(PointForms) /\ Len(cuts) \in Nat /\ DOMAIN points = 1..n
      /\ cuts \in Seq(1..TopRank)
  BY LenProperties DEF InPlay
<1>2. e \in PointForms /\ e.player = player /\ e.key = key /\ e.frame = Len(cuts) + 1
  BY <1>1 DEF Point, PointForms
<1> HIDE DEF e
<1>3. /\ more \in Seq(PointForms) /\ Len(more) = n + 1 /\ n \in Nat
      /\ \A i \in 1..n : more[i] = points[i]
      /\ more[n + 1] = e
      /\ \A i \in 0..n : RanksUpTo(more, i) = RanksUpTo(points, i)
      /\ RanksUpTo(more, n + 1) = IF player = Champion THEN Adjusted(RanksUpTo(points, n), key, 1)
                                  ELSE RanksUpTo(points, n)
  BY <1>1, <1>2, RanksAppended
<1> HIDE DEF more
<1>4. DOMAIN more = 1..n + 1
  BY <1>3, LenProperties
<1>5. \A i \in 1..n + 1 : i \in 1..n \/ i = n + 1
  BY <1>3
<1>6. ASSUME NEW i \in 1..n + 1 PROVE more[i].frame \in 1..Len(cuts) + 1
  <2>1. CASE i \in 1..n
    BY <1>1, <1>3, <2>1 DEF InPlay
  <2>2. CASE i = n + 1
    BY <1>1, <1>2, <1>3, <2>2
  <2> QED BY <1>5, <2>1, <2>2
<1>7. ASSUME NEW i \in 1..n + 1, NEW j \in 1..n + 1, i <= j PROVE more[i].frame <= more[j].frame
  <2>1. CASE j = n + 1
    BY <1>1, <1>2, <1>3, <1>6, <2>1
  <2>2. CASE j \in 1..n
    <3>1. i \in 1..n
      BY <1>3, <1>7, <2>2
    <3> QED BY <1>1, <1>3, <1>7, <2>2, <3>1 DEF InPlay
  <2> QED BY <1>5, <2>1, <2>2
<1>8. spent' = RanksUpTo(more, Len(more))
  BY <1>3 DEF InPlay
<1>9. ASSUME NEW i \in 1..n + 1, more[i].frame <= Len(cuts)
      PROVE  IsLegalSkillRanks(RanksUpTo(more, i), cuts[more[i].frame])
  <2>1. i \in 1..n
    BY <1>1, <1>2, <1>3, <1>5, <1>9
  <2>2. more[i] = points[i] /\ RanksUpTo(more, i) = RanksUpTo(points, i)
    BY <1>3, <2>1
  <2> QED BY <1>1, <1>9, <2>1, <2>2 DEF InPlay
<1>10. points' = more /\ reached' = reached /\ cuts' = cuts
  BY DEF e, more
<1> HIDE DEF n
<1>11. /\ reached' \in 1..TopRank /\ cuts' \in Seq(1..TopRank)
       /\ \A f, g \in DOMAIN cuts' : f <= g => cuts'[f] <= cuts'[g]
       /\ \A f \in DOMAIN cuts' : cuts'[f] <= reached'
  BY <1>10 DEF InPlay
<1>12. /\ points' \in Seq(PointForms)
       /\ \A i \in DOMAIN points' : points'[i].frame \in 1..Len(cuts') + 1
       /\ \A i, j \in DOMAIN points' : i <= j => points'[i].frame <= points'[j].frame
       /\ spent' = RanksUpTo(points', Len(points'))
       /\ IsLegalSkillRanks(spent', reached')
  BY <1>3, <1>4, <1>6, <1>7, <1>8, <1>10
<1>13. \A i \in DOMAIN points' : points'[i].frame <= Len(cuts') =>
         IsLegalSkillRanks(RanksUpTo(points', i), cuts'[points'[i].frame])
  BY <1>4, <1>9, <1>10
<1> QED BY <1>11, <1>12, <1>13 DEF InPlay, PointForms, RanksUpTo, OwnUpTo

LEMMA FrameCut ==
  ASSUME InPlay, cuts' = Append(cuts, reached), UNCHANGED <<reached, spent, points>>
  PROVE  InPlay'
<1> DEFINE more == Append(cuts, reached)
           n == Len(cuts)
<1>1. /\ cuts \in Seq(1..TopRank) /\ reached \in 1..TopRank /\ n \in Nat /\ DOMAIN cuts = 1..n
      /\ points \in Seq(PointForms) /\ Len(points) \in Nat /\ DOMAIN points = 1..Len(points)
  BY LenProperties DEF InPlay
<1>2. /\ more \in Seq(1..TopRank) /\ Len(more) = n + 1 /\ DOMAIN more = 1..n + 1
      /\ \A f \in 1..n : more[f] = cuts[f]
      /\ more[n + 1] = reached
  BY <1>1, AppendProperties, LenProperties
<1> HIDE DEF more
<1>3. \A f \in 1..n + 1 : f \in 1..n \/ f = n + 1
  BY <1>1
<1>4. ASSUME NEW f \in 1..n + 1 PROVE more[f] <= reached /\ more[f] \in 1..TopRank
  <2>1. CASE f \in 1..n
    <3>1. cuts[f] <= reached /\ cuts[f] \in 1..TopRank
      BY <1>1, <2>1, ElementOfSeq DEF InPlay
    <3> QED BY <1>2, <2>1, <3>1
  <2>2. CASE f = n + 1
    BY <1>1, <1>2, <2>2, TopIsLevel
  <2> QED BY <1>3, <2>1, <2>2
<1>5. ASSUME NEW f \in 1..n + 1, NEW g \in 1..n + 1, f <= g PROVE more[f] <= more[g]
  <2>1. CASE g = n + 1
    BY <1>2, <1>4, <2>1
  <2>2. CASE g \in 1..n
    <3>1. f \in 1..n
      BY <1>1, <1>5, <2>2
    <3>2. cuts[f] <= cuts[g]
      BY <1>1, <1>5, <2>2, <3>1 DEF InPlay
    <3> QED BY <1>2, <2>2, <3>1, <3>2
  <2> QED BY <1>3, <2>1, <2>2
<1>6. ASSUME NEW i \in 1..Len(points)
      PROVE  /\ points[i].frame \in 1..(n + 1) + 1
             /\ points[i].frame <= n + 1 => IsLegalSkillRanks(RanksUpTo(points, i), more[points[i].frame])
  <2>1. points[i].frame \in 1..n + 1
    BY <1>1 DEF InPlay
  <2>2. CASE points[i].frame \in 1..n
    <3>1. more[points[i].frame] = cuts[points[i].frame] /\ points[i].frame <= n
      BY <1>1, <1>2, <2>2
    <3>2. IsLegalSkillRanks(RanksUpTo(points, i), cuts[points[i].frame])
      BY <1>1, <3>1 DEF InPlay
    <3> QED BY <1>1, <2>1, <3>1, <3>2
  <2>3. CASE points[i].frame = n + 1
    <3>1. IsLegalSkillRanks(RanksUpTo(points, i), reached)
      <4>1. reached \in Levels /\ spent = RanksUpTo(points, Len(points)) /\ IsLegalSkillRanks(spent, reached)
        BY <1>1, TopIsLevel DEF InPlay
      <4>2. RanksUpTo(points, i) \in [SkillKeys -> Nat] /\ spent \in AnyRanks
        BY <1>1, <4>1, RanksTyped
      <4>3. \A k \in SkillKeys : RanksUpTo(points, i)[k] <= RanksUpTo(points, Len(points))[k]
        <5>1. i \in Nat /\ Len(points) \in Nat /\ i <= Len(points)
          BY <1>1
        <5> QED BY <5>1, RanksRise
      <4> QED BY <4>1, <4>2, <4>3, FewerLegal
    <3> QED BY <1>1, <1>2, <2>1, <2>3, <3>1
  <2> QED BY <1>3, <2>1, <2>2, <2>3
<1>7. cuts' = more /\ reached' = reached /\ spent' = spent /\ points' = points
  BY DEF more
<1> HIDE DEF n
<1>8. /\ reached' \in 1..TopRank /\ cuts' \in Seq(1..TopRank)
      /\ \A f, g \in DOMAIN cuts' : f <= g => cuts'[f] <= cuts'[g]
      /\ \A f \in DOMAIN cuts' : cuts'[f] <= reached'
  BY <1>1, <1>2, <1>4, <1>5, <1>7
<1>9. /\ points' \in Seq(PointForms)
      /\ \A i, j \in DOMAIN points' : i <= j => points'[i].frame <= points'[j].frame
      /\ spent' = RanksUpTo(points', Len(points'))
      /\ IsLegalSkillRanks(spent', reached')
  BY <1>7 DEF InPlay
<1>10. \A i \in DOMAIN points' :
         /\ points'[i].frame \in 1..Len(cuts') + 1
         /\ points'[i].frame <= Len(cuts') =>
              IsLegalSkillRanks(RanksUpTo(points', i), cuts'[points'[i].frame])
  BY <1>1, <1>2, <1>6, <1>7
<1> QED BY <1>8, <1>9, <1>10 DEF InPlay, PointForms, RanksUpTo, OwnUpTo

LEMMA SkillsInvInit == SkillInit => SkillsInv
<1> SUFFICES ASSUME SkillInit PROVE SkillsInv
  OBVIOUS
<1>1. Fresh /\ archived = <<>>
  BY DEF SkillInit, Fresh
<1>2. archived \in Seq({archived[m] : m \in DOMAIN archived}) /\ DOMAIN archived = {}
  BY <1>1, EmptySeq
<1> QED BY <1>1, <1>2, FreshInPlay DEF SkillsInv

LEMMA SkillsInvStep == SkillsInv /\ [SkillNext]_skillVars => SkillsInv'
<1> SUFFICES ASSUME SkillsInv, [SkillNext]_skillVars PROVE SkillsInv'
  OBVIOUS
<1>0. /\ InPlay /\ reached \in Levels /\ TopRank \in Levels /\ spent \in AnyRanks
      /\ IsLegalSkillRanks(spent, reached)
  <2>1. InPlay /\ reached \in 1..TopRank /\ spent = RanksUpTo(points, Len(points)) /\ Len(points) \in Nat
    BY LenProperties DEF SkillsInv, InPlay
  <2> QED BY <2>1, RanksTyped, TopIsLevel, TimelineAssumption DEF InPlay
<1>1. CASE UNCHANGED skillVars
  <2>1. /\ reached' = reached /\ spent' = spent /\ points' = points /\ cuts' = cuts
        /\ archived' = archived
    BY <1>1 DEF skillVars
  <2>2. InPlay'
    BY <1>0, <2>1 DEF InPlay, RanksUpTo, OwnUpTo, PointForms
  <2> QED BY <2>1, <2>2 DEF SkillsInv, SoundMatch, Holds
<1>2. CASE GainLevel
  <2>1. /\ reached' = reached + 1 /\ reached < TopRank
        /\ spent' = spent /\ points' = points /\ cuts' = cuts /\ archived' = archived
    BY <1>2 DEF GainLevel
  <2>2. reached' \in 1..TopRank /\ reached' \in Levels /\ reached <= reached'
    BY <1>0, <2>1 DEF Levels
  <2>3. IsLegalSkillRanks(spent', reached')
    BY <1>0, <2>1, <2>2, LegalAbove
  <2>4. \A f \in DOMAIN cuts' : cuts'[f] <= reached'
    <3> SUFFICES ASSUME NEW f \in DOMAIN cuts PROVE cuts[f] <= reached'
      BY <2>1
    <3>1. cuts[f] <= reached /\ cuts[f] \in 1..TopRank
      BY <1>0, ElementOfSeq, LenProperties DEF InPlay
    <3> QED BY <1>0, <2>1, <3>1, TopIsLevel DEF Levels
  <2>5. InPlay'
    BY <1>0, <2>1, <2>2, <2>3, <2>4 DEF InPlay, RanksUpTo, OwnUpTo, PointForms
  <2> QED BY <2>1, <2>5 DEF SkillsInv, SoundMatch, Holds
<1>3. ASSUME NEW key \in SlotKeys, SpendPoint(key) PROVE SkillsInv'
  <2>1. /\ points' = Append(points, Point(Champion, key)) /\ spent' = Adjusted(spent, key, 1)
        /\ reached' = reached /\ cuts' = cuts /\ archived' = archived
        /\ IsLegalSkillRanks(spent', reached) /\ key \in SkillKeys
    BY <1>3, TimelineAssumption DEF SpendPoint
  <2>2. InPlay'
    BY <1>0, <2>1, PointAppended
  <2> QED BY <2>1, <2>2 DEF SkillsInv, SoundMatch, Holds
<1>4. ASSUME NEW key \in OtherKeys, OtherSpends(key) PROVE SkillsInv'
  <2>1. /\ points' = Append(points, Point(Anybody, key)) /\ spent' = spent
        /\ reached' = reached /\ cuts' = cuts /\ archived' = archived
        /\ key \in SkillKeys /\ Anybody # Champion
    BY <1>4, TimelineAssumption DEF OtherSpends
  <2>2. InPlay'
    BY <1>0, <2>1, PointAppended
  <2> QED BY <2>1, <2>2 DEF SkillsInv, SoundMatch, Holds
<1>5. CASE CutTimeline
  <2>1. cuts' = Append(cuts, reached) /\ UNCHANGED <<reached, spent, points, archived>>
    BY <1>5 DEF CutTimeline
  <2>2. InPlay'
    BY <1>0, <2>1, FrameCut
  <2> QED BY <2>1, <2>2 DEF SkillsInv, SoundMatch, Holds
<1>6. CASE ArchiveTimeline
  <2> DEFINE new == [seen |-> Extracted, top |-> cuts[Len(cuts)]]
             n == Len(archived)
  <2>1. /\ \A i \in DOMAIN points : points[i].frame <= Len(cuts)
        /\ archived' = Append(archived, new)
    BY <1>6 DEF ArchiveTimeline
  <2>2. Fresh'
    BY <1>6 DEF ArchiveTimeline, Fresh, NoRanks
  <2>3. InPlay'
    BY <2>2, FreshInPlay, PTL
  <2>4. SoundMatch(new.seen)
    BY <1>0, <2>1, ExtractedSound
  <2> HIDE DEF new
  <2> DEFINE S == {archived[m] : m \in DOMAIN archived} \cup {new}
  <2>5. archived \in Seq(S) /\ n \in Nat /\ DOMAIN archived = 1..n
    <3>1. archived \in Seq({archived[m] : m \in DOMAIN archived})
      BY DEF SkillsInv
    <3>2. n \in Nat /\ DOMAIN archived = 1..n /\ archived \in [1..n -> {archived[m] : m \in DOMAIN archived}]
      BY <3>1, LenProperties
    <3> HIDE DEF n
    <3>3. archived \in [1..n -> S]
      BY <3>2
    <3> HIDE DEF S
    <3> QED BY <3>2, <3>3
  <2>6. archived' \in Seq(S) /\ Len(archived') = n + 1
        /\ (\A m \in 1..n : archived'[m] = archived[m]) /\ archived'[n + 1] = new
    <3>1. new \in S
      OBVIOUS
    <3> HIDE DEF S
    <3> QED BY <2>1, <2>5, <3>1, AppendProperties
  <2> HIDE DEF S, n
  <2>7. DOMAIN archived' = 1..n + 1 /\ \A m \in 1..n + 1 : m \in 1..n \/ m = n + 1
    BY <2>5, <2>6, LenProperties
  <2>8. ASSUME NEW m \in DOMAIN archived' PROVE SoundMatch(archived'[m].seen)
    <3>1. CASE m \in 1..n
      BY <2>5, <2>6, <3>1 DEF SkillsInv
    <3>2. CASE m = n + 1
      BY <2>4, <2>6, <3>2
    <3> QED BY <2>7, <3>1, <3>2
  <2>9. archived' \in Seq({archived'[m] : m \in DOMAIN archived'})
    <3>1. archived' \in [1..n + 1 -> {archived'[m] : m \in DOMAIN archived'}] /\ n + 1 \in Nat
      BY <2>5, <2>6, <2>7, LenProperties
    <3> QED BY <3>1, SeqDef
  <2> QED BY <2>3, <2>8, <2>9 DEF SkillsInv, SoundMatch, Holds
<1> QED BY <1>1, <1>2, <1>3, <1>4, <1>5, <1>6 DEF SkillNext

-----------------------------------------------------------------------------
(* The observation that is chosen is one of those it is chosen from.        *)
LEMMA AllSound ==
  ASSUME SkillsInv
  PROVE  /\ IsFiniteSet(AllObserved)
         /\ \A o \in AllObserved :
              /\ o = <<o[1], o[2]>> /\ o[1] \in Nat /\ o[2] \in 1..TopRank
              /\ o[1] \in DOMAIN archived /\ o[2] \in DOMAIN archived[o[1]].seen
              /\ SeenIn(o).ranks \in [SkillKeys -> Nat] /\ IsLegalSkillRanks(SeenIn(o).ranks, o[2])
              /\ \A k \in SkillKeys : Cardinality(Holds(SeenIn(o).order, k)) = SeenIn(o).ranks[k]
<1>1. Len(archived) \in Nat /\ DOMAIN archived = 1..Len(archived)
  BY LenProperties DEF SkillsInv
<1>2. ASSUME NEW o \in AllObserved
      PROVE  /\ o = <<o[1], o[2]>> /\ o[1] \in 1..Len(archived)
             /\ o[1] \in DOMAIN archived /\ o[2] \in DOMAIN archived[o[1]].seen
  <2>1. PICK m \in DOMAIN archived : o \in {m} \X DOMAIN archived[m].seen
    BY DEF AllObserved
  <2> QED BY <1>1, <2>1
<1>3. ASSUME NEW o \in AllObserved
      PROVE  /\ o[2] \in 1..TopRank
             /\ SeenIn(o).ranks \in [SkillKeys -> Nat] /\ IsLegalSkillRanks(SeenIn(o).ranks, o[2])
             /\ \A k \in SkillKeys : Cardinality(Holds(SeenIn(o).order, k)) = SeenIn(o).ranks[k]
  <2>1. SoundMatch(archived[o[1]].seen) /\ o[2] \in DOMAIN archived[o[1]].seen
    BY <1>2 DEF SkillsInv
  <2> QED BY <2>1 DEF SoundMatch, SeenIn
<1>4. AllObserved \in SUBSET ((1..Len(archived)) \X (1..TopRank))
  BY <1>2, <1>3
<1>5. IsFiniteSet((1..Len(archived)) \X (1..TopRank))
  <2>1. IsFiniteSet(1..Len(archived)) /\ IsFiniteSet(1..TopRank)
    BY <1>1, TopIsLevel, FS_Interval
  <2> QED BY <2>1, FS_Product
<1>6. IsFiniteSet(AllObserved)
  BY <1>4, <1>5, FS_Subset
<1> QED BY <1>1, <1>2, <1>3, <1>6

LEMMA ModeChosen ==
  ASSUME SkillsInv, NEW O \in SUBSET AllObserved, O # {}
  PROVE  \E o \in O : ModeObservation(O) = SeenIn(o)
<1> DEFINE seen == [o \in O |-> SeenIn(o)]
           often == [o \in O |-> Cardinality({p \in O : seen[p] = seen[o]})]
           most == {o \in O : \A p \in O : often[p] <= often[o]}
           score == [o \in most |-> RankScore(seen[o].ranks)]
           best == {o \in most : \A p \in most : RankScore(seen[p].ranks) <= RankScore(seen[o].ranks)}
           w == [o \in best |-> 19 * o[1] + o[2]]
<1>1. IsFiniteSet(O)
  BY AllSound, FS_Subset
<1>2. \A o \in O : seen[o].ranks \in [SkillKeys -> Nat] /\ o[1] \in Nat /\ o[2] \in 1..TopRank
  BY AllSound
<1> HIDE DEF seen
<1>3. most # {}
  <2>1. ASSUME NEW o \in O PROVE often[o] \in Nat
    <3>1. {p \in O : seen[p] = seen[o]} \in SUBSET O
      OBVIOUS
    <3>2. Cardinality({p \in O : seen[p] = seen[o]}) \in Nat
      BY <1>1, <3>1, FS_Subset, FS_CardinalityType
    <3> QED BY <3>2
  <2> HIDE DEF often
  <2>2. \E m \in O : \A p \in O : often[p] <= often[m]
    BY <1>1, <2>1, GreatestMeasure
  <2> QED BY <2>2
<1>4. most \in SUBSET O /\ IsFiniteSet(most)
  <2>1. most \in SUBSET O
    OBVIOUS
  <2> HIDE DEF most
  <2> QED BY <1>1, <2>1, FS_Subset
<1> HIDE DEF most
<1>5. best # {}
  <2>1. ASSUME NEW o \in most PROVE score[o] \in Nat
    <3>1. seen[o].ranks \in [SkillKeys -> Nat]
      BY <1>2, <1>4
    <3>2. \A k \in {"q", "w", "e", "r"} : seen[o].ranks[k] \in Nat
      BY <3>1 DEF SkillKeys
    <3> QED BY <3>2 DEF RankScore
  <2>2. \E m \in most : \A p \in most : score[p] <= score[m]
    <3> HIDE DEF score
    <3> QED BY <1>3, <1>4, <2>1, GreatestMeasure
  <2> QED BY <2>2
<1>6. best \in SUBSET O
  BY <1>4
<1> HIDE DEF best
<1>7. \E o \in best : \A p \in best : Before(o, p)
  <2>1. \A o \in best : w[o] \in Nat
    BY <1>2, <1>6, TopIsLevel
  <2>2. PICK o \in best : \A p \in best : w[o] <= w[p]
    <3> HIDE DEF w
    <3> QED BY <1>5, <2>1, LeastMeasure
  <2>3. ASSUME NEW p \in best PROVE Before(o, p)
    <3>1. 19 * o[1] + o[2] <= 19 * p[1] + p[2]
      BY <2>2
    <3>2. o[1] \in Nat /\ p[1] \in Nat /\ o[2] \in 1..18 /\ p[2] \in 1..18
      BY <1>2, <1>6, TopIsLevel DEF Levels
    <3> QED BY <3>1, <3>2 DEF Before
  <2> QED BY <2>3
<1> DEFINE o == CHOOSE o \in best : \A p \in best : Before(o, p)
<1>8. o \in best
  BY <1>7
<1>9. ModeObservation(O) = seen[o]
  BY DEF ModeObservation, seen, often, most, best
<1> HIDE DEF o
<1> QED BY <1>6, <1>8, <1>9 DEF seen

LEMMA FallbackSound ==
  ASSUME NEW level \in Levels
  PROVE  /\ IsLegalSkillRanks(Fallback(level).ranks, Max(Fallback(level).levels))
         /\ \A k \in SkillKeys : Cardinality(Holds(Fallback(level).order, k)) = Fallback(level).ranks[k]
<1> DEFINE ranks == DefaultSkillRanks(level)
           q == ranks["q"]
           w == ranks["w"]
           e == ranks["e"]
           r == ranks["r"]
           order == Fallback(level).order
<1>1. Fallback(level).ranks = ranks /\ Fallback(level).levels = {level}
  BY DEF Fallback
<1>2. IsLegalSkillRanks(ranks, level)
  BY DefaultLegal
<1>3. Max({level}) = level
  <2>1. {level} \in SUBSET Nat /\ {level} # {} /\ IsFiniteSet({level})
    BY FS_Singleton DEF Levels
  <2>2. Max({level}) \in {level}
    BY <2>1, MaxMinOfNaturals
  <2> QED BY <2>2
<1>4. q \in Nat /\ w \in Nat /\ e \in Nat /\ r \in Nat
  <2>1. \A k \in SkillKeys : ranks[k] \in 0..Bound(level)[k] /\ Bound(level)[k] \in Int
    BY <1>2, BoundLast DEF IsLegalSkillRanks
  <2> HIDE DEF ranks
  <2>2. \A k \in SkillKeys : ranks[k] \in Nat
    BY <2>1
  <2> QED BY <2>2 DEF SkillKeys
<1>5. /\ DOMAIN order = 1..q + w + e + r
      /\ \A n \in 1..q + w + e + r :
           order[n] = IF n <= q THEN "q" ELSE IF n <= q + w THEN "w"
                      ELSE IF n <= q + w + e THEN "e" ELSE "r"
  BY DEF Fallback, Total
<1> HIDE DEF order
<1>6. SkillKeys = {"q", "w", "e", "r"}
  BY DEF SkillKeys
<1> HIDE DEF q, w, e, r
<1>7. /\ Holds(order, "q") = 1..q
      /\ Holds(order, "w") = q + 1..q + w
      /\ Holds(order, "e") = q + w + 1..q + w + e
      /\ Holds(order, "r") = q + w + e + 1..q + w + e + r
  <2>1. Holds(order, "q") = 1..q
    BY <1>4, <1>5 DEF Holds
  <2>2. Holds(order, "w") = q + 1..q + w
    BY <1>4, <1>5 DEF Holds
  <2>3. Holds(order, "e") = q + w + 1..q + w + e
    BY <1>4, <1>5 DEF Holds
  <2>4. Holds(order, "r") = q + w + e + 1..q + w + e + r
    BY <1>4, <1>5 DEF Holds
  <2> QED BY <2>1, <2>2, <2>3, <2>4
<1>8. /\ Cardinality(1..q) = q
      /\ Cardinality(q + 1..q + w) = w
      /\ Cardinality(q + w + 1..q + w + e) = e
      /\ Cardinality(q + w + e + 1..q + w + e + r) = r
  <2>1. ASSUME NEW a \in Nat, NEW b \in Nat PROVE Cardinality(a + 1..a + b) = b
    <3>1. a + 1 \in Int /\ a + b \in Int
      OBVIOUS
    <3>2. Cardinality(a + 1..a + b) = IF a + 1 > a + b THEN 0 ELSE (a + b) - (a + 1) + 1
      BY <3>1, FS_Interval
    <3> QED BY <3>2
  <2>2. 0 + 1 = 1 /\ 0 + q = q /\ q + w \in Nat /\ q + w + e \in Nat
    BY <1>4
  <2>3. Cardinality(0 + 1..0 + q) = q
    BY <1>4, <2>1
  <2> QED BY <1>4, <2>1, <2>2, <2>3
<1>9. /\ Cardinality(Holds(order, "q")) = ranks["q"] /\ Cardinality(Holds(order, "w")) = ranks["w"]
      /\ Cardinality(Holds(order, "e")) = ranks["e"] /\ Cardinality(Holds(order, "r")) = ranks["r"]
  BY <1>7, <1>8 DEF q, w, e, r
<1> HIDE DEF ranks
<1> QED BY <1>1, <1>2, <1>3, <1>6, <1>9 DEF order

LEMMA SkillsInvLegal == SkillsInv => SkillsLegal
<1> SUFFICES ASSUME SkillsInv PROVE SkillsLegal
  OBVIOUS
<1>1. ASSUME NEW level \in 1..TopRank, NEW s, s = SkillProgression(level)
      PROVE  /\ IsLegalSkillRanks(s.ranks, Max(s.levels))
             /\ \A k \in SkillKeys : Cardinality({n \in DOMAIN s.order : s.order[n] = k}) = s.ranks[k]
  <2> DEFINE levels == NearbyLevels(level)
             pool == OfLevels(levels)
  <2>1. CASE pool = {}
    <3>1. s = Fallback(level)
      BY <1>1, <2>1 DEF SkillProgression
    <3>2. level \in Levels
      BY TopIsLevel
    <3> QED BY <3>1, <3>2, FallbackSound DEF Holds
  <2>2. CASE pool # {}
    <3>1. /\ s.ranks = ModeObservation(pool).ranks /\ s.order = ModeObservation(pool).order
          /\ s.levels = levels
      BY <1>1, <2>2 DEF SkillProgression
    <3>2. levels \in SUBSET (1..TopRank)
      BY DEF NearbyLevels, Within
    <3> HIDE DEF levels
    <3>3. PICK o \in pool : ModeObservation(pool) = SeenIn(o)
      <4>1. pool \in SUBSET AllObserved
        BY DEF OfLevels
      <4> HIDE DEF pool
      <4> QED BY <2>2, <4>1, ModeChosen
    <3>4. o \in AllObserved /\ o[2] \in levels
      BY DEF OfLevels
    <3>5. /\ SeenIn(o).ranks \in [SkillKeys -> Nat] /\ IsLegalSkillRanks(SeenIn(o).ranks, o[2])
          /\ \A k \in SkillKeys : Cardinality(Holds(SeenIn(o).order, k)) = SeenIn(o).ranks[k]
      BY <3>4, AllSound
    <3>6. Max(levels) \in Levels /\ o[2] <= Max(levels) /\ o[2] \in Levels
      <4>1. IsFiniteSet(1..TopRank) /\ 1..TopRank \subseteq Nat
        BY TopIsLevel, FS_Interval
      <4>2. IsFiniteSet(levels) /\ levels \in SUBSET Nat /\ levels # {}
        BY <3>2, <3>4, <4>1, FS_Subset
      <4>3. Max(levels) \in levels /\ \A l \in levels : l <= Max(levels)
        BY <4>2, MaxMinOfNaturals
      <4> QED BY <3>2, <3>4, <4>3, TopIsLevel
    <3>7. SeenIn(o).ranks \in AnyRanks
      BY <3>5 DEF AnyRanks
    <3>8. IsLegalSkillRanks(SeenIn(o).ranks, Max(levels))
      BY <3>5, <3>6, <3>7, LegalAbove
    <3> QED BY <3>1, <3>3, <3>5, <3>8 DEF Holds
  <2> QED BY <2>1, <2>2
<1>2. ASSUME NEW o \in AllObserved, NEW p \in AllObserved, o[1] = p[1], o[2] <= p[2]
      PROVE  /\ Len(SeenIn(o).order) <= Len(SeenIn(p).order)
             /\ \A n \in DOMAIN SeenIn(o).order : SeenIn(o).order[n] = SeenIn(p).order[n]
  <2>1. /\ o[1] \in DOMAIN archived /\ o[2] \in DOMAIN archived[o[1]].seen
        /\ p[2] \in DOMAIN archived[o[1]].seen
    BY <1>2, AllSound
  <2>2. SoundMatch(archived[o[1]].seen)
    BY <2>1 DEF SkillsInv
  <2> DEFINE seen == archived[o[1]].seen
  <2>3. \A l, h \in DOMAIN seen : l <= h =>
          /\ Len(seen[l].order) <= Len(seen[h].order)
          /\ \A n \in DOMAIN seen[l].order : seen[l].order[n] = seen[h].order[n]
    BY <2>2 DEF SoundMatch
  <2>4. SeenIn(o) = seen[o[2]] /\ SeenIn(p) = seen[p[2]]
    BY <1>2 DEF SeenIn
  <2> HIDE DEF seen
  <2>5. o[2] \in DOMAIN seen /\ p[2] \in DOMAIN seen
    BY <2>1 DEF seen
  <2> QED BY <1>2, <2>3, <2>4, <2>5
<1> QED BY <1>1, <1>2 DEF SkillsLegal

(* The ranks of a level spend what their order spends, are legal at the     *)
(* highest level they are taken from, and grow with the level.              *)
THEOREM AlwaysSkillsLegal == SkillSpec => []SkillsLegal
<1>1. SkillSpec => []SkillsInv
  BY SkillsInvInit, SkillsInvStep, PTL DEF SkillSpec
<1> QED BY <1>1, SkillsInvLegal, PTL
=============================================================================
