------------------------------- MODULE LabRun -------------------------------
(***************************************************************************)
(* The comparison of the lab (app/page.tsx, run) and its simulation worker *)
(* (workers/simulation.worker.ts).                                         *)
(*                                                                         *)
(* A change of an input arms a timer; the timer, a button, a champion      *)
(* filter and a click on a target start a run.  A run keeps the settings   *)
(* of the render it was created in.  It awaits its cohort (from a one-     *)
(* entry cache, or from the server), then the answer to its main request,  *)
(* then those to the requests of the other windows and slices.  Runs are   *)
(* not cancelled: several may be under way, and each writes what it has    *)
(* found when it has found it.  The worker answers in the order of asking. *)
(***************************************************************************)
EXTENDS Absent, Integers, Sequences

CONSTANTS
  Mains,         (* the inputs of autoKey other than the selected target      *)
  Champions,     (* the committed champion filter, which is not in autoKey    *)
  AnyChampion,   (* no filter                                                 *)
  Targets, Keys,
  KeyOf,         (* what of a main input is in cohortRequestKey               *)
  TargetsOf,     (* the targets of each cohort                                *)
  Illegal,       (* the main inputs whose ranks are not legal at the level    *)
  Clamped,       (* clampSkillRanks                                           *)
  Identical,     (* the main inputs that compare a build with itself          *)
  SliceRequests, (* the requests after the main one                           *)
  MaxRuns        (* bound: the runs that are started                          *)

ASSUME LabAssumption ==
  /\ KeyOf \in [Mains -> Keys]
  /\ TargetsOf \in [Keys \X Champions -> SUBSET Targets]
  /\ Illegal \subseteq Mains /\ Identical \subseteq Mains
  /\ Clamped \in [Illegal -> Mains \ Illegal]
  /\ SliceRequests \in Nat \ {0} /\ MaxRuns \in Nat
  /\ None \notin Targets /\ AnyChampion \in Champions

VARIABLES
  settings,   (* the inputs on display: main, champion, selected              *)
  timer,      (* None, or the settings of the run the timer will start        *)
  started,    (* how many runs there have been                                *)
  runs,       (* the runs under way: settings, the selection of their render, *)
              (* cohort and answers awaited                                   *)
  queue,      (* the requests at the worker, by run                           *)
  cohort,     (* cohortRef: the key of the cached cohort, or None             *)
  loading, error,
  result      (* None, or the settings of a run with the cohort it used       *)

vars == <<settings, timer, started, runs, queue, cohort, loading, error, result>>

Settings == [main : Mains, champion : Champions, selected : Targets \cup {None}]
Cohorts == Keys \X Champions
Run == [of : Settings, known : Targets \cup {None}, cohort : Cohorts \cup {None}, left : 0..(SliceRequests + 1)]
Shown == [of : Settings, cohort : Cohorts]

ASSUME NoneAssumption == None \notin Settings \cup Cohorts \cup Shown

TypeOK ==
  /\ settings \in Settings
  /\ timer \in Settings \cup {None}
  /\ started \in 0..MaxRuns
  /\ DOMAIN runs \subseteq 1..started
  /\ \A r \in DOMAIN runs : runs[r] \in Run
  /\ queue \in Seq(1..started)
  /\ \A r \in DOMAIN runs :
       runs[r].cohort # None => \E n \in 1..Len(queue) : queue[n] = r
  /\ cohort \in Cohorts \cup {None}
  /\ loading \in BOOLEAN /\ error \in BOOLEAN
  /\ result \in Shown \cup {None}

Init ==
  /\ settings \in Settings /\ settings.selected = None /\ settings.champion = AnyChampion
  /\ timer = settings
  /\ started = 0 /\ runs = <<>> /\ queue = <<>> /\ cohort = None
  /\ loading = TRUE /\ error = FALSE /\ result = None

Without(f, R) == [y \in DOMAIN f \ R |-> f[y]]
With(f, x, v) == [y \in DOMAIN f \cup {x} |-> IF y = x THEN v ELSE f[y]]

(* cohortRequestKey *)
CohortKey(s) == <<KeyOf[s.main], s.champion>>

Reusable_AnyCached(of, cached) == cached # None /\ TargetsOf[cached] # {}

(* The cached cohort is the one the run asks for; an empty one fails it.   *)
Reusable(of, cached) == cached = CohortKey(of) /\ TargetsOf[cached] # {}

Ask(r) == queue' = Append(queue, r)

-----------------------------------------------------------------------------
(* The effect on autoKey: a changed input replaces the timer. *)
Change(next) ==
  /\ settings' = next
  /\ timer' = IF next.main = settings.main /\ next.selected = settings.selected
              THEN timer ELSE next

ChangeMain(m) ==
  /\ m # settings.main
  /\ Change([settings EXCEPT !.main = m])
  /\ UNCHANGED <<started, runs, queue, cohort, loading, error, result>>

(* run with the settings of the render it belongs to.  Illegal ranks end   *)
(* it: they are corrected, which is a change of inputs.  A cached cohort   *)
(* is there at once.                                                       *)
Start(of, known, cached) ==
  /\ started < MaxRuns
  /\ error' = FALSE
  /\ UNCHANGED result
  /\ IF of.main \in Illegal
     THEN loading' = FALSE /\ UNCHANGED <<started, runs, queue>>
     ELSE /\ loading' = TRUE
          /\ started' = started + 1
          /\ IF Reusable(of, cached)
             THEN /\ runs' = With(runs, started + 1,
                             [of |-> of, known |-> known, cohort |-> cached, left |-> SliceRequests + 1])
                  /\ Ask(started + 1)
             ELSE /\ runs' = With(runs, started + 1,
                             [of |-> of, known |-> known, cohort |-> None, left |-> 0])
                  /\ UNCHANGED queue

Corrected(s) == IF s.main \in Illegal THEN [s EXCEPT !.main = Clamped[s.main]] ELSE s

TimerFires ==
  /\ timer # None
  /\ Start(timer, timer.selected, cohort)
  /\ IF timer.main \in Illegal
     THEN Change(Corrected(settings))
     ELSE timer' = None /\ UNCHANGED settings
  /\ UNCHANGED cohort

RunButton ==
  /\ ~loading
  /\ Start(settings, settings.selected, cohort)
  /\ Change(Corrected(settings))
  /\ UNCHANGED cohort

(* The filter drops the cached cohort.  It is no input of the timer's      *)
(* effect: a timer under way starts a run with the filter from before.     *)
ApplyChampionFilter(c) ==
  /\ Start([settings EXCEPT !.champion = c], settings.selected, None)
  /\ Change(Corrected([settings EXCEPT !.champion = c]))
  /\ cohort' = None

(* A click on a target of the shown cohort. *)
SelectTarget(t) ==
  /\ result # None /\ t \in TargetsOf[result.cohort]
  /\ Start([settings EXCEPT !.selected = t], settings.selected, cohort)
  /\ Change(Corrected([settings EXCEPT !.selected = t]))
  /\ UNCHANGED cohort

(* loadCohort has its answer: if the selection of the run's render is not  *)
(* among the targets, the middle one is selected.                          *)
CohortLoaded(r) ==
  /\ r \in DOMAIN runs /\ runs[r].cohort = None
  /\ LET key == CohortKey(runs[r].of)
         targets == TargetsOf[CohortKey(runs[r].of)]
     IN /\ targets # {}
        /\ cohort' = key
        /\ runs' = [runs EXCEPT ![r].cohort = key, ![r].left = SliceRequests + 1]
        /\ Ask(r)
        /\ Change(IF runs[r].known \in targets THEN settings
                  ELSE [settings EXCEPT !.selected = CHOOSE t \in targets : TRUE])
  /\ UNCHANGED <<started, loading, error, result>>

Fail_NoMessage(R) ==
  /\ runs' = Without(runs, R)
  /\ result' = None /\ error' = error /\ loading' = FALSE

(* The runs R end with an exception. *)
Fail(R) ==
  /\ runs' = Without(runs, R)
  /\ result' = None /\ error' = TRUE /\ loading' = FALSE

(* A repeated item, a request that fails, or no target. *)
CohortFails(r) ==
  /\ r \in DOMAIN runs /\ runs[r].cohort = None
  /\ Fail({r})
  /\ cohort' \in {cohort} \cup {key \in {CohortKey(runs[r].of)} : TargetsOf[key] = {}}
  /\ UNCHANGED <<settings, timer, started, queue>>

(* The answer to the first request in the queue.  After the main one the   *)
(* result is shown; a run that compares a build with itself is over then,  *)
(* another one asks for the next slice until it has them all.              *)
WorkerAnswers ==
  /\ queue # <<>>
  /\ LET r == Head(queue) IN
     IF r \notin DOMAIN runs
     THEN queue' = Tail(queue) /\ UNCHANGED <<runs, result, loading>>
     ELSE LET main == runs[r].left = SliceRequests + 1
              over == runs[r].left = 1 \/ (main /\ runs[r].of.main \in Identical)
          IN /\ result' = IF main THEN [of |-> runs[r].of, cohort |-> runs[r].cohort] ELSE result
             /\ IF over
                THEN runs' = Without(runs, {r}) /\ queue' = Tail(queue) /\ loading' = FALSE
                ELSE /\ runs' = [runs EXCEPT ![r].left = @ - 1]
                     /\ queue' = Append(Tail(queue), r)
                     /\ UNCHANGED loading
  /\ UNCHANGED <<settings, timer, started, cohort, error>>

(* The worker throws: its error event reaches every run that awaits an     *)
(* answer, of whichever request.                                           *)
WorkerThrows ==
  /\ queue # <<>>
  /\ queue' = Tail(queue)
  /\ LET waiting == {r \in DOMAIN runs : runs[r].cohort # None} IN
     IF waiting = {} THEN UNCHANGED <<runs, result, error, loading>> ELSE Fail(waiting)
  /\ UNCHANGED <<settings, timer, started, cohort>>

Next ==
  \/ \E m \in Mains : ChangeMain(m)
  \/ TimerFires \/ RunButton
  \/ \E c \in Champions : ApplyChampionFilter(c)
  \/ \E t \in Targets : SelectTarget(t)
  \/ \E r \in 1..MaxRuns : CohortLoaded(r) \/ CohortFails(r)
  \/ WorkerAnswers \/ WorkerThrows

Spec == Init /\ [][Next]_vars

-----------------------------------------------------------------------------
(* A comparison is shown with the cohort it was made of: overlapping runs  *)
(* and the champion filter never make one run use what another loaded for  *)
(* other filters.                                                          *)
DatasetMatches ==
  result # None => result.cohort = <<KeyOf[result.of.main], result.of.champion>>

Quiet == timer = None /\ runs = <<>>

(* When nothing is under way the lab shows a comparison or says what went  *)
(* wrong, however the ends of overlapping runs have been interleaved.      *)
NeverBlank == Quiet => ~loading /\ (result # None \/ error)

(* The lab recomputes "whenever an input changes" (app/page.tsx): when     *)
(* nothing is under way, what is shown belongs to the inputs on display.   *)
ShownCurrent ==
  Quiet /\ ~error /\ result # None =>
    result.of.main = settings.main /\ result.of.champion = settings.champion
=============================================================================
