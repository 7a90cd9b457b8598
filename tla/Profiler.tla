------------------------------ MODULE Profiler ------------------------------
(***************************************************************************)
(* The profiler of a time domain.                                          *)
(*                                                                         *)
(* An observer of the taskflow notes the start and the end of every task   *)
(* in the list of the worker that executes it.  The thread that shows the  *)
(* profile calls update(): getData takes the list of one worker after the  *)
(* other, each under its own lock, while the workers go on, and the events *)
(* are then handled in the order of their timestamps.                      *)
(*                                                                         *)
(* The taskflow is modelled by chains of tasks that are executed again and *)
(* again: the tasks of a time step follow each other, beginning with       *)
(* TimeStepStart, and the seams that lead into a time step from the one    *)
(* before it do not wait for its start.  Timestamps are the places in one  *)
(* list of events; no two of them are equal.                               *)
(***************************************************************************)
EXTENDS Naturals, Sequences, FiniteSets, SequencesExt

CONSTANTS
  WorkerCount,      \* executor_.num_workers()
  Chains,           \* the chains of tasks, a set of sequences of tasks
  MeasurementSize,  \* the size of the buffer of measurements of a task
  Rounds,           \* how often a chain is executed (bound)
  MaxPending        \* how many events wait for the next update (bound)

ASSUME ProfilerAssumption ==
  /\ WorkerCount \in Nat \ {0}
  /\ MeasurementSize \in Nat \ {0}
  /\ Rounds \in Nat
  /\ MaxPending \in Nat

\* Tasks are pairs of a name and a time step.
kTimeStepStart == "TimeStepStart"
TaskIds == UNION {{c[n] : n \in DOMAIN c} : c \in Chains}
TimeSteps == {t[2] : t \in TaskIds}

\* What the constructor makes of the task ids: the tasks of each time step, and
\* whether a task is the start of its time step.
time_step_to_tasks == [i \in TimeSteps |-> {t \in TaskIds : t[2] = i}]
isTimeStepStart(t) == t[1] = kTimeStepStart

WorkerIds == 0..(WorkerCount - 1)
NoWorker == WorkerCount

VARIABLES
  place,    \* per chain, the round, the task that is next and its worker
  log,      \* the events that are not handled yet, in the order of their time
  swapped,  \* how many of the workers' lists the current getData has taken
  result,   \* the profile: per task its state and its measurements
  totals,   \* the profile: per name its tasks in all time steps
  overlap,  \* history: whether an event was noted during the current getData,
  torn,     \* or during any so far,
  fresh     \* and the time steps that were started since the last update

profile == <<result, totals>>
vars == <<place, log, swapped, profile, overlap, torn, fresh>>

States == {"IDLE", "STARTED", "FINISHED", "INVALID"}
Event == [task : TaskIds, round : 1..Rounds, is_start : BOOLEAN, worker : WorkerIds,
          taken : BOOLEAN]

-----------------------------------------------------------------------------
(* CircularBuffer: a new value replaces the oldest one. *)

EmptyBuffer == [data |-> <<>>, current_index |-> 0, current_size |-> 0]

push_back(b, value) ==
  LET index == (b.current_index % MeasurementSize) + 1
  IN [data |-> IF index > Len(b.data) THEN Append(b.data, value)
               ELSE [b.data EXCEPT ![index] = value],
      current_index |-> index,
      current_size |-> IF b.current_size < MeasurementSize THEN b.current_size + 1
                       ELSE MeasurementSize]

\* From begin() to end(): the values in the order of their places.
Elements(b) == {b.data[n] : n \in 1..b.current_size}

-----------------------------------------------------------------------------
(* The profile. *)

SumOver(S, Op(_)) == FoldSet(LAMBDA t, sum : Op(t) + sum, 0, S)

NewTask ==
  [state |-> "IDLE", current_event |-> 0, start |-> 0, measurements |-> EmptyBuffer,
   measurement_count |-> 0]

\* addMeasurement: a start or an end that does not fit makes the task INVALID.
addMeasurement(task, e) ==
  IF e.is_start
  THEN IF task.state \notin {"FINISHED", "IDLE"}
       THEN [task EXCEPT !.state = "INVALID"]
       ELSE [task EXCEPT !.state = "STARTED", !.current_event = @ + 1, !.start = e.round]
  ELSE IF task.state # "STARTED"
       THEN [task EXCEPT !.state = "INVALID"]
       ELSE [task EXCEPT !.state = "FINISHED",
               !.measurements =
                 push_back(@, [event |-> task.current_event - 1,
                               start |-> task.start, end |-> e.round])]

\* Mutant: tasks keep the state that they had in the last round.
resetTimeStep_none(tasks, i) == tasks

resetTimeStep(tasks, i) ==
  [t \in TaskIds |->
     IF t \in time_step_to_tasks[i] THEN [tasks[t] EXCEPT !.state = "IDLE"] ELSE tasks[t]]

\* One event; the start of TimeStepStart begins a new round of its time step.
Handle(tasks, e) ==
  LET now == IF isTimeStepStart(e.task) /\ e.is_start
             THEN resetTimeStep(tasks, e.task[2]) ELSE tasks
  IN [now EXCEPT ![e.task] = addMeasurement(@, e)]

\* ProfileTimeResult::update goes through the measurements; only their number
\* is kept of what it computes.
Summarise(task) ==
  [task EXCEPT !.measurement_count = Cardinality(Elements(task.measurements))]

Names == {t[1] : t \in TaskIds}
NewTimeStepTask == [current_event |-> 0, measurement_count |-> 0]

\* TimeStepProfileTimeResult::update: what a task has done in all time steps.
SummariseTimeSteps(tasks, name) ==
  LET steps == {t \in TaskIds : t[1] = name}
  IN [current_event |-> SumOver(steps, LAMBDA t : tasks[t].current_event),
      measurement_count |->
        SumOver(steps, LAMBDA t : Cardinality(Elements(tasks[t].measurements)))]

\* Mutant: the lists of the workers are handled one after the other.
Sorted_byWorker(events) ==
  FoldLeft(LAMBDA all, w : all \o SelectSeq(events, LAMBDA e : e.worker = w),
           <<>>, [n \in 1..WorkerCount |-> n - 1])

\* time_sorted_data: the log is in the order of the timestamps.
Sorted(events) == events

-----------------------------------------------------------------------------
Init ==
  /\ place = [c \in Chains |-> [round |-> 1, pos |-> 1, worker |-> NoWorker]]
  /\ log = <<>>
  /\ swapped = 0
  /\ result = [t \in TaskIds |-> NewTask]
  /\ totals = [name \in Names |-> NewTimeStepTask]
  /\ overlap = FALSE
  /\ torn = FALSE
  /\ fresh = {}

\* No execution of a task is counted twice.
TypeOK ==
  /\ place \in [Chains -> [round : 1..(Rounds + 1), pos : Nat \ {0},
                           worker : WorkerIds \cup {NoWorker}]]
  /\ log \in Seq(Event)
  /\ swapped \in 0..WorkerCount
  /\ \A t \in TaskIds :
       /\ result[t].state \in States
       /\ result[t].current_event \in 0..Rounds
  /\ overlap \in BOOLEAN
  /\ torn \in BOOLEAN
  /\ fresh \subseteq TimeSteps

\* An event is noted in the list of its worker.
Note(c, w, is_start) ==
  LET t == c[place[c].pos]
  IN /\ Len(log) < MaxPending
     /\ log' = Append(log, [task |-> t, round |-> place[c].round, is_start |-> is_start,
                            worker |-> w, taken |-> FALSE])
     /\ overlap' = (overlap \/ swapped > 0)
     /\ torn' = (torn \/ swapped > 0)
     /\ fresh' = fresh \cup {i \in TimeSteps : is_start /\ isTimeStepStart(t) /\ i = t[2]}

\* on_entry: a worker that is free executes the next task of a chain.
taskStart(c, w) ==
  /\ place[c].round <= Rounds
  /\ place[c].worker = NoWorker
  /\ \A d \in Chains : place[d].worker # w
  /\ Note(c, w, TRUE)
  /\ place' = [place EXCEPT ![c].worker = w]
  /\ UNCHANGED <<swapped, profile>>

\* on_exit
taskEnd(c) ==
  LET p == place[c]
  IN /\ p.worker # NoWorker
     /\ Note(c, p.worker, FALSE)
     /\ place' = [place EXCEPT ![c] =
                    IF p.pos = Len(c)
                    THEN [round |-> p.round + 1, pos |-> 1, worker |-> NoWorker]
                    ELSE [p EXCEPT !.pos = @ + 1, !.worker = NoWorker]]
     /\ UNCHANGED <<swapped, profile>>

\* Mutant: getData copies the lists of the workers instead of swapping them.
Remaining_all(events) == events

\* What the workers have noted since their lists were taken.
Remaining(events) == SelectSeq(events, LAMBDA e : ~e.taken)

\* getData takes the list of the next worker.
getData ==
  /\ swapped < WorkerCount
  /\ log' = [n \in DOMAIN log |->
               IF log[n].worker = swapped THEN [log[n] EXCEPT !.taken = TRUE] ELSE log[n]]
  /\ swapped' = swapped + 1
  /\ UNCHANGED <<place, profile, overlap, torn, fresh>>

\* update, once it has all lists: it handles what was taken.
update ==
  /\ swapped = WorkerCount
  /\ LET handled == FoldLeft(Handle, result, Sorted(SelectSeq(log, LAMBDA e : e.taken)))
     IN /\ result' = [t \in TaskIds |-> Summarise(handled[t])]
        /\ totals' = [name \in Names |-> SummariseTimeSteps(handled, name)]
  /\ log' = Remaining(log)
  /\ swapped' = 0
  /\ overlap' = FALSE
  /\ fresh' = {}
  /\ UNCHANGED <<place, torn>>

Next ==
  \/ \E c \in Chains, w \in WorkerIds : taskStart(c, w)
  \/ \E c \in Chains : taskEnd(c)
  \/ getData
  \/ update

Spec == Init /\ [][Next]_vars

-----------------------------------------------------------------------------
(* Properties. *)

\* The chains of the time steps, the seams left out.
StepChains == {c \in Chains : isTimeStepStart(c[1])}

\* The state that the n-th task of a time step is really in.
ActualState(c, n) ==
  LET p == place[c]
  IN CASE n < p.pos -> "FINISHED"
       [] n = p.pos /\ p.worker # NoWorker -> "STARTED"
       [] p.pos = 1 /\ p.worker = NoWorker /\ p.round > 1 -> "FINISHED"
       [] OTHER -> "IDLE"

\* However the workers' events were torn apart by earlier updates, a task is
\* shown in its real state again as soon as its time step has been started anew
\* and an update comes at which no worker notes an event.
Recovers ==
  [][update /\ ~overlap =>
       \A c \in {d \in StepChains : d[1][2] \in fresh} :
         \A n \in DOMAIN c : result'[c[n]].state = ActualState(c, n)]_vars

\* Unless an event was noted while the lists were taken, a measurement is made
\* of the start and the end of one execution, on whatever workers the tasks were
\* executed; the buffer holds the latest measurements, up to its size, and what
\* is shown of all time steps is the sum of them.
LatestMeasurements ==
  ~torn =>
    /\ \A name \in Names :
         LET steps == {t \in TaskIds : t[1] = name}
         IN totals[name] =
              [current_event |-> SumOver(steps, LAMBDA t : result[t].current_event),
               measurement_count |-> SumOver(steps, LAMBDA t : result[t].measurement_count)]
    /\ \A c \in StepChains : \A n \in DOMAIN c :
      LET task == result[c[n]]
          finished == task.current_event - (IF task.state = "STARTED" THEN 1 ELSE 0)
          oldest == IF finished > MeasurementSize THEN finished - MeasurementSize ELSE 0
      IN /\ Elements(task.measurements) =
              {[event |-> k - 1, start |-> k, end |-> k] : k \in (oldest + 1)..finished}
         /\ task.measurement_count = finished - oldest
=============================================================================
