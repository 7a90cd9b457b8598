---------------------------- MODULE GlobalPlayer ----------------------------
(***************************************************************************)
(* PlayerBaseModule: one thread replays the recordings of all player       *)
(* components in the order of their timestamps, keeping their distances.   *)
(*                                                                         *)
(* The taskflow of module Facade calls init, start and stop, the thread    *)
(* runs by itself.  The wall clock is abstracted: the thread waits until   *)
(* the time of its next event and sends it then.  No parameter of a player *)
(* is changed, which would list the component in outputs_ once more.       *)
(***************************************************************************)
EXTENDS Naturals, FiniteSetsExt

CONSTANTS
  PlayerComponents,  \* the components that share the module
  RecordedTimes,     \* the timestamps that recordings may hold
  ReplayStart        \* the time at which the first event is sent

ASSUME GlobalPlayerAssumption ==
  /\ RecordedTimes \subseteq Nat \ {0}
  /\ ReplayStart \in Nat \ {0}

VARIABLES
  recording,  \* per component, the timestamps it has not sent yet
  outputs,    \* outputs_: the components that init was called with
  replay,     \* thread_ and, while it is "playing", running_
  events,     \* events_: the next event of each component that has one
  played      \* the last value sent: its timestamp and the time of sending

playerVars == <<recording, outputs, replay, events, played>>

Event == [component : PlayerComponents, ts : Nat, time : Nat]

PlayerTypeOK ==
  /\ recording \in [PlayerComponents -> SUBSET RecordedTimes]
  /\ outputs \subseteq PlayerComponents
  /\ replay \in {"none", "created", "playing", "finished"}
  /\ events \subseteq Event
  /\ played \in [ts : Nat, time : Nat]

PlayerInit ==
  /\ recording \in [PlayerComponents -> (SUBSET RecordedTimes) \ {{}}]
  /\ outputs = {}
  /\ replay = "none"
  /\ events = {}
  /\ played = [ts |-> 0, time |-> 0]

\* ModuleComponent::configure of every component: PlayerBaseModule::init.
ModuleInit ==
  /\ outputs' = PlayerComponents
  /\ UNCHANGED <<recording, replay, events, played>>

\* The first start() creates the thread, the others find running_ set.
ModuleStart ==
  /\ replay' = IF replay = "none" /\ outputs # {} THEN "created" ELSE replay
  /\ UNCHANGED <<recording, outputs, events, played>>

\* stop() and teardown() leave the thread and running_ alone.
ModuleStop == UNCHANGED playerVars

\* ModuleComponent passes the events of a component on to its module.
ModuleComponent(e) ==
  CASE e = "CONFIGURE" -> ModuleInit
    [] e = "START" -> ModuleStart
    [] OTHER -> ModuleStop

NextTimestamp(p) == Min(recording[p])

\* Mutant: every recording starts at once, whatever its first timestamp is.
FirstEvent_unaligned(p) ==
  [component |-> p, ts |-> NextTimestamp(p), time |-> ReplayStart]

\* The distance to the earliest of all timestamps is kept.
FirstEvent(p) ==
  LET first == Min({NextTimestamp(q) : q \in outputs}) IN
  [component |-> p, ts |-> NextTimestamp(p),
   time |-> ReplayStart + (NextTimestamp(p) - first)]

\* The thread collects the first event of every component.
ReplayBegins ==
  /\ replay = "created"
  /\ replay' = "playing"
  /\ events' = {FirstEvent(p) : p \in outputs}
  /\ UNCHANGED <<recording, outputs, played>>

\* Mutant: the comparison of the queue is turned round.
Top_latest == {e \in events : \A f \in events : f.ts <= e.ts}

\* events_.top(): the events with the earliest timestamp.
Top == {e \in events : \A f \in events : e.ts <= f.ts}

\* Event::sendAndNext, for the timestamps that are left.
Following(e, rest) ==
  [e EXCEPT !.ts = Min(rest), !.time = e.time + (Min(rest) - e.ts)]

\* The thread waits for the time of its next event, sends it and puts the
\* component's following event into the queue.
SendNext ==
  /\ replay = "playing"
  /\ \E e \in Top :
       LET rest == recording[e.component] \ {e.ts} IN
       /\ played' = [ts |-> e.ts, time |-> e.time]
       /\ recording' = [recording EXCEPT ![e.component] = rest]
       /\ events' = IF rest = {} THEN events \ {e}
                    ELSE (events \ {e}) \cup {Following(e, rest)}
  /\ UNCHANGED <<outputs, replay>>

\* Mutant: the loop ends with the first recording that ends.
LoopEnds_first == \E p \in outputs : recording[p] = {}

LoopEnds == events = {}

\* The loop ends when no component has an event left.
ReplayEnds ==
  /\ replay = "playing"
  /\ LoopEnds
  /\ replay' = "finished"
  /\ UNCHANGED <<recording, outputs, events, played>>

ReplayNext == ReplayBegins \/ SendNext \/ ReplayEnds

-----------------------------------------------------------------------------
\* The values of all recordings are sent in the order of their timestamps, by
\* whichever components they were recorded (threadLoop, a merge through events_).
ReplayOrder == [][played' # played => played'.ts >= played.ts]_playerVars

\* Replay keeps the distances of the recording: the time at which an event is
\* due is always the same amount after its timestamp, for every component and
\* for the value sent last.
SameOffset ==
  \A e \in events :
    /\ \A f \in events : e.time + f.ts = f.time + e.ts
    /\ played.ts > 0 => e.time + played.ts = played.time + e.ts

\* When the thread ends every recorded value was sent.
ReplayComplete ==
  replay = "finished" => \A p \in outputs : recording[p] = {}
=============================================================================
