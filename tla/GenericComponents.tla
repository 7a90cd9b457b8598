--------------------------- MODULE GenericComponents ---------------------------
(***************************************************************************)
(* The generic components that keep data between the frames, in one        *)
(* dataflow: user events, values kept in files, and the sinks that hand    *)
(* data to the application.                                                *)
(*                                                                         *)
(*   source --> writer           FileReaderWriterWrite, to the file        *)
(*   source --> recorder         FileWriter, to a file of its own          *)
(*   events --> show             ApplicationSyncSink                       *)
(*                                                                         *)
(* The synchronous sources reader (FileReaderWriterRead) and loader        *)
(* (FileReader) read the file that writer writes; reader and writer also   *)
(* share a module instance, as their module key, the file name, is the     *)
(* same.  The application fires events at events (SyncUserEventComponent). *)
(*                                                                         *)
(* All components are serial.  The taskflow is what module TaskFlowGraph   *)
(* shows it to be: a component handles one event after the other, behind   *)
(* the components it is connected to, in a ring of time steps.  The        *)
(* serializers (openFile, saveValue, readValue, closeFile) are not part of *)
(* the repository; each is taken to be atomic.  A value stands for any one  *)
(* word of the data: value_ is read and written without a lock, so a read  *)
(* that overlaps with a write finds each word before or after the write.   *)
(***************************************************************************)
EXTENDS Pattern, FiniteSets, FiniteSetsExt, Functions

CONSTANTS
  TimeStepCount,  \* ringbuffer_size
  MaxFrames,      \* bound on the frames of all program runs
  MaxFired,       \* bound on the events that the application fires
  MaxChanges,     \* bound on the parameter changes in each run,
  Changeable,     \* of these components
  MaxRuns         \* bound on the runs of the program

ASSUME GenericAssumption ==
  /\ TimeStepCount \in Nat \ {0}
  /\ MaxFrames \in Nat /\ MaxFired \in Nat /\ MaxChanges \in Nat
  /\ MaxRuns \in Nat \ {0}
  /\ Changeable \subseteq {"loader", "recorder"}

-----------------------------------------------------------------------------
(* The patterns, the connections of this dataflow, and its state. *)

SyncSource(type) == addProducerPort(NewPattern("SYNC_SOURCE", "SERIAL"), type)
SyncSink(type) == addConsumerPort(NewPattern("SYNC_SINK", "SERIAL"), type)

WithFile(p) == addStringParameter(p, "file", "file.json")

\* GetPattern of SyncUserEventComponent and ApplicationSyncSink, GetBasePattern
\* of FileReaderWriterRead and Write, FileReader and FileWriter.
SyncUserEventPattern == SyncSource("UserEvent")
FileReaderWriterReadPattern == WithFile(SyncSource("value"))
FileReaderPattern == WithFile(SyncSource("value"))
FileReaderWriterWritePattern == WithFile(SyncSink("value"))
FileWriterPattern == WithFile(SyncSink("value"))
ApplicationSyncSinkPattern == SyncSink("UserEvent")

PatternFor ==
  [events |-> SyncUserEventPattern, reader |-> FileReaderWriterReadPattern,
   loader |-> FileReaderPattern, writer |-> FileReaderWriterWritePattern,
   recorder |-> FileWriterPattern, show |-> ApplicationSyncSinkPattern]

Components == DOMAIN PatternFor
PortsOf(c, d) == PatternFor[c].port_groups[kDefaultPortGroup][d]

ASSUME PatternAssumption ==
  \A c \in Components : IsPattern(PatternFor[c]) /\ PatternFor[c].concurrency = "SERIAL"

Outputs == {"source"} \cup {c \in Components : PortsOf(c, "PRODUCER") # <<>>}

\* What the inputs of a component are connected to.
InputsOf ==
  [c \in Components |->
     IF PortsOf(c, "CONSUMER") = <<>> THEN {}
     ELSE IF c = "show" THEN {"events"} ELSE {"source"}]

VARIABLES
  run,       \* the runs of the program so far
  script,    \* the events of this run, in the order in which they were loaded
  at,        \* per component, how many of them it has handled
  slot,      \* per time step, the data of each output and whether it is VALID
  pending,   \* event_ of the SyncUserEventComponent, 0 for none
  fired,     \* how many events the application has fired
  shown,     \* the events that the application got back
  value,     \* value_ of the module that reader and writer share, 0 for none
  saving,    \* the value that writer is about to save, 0 for none
  file,      \* the value in the file, 0 when there is no file
  data,      \* data_ of loader
  recording, \* whether the file of recorder is open, and the frames in it
  clock,     \* the timestamp of the last frame
  restored   \* what the file held when this run began

shared == <<pending, fired, shown, value, saving, file, data, recording>>
vars == <<run, script, at, slot, shared, clock, restored>>

Steps == 0..(TimeStepCount - 1)
Step(n) == (n - 1) % TimeStepCount
Empty == [valid |-> FALSE, value |-> 0]

Init ==
  /\ run = 1
  /\ script = <<>>
  /\ at = [c \in Components |-> 0]
  /\ slot = [i \in Steps |-> [o \in Outputs |-> Empty]]
  /\ pending = 0 /\ fired = 0 /\ shown = <<>>
  /\ value = 0 /\ saving = 0 /\ file = 0 /\ data = 0
  /\ recording = [open |-> FALSE, frames |-> <<>>]
  /\ clock = 0 /\ restored = 0

-----------------------------------------------------------------------------
(* The events. *)

\* An event, for a frame with its timestamp and whether the source has a value.
Event(type, ts, given, changed) ==
  [type |-> type, ts |-> ts, given |-> given, changed |-> changed]
Lifecycle(type) == Event(type, 0, FALSE, "")
LastType == IF script = <<>> THEN "" ELSE script[Len(script)].type
Changes == Cardinality({n \in DOMAIN script : script[n].type = "PARAMETER_CHANGE"})

\* The events that may follow.  The parameters of reader are not changed, and
\* none after STOP.
NextEvents ==
  CASE LastType = "" -> {Lifecycle("CONFIGURE")}
    [] LastType = "CONFIGURE" -> {Lifecycle("START")}
    [] LastType = "STOP" -> {Lifecycle("TEARDOWN")}
    [] LastType = "TEARDOWN" -> {}
    [] OTHER ->
         {Lifecycle("STOP")}
           \cup {Event("DATA", clock + 1, given, "") :
                   given \in {b \in BOOLEAN : clock < MaxFrames}}
           \cup {Event("PARAMETER_CHANGE", 0, FALSE, c) :
                   c \in {d \in Changeable : Changes < MaxChanges}}

\* Mutant: a time step is used again while one component may be in it still.
StepFree_early(n) ==
  \A c \in Components \ {"writer"} : at[c] + TimeStepCount >= n

\* All components have left the time step that event n is loaded into.
StepFree(n) == \A c \in Components : at[c] + TimeStepCount >= n

\* Mutant: the outputs stay VALID.
resetNewEvent_keepValid(i) == slot[i]

\* No output is VALID, the data stays where it is.
resetNewEvent(i) == [o \in Outputs |-> [slot[i][o] EXCEPT !.valid = FALSE]]

\* The next event is loaded, with the value of the source if it has one.
LoadEvent ==
  LET n == Len(script) + 1
      i == Step(n)
  IN /\ StepFree(n)
     /\ n = 2 => \A c \in Components : at[c] = 1
     /\ \E e \in NextEvents :
          /\ script' = Append(script, e)
          /\ clock' = clock + (IF e.type = "DATA" THEN 1 ELSE 0)
          /\ slot' = [slot EXCEPT ![i] =
               [resetNewEvent(i) EXCEPT !["source"] =
                  IF e.given THEN [valid |-> TRUE, value |-> e.ts] ELSE @]]
     /\ UNCHANGED <<run, at, shared, restored>>

-----------------------------------------------------------------------------
(* The components. *)

\* Component c is to handle its next event, in time step Here(c).
Current(c) == script[at[c] + 1]
Here(c) == Step(at[c] + 1)
Turn(c, type) ==
  /\ at[c] < Len(script)
  /\ \A p \in InputsOf[c] \cap Components : at[p] > at[c]
  /\ Current(c).type = type

Handled(c) == at' = [at EXCEPT ![c] = @ + 1]

isAllInputValid(c) == \A o \in InputsOf[c] : slot[Here(c)][o].valid
In(c, o) == slot[Here(c)][o].value

\* getOutput marks the output as VALID, whatever is written to it then.
SetOutput(c, v) == slot' = [slot EXCEPT ![Here(c)][c] = [valid |-> TRUE, value |-> v]]

\* CONFIGURE, or a change of the component's own parameters.
Configures(c) ==
  \/ Turn(c, "CONFIGURE")
  \/ Turn(c, "PARAMETER_CHANGE") /\ Current(c).changed = c

\* The events that a component has nothing to do for: the empty functions of
\* Component, and processTimePointWithInvalid.
Passes(c) ==
  /\ \/ Turn(c, "START") \/ Turn(c, "TEARDOWN")
     \/ Turn(c, "STOP") /\ c # "recorder"
     \/ Turn(c, "CONFIGURE") /\ c \notin {"reader", "loader", "recorder"}
     \/ Turn(c, "PARAMETER_CHANGE") /\ Current(c).changed # c
     \/ Turn(c, "DATA") /\ ~isAllInputValid(c)
  /\ Handled(c)
  /\ UNCHANGED <<run, script, slot, shared, clock, restored>>

\* SyncUserEventComponent::fireEvent, under event_lock_.
fireEvent ==
  /\ fired < MaxFired
  /\ fired' = fired + 1
  /\ pending' = fired'
  /\ UNCHANGED <<run, script, at, slot, shown, value, saving, file, data,
                 recording, clock, restored>>

\* Mutant: the event stays for the next frame.
TakeEvent_keeps == UNCHANGED pending

TakeEvent == pending' = 0

\* SyncUserEventComponent::processTimePoint
SendEvent ==
  /\ Turn("events", "DATA")
  /\ IF pending # 0 THEN SetOutput("events", pending) ELSE UNCHANGED slot
  /\ TakeEvent
  /\ Handled("events")
  /\ UNCHANGED <<run, script, fired, shown, value, saving, file, data, recording,
                 clock, restored>>

\* ApplicationSyncSink::processTimePoint calls the application.
Show ==
  /\ Turn("show", "DATA")
  /\ isAllInputValid("show")
  /\ shown' = Append(shown, In("show", "events"))
  /\ Handled("show")
  /\ UNCHANGED <<run, script, slot, pending, fired, value, saving, file, data,
                 recording, clock, restored>>

\* FileReaderWriterRead::configure: the file is read, if there is one.
ConfigureReader ==
  /\ Configures("reader")
  /\ value' = IF file # 0 THEN file ELSE value
  /\ Handled("reader")
  /\ UNCHANGED <<run, script, slot, pending, fired, shown, saving, file, data,
                 recording, clock, restored>>

\* FileReaderWriterRead::processTimePoint: without a value the output is VALID
\* with what the buffer holds.
Read ==
  /\ Turn("reader", "DATA")
  /\ SetOutput("reader", IF value # 0 THEN value ELSE slot[Here("reader")]["reader"].value)
  /\ Handled("reader")
  /\ UNCHANGED <<run, script, shared, clock, restored>>

\* FileReaderWriterWrite::processTimePoint sets the value of the module ...
Write ==
  /\ Turn("writer", "DATA")
  /\ isAllInputValid("writer")
  /\ saving = 0
  /\ value' = In("writer", "source")
  /\ saving' = value'
  /\ UNCHANGED <<run, script, at, slot, pending, fired, shown, file, data,
                 recording, clock, restored>>

\* ... and then saves it.
Save ==
  /\ saving # 0
  /\ file' = saving
  /\ saving' = 0
  /\ Handled("writer")
  /\ UNCHANGED <<run, script, slot, pending, fired, shown, value, data, recording,
                 clock, restored>>

\* FileReader::configure
ConfigureLoader ==
  /\ Configures("loader")
  /\ data' = IF file # 0 THEN file ELSE data
  /\ Handled("loader")
  /\ UNCHANGED <<run, script, slot, pending, fired, shown, value, saving, file,
                 recording, clock, restored>>

\* FileReader::processTimePoint
Load ==
  /\ Turn("loader", "DATA")
  /\ SetOutput("loader", data)
  /\ Handled("loader")
  /\ UNCHANGED <<run, script, shared, clock, restored>>

\* FileWriter: configure opens the file, stop closes it.
Record ==
  /\ \/ Configures("recorder") /\ recording' = [recording EXCEPT !.open = TRUE]
     \/ /\ Turn("recorder", "DATA") /\ isAllInputValid("recorder")
        /\ recording' = [recording EXCEPT !.frames = Append(@, In("recorder", "source"))]
     \/ Turn("recorder", "STOP") /\ recording' = [recording EXCEPT !.open = FALSE]
  /\ Handled("recorder")
  /\ UNCHANGED <<run, script, slot, pending, fired, shown, value, saving, file,
                 data, clock, restored>>

\* The program ends, after TEARDOWN or at any time, and is started again: only
\* the files and the application's own record are left.
Restart ==
  /\ run < MaxRuns
  /\ run' = run + 1
  /\ script' = <<>>
  /\ at' = [c \in Components |-> 0]
  /\ slot' = [i \in Steps |-> [o \in Outputs |-> Empty]]
  /\ pending' = 0 /\ value' = 0 /\ saving' = 0 /\ data' = 0
  /\ recording' = [open |-> FALSE, frames |-> <<>>]
  /\ restored' = file
  /\ UNCHANGED <<fired, shown, file, clock>>

\* The last run has come to its end.
Finished ==
  /\ run = MaxRuns
  /\ LastType = "TEARDOWN"
  /\ \A c \in Components : at[c] = Len(script)
  /\ UNCHANGED vars

Next ==
  \/ LoadEvent \/ fireEvent \/ Restart
  \/ \E c \in Components : Passes(c)
  \/ SendEvent \/ Show
  \/ ConfigureReader \/ Read \/ Write \/ Save
  \/ ConfigureLoader \/ Load \/ Record
  \/ Finished

Spec == Init /\ [][Next]_vars

-----------------------------------------------------------------------------
(* Properties *)

\* The application gets every event that it fires back at most once, and in the
\* order of firing: an event that was not taken yet is replaced by the next one,
\* and what is left in the buffer of a time step is never shown again
\* (SyncUserEventComponent, ComponentBuffer, ApplicationSyncSink).
EventOnce == \A m, n \in DOMAIN shown : m < n => shown[m] < shown[n]

\* The frames with a value among the first n events.
GivenFrames(n) == {script[m].ts : m \in {k \in 1..n : script[k].given}}

\* What the file may hold of them, or still holds of an earlier run.
Kept(n) == {restored} \cup GivenFrames(n)
Before(n) == IF n > TimeStepCount THEN n - TimeStepCount ELSE 0
Behind(n) == Min({Len(script), n + TimeStepCount - 1})

\* The event that is, or was last, in time step i.
EventIn(i) == Max({0} \cup {n \in DOMAIN script : Step(n) = i})

\* The last event that configured loader.
LastLoad ==
  Max({n \in 1..at["loader"] :
         \/ script[n].type = "CONFIGURE"
         \/ script[n].changed = "loader"})

\* Nothing orders reader behind writer, but the ring keeps them together: the
\* value read for a frame is neither older than the last one given more than a
\* ring before it, nor given a ring after it; after a restart it is not older
\* than the file.  So is what loader reads when it is configured
\* (FileReaderWriterRead and Write share value_ without a lock, FileReader the
\* file).
ReadWindow ==
  /\ \A i \in Steps :
       slot[i]["reader"].valid =>
         LET n == EventIn(i)
         IN /\ slot[i]["reader"].value \in Kept(Behind(n))
            /\ slot[i]["reader"].value >= Max(Kept(Before(n)))
  /\ at["loader"] > 0 =>
       /\ data \in Kept(Behind(LastLoad))
       /\ data >= Max(Kept(Before(LastLoad)))

\* recorder saves every frame that has a value exactly once, in order, all of
\* them before it closes its file, whatever was left in the buffers that the
\* frames share (FileWriter, TimeStepBuffer::resetNewEvent).
Recorded ==
  /\ Range(recording.frames) = GivenFrames(at["recorder"])
  /\ \A m, n \in DOMAIN recording.frames : m < n => recording.frames[m] < recording.frames[n]
  /\ recording.open = \E n \in 1..at["recorder"] :
                        /\ script[n].type = "CONFIGURE"
                        /\ \A m \in n..at["recorder"] : script[m].type # "STOP"
=============================================================================
