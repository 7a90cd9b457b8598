--------------------------- MODULE GenericProofs ---------------------------
(***************************************************************************)
(* What TLAPS proves of the generic components, for any size of the ring,  *)
(* any number of frames, user events, parameter changes and runs of the    *)
(* program: the application gets its user events back once and in order    *)
(* (EventOnce), recorder saves every frame (Recorded), and what is read    *)
(* from the shared file stays in the window of the ring (ReadWindow).      *)
(*                                                                         *)
(* All three follow from one invariant, GenericInv.  It says what the ring *)
(* holds: every component is less than a ring behind the events that were  *)
(* loaded (OneRing), the part of the source in a time step is that of the  *)
(* step's event (SourceData), and the user events in the time steps        *)
(* between events and show are in order, newer than those shown and older  *)
(* than the one that is pending (EventsInOrder).  The file holds the last  *)
(* value that writer has passed (FileIsLatest); as writer is less than a   *)
(* ring away from any time step that is in use, the file lies in the       *)
(* window of all of them (NowInWindow).                                    *)
(***************************************************************************)
EXTENDS GenericComponents, SequenceTheorems, FiniteSetTheorems, TLAPS

-----------------------------------------------------------------------------
(* The patterns. *)

\* A parameter does not change the ports of a pattern.
LEMMA StringParameterPorts ==
  ASSUME NEW p, NEW g, p.port_groups = <<g>>, ~p.is_group_port,
         p = [type |-> p.type, concurrency |-> p.concurrency,
              port_groups |-> p.port_groups, is_group_port |-> p.is_group_port],
         g = [PRODUCER |-> g.PRODUCER, CONSUMER |-> g.CONSUMER,
              parameter |-> g.parameter],
         NEW name, NEW v, NEW d \in Directions
  PROVE  addStringParameter(p, name, v).port_groups[1][d] = g[d]
<1> DEFINE new == name :> [default |-> v, value |-> v] @@ g.parameter
<1> HIDE DEF new
<1>1. addStringParameter(p, name, v).port_groups = [p.port_groups EXCEPT ![1].parameter = new]
  BY DEF addStringParameter, CurrentGroup, kDefaultPortGroup, new
<1>2. addStringParameter(p, name, v).port_groups[1] = [g EXCEPT !.parameter = new]
  BY <1>1
<1> QED BY <1>2 DEF Directions

\* A source has an output and no input, a sink has an input and no output.
LEMMA SyncPorts ==
  ASSUME NEW type
  PROVE  /\ \E g : /\ SyncSource(type).port_groups = <<g>>
                   /\ g = [PRODUCER |-> g.PRODUCER, CONSUMER |-> g.CONSUMER,
                           parameter |-> g.parameter]
                   /\ g.PRODUCER # <<>> /\ g.CONSUMER = <<>>
         /\ \E g : /\ SyncSink(type).port_groups = <<g>>
                   /\ g = [PRODUCER |-> g.PRODUCER, CONSUMER |-> g.CONSUMER,
                           parameter |-> g.parameter]
                   /\ g.PRODUCER = <<>> /\ g.CONSUMER # <<>>
         /\ \A p \in {SyncSource(type), SyncSink(type)} :
              /\ ~p.is_group_port
              /\ p = [type |-> p.type, concurrency |-> p.concurrency,
                      port_groups |-> p.port_groups, is_group_port |-> p.is_group_port]
<1> DEFINE port(n) == [port_index |-> n, datatype |-> type]
           given == Append(<<>>, port(0))
<1>1. given # <<>>
  OBVIOUS
<1>2. ASSUME NEW t, NEW d \in Directions
      PROVE  addPort(NewPattern(t, "SERIAL"), d, type) =
               [type |-> t, concurrency |-> "SERIAL", is_group_port |-> FALSE,
                port_groups |-> <<[NewPortGroup EXCEPT ![d] = given]>>]
  <2> DEFINE p == NewPattern(t, "SERIAL")
  <2>1. /\ p = [type |-> t, concurrency |-> "SERIAL", is_group_port |-> FALSE,
                port_groups |-> <<NewPortGroup>>]
        /\ CurrentGroup(p) = 1 /\ p.port_groups[1] = NewPortGroup
        /\ NewPortGroup[d] = <<>> /\ getPortCount(NewPortGroup, d) = 0
    BY DEF NewPattern, CurrentGroup, kDefaultPortGroup, NewPortGroup, Directions, getPortCount
  <2> HIDE DEF p
  <2>2. addPort(p, d, type) = [p EXCEPT !.port_groups[1][d] = Append(@, port(0))]
    BY <2>1 DEF addPort, addTypedPort
  <2>3. addPort(p, d, type) = [p EXCEPT !.port_groups[1][d] = given]
    <3>1. p.port_groups[1][d] = <<>>
      BY <2>1
    <3> HIDE DEF port
    <3> QED BY <3>1, <2>2 DEF given
  <2> HIDE DEF given
  <2>4. [p.port_groups EXCEPT ![1][d] = given] = <<[NewPortGroup EXCEPT ![d] = given]>>
    <3>1. p.port_groups = <<NewPortGroup>>
      BY <2>1
    <3>2. [<<NewPortGroup>> EXCEPT ![1][d] = given] = <<[NewPortGroup EXCEPT ![d] = given]>>
      OBVIOUS
    <3> QED BY <3>1, <3>2
  <2>5. addPort(p, d, type) = [p EXCEPT !.port_groups = [p.port_groups EXCEPT ![1][d] = given]]
    BY <2>3
  <2>6. addPort(p, d, type) = [p EXCEPT !.port_groups = <<[NewPortGroup EXCEPT ![d] = given]>>]
    BY <2>4, <2>5
  <2> QED BY <2>1, <2>6 DEF p
<1> HIDE DEF given
<1>3. SyncSource(type) =
        [type |-> "SYNC_SOURCE", concurrency |-> "SERIAL", is_group_port |-> FALSE,
         port_groups |-> <<[PRODUCER |-> given, CONSUMER |-> <<>>, parameter |-> <<>>]>>]
  BY <1>2 DEF SyncSource, addProducerPort, Directions, NewPortGroup
<1>4. SyncSink(type) =
        [type |-> "SYNC_SINK", concurrency |-> "SERIAL", is_group_port |-> FALSE,
         port_groups |-> <<[PRODUCER |-> <<>>, CONSUMER |-> given, parameter |-> <<>>]>>]
  BY <1>2 DEF SyncSink, addConsumerPort, Directions, NewPortGroup
<1> QED BY <1>1, <1>3, <1>4

\* The sources of this dataflow have outputs, the sinks have one input each.
LEMMA DataflowFacts ==
  /\ Components = {"events", "reader", "loader", "writer", "recorder", "show"}
  /\ {"source", "events", "reader", "loader"} \subseteq Outputs
  /\ InputsOf["show"] = {"events"}
  /\ InputsOf["writer"] = {"source"} /\ InputsOf["recorder"] = {"source"}
<1>1. Components = {"events", "reader", "loader", "writer", "recorder", "show"}
  BY DEF Components, PatternFor
<1>2. \A type : /\ WithFile(SyncSource(type)).port_groups[1]["PRODUCER"] # <<>>
                /\ SyncSource(type).port_groups[1]["PRODUCER"] # <<>>
                /\ WithFile(SyncSink(type)).port_groups[1]["CONSUMER"] # <<>>
                /\ SyncSink(type).port_groups[1]["CONSUMER"] # <<>>
  <2> TAKE type
  <2>1. PICK g : /\ SyncSource(type).port_groups = <<g>>
                 /\ g = [PRODUCER |-> g.PRODUCER, CONSUMER |-> g.CONSUMER,
                         parameter |-> g.parameter]
                 /\ g.PRODUCER # <<>>
    BY SyncPorts
  <2>2. PICK h : /\ SyncSink(type).port_groups = <<h>>
                 /\ h = [PRODUCER |-> h.PRODUCER, CONSUMER |-> h.CONSUMER,
                         parameter |-> h.parameter]
                 /\ h.CONSUMER # <<>>
    BY SyncPorts
  <2>3. WithFile(SyncSource(type)).port_groups[1]["PRODUCER"] = g["PRODUCER"]
    BY <2>1, SyncPorts, StringParameterPorts DEF WithFile, Directions
  <2>4. WithFile(SyncSink(type)).port_groups[1]["CONSUMER"] = h["CONSUMER"]
    BY <2>2, SyncPorts, StringParameterPorts DEF WithFile, Directions
  <2> QED BY <2>1, <2>2, <2>3, <2>4
<1>3. /\ \A c \in {"events", "reader", "loader"} : PortsOf(c, "PRODUCER") # <<>>
      /\ \A c \in {"writer", "recorder", "show"} : PortsOf(c, "CONSUMER") # <<>>
  BY <1>2 DEF PortsOf, PatternFor, kDefaultPortGroup, SyncUserEventPattern,
     FileReaderWriterReadPattern, FileReaderPattern, FileReaderWriterWritePattern,
     FileWriterPattern, ApplicationSyncSinkPattern
<1>4. {"source", "events", "reader", "loader"} \subseteq Outputs
  BY <1>1, <1>3 DEF Outputs
<1> QED BY <1>1, <1>3, <1>4 DEF InputsOf

-----------------------------------------------------------------------------
(* The ring. *)

\* Two events less than a ring apart have time steps of their own.
LEMMA StepsDiffer ==
  /\ \A n \in Nat : n >= 1 => Step(n) \in Steps
  /\ \A m, n \in Nat : 1 <= m /\ m < n /\ n < m + TimeStepCount => Step(m) # Step(n)
  /\ \A n \in Nat : n >= 1 => Step(n + TimeStepCount) = Step(n)
<1>1. TimeStepCount \in Nat /\ TimeStepCount >= 1
  BY GenericAssumption
<1>2. ASSUME NEW N \in Nat, N >= 1, NEW m \in Nat, NEW n \in Nat, m < n, n < m + N
      PROVE  m % N # n % N
  <2> SUFFICES ASSUME m % N = n % N PROVE FALSE
    OBVIOUS
  <2>1. /\ m = N * (m \div N) + (m % N) /\ n = N * (n \div N) + (n % N)
        /\ m \div N \in Int /\ n \div N \in Int
    BY <1>2
  <2>2. PICK q \in Int, r \in Int : q = m \div N /\ r = n \div N
    BY <2>1
  <2>3. /\ N * r - N * q > 0 /\ N * r - N * q < N
    BY <1>2, <2>1, <2>2
  <2>4. N * r - N * q = N * (r - q)
    BY <2>2
  <2>5. CASE r - q >= 1
    <3>1. N * (r - q) >= N
      BY <2>5, <1>2
    <3> QED BY <3>1, <2>3, <2>4
  <2>6. CASE r - q <= 0
    <3>1. N * (r - q) <= 0
      BY <2>6, <1>2
    <3> QED BY <3>1, <2>3, <2>4
  <2> QED BY <2>5, <2>6
<1>3. ASSUME NEW n \in Nat, n >= 1
      PROVE  Step(n) \in Steps
  BY <1>1, <1>3 DEF Step, Steps
<1>4. ASSUME NEW m \in Nat, NEW n \in Nat, 1 <= m, m < n, n < m + TimeStepCount
      PROVE  Step(m) # Step(n)
  <2>1. m - 1 \in Nat /\ n - 1 \in Nat /\ m - 1 < n - 1 /\ n - 1 < (m - 1) + TimeStepCount
    BY <1>1, <1>4
  <2>2. (m - 1) % TimeStepCount # (n - 1) % TimeStepCount
    BY <1>1, <1>2, <2>1
  <2> QED BY <2>2 DEF Step
<1>5. ASSUME NEW N \in Nat, N >= 1, NEW m \in Nat
      PROVE  (m + N) % N = m % N
  <2>1. /\ m = N * (m \div N) + (m % N)
        /\ m + N = N * ((m + N) \div N) + ((m + N) % N)
        /\ m \div N \in Int /\ (m + N) \div N \in Int
        /\ m % N \in 0..(N - 1) /\ (m + N) % N \in 0..(N - 1)
    BY <1>5
  <2>2. PICK q \in Int, r \in Int : q = m \div N /\ r = (m + N) \div N
    BY <2>1
  <2>3. /\ N * r - N * q - N = (m % N) - ((m + N) % N)
        /\ N * r - N * q - N = N * (r - q - 1)
    BY <2>1, <2>2
  <2>4. N * (r - q - 1) < N /\ N * (r - q - 1) > -N
    BY <2>1, <2>3
  <2>5. CASE r - q - 1 >= 1
    <3>1. N * (r - q - 1) >= N
      BY <2>5, <1>5
    <3> QED BY <3>1, <2>4
  <2>6. CASE r - q - 1 <= -1
    <3>1. N * (r - q - 1) <= -N
      BY <2>6, <1>5
    <3> QED BY <3>1, <2>4, <1>5
  <2>7. CASE r - q - 1 = 0
    BY <2>7, <2>1, <2>3
  <2> QED BY <2>5, <2>6, <2>7
<1>6. ASSUME NEW n \in Nat, n >= 1
      PROVE  Step(n + TimeStepCount) = Step(n)
  <2>1. n - 1 \in Nat /\ (n + TimeStepCount) - 1 = (n - 1) + TimeStepCount
    BY <1>1, <1>6
  <2> QED BY <1>1, <1>5, <2>1 DEF Step
<1> QED BY <1>3, <1>4, <1>6

-----------------------------------------------------------------------------
(* The invariant. *)

EventTypes == {"CONFIGURE", "START", "STOP", "TEARDOWN", "DATA", "PARAMETER_CHANGE"}
ScriptEvent ==
  [type : EventTypes, ts : Nat, given : BOOLEAN, changed : {"", "loader", "recorder"}]

GenericTypes ==
  /\ script \in Seq(ScriptEvent)
  /\ at \in [Components -> Nat]
  /\ slot \in [Steps -> [Outputs -> [valid : BOOLEAN, value : Nat]]]
  /\ pending \in Nat /\ fired \in Nat /\ shown \in Seq(Nat)
  /\ value \in Nat /\ saving \in Nat /\ file \in Nat /\ data \in Nat
  /\ recording \in [open : BOOLEAN, frames : Seq(Nat)]
  /\ clock \in Nat /\ restored \in Nat

\* No component falls a ring behind.
OneRing ==
  /\ \A c \in Components : at[c] <= Len(script) /\ Len(script) <= at[c] + TimeStepCount
  /\ at["show"] <= at["events"]
  /\ Len(script) >= 2 => \A c \in Components : at[c] >= 1

\* The life cycle of the components, with frames in the order of time.
ScriptInOrder ==
  /\ \A n \in 1..Len(script) :
       /\ script[n].type # ""
       /\ script[n].type = "CONFIGURE" <=> n = 1
       /\ script[n].given => /\ script[n].type = "DATA"
                             /\ script[n].ts > restored /\ script[n].ts <= clock
       /\ script[n].changed # "" => script[n].type = "PARAMETER_CHANGE"
       /\ script[n].changed # "reader"
       /\ script[n].type = "STOP" => \A m \in (n + 1)..Len(script) : script[m].type = "TEARDOWN"
       /\ script[n].type = "TEARDOWN" => n = Len(script)
  /\ \A m, n \in 1..Len(script) :
       m < n /\ script[m].given /\ script[n].given => script[m].ts < script[n].ts
  /\ restored <= clock

\* The source's part of a time step is that of its event.
SourceData ==
  \A n \in 1..Len(script) :
    n + TimeStepCount > Len(script) =>
      /\ slot[Step(n)]["source"].valid = script[n].given
      /\ script[n].given => slot[Step(n)]["source"].value = script[n].ts

\* The user events on their way through the ring.
UserEvent(n) == slot[Step(n)]["events"]
OnTheWay == {n \in (at["show"] + 1)..at["events"] : UserEvent(n).valid}

EventsInOrder ==
  /\ EventOnce
  /\ pending <= fired
  /\ \A k \in 1..Len(shown) : shown[k] <= fired /\ (pending # 0 => shown[k] < pending)
  /\ \A n \in OnTheWay :
       /\ UserEvent(n).value <= fired
       /\ pending # 0 => UserEvent(n).value < pending
       /\ \A k \in 1..Len(shown) : shown[k] < UserEvent(n).value
       /\ \A m \in OnTheWay : m < n => UserEvent(m).value < UserEvent(n).value
  /\ \A n \in (at["events"] + 1)..Len(script) : ~UserEvent(n).valid

\* v is the last of the values among the first n events, or that of an earlier run.
Latest(v, n) == v \in Kept(n) /\ \A u \in Kept(n) : u <= v

\* The file has the last value that writer has saved, the module the one that
\* writer is about to save.
FileIsLatest ==
  /\ Latest(file, at["writer"])
  /\ at["reader"] = 0 => value = 0 /\ file = restored /\ saving = 0
  /\ at["reader"] > 0 => value = IF saving = 0 THEN file ELSE saving
  /\ saving # 0 => /\ at["writer"] < Len(script)
                   /\ script[at["writer"] + 1].given
                   /\ script[at["writer"] + 1].ts = saving

\* v lies in the window of event n.
InWindow(v, n) == v \in Kept(Behind(n)) /\ \A u \in Kept(Before(n)) : u <= v

\* What reader has read lies in the window of its event; before a value was
\* given the buffers hold 0.
ReaderInWindow ==
  /\ value = 0 => \A i \in Steps : slot[i]["reader"].value = 0
  /\ \A i \in Steps : slot[i]["reader"].valid =>
       \E n \in 1..Len(script) :
         /\ Step(n) = i /\ n + TimeStepCount > Len(script)
         /\ InWindow(slot[i]["reader"].value, n)

\* Event n configures loader.
Loads(n) == script[n].type = "CONFIGURE" \/ script[n].changed = "loader"

\* loader has the value of the window of the event that has configured it.
LoaderInWindow ==
  /\ data <= file
  /\ at["loader"] = 0 => data = 0
  /\ at["loader"] > 0 =>
       \E n \in 1..at["loader"] :
         /\ Loads(n) /\ \A m \in (n + 1)..at["loader"] : ~Loads(m)
         /\ InWindow(data, n)

GenericInv ==
  /\ GenericTypes /\ OneRing /\ ScriptInOrder /\ SourceData
  /\ EventsInOrder /\ FileIsLatest /\ ReaderInWindow /\ LoaderInWindow /\ Recorded

-----------------------------------------------------------------------------
(* The script. *)

\* A script and its extension by one event.
LEMMA ScriptFacts ==
  ASSUME GenericTypes
  PROVE  /\ Len(script) \in Nat /\ DOMAIN script = 1..Len(script)
         /\ \A n \in 1..Len(script) :
              /\ script[n] \in ScriptEvent
              /\ script[n].ts \in Nat /\ script[n].given \in BOOLEAN
         /\ \A e \in ScriptEvent :
              LET s == Append(script, e)
              IN /\ s \in Seq(ScriptEvent) /\ Len(s) = Len(script) + 1
                 /\ \A n \in 1..Len(script) : s[n] = script[n]
                 /\ s[Len(script) + 1] = e
<1>1. script \in Seq(ScriptEvent)
  BY DEF GenericTypes
<1>2. \A n \in 1..Len(script) : script[n] \in ScriptEvent
  BY <1>1
<1>3. \A e \in ScriptEvent : e.ts \in Nat /\ e.given \in BOOLEAN
  BY DEF ScriptEvent
<1>4. \A e \in ScriptEvent :
        LET s == Append(script, e)
        IN /\ s \in Seq(ScriptEvent) /\ Len(s) = Len(script) + 1
           /\ \A n \in 1..Len(script) : s[n] = script[n]
           /\ s[Len(script) + 1] = e
  BY <1>1, AppendProperties
<1> QED BY <1>1, <1>2, <1>3, <1>4

\* What may be kept after more events includes what was kept before.
LEMMA KeptFacts ==
  ASSUME GenericTypes
  PROVE  /\ Kept(0) = {restored}
         /\ \A n \in 0..Len(script) : Kept(n) \subseteq Nat /\ restored \in Kept(n)
         /\ \A n \in 0..Len(script) : \A m \in 0..n : Kept(m) \subseteq Kept(n)
         /\ \A n \in 0..(Len(script) - 1) :
              Kept(n + 1) = Kept(n) \cup (IF script[n + 1].given THEN {script[n + 1].ts} ELSE {})
<1>1. /\ Len(script) \in Nat /\ restored \in Nat
      /\ \A n \in 1..Len(script) : script[n].ts \in Nat
  BY ScriptFacts DEF GenericTypes
<1>2. \A n : Kept(n) = {restored} \cup {script[k].ts : k \in {j \in 1..n : script[j].given}}
  BY DEF Kept, GivenFrames
<1>3. \A n \in 0..(Len(script) - 1) :
              Kept(n + 1) = Kept(n) \cup (IF script[n + 1].given THEN {script[n + 1].ts} ELSE {})
  <2> TAKE n \in 0..(Len(script) - 1)
  <2>1. 1..(n + 1) = (1..n) \cup {n + 1}
    BY <1>1
  <2> QED BY <1>2, <2>1
<1>4. Kept(0) = {restored}
  BY <1>2
<1>5. \A n \in 0..Len(script) : Kept(n) \subseteq Nat /\ restored \in Kept(n)
  BY <1>1, <1>2
<1>6. \A n \in 0..Len(script) : \A m \in 0..n : Kept(m) \subseteq Kept(n)
  <2> TAKE n \in 0..Len(script)
  <2> TAKE m \in 0..n
  <2>1. 1..m \subseteq 1..n
    BY <1>1
  <2> QED BY <1>2, <2>1
<1> QED BY <1>3, <1>4, <1>5, <1>6

LEMMA MinOfTwo ==
  ASSUME NEW a \in Int, NEW b \in Int
  PROVE  Min({a, b}) = IF a <= b THEN a ELSE b
BY DEF Min

\* The borders of the window of event n.
LEMMA WindowBorders ==
  ASSUME GenericTypes, NEW n \in Nat, n >= 1
  PROVE  /\ Behind(n) = IF Len(script) <= n + TimeStepCount - 1 THEN Len(script)
                        ELSE n + TimeStepCount - 1
         /\ Before(n) = IF n > TimeStepCount THEN n - TimeStepCount ELSE 0
<1>1. Len(script) \in Nat /\ TimeStepCount \in Nat /\ TimeStepCount >= 1
  BY ScriptFacts, GenericAssumption
<1>2. Min({Len(script), n + TimeStepCount - 1}) =
        IF Len(script) <= n + TimeStepCount - 1 THEN Len(script) ELSE n + TimeStepCount - 1
  BY <1>1, MinOfTwo
<1> QED BY <1>2 DEF Behind, Before

\* The script is extended, or left as it is.
Extends ==
  /\ restored' = restored
  /\ \/ script' = script
     \/ \E e \in ScriptEvent : script' = Append(script, e)

\* A longer script keeps what was kept, and the windows of its events.
LEMMA ExtendsKeeps ==
  ASSUME GenericTypes, GenericTypes', Extends
  PROVE  /\ Len(script') >= Len(script)
         /\ \A n \in 1..Len(script) : script'[n] = script[n]
         /\ \A n \in 0..Len(script) : Kept(n)' = Kept(n)
         /\ \A n \in 1..Len(script), v \in Nat : InWindow(v, n) => InWindow(v, n)'
<1>1. /\ Len(script) \in Nat /\ Len(script') \in Nat /\ Len(script') >= Len(script)
      /\ \A n \in 1..Len(script) : script'[n] = script[n]
  <2>1. CASE script' = script
    BY <2>1, ScriptFacts
  <2>2. CASE \E e \in ScriptEvent : script' = Append(script, e)
    <3>1. PICK e \in ScriptEvent : script' = Append(script, e)
      BY <2>2
    <3> QED BY <3>1, ScriptFacts
  <2> QED BY <2>1, <2>2 DEF Extends
<1>2. ASSUME NEW n \in 0..Len(script)
      PROVE  Kept(n)' = Kept(n)
  <2>1. \A k \in 1..n : script'[k] = script[k]
    BY <1>1
  <2>2. {script'[k].ts : k \in {j \in 1..n : script'[j].given}}
          = {script[k].ts : k \in {j \in 1..n : script[j].given}}
    BY <2>1
  <2> QED BY <2>2 DEF Kept, GivenFrames, Extends
<1>3. ASSUME NEW n \in 1..Len(script), NEW v \in Nat, InWindow(v, n)
      PROVE  InWindow(v, n)'
  <2>1. TimeStepCount \in Nat /\ TimeStepCount >= 1 /\ n \in Nat /\ n >= 1
    BY <1>1, GenericAssumption
  <2>2. /\ Behind(n) \in 0..Len(script) /\ Behind(n)' \in 0..Len(script')
        /\ Behind(n) <= Behind(n)'
        /\ Before(n) \in 0..Len(script) /\ Before(n)' = Before(n)
    <3>1. /\ Behind(n) = IF Len(script) <= n + TimeStepCount - 1 THEN Len(script)
                         ELSE n + TimeStepCount - 1
          /\ Before(n) = IF n > TimeStepCount THEN n - TimeStepCount ELSE 0
      BY <2>1, WindowBorders
    <3>2. /\ Behind(n)' = IF Len(script') <= n + TimeStepCount - 1 THEN Len(script')
                          ELSE n + TimeStepCount - 1
          /\ Before(n)' = IF n > TimeStepCount THEN n - TimeStepCount ELSE 0
      BY <1>1, <2>1, MinOfTwo DEF Behind, Before
    <3> QED BY <1>1, <2>1, <3>1, <3>2
  <2>3. Kept(Behind(n)) \subseteq Kept(Behind(n))'
    <3>1. PICK b \in Nat, c \in Nat : b = Behind(n) /\ c = Behind(n)'
      BY <2>2
    <3>2. Kept(b)' = Kept(b)
      BY <1>2, <2>2, <3>1
    <3>3. Kept(b)' \subseteq Kept(c)'
      <4>1. 1..b \subseteq 1..c
        BY <2>2, <3>1
      <4> QED BY <4>1 DEF Kept, GivenFrames
    <3> QED BY <3>1, <3>2, <3>3
  <2>4. Kept(Before(n))' = Kept(Before(n))
    BY <1>2, <2>2
  <2> QED BY <1>3, <2>3, <2>4 DEF InWindow
<1> QED BY <1>1, <1>2, <1>3

-----------------------------------------------------------------------------
(* What a component leaves as it is. *)

\* Component c handles its next event, and may write its output.
Advances(c) ==
  /\ c \in Components
  /\ at[c] < Len(script)
  /\ \A p \in InputsOf[c] \cap Components : at[p] > at[c]
  /\ Handled(c)
  /\ UNCHANGED <<script, clock, restored>>
  /\ \/ slot' = slot
     \/ c \in {"events", "reader", "loader"} /\ \E v \in Nat : SetOutput(c, v)

\* A component writes its own output in the time step of its event.
LEMMA OutputWritten ==
  ASSUME GenericTypes, NEW c \in Outputs, NEW i \in Steps, NEW v \in Nat,
         slot' = [slot EXCEPT ![i][c] = [valid |-> TRUE, value |-> v]]
  PROVE  /\ slot' \in [Steps -> [Outputs -> [valid : BOOLEAN, value : Nat]]]
         /\ slot'[i][c].valid /\ slot'[i][c].value = v
         /\ \A j \in Steps, o \in Outputs :
              o # c \/ j # i => slot'[j][o] = slot[j][o]
<1> DEFINE w == [valid |-> TRUE, value |-> v]
<1>1. slot \in [Steps -> [Outputs -> [valid : BOOLEAN, value : Nat]]]
  BY DEF GenericTypes
<1>2. w \in [valid : BOOLEAN, value : Nat] /\ w.valid /\ w.value = v
  OBVIOUS
<1>3. slot' = [slot EXCEPT ![i][c] = w]
  OBVIOUS
<1> HIDE DEF w
<1> QED BY <1>1, <1>2, <1>3

\* How far the components are.
LEMMA PlacesFacts ==
  ASSUME GenericTypes, OneRing
  PROVE  /\ TimeStepCount \in Nat /\ TimeStepCount >= 1 /\ Len(script) \in Nat
         /\ \A c \in {"events", "reader", "loader", "writer", "recorder", "show"} :
              /\ c \in Components /\ at[c] \in Nat
              /\ at[c] <= Len(script) /\ Len(script) <= at[c] + TimeStepCount
              /\ at[c] < Len(script) => at[c] + 1 \in 1..Len(script)
<1>1. TimeStepCount \in Nat /\ TimeStepCount >= 1 /\ Len(script) \in Nat
  BY ScriptFacts, GenericAssumption
<1>2. \A c \in {"events", "reader", "loader", "writer", "recorder", "show"} :
         c \in Components
  BY DataflowFacts
<1>3. \A c \in Components :
         at[c] \in Nat /\ at[c] <= Len(script) /\ Len(script) <= at[c] + TimeStepCount
  <2>1. at \in [Components -> Nat]
    BY DEF GenericTypes
  <2> QED BY <2>1 DEF OneRing
<1>4. \A k \in Nat : k < Len(script) => k + 1 \in 1..Len(script)
  BY <1>1
<1> QED BY <1>1, <1>2, <1>3, <1>4

LEMMA AdvancesKeeps ==
  ASSUME GenericInv, NEW c, Advances(c)
  PROVE  /\ at' \in [Components -> Nat]
         /\ slot' \in [Steps -> [Outputs -> [valid : BOOLEAN, value : Nat]]]
         /\ at'[c] = at[c] + 1 /\ \A d \in Components \ {c} : at'[d] = at[d]
         /\ \A i \in Steps, o \in Outputs : o # c => slot'[i][o] = slot[i][o]
         /\ OneRing' /\ ScriptInOrder' /\ SourceData'
<1>1. /\ c \in Components /\ at \in [Components -> Nat] /\ at' = [at EXCEPT ![c] = @ + 1]
      /\ Len(script) \in Nat
  BY ScriptFacts DEF GenericInv, GenericTypes, Advances, Handled
<1>2. at' \in [Components -> Nat] /\ at'[c] = at[c] + 1 /\ \A d \in Components \ {c} : at'[d] = at[d]
  BY <1>1
<1>3. /\ slot' \in [Steps -> [Outputs -> [valid : BOOLEAN, value : Nat]]]
      /\ \A i \in Steps, o \in Outputs : o # c => slot'[i][o] = slot[i][o]
  <2>1. CASE slot' = slot
    BY <2>1 DEF GenericInv, GenericTypes
  <2>2. CASE c \in {"events", "reader", "loader"} /\ \E v \in Nat : SetOutput(c, v)
    <3>1. PICK v \in Nat : SetOutput(c, v)
      BY <2>2
    <3>2. c \in Outputs /\ Here(c) \in Steps
      BY <2>2, <1>1, DataflowFacts, StepsDiffer DEF Here
    <3>3. slot' = [slot EXCEPT ![Here(c)][c] = [valid |-> TRUE, value |-> v]]
      BY <3>1 DEF SetOutput
    <3>4. GenericTypes
      BY DEF GenericInv
    <3>5. PICK i \in Steps : i = Here(c)
      BY <3>2
    <3>6. slot' = [slot EXCEPT ![i][c] = [valid |-> TRUE, value |-> v]]
      BY <3>3, <3>5
    <3>7. c \in Outputs
      BY <3>2
    <3>8. /\ slot' \in [Steps -> [Outputs -> [valid : BOOLEAN, value : Nat]]]
          /\ \A j \in Steps, o \in Outputs : o # c \/ j # i => slot'[j][o] = slot[j][o]
      BY <3>4, <3>6, <3>7, OutputWritten
    <3> QED BY <3>8
  <2> QED BY <2>1, <2>2 DEF Advances
<1>4. OneRing'
  <2>1. TimeStepCount \in Nat
    BY GenericAssumption
  <2>2. \A d \in Components : /\ at'[d] <= Len(script) /\ Len(script) <= at'[d] + TimeStepCount
                              /\ at'[d] >= at[d]
    BY <1>1, <1>2, <2>1 DEF GenericInv, OneRing, Advances
  <2>3. at'["show"] <= at'["events"]
    <3>1. c = "show" => at["events"] > at["show"]
      BY DataflowFacts DEF Advances
    <3>2. "show" \in Components /\ "events" \in Components /\ at["show"] <= at["events"]
      BY DataflowFacts DEF GenericInv, OneRing
    <3> QED BY <1>1, <1>2, <3>1, <3>2
  <2>4. Len(script) >= 2 => \A d \in Components : at'[d] >= 1
    BY <1>1, <1>2, <2>2 DEF GenericInv, OneRing
  <2> QED BY <2>2, <2>3, <2>4 DEF OneRing, Advances
<1>5. ScriptInOrder'
  BY ZenonT(30) DEF GenericInv, ScriptInOrder, Advances
<1>6. SourceData'
  <2>1. c # "source" /\ "source" \in Outputs
    BY DataflowFacts, <1>1
  <2>2. \A i \in Steps : slot'[i]["source"] = slot[i]["source"]
    BY <1>3, <2>1
  <2>3. \A n \in 1..Len(script) : Step(n) \in Steps
    BY <1>1, StepsDiffer
  <2> QED BY <2>2, <2>3 DEF GenericInv, SourceData, Advances
<1> QED BY <1>2, <1>3, <1>4, <1>5, <1>6

LEMMA AdvancesPlaces ==
  ASSUME GenericInv, NEW c, Advances(c)
  PROVE  \A d \in {"events", "reader", "loader", "writer", "recorder", "show"} :
           /\ at[d] \in Nat /\ at'[d] \in Nat /\ at'[d] >= at[d]
           /\ d = c => at'[d] = at[d] + 1
           /\ d # c => at'[d] = at[d]
<1>1. at'[c] = at[c] + 1 /\ \A d \in Components \ {c} : at'[d] = at[d]
  BY AdvancesKeeps
<1>2. \A d \in {"events", "reader", "loader", "writer", "recorder", "show"} :
        d \in Components /\ at[d] \in Nat
  BY PlacesFacts DEF GenericInv
<1> QED BY <1>1, <1>2

\* Nobody but events and show touches the user events, and these two move on.
LEMMA EventsKept ==
  ASSUME GenericInv, GenericTypes', OneRing', script' = script,
         UNCHANGED <<shown, pending, fired>>,
         at["events"] <= at'["events"], at["show"] <= at'["show"],
         \A i \in Steps : slot'[i]["events"] = slot[i]["events"]
  PROVE  EventsInOrder'
<1> DEFINE a == at["events"]
           b == at["show"]
           c == at'["events"]
           d == at'["show"]
<1>1. /\ Len(script) \in Nat /\ a \in Nat /\ b \in Nat /\ c \in Nat /\ d \in Nat
      /\ c <= Len(script) /\ a <= c /\ b <= d
  BY ScriptFacts, DataflowFacts DEF GenericInv, GenericTypes, OneRing
<1>2. \A n \in 1..Len(script) : UserEvent(n)' = UserEvent(n)
  BY <1>1, StepsDiffer DEF UserEvent
<1>3. \A n \in OnTheWay' : n \in OnTheWay
  <2> SUFFICES ASSUME NEW n \in (d + 1)..c, UserEvent(n)'.valid
               PROVE  n \in OnTheWay
    BY DEF OnTheWay
  <2>1. UserEvent(n).valid /\ n \in 1..Len(script)
    BY <1>1, <1>2
  <2>2. n \in (b + 1)..a
    <3>1. n \notin (a + 1)..Len(script)
      BY <2>1 DEF GenericInv, EventsInOrder
    <3> QED BY <3>1, <1>1, <2>1
  <2> QED BY <2>1, <2>2 DEF OnTheWay
<1>4. \A n \in OnTheWay : n \in 1..Len(script)
  BY <1>1 DEF OnTheWay, GenericInv, OneRing
<1>5. \A n \in (c + 1)..Len(script) : ~UserEvent(n)'.valid
  <2>1. \A n \in (c + 1)..Len(script) : n \in (a + 1)..Len(script) /\ n \in 1..Len(script)
    BY <1>1
  <2> QED BY <1>2, <2>1 DEF GenericInv, EventsInOrder
<1>6. \A n \in OnTheWay' :
       /\ UserEvent(n)'.value <= fired
       /\ pending # 0 => UserEvent(n)'.value < pending
       /\ \A k \in 1..Len(shown) : shown[k] < UserEvent(n)'.value
       /\ \A m \in OnTheWay' : m < n => UserEvent(m)'.value < UserEvent(n)'.value
  BY <1>2, <1>3, <1>4 DEF GenericInv, EventsInOrder
<1> HIDE DEF a, b, c, d
<1>7. EventOnce' /\ pending' <= fired'
      /\ \A k \in 1..Len(shown') : shown'[k] <= fired' /\ (pending' # 0 => shown'[k] < pending')
  BY DEF GenericInv, EventsInOrder, EventOnce
<1> QED BY <1>5, <1>6, <1>7 DEF EventsInOrder, c

\* Nobody but writer changes the file and the value, but for reader at its start.
LEMMA FileKept ==
  ASSUME GenericInv, GenericTypes', Extends, UNCHANGED <<file, value, saving>>,
         at'["writer"] = at["writer"],
         at'["reader"] = at["reader"] \/ (at["reader"] > 0 /\ at'["reader"] > 0)
  PROVE  FileIsLatest'
<1>1. /\ at["writer"] \in 0..Len(script) /\ Len(script) \in Nat
      /\ Len(script') \in Nat /\ Len(script') >= Len(script)
  <2>1. at["writer"] \in Nat /\ at["writer"] <= Len(script) /\ Len(script) \in Nat
    BY PlacesFacts DEF GenericInv
  <2>2. Len(script') >= Len(script)
    BY ExtendsKeeps DEF GenericInv
  <2>3. Len(script') \in Nat
    BY DEF GenericTypes
  <2> QED BY <2>1, <2>2, <2>3
<1>2. Latest(file, at["writer"])'
  <2>1. Kept(at["writer"])' = Kept(at["writer"])
    <3>1. PICK w \in 0..Len(script) : w = at["writer"]
      BY <1>1
    <3>2. Kept(w)' = Kept(w)
      BY ExtendsKeeps DEF GenericInv
    <3> QED BY <3>1, <3>2
  <2> QED BY <2>1 DEF GenericInv, FileIsLatest, Latest
<1>3. saving # 0 => /\ at["writer"] < Len(script')
                    /\ script'[at["writer"] + 1].given
                    /\ script'[at["writer"] + 1].ts = saving
  <2> SUFFICES ASSUME saving # 0
               PROVE  /\ at["writer"] < Len(script')
                      /\ script'[at["writer"] + 1] = script[at["writer"] + 1]
    BY DEF GenericInv, FileIsLatest
  <2>1. at["writer"] < Len(script)
    BY DEF GenericInv, FileIsLatest
  <2>2. at["writer"] + 1 \in 1..Len(script)
    BY <1>1, <2>1
  <2> QED BY <1>1, <2>1, <2>2, ExtendsKeeps DEF GenericInv
<1>4. /\ at'["reader"] = 0 => value' = 0 /\ file' = restored' /\ saving' = 0
      /\ at'["reader"] > 0 => value' = IF saving' = 0 THEN file' ELSE saving'
  <2>1. at["reader"] \in Nat
    BY DataflowFacts DEF GenericInv, GenericTypes
  <2> QED BY <2>1 DEF GenericInv, FileIsLatest, Extends
<1> QED BY <1>2, <1>3, <1>4 DEF FileIsLatest

\* Nobody but reader writes its output.
LEMMA ReaderKept ==
  ASSUME GenericInv, UNCHANGED <<script, restored>>, value' = 0 => value = 0,
         \A i \in Steps : slot'[i]["reader"] = slot[i]["reader"]
  PROVE  ReaderInWindow'
<1>1. \A n, v : InWindow(v, n)' <=> InWindow(v, n)
  BY DEF InWindow, Behind, Before, Kept, GivenFrames
<1>2. \A i \in Steps : slot'[i]["reader"].valid =>
       \E n \in 1..Len(script) :
         /\ Step(n) = i /\ n + TimeStepCount > Len(script)
         /\ InWindow(slot'[i]["reader"].value, n)
  BY DEF GenericInv, ReaderInWindow
<1>3. \A i \in Steps : slot'[i]["reader"].valid =>
       \E n \in 1..Len(script') :
         /\ Step(n) = i /\ n + TimeStepCount > Len(script')
         /\ InWindow(slot[i]["reader"].value, n)'
  BY <1>1, <1>2
<1> QED BY <1>3 DEF GenericInv, ReaderInWindow

\* loader moves on without being configured.
LEMMA LoaderKept ==
  ASSUME GenericInv, GenericTypes', Extends, data' = data, file' >= file,
         \/ at'["loader"] = at["loader"]
         \/ /\ at'["loader"] = at["loader"] + 1 /\ at["loader"] > 0
            /\ at["loader"] < Len(script) /\ ~Loads(at["loader"] + 1)
  PROVE  LoaderInWindow'
<1>1. /\ at["loader"] \in Nat /\ at["loader"] <= Len(script) /\ Len(script) \in Nat
      /\ at'["loader"] <= Len(script)
      /\ data \in Nat /\ file \in Nat /\ file' \in Nat
  <2>1. at["loader"] \in Nat /\ at["loader"] <= Len(script) /\ Len(script) \in Nat
    BY PlacesFacts DEF GenericInv
  <2>2. data \in Nat /\ file \in Nat /\ file' \in Nat
    BY DEF GenericInv, GenericTypes
  <2> QED BY <2>1, <2>2
<1>2. \A n \in 1..Len(script) : Loads(n)' <=> Loads(n)
  BY ExtendsKeeps DEF GenericInv, Loads
<1>3. data' <= file'
  BY <1>1 DEF GenericInv, LoaderInWindow
<1>4. at'["loader"] = 0 => data' = 0
  BY <1>1 DEF GenericInv, LoaderInWindow
<1>5. ASSUME at'["loader"] > 0
      PROVE  \E n \in 1..at'["loader"] :
               /\ Loads(n)' /\ \A m \in (n + 1)..at'["loader"] : ~Loads(m)'
               /\ InWindow(data, n)'
  <2>1. at["loader"] > 0
    BY <1>1, <1>5
  <2>2. PICK n \in 1..at["loader"] :
         /\ Loads(n) /\ \A m \in (n + 1)..at["loader"] : ~Loads(m)
         /\ InWindow(data, n)
    BY <2>1 DEF GenericInv, LoaderInWindow
  <2>3. n \in 1..at'["loader"] /\ n \in 1..Len(script)
    BY <1>1, <2>2
  <2>4. InWindow(data, n)'
    <3>1. PICK v \in Nat : v = data
      BY <1>1
    <3>2. InWindow(v, n)'
      BY <2>2, <2>3, <3>1, ExtendsKeeps DEF GenericInv
    <3> QED BY <3>1, <3>2 DEF InWindow
  <2>5. \A m \in (n + 1)..at'["loader"] : ~Loads(m)'
    <3> TAKE m \in (n + 1)..at'["loader"]
    <3>1. m \in 1..Len(script)
      BY <1>1, <2>3
    <3>2. m \in (n + 1)..at["loader"] \/ m = at["loader"] + 1
      BY <1>1, <2>3
    <3>3. ~Loads(m)
      BY <1>1, <2>2, <3>2
    <3> QED BY <1>2, <3>1, <3>3
  <2> QED BY <1>2, <2>2, <2>3, <2>4, <2>5
<1> QED BY <1>3, <1>4, <1>5 DEF LoaderInWindow

\* recorder moves on over an event that does not concern it.
LEMMA RecordedKept ==
  ASSUME GenericInv, GenericTypes', Extends, recording' = recording,
         \/ at'["recorder"] = at["recorder"]
         \/ /\ at'["recorder"] = at["recorder"] + 1 /\ at["recorder"] < Len(script)
            /\ ~script[at["recorder"] + 1].given
            /\ script[at["recorder"] + 1].type \notin {"CONFIGURE", "STOP"}
  PROVE  Recorded'
<1> DEFINE a == at["recorder"]
           b == at'["recorder"]
<1>1. /\ a \in Nat /\ a <= Len(script) /\ Len(script) \in Nat /\ b \in Nat /\ b <= Len(script)
      /\ b = a \/ b = a + 1
  <2>1. a \in Nat /\ a <= Len(script) /\ Len(script) \in Nat
    BY PlacesFacts DEF GenericInv
  <2> QED BY <2>1
<1>2. \A n \in 1..Len(script) : script'[n] = script[n]
  BY ExtendsKeeps DEF GenericInv
<1>3. GivenFrames(at["recorder"])' = GivenFrames(at["recorder"])
  <2>1. {k \in 1..b : script'[k].given} = {k \in 1..a : script[k].given}
    BY <1>1, <1>2
  <2>2. \A k \in 1..a : script'[k] = script[k]
    BY <1>1, <1>2
  <2> QED BY <2>1, <2>2 DEF GivenFrames
<1>4. (\E n \in 1..b : /\ script'[n].type = "CONFIGURE"
                       /\ \A m \in n..b : script'[m].type # "STOP")
      <=> \E n \in 1..a : /\ script[n].type = "CONFIGURE"
                          /\ \A m \in n..a : script[m].type # "STOP"
  <2>1. CASE b = a
    BY <2>1, <1>1, <1>2, SMTT(30)
  <2>2. CASE b = a + 1
    <3>1. script[b].type \notin {"CONFIGURE", "STOP"} /\ b \in 1..Len(script)
      BY <1>1, <2>2
    <3>2. \A n \in 1..b : n \in 1..a \/ n = b
      BY <1>1, <2>2
    <3>3. \A n \in 1..a : \A m \in n..b : m \in n..a \/ m = b
      BY <1>1, <2>2
    <3>4. 1..a \subseteq 1..b /\ \A n \in 1..a : n..a \subseteq n..b
      BY <1>1, <2>2
    <3>5. \A n \in 1..b : script'[n] = script[n] /\ n..b \subseteq 1..Len(script)
      BY <1>1, <1>2
    <3> HIDE DEF a, b
    <3> QED BY <3>1, <3>2, <3>3, <3>4, <3>5, <1>2
  <2> QED BY <1>1, <2>1, <2>2
<1> QED BY <1>3, <1>4 DEF GenericInv, Recorded

-----------------------------------------------------------------------------
(* The steps of the components. *)

\* A component at its turn finds its event in the script.
LEMMA TurnFacts ==
  ASSUME GenericInv, NEW c \in Components, at[c] < Len(script)
  PROVE  /\ c \in {"events", "reader", "loader", "writer", "recorder", "show"}
         /\ at[c] \in Nat /\ at[c] + 1 \in 1..Len(script)
         /\ Here(c) \in Steps
         /\ Current(c) \in ScriptEvent
         /\ Current(c).type = "CONFIGURE" <=> at[c] = 0
         /\ Current(c).given => /\ Current(c).type = "DATA"
                                /\ Current(c).ts > restored /\ Current(c).ts <= clock
         /\ Current(c).changed # "" => Current(c).type = "PARAMETER_CHANGE"
         /\ Current(c).changed # "reader"
         /\ at[c] > 0 => \A d \in Components : at[d] > 0
<1>1. c \in {"events", "reader", "loader", "writer", "recorder", "show"}
  BY DataflowFacts
<1>2. /\ at[c] \in Nat /\ at[c] + 1 \in 1..Len(script) /\ Len(script) \in Nat
      /\ \A d \in Components : at[d] \in Nat
  BY <1>1, PlacesFacts, DataflowFacts DEF GenericInv
<1>3. PICK n \in 1..Len(script) : n = at[c] + 1
  BY <1>2
<1>4. /\ script[n] \in ScriptEvent /\ Step(n) \in Steps
      /\ script[n].type = "CONFIGURE" <=> n = 1
      /\ script[n].given => /\ script[n].type = "DATA"
                            /\ script[n].ts > restored /\ script[n].ts <= clock
      /\ script[n].changed # "" => script[n].type = "PARAMETER_CHANGE"
      /\ script[n].changed # "reader"
  <2>1. script[n] \in ScriptEvent
    BY ScriptFacts DEF GenericInv
  <2>2. Step(n) \in Steps
    BY <1>2, StepsDiffer
  <2> QED BY <2>1, <2>2 DEF GenericInv, ScriptInOrder
<1>5. at[c] > 0 => \A d \in Components : at[d] > 0
  <2>1. at[c] > 0 => Len(script) >= 2
    BY <1>2
  <2> QED BY <2>1, <1>2 DEF GenericInv, OneRing
<1>6. Here(c) = Step(n) /\ Current(c) = script[n] /\ (n = 1 <=> at[c] = 0)
  BY <1>2, <1>3 DEF Here, Current
<1>7. /\ Here(c) \in Steps /\ Current(c) \in ScriptEvent
      /\ Current(c).given => /\ Current(c).type = "DATA"
                             /\ Current(c).ts > restored /\ Current(c).ts <= clock
      /\ Current(c).changed # "" => Current(c).type = "PARAMETER_CHANGE"
      /\ Current(c).changed # "reader"
  <2> DEFINE e == Current(c)
  <2>1. e = script[n] /\ Here(c) = Step(n)
    BY <1>6
  <2> HIDE DEF e
  <2>2. /\ Here(c) \in Steps /\ e \in ScriptEvent
        /\ e.given => e.type = "DATA" /\ e.ts > restored /\ e.ts <= clock
        /\ e.changed # "" => e.type = "PARAMETER_CHANGE"
        /\ e.changed # "reader"
    BY <1>4, <2>1
  <2> QED BY <2>2 DEF e
<1>8. Current(c).type = "CONFIGURE" <=> at[c] = 0
  BY <1>4, <1>6
<1> QED BY <1>1, <1>2, <1>5, <1>7, <1>8

\* What writer and recorder find in the buffer is what the source has delivered.
LEMMA SourceInput ==
  ASSUME GenericInv, NEW c \in {"writer", "recorder"}, at[c] < Len(script)
  PROVE  /\ isAllInputValid(c) <=> Current(c).given
         /\ Current(c).given => In(c, "source") = Current(c).ts
<1>1. PICK n \in 1..Len(script) : n = at[c] + 1
  BY PlacesFacts DEF GenericInv
<1>2. n + TimeStepCount > Len(script)
  <2>1. /\ at[c] \in Nat /\ TimeStepCount \in Nat /\ Len(script) \in Nat
        /\ Len(script) <= at[c] + TimeStepCount
    BY PlacesFacts DEF GenericInv
  <2> QED BY <1>1, <2>1
<1>3. /\ slot[Step(n)]["source"].valid = script[n].given
      /\ script[n].given => slot[Step(n)]["source"].value = script[n].ts
  BY <1>2 DEF GenericInv, SourceData
<1> QED BY <1>1, <1>3, DataflowFacts DEF isAllInputValid, In, Here, Current

\* A component that has nothing to do for an event.
LEMMA PassesInv ==
  ASSUME GenericInv, NEW c \in Components, Passes(c)
  PROVE  GenericInv'
<1>1. /\ at[c] < Len(script) /\ UNCHANGED <<script, slot, shared, clock, restored>>
      /\ Current(c).type \in {"START", "TEARDOWN", "STOP", "CONFIGURE", "PARAMETER_CHANGE", "DATA"}
      /\ Current(c).type = "STOP" => c # "recorder"
      /\ Current(c).type = "CONFIGURE" => c \notin {"reader", "loader", "recorder"}
      /\ Current(c).type = "PARAMETER_CHANGE" => Current(c).changed # c
      /\ Current(c).type = "DATA" => ~isAllInputValid(c)
  BY DEF Passes, Turn
<1>2. Advances(c)
  BY <1>1 DEF Passes, Turn, Advances
<1>3. GenericTypes' /\ Extends
  BY <1>1, <1>2, AdvancesKeeps DEF GenericInv, GenericTypes, Extends, shared
<1>4. EventsInOrder'
  <2>1. at'["events"] >= at["events"] /\ at'["show"] >= at["show"]
    BY <1>2, AdvancesPlaces
  <2> QED BY <1>1, <1>2, <1>3, <2>1, AdvancesKeeps, EventsKept DEF shared
<1>5. c \in {"writer", "recorder"} => ~Current(c).given
  BY <1>1, SourceInput, TurnFacts
<1>6. c \in {"reader", "loader", "recorder"} => at[c] > 0
  <2>1. Current(c).type # "CONFIGURE" => at[c] > 0
    <3>1. at[c] < Len(script)
      BY <1>1
    <3>2. at[c] \in Nat /\ (Current(c).type = "CONFIGURE" <=> at[c] = 0)
      BY <3>1, TurnFacts
    <3> QED BY <3>2
  <2> QED BY <1>1, <2>1
<1>7. FileIsLatest'
  <2>1. CASE c # "writer"
    <3>1. at'["writer"] = at["writer"]
      BY <2>1, <1>2, AdvancesKeeps, DataflowFacts
    <3>2. at'["reader"] = at["reader"] \/ (at["reader"] > 0 /\ at'["reader"] > 0)
      BY <1>2, <1>6, AdvancesPlaces
    <3> QED BY <1>1, <1>3, <3>1, <3>2, FileKept DEF shared
  <2>2. CASE c = "writer"
    <3>1. PICK w \in Nat : w = at["writer"]
      BY <2>2, <1>1, TurnFacts
    <3>2. /\ at'["writer"] = w + 1 /\ at'["reader"] = at["reader"]
          /\ w \in 0..(Len(script) - 1) /\ ~script[w + 1].given
      <4>1. w < Len(script) /\ Len(script) \in Nat
        BY <1>1, <2>2, <3>1, ScriptFacts DEF GenericInv
      <4> QED BY <1>2, <1>5, <2>2, <3>1, <4>1, AdvancesKeeps, DataflowFacts DEF Current
    <3>3. Kept(w + 1) = Kept(w)
      BY <3>2, KeptFacts DEF GenericInv
    <3>4. saving = 0
      BY <3>1, <3>2 DEF GenericInv, FileIsLatest
    <3>5. Kept(w + 1)' = Kept(w + 1)
      BY <1>1 DEF Kept, GivenFrames
    <3>6. Latest(file, at["writer"])'
      BY <1>1, <3>1, <3>2, <3>3, <3>5 DEF GenericInv, FileIsLatest, Latest, shared
    <3> QED BY <1>1, <3>2, <3>4, <3>6 DEF GenericInv, FileIsLatest, shared
  <2> QED BY <2>1, <2>2
<1>8. ReaderInWindow'
  BY <1>1, ReaderKept DEF shared
<1>9. LoaderInWindow'
  <2>1. \/ at'["loader"] = at["loader"]
        \/ at'["loader"] = at["loader"] + 1 /\ c = "loader"
    BY <1>2, AdvancesPlaces
  <2>2. c = "loader" => at["loader"] > 0 /\ at["loader"] < Len(script) /\ ~Loads(at["loader"] + 1)
    BY <1>1, <1>6, TurnFacts DEF Loads, Current
  <2>3. file' >= file
    BY <1>1 DEF GenericInv, GenericTypes, shared
  <2> QED BY <1>1, <1>3, <2>1, <2>2, <2>3, LoaderKept DEF shared
<1>10. Recorded'
  <2>1. \/ at'["recorder"] = at["recorder"]
        \/ at'["recorder"] = at["recorder"] + 1 /\ c = "recorder"
    BY <1>2, AdvancesPlaces
  <2>2. c = "recorder" => /\ at["recorder"] < Len(script)
                          /\ ~script[at["recorder"] + 1].given
                          /\ script[at["recorder"] + 1].type \notin {"CONFIGURE", "STOP"}
    BY <1>1, <1>5 DEF Current
  <2> QED BY <1>1, <1>3, <2>1, <2>2, RecordedKept DEF shared
<1> QED BY <1>2, <1>3, <1>4, <1>7, <1>8, <1>9, <1>10, AdvancesKeeps DEF GenericInv

\* The application fires an event.
LEMMA FireInv ==
  ASSUME GenericInv, fireEvent
  PROVE  GenericInv'
<1>1. /\ fired' = fired + 1 /\ pending' = fired + 1 /\ fired \in Nat /\ pending \in Nat
      /\ UNCHANGED <<script, at, slot, shown, value, saving, file, data, recording, clock, restored>>
  BY DEF fireEvent, GenericInv, GenericTypes
<1>2. GenericTypes'
  BY <1>1 DEF GenericInv, GenericTypes
<1>3. OneRing' /\ ScriptInOrder' /\ SourceData'
  BY <1>1, ZenonT(30) DEF GenericInv, OneRing, ScriptInOrder, SourceData
<1>4. FileIsLatest' /\ ReaderInWindow' /\ LoaderInWindow' /\ Recorded'
  <2>1. Extends /\ file' >= file
    BY <1>1 DEF Extends, GenericInv, GenericTypes
  <2> QED BY <1>1, <1>2, <2>1, FileKept, ReaderKept, LoaderKept, RecordedKept
<1>5. EventsInOrder'
  <2>1. OnTheWay' = OnTheWay /\ \A n : UserEvent(n)' = UserEvent(n)
    BY <1>1 DEF OnTheWay, UserEvent
  <2>2. \A k \in 1..Len(shown) : shown[k] \in Nat
    BY DEF GenericInv, GenericTypes
  <2>3. \A n \in OnTheWay : UserEvent(n).value \in Nat
    <3> TAKE n \in OnTheWay
    <3>1. n \in Nat /\ n >= 1 /\ "events" \in Outputs
      BY PlacesFacts, DataflowFacts DEF OnTheWay, GenericInv
    <3>2. Step(n) \in Steps
      BY <3>1, StepsDiffer
    <3> QED BY <3>1, <3>2 DEF GenericInv, GenericTypes, UserEvent
  <2>4. \A k \in 1..Len(shown) : shown[k] <= fired
    BY DEF GenericInv, EventsInOrder
  <2>5. \A n \in OnTheWay : UserEvent(n).value <= fired
    BY DEF GenericInv, EventsInOrder
  <2>6. \A k \in 1..Len(shown) : shown[k] <= fired' /\ shown[k] < pending'
    BY <1>1, <2>2, <2>4
  <2>7. \A n \in OnTheWay : UserEvent(n).value <= fired' /\ UserEvent(n).value < pending'
    BY <1>1, <2>3, <2>5
  <2>8. EventOnce' /\ pending' <= fired'
    BY <1>1 DEF GenericInv, EventsInOrder, EventOnce
  <2> QED BY <1>1, <2>1, <2>6, <2>7, <2>8 DEF GenericInv, EventsInOrder
<1> QED BY <1>2, <1>3, <1>4, <1>5 DEF GenericInv

\* The user event that is pending is sent.
LEMMA SendInv ==
  ASSUME GenericInv, SendEvent
  PROVE  GenericInv'
<1>10. PICK a \in Nat, b \in Nat, n \in Nat : a = at["events"] /\ b = at["show"] /\ n = a + 1
  <2>1. at["events"] \in Nat /\ at["show"] \in Nat
    BY PlacesFacts DEF GenericInv
  <2> QED BY <2>1
<1>1. /\ a < Len(script) /\ Current("events").type = "DATA"
      /\ pending' = 0 /\ IF pending # 0 THEN SetOutput("events", pending) ELSE UNCHANGED slot
      /\ UNCHANGED <<script, fired, shown, value, saving, file, data, recording, clock, restored>>
  BY <1>10 DEF SendEvent, Turn, TakeEvent
<1>2. Advances("events")
  <2>1. pending \in Nat /\ "events" \in Components
    BY DataflowFacts DEF GenericInv, GenericTypes
  <2> QED BY <1>1, <2>1 DEF SendEvent, Turn, Advances
<1>3. GenericTypes' /\ Extends
  BY <1>1, <1>2, AdvancesKeeps DEF GenericInv, GenericTypes, Extends
<1>4. \A d \in {"reader", "loader", "writer", "recorder", "show"} : at'[d] = at[d]
  BY <1>2, AdvancesPlaces
<1>5. at'["events"] = n /\ at'["show"] = b
  BY <1>2, <1>10, AdvancesPlaces
<1>6. FileIsLatest' /\ Recorded'
  BY <1>1, <1>3, <1>4, FileKept, RecordedKept
<1>7. ReaderInWindow'
  <2>1. \A i \in Steps : slot'[i]["reader"] = slot[i]["reader"]
    BY <1>2, AdvancesKeeps, DataflowFacts
  <2> QED BY <1>1, <2>1, ReaderKept
<1>8. LoaderInWindow'
  <2>1. file' >= file
    BY <1>1 DEF GenericInv, GenericTypes
  <2> QED BY <1>1, <1>3, <1>4, <2>1, LoaderKept
<1>9. EventsInOrder'
  <2>1. /\ Len(script) \in Nat /\ a \in Nat /\ b \in Nat /\ b <= a /\ n = a + 1 /\ n \in 1..Len(script)
        /\ TimeStepCount \in Nat /\ Len(script) <= b + TimeStepCount
    BY <1>1, <1>10, PlacesFacts DEF GenericInv, OneRing
  <2>11. "events" \in Outputs /\ Step(n) \in Steps /\ pending \in Nat /\ GenericTypes
    <3>1. n \in Nat /\ n >= 1
      BY <2>1
    <3>2. Step(n) \in Steps
      BY <3>1, StepsDiffer
    <3>3. pending \in Nat /\ GenericTypes
      BY DEF GenericInv, GenericTypes
    <3> QED BY <3>2, <3>3, DataflowFacts
  <2>2. \A m \in (b + 1)..Len(script) : Step(m) \in Steps /\ (m # n => Step(m) # Step(n))
    <3> TAKE m \in (b + 1)..Len(script)
    <3>1. m \in Nat /\ m >= 1 /\ n \in Nat /\ n >= 1
          /\ (m < n => n < m + TimeStepCount) /\ (n < m => m < n + TimeStepCount)
      BY <2>1
    <3>2. CASE m < n
      BY <3>1, <3>2, StepsDiffer
    <3>3. CASE n < m
      BY <3>1, <3>3, StepsDiffer
    <3>4. CASE m = n
      BY <3>1, <3>4, StepsDiffer
    <3> QED BY <3>1, <3>2, <3>3, <3>4
  <2>3. \A m \in (b + 1)..Len(script) : m # n => UserEvent(m)' = UserEvent(m)
    <3> TAKE m \in (b + 1)..Len(script)
    <3>1. CASE pending # 0
      <4>1. slot' = [slot EXCEPT ![Step(n)]["events"] = [valid |-> TRUE, value |-> pending]]
        BY <1>1, <1>10, <3>1 DEF SetOutput, Here
      <4>2. "events" \in Outputs /\ Step(n) \in Steps /\ pending \in Nat /\ GenericTypes
        BY <2>11
      <4>3. \A j \in Steps : j # Step(n) => slot'[j]["events"] = slot[j]["events"]
        BY <4>1, <4>2, OutputWritten
      <4> QED BY <2>2, <4>3 DEF UserEvent
    <3>2. CASE pending = 0
      BY <1>1, <3>2 DEF UserEvent
    <3> QED BY <3>1, <3>2
  <2>4. /\ pending # 0 => UserEvent(n)'.valid /\ UserEvent(n)'.value = pending
        /\ pending = 0 => ~UserEvent(n)'.valid
    <3>1. CASE pending # 0
      <4>1. slot' = [slot EXCEPT ![Step(n)]["events"] = [valid |-> TRUE, value |-> pending]]
        BY <1>1, <1>10, <3>1 DEF SetOutput, Here
      <4>2. "events" \in Outputs /\ Step(n) \in Steps /\ pending \in Nat /\ GenericTypes
        BY <2>11
      <4>3. slot'[Step(n)]["events"].valid /\ slot'[Step(n)]["events"].value = pending
        BY <4>1, <4>2, OutputWritten, ZenonT(30)
      <4> QED BY <3>1, <4>3 DEF UserEvent
    <3>2. CASE pending = 0
      <4>1. n \in (a + 1)..Len(script)
        BY <2>1
      <4>2. ~UserEvent(n).valid
        BY <1>10, <4>1 DEF GenericInv, EventsInOrder
      <4> QED BY <1>1, <3>2, <4>2 DEF UserEvent
    <3> QED BY <3>1, <3>2
  <2>5. \A m \in OnTheWay' : \/ m \in OnTheWay /\ m < n /\ UserEvent(m)' = UserEvent(m)
                             \/ m = n /\ pending # 0 /\ UserEvent(m)'.value = pending
    <3> SUFFICES ASSUME NEW m \in (b + 1)..n, UserEvent(m)'.valid
                 PROVE  \/ m \in OnTheWay /\ m < n /\ UserEvent(m)' = UserEvent(m)
                        \/ m = n /\ pending # 0 /\ UserEvent(m)'.value = pending
      BY <1>5, <1>10 DEF OnTheWay
    <3>1. CASE m = n
      BY <2>4, <3>1
    <3>2. CASE m # n
      <4>1. m \in (b + 1)..Len(script) /\ m \in (b + 1)..a /\ m < n
        BY <2>1, <3>2
      <4>2. UserEvent(m)' = UserEvent(m)
        BY <2>3, <3>2, <4>1
      <4>3. m \in OnTheWay
        BY <1>10, <4>1, <4>2 DEF OnTheWay
      <4> QED BY <4>1, <4>2, <4>3
    <3>3. m = n \/ m # n
      OBVIOUS
    <3> QED BY <3>1, <3>2, <3>3
  <2>6. \A m \in (n + 1)..Len(script) : ~UserEvent(m)'.valid
    <3> TAKE m \in (n + 1)..Len(script)
    <3>1. m \in (a + 1)..Len(script) /\ m \in (b + 1)..Len(script) /\ m # n
      BY <2>1
    <3> QED BY <1>10, <2>3, <3>1 DEF GenericInv, EventsInOrder
  <2>7. \A m \in OnTheWay :
          /\ UserEvent(m).value <= fired
          /\ pending # 0 => UserEvent(m).value < pending
          /\ \A k \in 1..Len(shown) : shown[k] < UserEvent(m).value
          /\ \A l \in OnTheWay : l < m => UserEvent(l).value < UserEvent(m).value
    BY DEF GenericInv, EventsInOrder
  <2>8. \A k \in 1..Len(shown) : shown[k] <= fired /\ (pending # 0 => shown[k] < pending)
    BY DEF GenericInv, EventsInOrder
  <2>9. EventOnce' /\ pending <= fired /\ pending' <= fired'
    BY <1>1 DEF GenericInv, EventsInOrder, EventOnce, GenericTypes
  <2>10. \A m \in OnTheWay' :
          /\ UserEvent(m)'.value <= fired
          /\ \A k \in 1..Len(shown) : shown[k] < UserEvent(m)'.value
          /\ \A l \in OnTheWay' : l < m => UserEvent(l)'.value < UserEvent(m)'.value
    <3> TAKE m \in OnTheWay'
    <3>1. UserEvent(m)'.value <= fired /\ \A k \in 1..Len(shown) : shown[k] < UserEvent(m)'.value
      BY <2>5, <2>7, <2>8, <2>9
    <3>2. ASSUME NEW l \in OnTheWay', l < m
          PROVE  UserEvent(l)'.value < UserEvent(m)'.value
      <4>1. \A k \in OnTheWay : k \in Int
        BY <1>10, <2>1 DEF OnTheWay
      <4>2. l \in OnTheWay /\ UserEvent(l)' = UserEvent(l)
        BY <2>1, <2>5, <3>2, <4>1, <1>10
      <4> QED BY <2>5, <2>7, <3>2, <4>2
    <3> QED BY <3>1, <3>2
  <2> QED BY <1>1, <1>5, <2>6, <2>8, <2>9, <2>10 DEF EventsInOrder
<1> QED BY <1>2, <1>3, <1>6, <1>7, <1>8, <1>9, AdvancesKeeps DEF GenericInv

\* The application gets a user event.
LEMMA ShowInv ==
  ASSUME GenericInv, Show
  PROVE  GenericInv'
<1> DEFINE a == at["events"]
           b == at["show"]
           n == b + 1
           v == In("show", "events")
<1>1. /\ b < Len(script) /\ b < a /\ isAllInputValid("show")
      /\ shown' = Append(shown, v)
      /\ UNCHANGED <<script, slot, pending, fired, value, saving, file, data, recording, clock, restored>>
  BY DataflowFacts DEF Show, Turn
<1>2. Advances("show")
  BY <1>1, DataflowFacts DEF Show, Turn, Advances
<1>3. /\ Len(script) \in Nat /\ a \in Nat /\ b \in Nat /\ a <= Len(script)
  BY PlacesFacts DEF GenericInv
<1>4. n \in OnTheWay /\ v = UserEvent(n).value /\ v \in Nat
  <2>1. v = UserEvent(n).value /\ UserEvent(n).valid
    BY <1>1, DataflowFacts DEF In, Here, UserEvent, isAllInputValid
  <2>2. n \in (b + 1)..a /\ n \in Nat /\ n >= 1
    BY <1>1, <1>3
  <2>3. Step(n) \in Steps /\ "events" \in Outputs
    BY <2>2, StepsDiffer, DataflowFacts
  <2>4. UserEvent(n).value \in Nat
    BY <2>3 DEF UserEvent, GenericInv, GenericTypes
  <2> QED BY <2>1, <2>2, <2>4 DEF OnTheWay
<1> HIDE DEF v
<1>5. /\ shown \in Seq(Nat) /\ Len(shown) \in Nat
      /\ shown' \in Seq(Nat) /\ Len(shown') = Len(shown) + 1
      /\ \A k \in 1..Len(shown) : shown'[k] = shown[k]
      /\ shown'[Len(shown) + 1] = v
  BY <1>1, <1>4 DEF GenericInv, GenericTypes
<1>6. GenericTypes' /\ Extends
  BY <1>1, <1>2, <1>5, AdvancesKeeps DEF GenericInv, GenericTypes, Extends
<1>7. \A d \in {"reader", "loader", "writer", "recorder", "events"} : at'[d] = at[d]
  BY <1>2, AdvancesPlaces
<1>8. FileIsLatest' /\ Recorded' /\ ReaderInWindow'
  BY <1>1, <1>6, <1>7, FileKept, RecordedKept, ReaderKept
<1>9. LoaderInWindow'
  <2>1. file' >= file
    BY <1>1 DEF GenericInv, GenericTypes
  <2> QED BY <1>1, <1>6, <1>7, <2>1, LoaderKept
<1>10. EventsInOrder'
  <2>1. at'["show"] = n /\ at'["events"] = a
    BY <1>2, AdvancesPlaces
  <2>2. \A m \in OnTheWay' : m \in OnTheWay /\ n < m /\ UserEvent(m)' = UserEvent(m)
    BY <1>1, <1>3, <2>1 DEF OnTheWay, UserEvent
  <2>3. \A m \in OnTheWay :
          /\ UserEvent(m).value <= fired
          /\ pending # 0 => UserEvent(m).value < pending
          /\ \A k \in 1..Len(shown) : shown[k] < UserEvent(m).value
          /\ \A l \in OnTheWay : l < m => UserEvent(l).value < UserEvent(m).value
    BY DEF GenericInv, EventsInOrder
  <2>4. /\ pending <= fired /\ \A k, l \in 1..Len(shown) : k < l => shown[k] < shown[l]
        /\ \A k \in 1..Len(shown) : shown[k] <= fired /\ (pending # 0 => shown[k] < pending)
        /\ \A m \in (a + 1)..Len(script) : ~UserEvent(m).valid
    BY <1>5, SMTT(30) DEF GenericInv, EventsInOrder, EventOnce
  <2>5. \A k \in 1..Len(shown') : \/ k \in 1..Len(shown) /\ shown'[k] = shown[k]
                                  \/ k = Len(shown) + 1 /\ shown'[k] = v
    <3> TAKE k \in 1..Len(shown')
    <3>1. k \in 1..Len(shown) \/ k = Len(shown) + 1
      BY <1>5
    <3>2. CASE k \in 1..Len(shown)
      <4>1. shown'[k] = shown[k]
        BY <1>5, <3>2
      <4> QED BY <3>2, <4>1
    <3>3. CASE k = Len(shown) + 1
      <4>1. shown'[k] = v
        BY <1>5, <3>3
      <4> QED BY <3>3, <4>1
    <3> QED BY <3>1, <3>2, <3>3
  <2>6. EventOnce'
    <3>1. \A k, l \in 1..Len(shown') : k < l => shown'[k] < shown'[l]
      <4> TAKE k, l \in 1..Len(shown')
      <4> HAVE k < l
      <4>1. k \in 1..Len(shown) /\ shown'[k] = shown[k]
        BY <1>5
      <4>2. CASE l \in 1..Len(shown)
        BY <1>5, <2>4, <4>1, <4>2
      <4>3. CASE l = Len(shown) + 1
        <5>1. shown[k] < UserEvent(n).value
          BY <1>4, <2>3, <4>1
        <5> QED BY <1>4, <1>5, <4>1, <4>3, <5>1
      <4>4. l \in 1..Len(shown) \/ l = Len(shown) + 1
        BY <2>5
      <4> QED BY <4>2, <4>3, <4>4
    <3>2. DOMAIN shown' = 1..Len(shown')
      BY <1>5
    <3> QED BY <3>1, <3>2 DEF EventOnce
  <2>7. \A k \in 1..Len(shown') : shown'[k] <= fired /\ (pending # 0 => shown'[k] < pending)
    BY <1>4, <2>3, <2>4, <2>5
  <2>8. \A m \in OnTheWay' : \A k \in 1..Len(shown') : shown'[k] < UserEvent(m)'.value
    BY <1>4, <2>2, <2>3, <2>5
  <2>9. \A m \in OnTheWay' :
          /\ UserEvent(m)'.value <= fired
          /\ pending # 0 => UserEvent(m)'.value < pending
          /\ \A l \in OnTheWay' : l < m => UserEvent(l)'.value < UserEvent(m)'.value
    BY <2>2, <2>3
  <2>10. \A m \in (a + 1)..Len(script) : ~UserEvent(m)'.valid
    BY <1>1, <2>4 DEF UserEvent
  <2> HIDE DEF a, b, n
  <2>11. EventsInOrder'
    BY <1>1, <2>1, <2>4, <2>6, <2>7, <2>8, <2>9, <2>10 DEF EventsInOrder
  <2> QED BY <2>11
<1> QED BY <1>2, <1>6, <1>8, <1>9, <1>10, AdvancesKeeps DEF GenericInv

\* A value of the script is newer than all that was kept before it.
LEMMA KeptBelow ==
  ASSUME GenericInv
  PROVE  /\ \A n \in 0..(Len(script) - 1) :
              script[n + 1].given => \A u \in Kept(n) : u < script[n + 1].ts
         /\ \A n \in 0..Len(script) : \A u \in Kept(n) : u \in Nat /\ u <= clock
<1>1. Len(script) \in Nat /\ \A n \in 1..Len(script) : script[n].ts \in Nat
  BY ScriptFacts DEF GenericInv
<1>2. /\ \A n \in 1..Len(script) :
           script[n].given => script[n].ts > restored /\ script[n].ts <= clock
      /\ \A m, n \in 1..Len(script) :
           m < n /\ script[m].given /\ script[n].given => script[m].ts < script[n].ts
      /\ restored <= clock
  BY DEF GenericInv, ScriptInOrder
<1>3. restored \in Nat /\ clock \in Nat
  BY DEF GenericInv, GenericTypes
<1>4. \A n \in 0..Len(script) : \A u \in Kept(n) :
        u = restored \/ \E k \in 1..n : script[k].given /\ u = script[k].ts
  BY DEF Kept, GivenFrames
<1>5. ASSUME NEW n \in 0..(Len(script) - 1), script[n + 1].given, NEW u \in Kept(n)
      PROVE  u < script[n + 1].ts
  <2>1. n + 1 \in 1..Len(script) /\ n \in 0..Len(script)
    BY <1>1
  <2>2. CASE u = restored
    BY <1>1, <1>2, <1>3, <1>5, <2>1, <2>2
  <2>3. CASE \E k \in 1..n : script[k].given /\ u = script[k].ts
    <3>1. PICK k \in 1..n : script[k].given /\ u = script[k].ts
      BY <2>3
    <3>2. k \in 1..Len(script) /\ k < n + 1
      BY <1>1, <2>1
    <3> QED BY <1>2, <1>5, <2>1, <3>1, <3>2
  <2> QED BY <1>4, <2>1, <2>2, <2>3
<1>6. ASSUME NEW n \in 0..Len(script), NEW u \in Kept(n)
      PROVE  u \in Nat /\ u <= clock
  <2>1. CASE u = restored
    BY <1>2, <1>3, <2>1
  <2>2. CASE \E k \in 1..n : script[k].given /\ u = script[k].ts
    <3>1. PICK k \in 1..n : script[k].given /\ u = script[k].ts
      BY <2>2
    <3>2. k \in 1..Len(script)
      BY <1>1
    <3> QED BY <1>1, <1>2, <3>1, <3>2
  <2> QED BY <1>4, <2>1, <2>2
<1> QED BY <1>5, <1>6

\* The file and the value of the module lie in the window of every event that a
\* time step holds.
LEMMA NowInWindow ==
  ASSUME GenericInv, NEW n \in 1..Len(script), n + TimeStepCount > Len(script)
  PROVE  /\ InWindow(file, n)
         /\ at["reader"] > 0 => InWindow(value, n)
<1>1. PICK w \in Nat : w = at["writer"]
  BY PlacesFacts DEF GenericInv
<1>2. /\ TimeStepCount \in Nat /\ TimeStepCount >= 1 /\ Len(script) \in Nat
      /\ w <= Len(script) /\ Len(script) <= w + TimeStepCount
  BY <1>1, PlacesFacts DEF GenericInv
<1>3. Behind(n) = Len(script) /\ Before(n) \in 0..w
  <2>1. n \in Nat /\ n >= 1
    BY <1>2
  <2>2. /\ Behind(n) = IF Len(script) <= n + TimeStepCount - 1 THEN Len(script)
                       ELSE n + TimeStepCount - 1
        /\ Before(n) = IF n > TimeStepCount THEN n - TimeStepCount ELSE 0
    BY <2>1, WindowBorders DEF GenericInv
  <2> QED BY <1>2, <2>1, <2>2
<1>4. Kept(Before(n)) \subseteq Kept(w) /\ Kept(w) \subseteq Kept(Len(script))
  <2>1. \A k \in 0..Len(script) : \A m \in 0..k : Kept(m) \subseteq Kept(k)
    BY KeptFacts DEF GenericInv
  <2>2. w \in 0..Len(script) /\ Len(script) \in 0..Len(script) /\ w \in 0..Len(script)
    BY <1>2
  <2> QED BY <1>3, <2>1, <2>2
<1>5. Latest(file, w)
  BY <1>1 DEF GenericInv, FileIsLatest
<1>6. InWindow(file, n)
  BY <1>3, <1>4, <1>5 DEF Latest, InWindow
<1>7. ASSUME at["reader"] > 0
      PROVE  InWindow(value, n)
  <2>1. CASE saving = 0
    <3>1. value = file
      BY <1>7, <2>1 DEF GenericInv, FileIsLatest
    <3> QED BY <1>6, <3>1
  <2>2. CASE saving # 0
    <3>1. /\ value = saving /\ w < Len(script)
          /\ script[w + 1].given /\ script[w + 1].ts = saving
      BY <1>1, <1>7, <2>2 DEF GenericInv, FileIsLatest
    <3>2. w \in 0..(Len(script) - 1) /\ w + 1 \in 0..Len(script)
      BY <1>2, <3>1
    <3>3. \A u \in Kept(w) : u < value /\ u \in Nat
      <4>1. w \in 0..Len(script)
        BY <1>2
      <4> QED BY <3>1, <3>2, <4>1, KeptBelow
    <3>4. value \in Kept(w + 1)
      BY <3>1, <3>2, KeptFacts DEF GenericInv
    <3>5. Kept(w + 1) \subseteq Kept(Len(script))
      <4>1. \A k \in 0..Len(script) : \A m \in 0..k : Kept(m) \subseteq Kept(k)
        BY KeptFacts DEF GenericInv
      <4>2. Len(script) \in 0..Len(script)
        BY <1>2
      <4> QED BY <3>2, <4>1, <4>2
    <3>6. value \in Nat
      BY DEF GenericInv, GenericTypes
    <3>7. \A u \in Kept(Before(n)) : u <= value
      BY <1>4, <3>3, <3>6
    <3> QED BY <1>3, <3>4, <3>5, <3>7 DEF InWindow
  <2> QED BY <2>1, <2>2
<1> QED BY <1>6, <1>7

\* reader reads the file.
LEMMA ConfigureReaderInv ==
  ASSUME GenericInv, ConfigureReader
  PROVE  GenericInv'
<1>1. /\ at["reader"] < Len(script) /\ Configures("reader")
      /\ value' = IF file # 0 THEN file ELSE value
      /\ UNCHANGED <<script, slot, pending, fired, shown, saving, file, data, recording, clock, restored>>
  BY DEF ConfigureReader, Configures, Turn
<1>2. Advances("reader")
  BY <1>1, DataflowFacts DEF ConfigureReader, Configures, Turn, Advances
<1>3. GenericTypes' /\ Extends
  BY <1>1, <1>2, AdvancesKeeps DEF GenericInv, GenericTypes, Extends
<1>4. /\ \A d \in {"events", "loader", "writer", "recorder", "show"} : at'[d] = at[d]
      /\ at["events"] \in Nat /\ at["show"] \in Nat
      /\ at'["reader"] > 0
  BY <1>2, AdvancesPlaces
<1>5. at["reader"] = 0
  <2>1. "reader" \in Components
    BY DataflowFacts
  <2>2. Current("reader").changed # "reader" /\ (Current("reader").type = "CONFIGURE" <=> at["reader"] = 0)
    BY <1>1, <2>1, TurnFacts
  <2> QED BY <1>1, <2>2 DEF Configures, Turn
<1>6. FileIsLatest'
  <2>1. value = 0 /\ saving = 0
    BY <1>5 DEF GenericInv, FileIsLatest
  <2>2. value' = file
    BY <1>1, <2>1
  <2>3. PICK w \in 0..Len(script) : w = at["writer"]
    <3>1. at["writer"] \in 0..Len(script)
      BY PlacesFacts DEF GenericInv
    <3> QED BY <3>1
  <2>4. Kept(w)' = Kept(w)
    BY <1>3, ExtendsKeeps DEF GenericInv
  <2>5. Latest(file, at["writer"])'
    BY <1>1, <1>4, <2>3, <2>4 DEF GenericInv, FileIsLatest, Latest
  <2> QED BY <1>1, <1>4, <2>1, <2>2, <2>5 DEF FileIsLatest
<1>7. EventsInOrder'
  BY <1>1, <1>2, <1>3, <1>4, AdvancesKeeps, EventsKept
<1>8. ReaderInWindow'
  BY <1>1, ReaderKept
<1>9. LoaderInWindow' /\ Recorded'
  <2>1. file' >= file
    BY <1>1 DEF GenericInv, GenericTypes
  <2> QED BY <1>1, <1>3, <1>4, <2>1, LoaderKept, RecordedKept
<1> QED BY <1>2, <1>3, <1>6, <1>7, <1>8, <1>9, AdvancesKeeps DEF GenericInv

\* reader reads the value of the module, or what its buffer holds.
LEMMA ReadInv ==
  ASSUME GenericInv, Read
  PROVE  GenericInv'
<1>1. PICK n \in 1..Len(script) : n = at["reader"] + 1
  <2>1. at["reader"] < Len(script)
    BY DEF Read, Turn
  <2> QED BY <2>1, PlacesFacts DEF GenericInv
<1>2. /\ at["reader"] < Len(script) /\ Current("reader").type = "DATA"
      /\ SetOutput("reader", IF value # 0 THEN value ELSE slot[Here("reader")]["reader"].value)
      /\ UNCHANGED <<script, shared, clock, restored>>
  BY DEF Read, Turn
<1>3. /\ Here("reader") = Step(n) /\ Step(n) \in Steps /\ n + TimeStepCount > Len(script)
  <2>1. n \in Nat /\ n >= 1 /\ n + TimeStepCount > Len(script)
    <3>1. /\ at["reader"] \in Nat /\ TimeStepCount \in Nat /\ Len(script) \in Nat
          /\ Len(script) <= at["reader"] + TimeStepCount
      BY PlacesFacts DEF GenericInv
    <3> QED BY <1>1, <3>1
  <2> QED BY <1>1, <2>1, StepsDiffer DEF Here
<1>4. SetOutput("reader", value) /\ value \in Nat
  <2>1. value = 0 => slot[Here("reader")]["reader"].value = 0
    BY <1>3 DEF GenericInv, ReaderInWindow
  <2>2. value \in Nat
    BY DEF GenericInv, GenericTypes
  <2>3. value = IF value # 0 THEN value ELSE slot[Here("reader")]["reader"].value
    BY <2>1
  <2> QED BY <1>2, <2>2, <2>3
<1>5. at["reader"] > 0
  <2>1. "reader" \in Components
    BY DataflowFacts
  <2>2. at["reader"] \in Nat /\ (Current("reader").type = "CONFIGURE" <=> at["reader"] = 0)
    BY <1>2, <2>1, TurnFacts
  <2> QED BY <1>2, <2>2
<1>6. Advances("reader")
  BY <1>2, <1>4, DataflowFacts DEF Read, Turn, Advances
<1>7. GenericTypes' /\ Extends
  BY <1>2, <1>6, AdvancesKeeps DEF GenericInv, GenericTypes, Extends, shared
<1>8. /\ \A d \in {"events", "loader", "writer", "recorder", "show"} : at'[d] = at[d]
      /\ at["events"] \in Nat /\ at["show"] \in Nat
      /\ at'["reader"] > 0
  BY <1>6, AdvancesPlaces
<1>9. EventsInOrder' /\ FileIsLatest' /\ LoaderInWindow' /\ Recorded'
  <2>1. file' >= file
    BY <1>2 DEF GenericInv, GenericTypes, shared
  <2>2. \A i \in Steps : slot'[i]["events"] = slot[i]["events"]
    BY <1>6, AdvancesKeeps, DataflowFacts
  <2>3. EventsInOrder'
    BY <1>2, <1>6, <1>7, <1>8, <2>2, AdvancesKeeps, EventsKept DEF shared
  <2> QED BY <1>2, <1>5, <1>7, <1>8, <2>1, <2>3, FileKept, LoaderKept, RecordedKept DEF shared
<1>10. ReaderInWindow'
  <2>1. PICK i \in Steps, v \in Nat : i = Step(n) /\ v = value
    BY <1>3, <1>4
  <2>2. slot' = [slot EXCEPT ![i]["reader"] = [valid |-> TRUE, value |-> v]]
    BY <1>3, <1>4, <2>1 DEF SetOutput
  <2>3. /\ slot'[i]["reader"].valid /\ slot'[i]["reader"].value = v
        /\ \A j \in Steps : j # i => slot'[j]["reader"] = slot[j]["reader"]
    <3>1. "reader" \in Outputs /\ GenericTypes
      BY DataflowFacts DEF GenericInv
    <3> QED BY <2>2, <3>1, OutputWritten
  <2>4. \A m, u : InWindow(u, m)' <=> InWindow(u, m)
    BY <1>2 DEF InWindow, Behind, Before, Kept, GivenFrames
  <2>5. InWindow(v, n)'
    BY <1>3, <1>5, <2>1, <2>4, NowInWindow
  <2>6. ASSUME NEW j \in Steps, slot'[j]["reader"].valid
        PROVE  \E m \in 1..Len(script) :
                 /\ Step(m) = j /\ m + TimeStepCount > Len(script)
                 /\ InWindow(slot[j]["reader"].value, m)'
    <3>1. CASE j = i
      <4>1. InWindow(slot[j]["reader"].value, n)'
        BY <2>3, <2>5, <3>1 DEF InWindow
      <4> QED BY <1>3, <2>1, <3>1, <4>1
    <3>2. CASE j # i
      <4>1. slot'[j]["reader"] = slot[j]["reader"]
        BY <2>3, <3>2
      <4>2. PICK m \in 1..Len(script) :
              /\ Step(m) = j /\ m + TimeStepCount > Len(script)
              /\ InWindow(slot[j]["reader"].value, m)
        BY <2>6, <4>1 DEF GenericInv, ReaderInWindow
      <4>3. InWindow(slot'[j]["reader"].value, m)
        BY <4>1, <4>2
      <4>4. InWindow(slot[j]["reader"].value, m)'
        BY <2>4, <4>3
      <4> QED BY <4>2, <4>4
    <3> QED BY <3>1, <3>2
  <2>7. value' = 0 => \A j \in Steps : slot'[j]["reader"].value = 0
    BY <1>2, <2>1, <2>3 DEF GenericInv, ReaderInWindow, shared
  <2> QED BY <1>2, <2>6, <2>7 DEF ReaderInWindow
<1> QED BY <1>6, <1>7, <1>9, <1>10, AdvancesKeeps DEF GenericInv

\* writer takes the value of a frame.
LEMMA WriteInv ==
  ASSUME GenericInv, Write
  PROVE  GenericInv'
<1> DEFINE ts == Current("writer").ts
<1>1. /\ at["writer"] < Len(script) /\ Current("writer").type = "DATA"
      /\ isAllInputValid("writer")
      /\ value' = In("writer", "source") /\ saving' = value'
      /\ UNCHANGED <<script, at, slot, pending, fired, shown, file, data, recording, clock, restored>>
  BY DEF Write, Turn
<1>2. Current("writer").given /\ In("writer", "source") = ts
  BY <1>1, SourceInput
<1>3. ts \in Nat /\ ts # 0 /\ at["reader"] > 0
  <2>1. "writer" \in Components /\ "reader" \in Components
    BY DataflowFacts
  <2>2. /\ ts > restored /\ Current("writer") \in ScriptEvent
        /\ Current("writer").type = "CONFIGURE" <=> at["writer"] = 0
        /\ at["writer"] \in Nat
        /\ at["writer"] > 0 => \A d \in Components : at[d] > 0
    BY <1>1, <1>2, <2>1, TurnFacts
  <2>3. ts \in Nat /\ restored \in Nat
    BY <2>2 DEF ScriptEvent, GenericInv, GenericTypes
  <2>4. at["writer"] > 0
    BY <1>1, <2>2
  <2>5. at["reader"] > 0
    BY <2>1, <2>2, <2>4
  <2> HIDE DEF ts
  <2> QED BY <2>2, <2>3, <2>5
<1>4. value' = ts /\ saving' = ts
  BY <1>1, <1>2
<1> HIDE DEF ts
<1>5. GenericTypes' /\ Extends
  BY <1>1, <1>3, <1>4 DEF GenericInv, GenericTypes, Extends
<1>6. OneRing' /\ ScriptInOrder' /\ SourceData'
  BY <1>1 DEF GenericInv, OneRing, ScriptInOrder, SourceData
<1>7. EventsInOrder'
  <2>1. at["events"] \in Nat /\ at["show"] \in Nat
    BY PlacesFacts DEF GenericInv
  <2> QED BY <1>1, <1>5, <1>6, <2>1, EventsKept
<1>8. ReaderInWindow'
  BY <1>1, <1>3, <1>4, ReaderKept
<1>9. LoaderInWindow' /\ Recorded'
  <2>1. file' >= file
    BY <1>1 DEF GenericInv, GenericTypes
  <2> QED BY <1>1, <1>5, <2>1, LoaderKept, RecordedKept
<1>10. FileIsLatest'
  <2>1. Latest(file, at["writer"])'
    BY <1>1 DEF GenericInv, FileIsLatest, Latest, Kept, GivenFrames
  <2>2. /\ at["writer"] < Len(script) /\ script[at["writer"] + 1].given
        /\ script[at["writer"] + 1].ts = ts
    BY <1>1, <1>2 DEF Current, ts
  <2> QED BY <1>1, <1>3, <1>4, <2>1, <2>2 DEF FileIsLatest
<1> QED BY <1>5, <1>6, <1>7, <1>8, <1>9, <1>10 DEF GenericInv

\* writer saves the value.
LEMMA SaveInv ==
  ASSUME GenericInv, Save
  PROVE  GenericInv'
<1>1. /\ saving # 0 /\ file' = saving /\ saving' = 0
      /\ UNCHANGED <<script, slot, pending, fired, shown, value, data, recording, clock, restored>>
  BY DEF Save
<1>2. PICK w \in Nat : /\ w = at["writer"] /\ w \in 0..(Len(script) - 1)
                       /\ script[w + 1].given /\ script[w + 1].ts = saving
                       /\ Latest(file, w)
  <2>1. /\ at["writer"] < Len(script) /\ script[at["writer"] + 1].given
        /\ script[at["writer"] + 1].ts = saving /\ Latest(file, at["writer"])
    BY <1>1 DEF GenericInv, FileIsLatest
  <2>2. at["writer"] \in Nat /\ Len(script) \in Nat
    BY PlacesFacts DEF GenericInv
  <2> QED BY <2>1, <2>2
<1>3. Advances("writer")
  <2>1. at["writer"] < Len(script)
    BY <1>2, PlacesFacts DEF GenericInv
  <2> QED BY <1>1, <2>1, DataflowFacts DEF Save, Advances
<1>4. GenericTypes' /\ Extends
  BY <1>1, <1>3, AdvancesKeeps DEF GenericInv, GenericTypes, Extends
<1>5. /\ \A d \in {"events", "reader", "loader", "recorder", "show"} : at'[d] = at[d]
      /\ at["events"] \in Nat /\ at["show"] \in Nat
      /\ at'["writer"] = w + 1
  BY <1>2, <1>3, AdvancesPlaces
<1>6. EventsInOrder' /\ ReaderInWindow' /\ Recorded'
  BY <1>1, <1>3, <1>4, <1>5, AdvancesKeeps, EventsKept, ReaderKept, RecordedKept
<1>7. /\ saving \in Nat /\ file \in Nat /\ file < saving
      /\ \A u \in Kept(w) : u < saving /\ u \in Nat
  <2>1. saving \in Nat /\ file \in Nat
    BY DEF GenericInv, GenericTypes
  <2>2. w \in 0..Len(script)
    BY <1>2, PlacesFacts DEF GenericInv
  <2>3. \A u \in Kept(w) : u < saving /\ u \in Nat
    BY <1>2, <2>2, KeptBelow
  <2> QED BY <1>2, <2>1, <2>3 DEF Latest
<1>8. LoaderInWindow'
  <2>1. file' >= file
    BY <1>1, <1>7
  <2> QED BY <1>1, <1>4, <1>5, <2>1, LoaderKept
<1>9. FileIsLatest'
  <2>1. Kept(w + 1) = Kept(w) \cup {saving}
    BY <1>2, KeptFacts DEF GenericInv
  <2>2. Kept(w + 1)' = Kept(w + 1)
    BY <1>1 DEF Kept, GivenFrames
  <2>3. \A u \in Kept(w + 1) : u <= saving
    BY <1>7, <2>1
  <2>4. Latest(file, at["writer"])'
    BY <1>1, <1>5, <2>1, <2>2, <2>3 DEF Latest
  <2>5. at["reader"] > 0 /\ value = saving
    <3>1. at["reader"] \in Nat
      BY PlacesFacts DEF GenericInv
    <3> QED BY <1>1, <3>1 DEF GenericInv, FileIsLatest
  <2> QED BY <1>1, <1>5, <2>4, <2>5 DEF FileIsLatest
<1> QED BY <1>3, <1>4, <1>6, <1>8, <1>9, AdvancesKeeps DEF GenericInv

\* loader reads the file.
LEMMA ConfigureLoaderInv ==
  ASSUME GenericInv, ConfigureLoader
  PROVE  GenericInv'
<1>1. PICK n \in 1..Len(script) : n = at["loader"] + 1
  <2>1. at["loader"] < Len(script)
    BY DEF ConfigureLoader, Configures, Turn
  <2> QED BY <2>1, PlacesFacts DEF GenericInv
<1>2. /\ at["loader"] < Len(script) /\ Loads(n)
      /\ data' = IF file # 0 THEN file ELSE data
      /\ UNCHANGED <<script, slot, pending, fired, shown, value, saving, file, recording, clock, restored>>
  BY <1>1 DEF ConfigureLoader, Configures, Turn, Loads, Current
<1>3. Advances("loader")
  BY <1>2, DataflowFacts DEF ConfigureLoader, Configures, Turn, Advances
<1>4. GenericTypes' /\ Extends
  BY <1>2, <1>3, AdvancesKeeps DEF GenericInv, GenericTypes, Extends
<1>5. /\ \A d \in {"events", "reader", "writer", "recorder", "show"} : at'[d] = at[d]
      /\ at["events"] \in Nat /\ at["show"] \in Nat
      /\ at'["loader"] = n
  BY <1>1, <1>3, AdvancesPlaces
<1>6. EventsInOrder' /\ FileIsLatest' /\ ReaderInWindow' /\ Recorded'
  BY <1>2, <1>3, <1>4, <1>5, AdvancesKeeps, EventsKept, FileKept, ReaderKept, RecordedKept
<1>7. data' = file
  <2>1. data \in Nat /\ file \in Nat /\ data <= file
    BY DEF GenericInv, GenericTypes, LoaderInWindow
  <2> QED BY <1>2, <2>1
<1>8. n + TimeStepCount > Len(script) /\ n \in Nat /\ n > 0
  <2>1. /\ at["loader"] \in Nat /\ TimeStepCount \in Nat /\ Len(script) \in Nat
        /\ Len(script) <= at["loader"] + TimeStepCount
    BY PlacesFacts DEF GenericInv
  <2> QED BY <1>1, <2>1
<1>9. InWindow(file, n)
  BY <1>8, NowInWindow
<1>10. LoaderInWindow'
  <2>1. \A m : Loads(m)' <=> Loads(m)
    BY <1>2 DEF Loads
  <2>2. InWindow(data, n)'
    BY <1>2, <1>7, <1>9 DEF InWindow, Behind, Before, Kept, GivenFrames
  <2>3. data' <= file' /\ \A m \in (n + 1)..n : FALSE
    BY <1>2, <1>7, <1>8 DEF GenericInv, GenericTypes
  <2>4. n \in 1..n
    BY <1>8
  <2>5. \E k \in 1..n : /\ Loads(k)' /\ \A m \in (k + 1)..n : ~Loads(m)'
                        /\ InWindow(data, k)'
    BY <1>2, <2>1, <2>2, <2>3, <2>4
  <2> QED BY <1>5, <1>8, <2>3, <2>5 DEF LoaderInWindow
<1> QED BY <1>3, <1>4, <1>6, <1>10, AdvancesKeeps DEF GenericInv

\* loader writes its value to a frame.
LEMMA LoadInv ==
  ASSUME GenericInv, Load
  PROVE  GenericInv'
<1>1. /\ at["loader"] < Len(script) /\ Current("loader").type = "DATA"
      /\ SetOutput("loader", data)
      /\ UNCHANGED <<script, shared, clock, restored>>
  BY DEF Load, Turn
<1>2. Advances("loader")
  <2>1. data \in Nat
    BY DEF GenericInv, GenericTypes
  <2> QED BY <1>1, <2>1, DataflowFacts DEF Load, Turn, Advances
<1>3. GenericTypes' /\ Extends
  BY <1>1, <1>2, AdvancesKeeps DEF GenericInv, GenericTypes, Extends, shared
<1>4. /\ \A d \in {"events", "reader", "writer", "recorder", "show"} : at'[d] = at[d]
      /\ at["events"] \in Nat /\ at["show"] \in Nat
      /\ at'["loader"] = at["loader"] + 1
  BY <1>2, AdvancesPlaces
<1>5. \A i \in Steps : /\ slot'[i]["events"] = slot[i]["events"]
                       /\ slot'[i]["reader"] = slot[i]["reader"]
  BY <1>2, AdvancesKeeps, DataflowFacts
<1>6. EventsInOrder' /\ FileIsLatest' /\ ReaderInWindow' /\ Recorded'
  BY <1>1, <1>2, <1>3, <1>4, <1>5, AdvancesKeeps, EventsKept, FileKept, ReaderKept,
     RecordedKept DEF shared
<1>7. LoaderInWindow'
  <2>1. "loader" \in Components
    BY DataflowFacts
  <2>2. /\ at["loader"] \in Nat /\ (Current("loader").type = "CONFIGURE" <=> at["loader"] = 0)
        /\ Current("loader").changed # "" => Current("loader").type = "PARAMETER_CHANGE"
    BY <1>1, <2>1, TurnFacts
  <2>3. at["loader"] > 0 /\ ~Loads(at["loader"] + 1)
    <3>1. at["loader"] > 0
      <4>1. at["loader"] # 0
        BY <1>1, <2>2
      <4>2. at["loader"] \in Nat
        BY <2>2
      <4> QED BY <4>1, <4>2
    <3>2. Current("loader").type # "CONFIGURE" /\ Current("loader").changed = ""
      BY <1>1, <2>2
    <3> QED BY <3>1, <3>2 DEF Loads, Current
  <2>4. file' >= file
    BY <1>1 DEF GenericInv, GenericTypes, shared
  <2> QED BY <1>1, <1>3, <1>4, <2>3, <2>4, LoaderKept DEF shared
<1> QED BY <1>2, <1>3, <1>6, <1>7, AdvancesKeeps DEF GenericInv

\* The file of recorder is open after n events.
Opened(n) == \E k \in 1..n : /\ script[k].type = "CONFIGURE"
                             /\ \A m \in k..n : script[m].type # "STOP"

\* What one more event means for recorder.
LEMMA NextRecorded ==
  ASSUME GenericInv, NEW n \in Nat, n < Len(script)
  PROVE  /\ GivenFrames(n + 1) = GivenFrames(n) \cup
              (IF script[n + 1].given THEN {script[n + 1].ts} ELSE {})
         /\ script[n + 1].type = "STOP" => ~Opened(n + 1)
         /\ script[n + 1].type \notin {"CONFIGURE", "STOP"} => (Opened(n + 1) <=> Opened(n))
         /\ script[n + 1].type \in {"CONFIGURE", "PARAMETER_CHANGE"} => Opened(n + 1)
<1>1. n + 1 \in 1..Len(script) /\ 1..(n + 1) = (1..n) \cup {n + 1} /\ Len(script) \in Nat
  BY ScriptFacts DEF GenericInv
<1>2. GivenFrames(n + 1) = GivenFrames(n) \cup
              (IF script[n + 1].given THEN {script[n + 1].ts} ELSE {})
  BY <1>1 DEF GivenFrames
<1>3. \A k \in 1..n : k..(n + 1) = (k..n) \cup {n + 1}
  OBVIOUS
<1>4. (n + 1)..(n + 1) = {n + 1}
  OBVIOUS
<1>5. script[n + 1].type = "STOP" => ~Opened(n + 1)
  BY <1>1, <1>3, <1>4 DEF Opened
<1>6. script[n + 1].type \notin {"CONFIGURE", "STOP"} => (Opened(n + 1) <=> Opened(n))
  BY <1>1, <1>3, <1>4 DEF Opened
<1>7. ASSUME script[n + 1].type \in {"CONFIGURE", "PARAMETER_CHANGE"}
      PROVE  Opened(n + 1)
  <2>1. 1 \in 1..Len(script) /\ 1 \in 1..(n + 1)
    BY <1>1
  <2>2. script[1].type = "CONFIGURE"
    BY <2>1 DEF GenericInv, ScriptInOrder
  <2>3. ASSUME NEW m \in 1..(n + 1), script[m].type = "STOP"
        PROVE  FALSE
    <3>1. m \in 1..Len(script) /\ m # n + 1
      BY <1>1, <1>7, <2>3
    <3>2. n + 1 \in (m + 1)..Len(script)
      BY <1>1, <3>1
    <3>3. script[n + 1].type = "TEARDOWN"
      BY <2>3, <3>1, <3>2 DEF GenericInv, ScriptInOrder
    <3> QED BY <1>7, <3>3
  <2> QED BY <2>1, <2>2, <2>3 DEF Opened
<1> QED BY <1>2, <1>5, <1>6, <1>7

\* recorder opens its file, writes a frame or closes it.
LEMMA RecordInv ==
  ASSUME GenericInv, Record
  PROVE  GenericInv'
<1>1. PICK n \in Nat : /\ n = at["recorder"] /\ n < Len(script)
                       /\ Current("recorder") = script[n + 1]
  <2>1. at["recorder"] < Len(script)
    BY DEF Record, Configures, Turn
  <2>2. at["recorder"] \in Nat
    BY PlacesFacts DEF GenericInv
  <2> QED BY <2>1, <2>2 DEF Current
<1>2. /\ UNCHANGED <<script, slot, pending, fired, shown, value, saving, file, data, clock, restored>>
      /\ \A p \in InputsOf["recorder"] \cap Components : at[p] > at["recorder"]
  BY DEF Record, Configures, Turn
<1>3. Advances("recorder")
  BY <1>1, <1>2, DataflowFacts DEF Record, Advances
<1>4. /\ script[n + 1].given => script[n + 1].type = "DATA" /\ script[n + 1].ts \in Nat
      /\ script[n + 1].given => In("recorder", "source") = script[n + 1].ts
      /\ isAllInputValid("recorder") <=> script[n + 1].given
  <2>1. "recorder" \in Components
    BY DataflowFacts
  <2>2. /\ Current("recorder") \in ScriptEvent
        /\ Current("recorder").given => Current("recorder").type = "DATA"
    BY <1>1, <2>1, TurnFacts
  <2>3. Current("recorder").ts \in Nat
    BY <2>2 DEF ScriptEvent
  <2>4. /\ Current("recorder").given => In("recorder", "source") = Current("recorder").ts
        /\ isAllInputValid("recorder") <=> Current("recorder").given
    BY <1>1, SourceInput
  <2> QED BY <1>1, <2>2, <2>3, <2>4
<1> DEFINE frames == recording.frames
           ts == script[n + 1].ts
<1>5. /\ recording = [open |-> recording.open, frames |-> frames]
      /\ recording.open \in BOOLEAN /\ frames \in Seq(Nat)
  BY DEF GenericInv, GenericTypes
<1>6. \/ /\ script[n + 1].type \in {"CONFIGURE", "PARAMETER_CHANGE"} /\ ~script[n + 1].given
         /\ recording' = [open |-> TRUE, frames |-> frames]
      \/ /\ script[n + 1].type = "DATA" /\ script[n + 1].given
         /\ recording' = [open |-> recording.open, frames |-> Append(frames, ts)]
      \/ /\ script[n + 1].type = "STOP" /\ ~script[n + 1].given
         /\ recording' = [open |-> FALSE, frames |-> frames]
  BY <1>1, <1>4, <1>5 DEF Record, Configures, Turn
<1>7. recording' \in [open : BOOLEAN, frames : Seq(Nat)]
  <2>1. script[n + 1].given => Append(frames, ts) \in Seq(Nat)
    BY <1>4, <1>5
  <2> HIDE DEF frames
  <2>2. \A o \in BOOLEAN, f \in Seq(Nat) :
          [open |-> o, frames |-> f] \in [open : BOOLEAN, frames : Seq(Nat)]
    OBVIOUS
  <2>3. TRUE \in BOOLEAN /\ FALSE \in BOOLEAN
    OBVIOUS
  <2>4. CASE script[n + 1].given
    BY <1>5, <1>6, <2>1, <2>2, <2>4
  <2>5. CASE ~script[n + 1].given
    BY <1>5, <1>6, <2>2, <2>3, <2>5
  <2> QED BY <2>4, <2>5
<1>8. GenericTypes' /\ Extends
  BY <1>2, <1>3, <1>7, AdvancesKeeps DEF GenericInv, GenericTypes, Extends
<1>9. /\ \A d \in {"events", "reader", "writer", "loader", "show"} : at'[d] = at[d]
      /\ at["events"] \in Nat /\ at["show"] \in Nat
      /\ at'["recorder"] = n + 1
  BY <1>1, <1>3, AdvancesPlaces
<1>10. EventsInOrder' /\ FileIsLatest' /\ ReaderInWindow'
  BY <1>2, <1>3, <1>8, <1>9, AdvancesKeeps, EventsKept, FileKept, ReaderKept
<1>11. LoaderInWindow'
  <2>1. file' >= file
    BY <1>2 DEF GenericInv, GenericTypes
  <2> QED BY <1>2, <1>8, <1>9, <2>1, LoaderKept
<1>12. Recorded'
  <2>1. /\ Range(frames) = GivenFrames(n)
        /\ \A k, m \in DOMAIN frames : k < m => frames[k] < frames[m]
        /\ recording.open = Opened(n)
    BY <1>1 DEF GenericInv, Recorded, Opened
  <2>2. /\ GivenFrames(n + 1)' = GivenFrames(n + 1) /\ Opened(n + 1)' = Opened(n + 1)
    BY <1>2 DEF GivenFrames, Opened
  <2>3. recording'.open = Opened(n + 1)
    <3>1. /\ script[n + 1].type = "STOP" => ~Opened(n + 1)
          /\ script[n + 1].type = "DATA" => (Opened(n + 1) <=> Opened(n))
          /\ script[n + 1].type \in {"CONFIGURE", "PARAMETER_CHANGE"} => Opened(n + 1)
      BY <1>1, NextRecorded
    <3>2. Opened(n) \in BOOLEAN /\ Opened(n + 1) \in BOOLEAN
      BY DEF Opened
    <3>3. CASE script[n + 1].type \in {"CONFIGURE", "PARAMETER_CHANGE"}
      <4>1. recording'.open = TRUE
        BY <1>6, <3>3
      <4> QED BY <3>1, <3>2, <3>3, <4>1
    <3>4. CASE script[n + 1].type = "DATA"
      <4>1. recording'.open = recording.open
        BY <1>6, <3>4
      <4> QED BY <2>1, <3>1, <3>2, <3>4, <4>1
    <3>5. CASE script[n + 1].type = "STOP"
      <4>1. recording'.open = FALSE
        BY <1>6, <3>5
      <4> QED BY <3>1, <3>2, <3>5, <4>1
    <3> QED BY <1>6, <3>3, <3>4, <3>5
  <2>4. /\ Range(recording'.frames) = GivenFrames(n + 1)
        /\ \A k, m \in DOMAIN recording'.frames :
             k < m => recording'.frames[k] < recording'.frames[m]
    <3>1. CASE ~script[n + 1].given
      <4>1. recording'.frames = frames
        BY <1>6, <3>1
      <4>2. GivenFrames(n + 1) = GivenFrames(n)
        BY <1>1, <3>1, NextRecorded
      <4> QED BY <2>1, <4>1, <4>2
    <3>2. CASE script[n + 1].given
      <4> DEFINE longer == Append(frames, ts)
      <4>1. recording'.frames = longer /\ GivenFrames(n + 1) = GivenFrames(n) \cup {ts}
        BY <1>1, <1>6, <3>2, NextRecorded
      <4>2. /\ Len(frames) \in Nat /\ DOMAIN frames = 1..Len(frames)
            /\ DOMAIN longer = 1..(Len(frames) + 1)
            /\ \A k \in 1..Len(frames) : longer[k] = frames[k] /\ frames[k] \in Nat
            /\ longer[Len(frames) + 1] = ts
        BY <1>4, <1>5, <3>2
      <4>3. \A u \in GivenFrames(n) : u < ts
        <5>1. n \in 0..(Len(script) - 1)
          BY <1>1, ScriptFacts DEF GenericInv
        <5>2. \A u \in Kept(n) : u < ts
          BY <3>2, <5>1, KeptBelow
        <5> QED BY <5>2 DEF Kept
      <4> HIDE DEF longer, frames, ts
      <4>4. \A k \in 1..Len(frames) : frames[k] < ts
        BY <2>1, <4>2, <4>3 DEF Range
      <4>5. 1..(Len(frames) + 1) = (1..Len(frames)) \cup {Len(frames) + 1}
        BY <4>2
      <4>6. Range(longer) = Range(frames) \cup {ts}
        BY <4>2, <4>5 DEF Range
      <4>7. ASSUME NEW k \in DOMAIN longer, NEW m \in DOMAIN longer, k < m
            PROVE  longer[k] < longer[m]
        <5>1. k \in 1..Len(frames) /\ longer[k] = frames[k]
          BY <4>2, <4>7
        <5>2. CASE m \in 1..Len(frames)
          BY <2>1, <4>2, <4>7, <5>1, <5>2
        <5>3. CASE m = Len(frames) + 1
          BY <4>2, <4>4, <5>1, <5>3
        <5> QED BY <4>2, <4>5, <5>2, <5>3
      <4> QED BY <2>1, <4>1, <4>6, <4>7
    <3> QED BY <3>1, <3>2
  <2>5. /\ Range(recording'.frames) = GivenFrames(at["recorder"])'
        /\ recording'.open = Opened(at["recorder"])'
    BY <1>9, <2>2, <2>3, <2>4
  <2> QED BY <2>4, <2>5 DEF Recorded, Opened
<1> QED BY <1>3, <1>8, <1>10, <1>11, <1>12, AdvancesKeeps DEF GenericInv

\* The program is started again.
LEMMA RestartInv ==
  ASSUME GenericInv, Restart
  PROVE  GenericInv'
<1>1. /\ script' = <<>> /\ at' = [c \in Components |-> 0]
      /\ slot' = [i \in Steps |-> [o \in Outputs |-> Empty]]
      /\ pending' = 0 /\ value' = 0 /\ saving' = 0 /\ data' = 0
      /\ recording' = [open |-> FALSE, frames |-> <<>>]
      /\ restored' = file
      /\ UNCHANGED <<fired, shown, file, clock>>
  BY DEF Restart
<1>2. Len(script') = 0 /\ \A c \in Components : at'[c] = 0
  BY <1>1
<1>3. \A c \in {"events", "reader", "loader", "writer", "recorder", "show"} : at'[c] = 0
  BY <1>2, DataflowFacts
<1>4. \A n \in 1..0 : FALSE
  OBVIOUS
<1>5. GenericTypes'
  <2>1. script' \in Seq(ScriptEvent) /\ at' \in [Components -> Nat]
    BY <1>1
  <2>2. Empty \in [valid : BOOLEAN, value : Nat]
    BY DEF Empty
  <2>3. slot' \in [Steps -> [Outputs -> [valid : BOOLEAN, value : Nat]]]
    BY <1>1, <2>2
  <2>4. recording' \in [open : BOOLEAN, frames : Seq(Nat)]
    BY <1>1
  <2>5. file \in Nat /\ fired \in Nat /\ shown \in Seq(Nat) /\ clock \in Nat
    BY DEF GenericInv, GenericTypes
  <2> QED BY <1>1, <2>1, <2>3, <2>4, <2>5 DEF GenericTypes
<1>6. file \in Nat /\ file <= clock
  <2>1. at["writer"] \in 0..Len(script) /\ file \in Kept(at["writer"])
    BY PlacesFacts DEF GenericInv, FileIsLatest, Latest
  <2> QED BY <2>1, KeptBelow
<1>7. OneRing'
  BY <1>2, <1>3, GenericAssumption DEF OneRing
<1>8. ScriptInOrder' /\ SourceData'
  BY <1>1, <1>2, <1>4, <1>6 DEF ScriptInOrder, SourceData
<1>9. EventsInOrder'
  <2>1. OnTheWay' = {}
    BY <1>3 DEF OnTheWay
  <2>2. \A k \in 1..Len(shown) : shown[k] <= fired
    BY DEF GenericInv, EventsInOrder
  <2>3. EventOnce' /\ pending' <= fired'
    BY <1>1 DEF GenericInv, GenericTypes, EventsInOrder, EventOnce
  <2>4. \A n \in (at'["events"] + 1)..Len(script') : FALSE
    BY <1>2, <1>3
  <2> QED BY <1>1, <2>1, <2>2, <2>3, <2>4 DEF EventsInOrder
<1>10. Kept(0)' = {file} /\ GivenFrames(0)' = {}
  BY <1>1 DEF Kept, GivenFrames
<1>11. FileIsLatest'
  <2>1. Latest(file, at["writer"])'
    BY <1>1, <1>3, <1>6, <1>10 DEF Latest
  <2> QED BY <1>1, <1>3, <2>1 DEF FileIsLatest
<1>12. ReaderInWindow'
  <2>1. "reader" \in Outputs
    BY DataflowFacts
  <2>2. \A i \in Steps : slot'[i]["reader"].value = 0 /\ ~slot'[i]["reader"].valid
    BY <1>1, <2>1 DEF Empty
  <2> QED BY <2>2 DEF ReaderInWindow
<1>13. LoaderInWindow'
  BY <1>1, <1>3, <1>6 DEF LoaderInWindow
<1>14. Recorded'
  <2>1. DOMAIN recording'.frames = {} /\ Range(recording'.frames) = {} /\ recording'.open = FALSE
    BY <1>1 DEF Range
  <2>2. GivenFrames(at["recorder"])' = {}
    BY <1>3, <1>10
  <2>3. \A n \in 1..at'["recorder"] : FALSE
    BY <1>3
  <2> QED BY <2>1, <2>2, <2>3 DEF Recorded
<1> QED BY <1>5, <1>7, <1>8, <1>9, <1>11, <1>12, <1>13, <1>14 DEF GenericInv

\* What may follow on the events of the script.
LEMMA NextEventFacts ==
  ASSUME GenericInv, NEW e \in NextEvents
  PROVE  /\ e \in ScriptEvent /\ e.type # ""
         /\ e.type = "CONFIGURE" <=> Len(script) = 0
         /\ e.given => e.type = "DATA" /\ e.ts = clock + 1
         /\ e.changed # "" => e.type = "PARAMETER_CHANGE"
         /\ e.changed # "reader"
         /\ \A m \in 1..Len(script) : /\ script[m].type # "TEARDOWN"
                                      /\ script[m].type = "STOP" => e.type = "TEARDOWN"
<1>1. Len(script) \in Nat /\ (script = <<>> <=> Len(script) = 0) /\ clock \in Nat
  BY DEF GenericInv, GenericTypes
<1>2. \A d \in Changeable : d \in {"", "loader", "recorder"} /\ d # "reader" /\ d # ""
  BY GenericAssumption
<1>3. /\ Lifecycle("CONFIGURE") \in ScriptEvent /\ Lifecycle("START") \in ScriptEvent
      /\ Lifecycle("STOP") \in ScriptEvent /\ Lifecycle("TEARDOWN") \in ScriptEvent
      /\ \A g \in BOOLEAN : Event("DATA", clock + 1, g, "") \in ScriptEvent
      /\ \A d \in Changeable : Event("PARAMETER_CHANGE", 0, FALSE, d) \in ScriptEvent
  <2>1. \A type \in EventTypes, changed \in {"", "loader", "recorder"}, ts \in Nat,
           given \in BOOLEAN : Event(type, ts, given, changed) \in ScriptEvent
    BY DEF Event, ScriptEvent
  <2>2. /\ {"CONFIGURE", "START", "STOP", "TEARDOWN", "DATA", "PARAMETER_CHANGE"} = EventTypes
        /\ clock + 1 \in Nat
    BY <1>1 DEF EventTypes
  <2> QED BY <1>2, <2>1, <2>2 DEF Lifecycle
<1>4. CASE script = <<>>
  <2>1. e = Lifecycle("CONFIGURE")
    BY <1>4 DEF NextEvents, LastType
  <2>2. e.type = "CONFIGURE" /\ ~e.given /\ e.changed = ""
    BY <2>1 DEF Lifecycle, Event
  <2>3. e \in ScriptEvent
    BY <1>3, <2>1
  <2>4. Len(script) = 0 /\ 1..0 = {}
    BY <1>1, <1>4
  <2> QED BY <2>2, <2>3, <2>4
<1>5. CASE script # <<>>
  <2>1. PICK k \in 1..Len(script) : k = Len(script) /\ LastType = script[k].type
    BY <1>1, <1>5 DEF LastType
  <2>2. LastType # "" /\ LastType # "TEARDOWN"
    <3>1. LastType # ""
      BY <2>1 DEF GenericInv, ScriptInOrder
    <3> QED BY <3>1 DEF NextEvents
  <2>3. \/ LastType = "CONFIGURE" /\ e = Lifecycle("START")
        \/ LastType = "STOP" /\ e = Lifecycle("TEARDOWN")
        \/ /\ LastType # "STOP"
           /\ \/ e = Lifecycle("STOP")
              \/ \E g \in BOOLEAN : e = Event("DATA", clock + 1, g, "")
              \/ \E d \in Changeable : e = Event("PARAMETER_CHANGE", 0, FALSE, d)
    BY <2>2 DEF NextEvents
  <2>4. e \in ScriptEvent
    BY <1>3, <2>3
  <2>5. /\ e.type # "" /\ e.type # "CONFIGURE"
        /\ e.given => e.type = "DATA" /\ e.ts = clock + 1
        /\ e.changed # "" => e.type = "PARAMETER_CHANGE"
        /\ e.changed # "reader"
        /\ LastType = "STOP" => e.type = "TEARDOWN"
    <3>1. CASE LastType = "CONFIGURE" /\ e = Lifecycle("START")
      BY <3>1 DEF Lifecycle, Event
    <3>2. CASE LastType = "STOP" /\ e = Lifecycle("TEARDOWN")
      BY <3>2 DEF Lifecycle, Event
    <3>3. CASE LastType # "STOP" /\ e = Lifecycle("STOP")
      BY <3>3 DEF Lifecycle, Event
    <3>4. CASE LastType # "STOP" /\ \E g \in BOOLEAN : e = Event("DATA", clock + 1, g, "")
      <4>1. PICK g \in BOOLEAN : e = Event("DATA", clock + 1, g, "")
        BY <3>4
      <4>2. e.type = "DATA" /\ e.ts = clock + 1 /\ e.changed = ""
        BY <4>1 DEF Event
      <4> QED BY <3>4, <4>2
    <3>5. CASE LastType # "STOP" /\ \E d \in Changeable : e = Event("PARAMETER_CHANGE", 0, FALSE, d)
      <4>1. PICK d \in Changeable : e = Event("PARAMETER_CHANGE", 0, FALSE, d)
        BY <3>5
      <4>2. e.type = "PARAMETER_CHANGE" /\ ~e.given /\ e.changed = d
        BY <4>1 DEF Event
      <4> QED BY <1>2, <3>5, <4>2
    <3> QED BY <2>3, <3>1, <3>2, <3>3, <3>4, <3>5
  <2>6. ASSUME NEW m \in 1..Len(script)
        PROVE  /\ script[m].type # "TEARDOWN"
               /\ script[m].type = "STOP" => e.type = "TEARDOWN"
    <3>1. script[m].type = "TEARDOWN" => m = k
      BY <2>1 DEF GenericInv, ScriptInOrder
    <3>2. script[m].type = "STOP" /\ m # k => k \in (m + 1)..Len(script)
      BY <1>1, <2>1
    <3>3. script[m].type = "STOP" /\ m # k => script[k].type = "TEARDOWN"
      BY <3>2 DEF GenericInv, ScriptInOrder
    <3> QED BY <2>1, <2>2, <2>5, <3>1, <3>3
  <2> QED BY <1>1, <1>5, <2>4, <2>5, <2>6
<1> QED BY <1>4, <1>5

\* The time step of a new event.
LEMMA StepLoaded ==
  ASSUME GenericTypes, NEW i \in Steps, NEW ts \in Nat, NEW given \in BOOLEAN,
         slot' = [slot EXCEPT ![i] =
           [resetNewEvent(i) EXCEPT !["source"] =
              IF given THEN [valid |-> TRUE, value |-> ts] ELSE @]]
  PROVE  /\ slot' \in [Steps -> [Outputs -> [valid : BOOLEAN, value : Nat]]]
         /\ \A j \in Steps : j # i => slot'[j] = slot[j]
         /\ \A o \in Outputs \ {"source"} :
              ~slot'[i][o].valid /\ slot'[i][o].value = slot[i][o].value
         /\ slot'[i]["source"].valid = given
         /\ given => slot'[i]["source"].value = ts
<1> DEFINE R == [valid : BOOLEAN, value : Nat]
           old == resetNewEvent(i)
           src == IF given THEN [valid |-> TRUE, value |-> ts] ELSE old["source"]
<1>1. slot \in [Steps -> [Outputs -> R]] /\ "source" \in Outputs
  BY DataflowFacts DEF GenericTypes
<1>2. \A r \in R : /\ [r EXCEPT !.valid = FALSE] \in R
                   /\ [r EXCEPT !.valid = FALSE].valid = FALSE
                   /\ [r EXCEPT !.valid = FALSE].value = r.value
  OBVIOUS
<1>3. /\ old \in [Outputs -> R]
      /\ \A o \in Outputs : ~old[o].valid /\ old[o].value = slot[i][o].value
  <2>1. old = [o \in Outputs |-> [slot[i][o] EXCEPT !.valid = FALSE]]
    BY DEF resetNewEvent
  <2> HIDE DEF R, old
  <2>2. ASSUME NEW o \in Outputs
        PROVE  old[o] \in R /\ ~old[o].valid /\ old[o].value = slot[i][o].value
    <3>1. PICK r \in R : r = slot[i][o]
      BY <1>1
    <3>2. old[o] = [r EXCEPT !.valid = FALSE]
      BY <2>1, <3>1
    <3> QED BY <1>2, <3>1, <3>2
  <2>3. old \in [Outputs -> R]
    BY <2>1, <2>2
  <2> QED BY <2>2, <2>3
<1>4. /\ src \in R /\ src.valid = given
      /\ given => src.value = ts
  <2>1. [valid |-> TRUE, value |-> ts] \in R
    OBVIOUS
  <2>2. CASE given
    <3>1. src = [valid |-> TRUE, value |-> ts] /\ given = TRUE
      BY <2>2
    <3> QED BY <2>1, <3>1
  <2>3. CASE ~given
    <3>1. src = old["source"] /\ given = FALSE
      BY <2>3
    <3>2. old["source"] \in R /\ ~old["source"].valid
      BY <1>1, <1>3
    <3>3. \A r \in R : ~r.valid => r.valid = FALSE
      OBVIOUS
    <3> HIDE DEF src, old, R
    <3> QED BY <2>3, <3>1, <3>2, <3>3
  <2> HIDE DEF src, old, R
  <2> QED BY <2>2, <2>3
<1>5. slot' = [slot EXCEPT ![i] = [old EXCEPT !["source"] = src]]
  <2> HIDE DEF old
  <2>1. slot' = [slot EXCEPT ![i] = [old EXCEPT !["source"] =
                   IF given THEN [valid |-> TRUE, value |-> ts] ELSE @]]
    BY DEF old
  <2> QED BY <2>1
<1> HIDE DEF R, old, src
<1>6. /\ slot' \in [Steps -> [Outputs -> R]]
      /\ \A j \in Steps : j # i => slot'[j] = slot[j]
      /\ slot'[i] = [old EXCEPT !["source"] = src]
  <2>1. PICK new \in [Outputs -> R] : new = [old EXCEPT !["source"] = src]
    <3>1. \A f \in [Outputs -> R], r \in R : [f EXCEPT !["source"] = r] \in [Outputs -> R]
      BY <1>1
    <3>2. old \in [Outputs -> R] /\ src \in R
      BY <1>3, <1>4
    <3> QED BY <3>1, <3>2
  <2>2. slot' = [slot EXCEPT ![i] = new]
    BY <1>5, <2>1
  <2> QED BY <1>1, <2>1, <2>2
<1>7. /\ slot'[i]["source"] = src
      /\ \A o \in Outputs \ {"source"} : slot'[i][o] = old[o]
  BY <1>1, <1>3, <1>6
<1> QED BY <1>3, <1>4, <1>6, <1>7, ZenonT(30) DEF R

\* An event is loaded.
LEMMA LoadEventInv ==
  ASSUME GenericInv, LoadEvent
  PROVE  GenericInv'
<1>1. PICK n \in Nat, i \in Steps : n = Len(script) + 1 /\ n >= 1 /\ i = Step(n)
  <2>1. Len(script) + 1 \in Nat /\ Len(script) + 1 >= 1
    BY ScriptFacts DEF GenericInv
  <2>2. Step(Len(script) + 1) \in Steps
    BY <2>1, StepsDiffer
  <2> QED BY <2>1, <2>2
<1>2. PICK e \in NextEvents :
        /\ script' = Append(script, e)
        /\ clock' = clock + (IF e.type = "DATA" THEN 1 ELSE 0)
        /\ slot' = [slot EXCEPT ![i] =
             [resetNewEvent(i) EXCEPT !["source"] =
                IF e.given THEN [valid |-> TRUE, value |-> e.ts] ELSE @]]
  BY <1>1 DEF LoadEvent
<1>3. /\ \A c \in Components : at[c] + TimeStepCount >= n
      /\ n = 2 => \A c \in Components : at[c] = 1
      /\ UNCHANGED <<at, shared, restored>>
  BY <1>1 DEF LoadEvent, StepFree
<1>4. /\ e \in ScriptEvent /\ e.type # ""
      /\ e.type = "CONFIGURE" <=> n = 1
      /\ e.given => e.type = "DATA" /\ e.ts = clock + 1
      /\ e.changed # "" => e.type = "PARAMETER_CHANGE"
      /\ e.changed # "reader"
      /\ \A m \in 1..Len(script) : /\ script[m].type # "TEARDOWN"
                                   /\ script[m].type = "STOP" => e.type = "TEARDOWN"
  <2>1. Len(script) = 0 <=> n = 1
    BY <1>1, ScriptFacts DEF GenericInv
  <2> QED BY <2>1, NextEventFacts
<1>5. e.ts \in Nat /\ e.given \in BOOLEAN
  <2>1. e \in ScriptEvent
    BY <1>4
  <2> QED BY <2>1 DEF ScriptEvent
<1>6. /\ slot' \in [Steps -> [Outputs -> [valid : BOOLEAN, value : Nat]]]
      /\ \A j \in Steps : j # i => slot'[j] = slot[j]
      /\ \A o \in Outputs \ {"source"} :
           ~slot'[i][o].valid /\ slot'[i][o].value = slot[i][o].value
      /\ slot'[i]["source"].valid = e.given
      /\ e.given => slot'[i]["source"].value = e.ts
  <2>1. PICK ts \in Nat, given \in BOOLEAN : ts = e.ts /\ given = e.given
    BY <1>5
  <2>2. slot' = [slot EXCEPT ![i] =
           [resetNewEvent(i) EXCEPT !["source"] =
              IF given THEN [valid |-> TRUE, value |-> ts] ELSE @]]
    BY <1>2, <2>1
  <2>3. GenericTypes
    BY DEF GenericInv
  <2> QED BY <2>1, <2>2, <2>3, StepLoaded
<1>7. /\ script' \in Seq(ScriptEvent) /\ Len(script') = n
      /\ \A m \in 1..Len(script) : script'[m] = script[m]
      /\ script'[n] = e /\ Len(script) \in Nat
  <2>1. /\ script' = Append(script, e) /\ e \in ScriptEvent
    BY <1>2, <1>4
  <2>2. GenericTypes
    BY DEF GenericInv
  <2>3. /\ script' \in Seq(ScriptEvent) /\ Len(script') = Len(script) + 1
        /\ \A m \in 1..Len(script) : script'[m] = script[m]
        /\ script'[Len(script) + 1] = e /\ Len(script) \in Nat
    BY <2>1, <2>2, ScriptFacts
  <2> QED BY <1>1, <2>3
<1>8. /\ clock \in Nat /\ clock' \in Nat /\ restored \in Nat /\ clock <= clock'
      /\ e.given => clock' = clock + 1
  <2>1. clock' = clock + (IF e.type = "DATA" THEN 1 ELSE 0)
    BY <1>2
  <2>2. e.given => e.type = "DATA"
    BY <1>4
  <2>3. clock \in Nat /\ restored \in Nat
    BY DEF GenericInv, GenericTypes
  <2> QED BY <2>1, <2>2, <2>3
<1>9. GenericTypes' /\ Extends
  <2>1. script' \in Seq(ScriptEvent) /\ clock' \in Nat /\ UNCHANGED <<at, shared, restored>>
        /\ slot' \in [Steps -> [Outputs -> [valid : BOOLEAN, value : Nat]]]
    BY <1>3, <1>6, <1>7, <1>8
  <2>2. \E d \in ScriptEvent : script' = Append(script, d)
    BY <1>2, <1>4
  <2>3. Extends
    BY <2>1, <2>2 DEF Extends
  <2> QED BY <2>1, <2>3 DEF GenericInv, GenericTypes, shared
<1>10. \A m \in 1..n : m \in 1..Len(script) \/ m = n
  BY <1>1, <1>7
<1>11. \A c \in {"events", "reader", "loader", "writer", "recorder", "show"} :
         c \in Components /\ at[c] \in Nat /\ at'[c] = at[c]
  BY <1>3, PlacesFacts DEF GenericInv
<1>12. OneRing'
  <2>1. \A c \in Components : at[c] \in Nat /\ at[c] <= Len(script)
    BY DEF GenericInv, GenericTypes, OneRing
  <2>2. \A c \in Components : at[c] <= n /\ n <= at[c] + TimeStepCount
    BY <1>1, <1>3, <1>7, <2>1, GenericAssumption
  <2>3. n >= 2 => \A c \in Components : at[c] >= 1
    <3>1. CASE n = 2
      BY <1>3, <3>1
    <3>2. CASE n > 2
      <4>1. Len(script) >= 2
        BY <1>1, <1>7, <3>2
      <4> QED BY <4>1 DEF GenericInv, OneRing
    <3> QED BY <1>1, <3>1, <3>2
  <2> QED BY <1>3, <1>7, <2>2, <2>3 DEF GenericInv, OneRing
<1>13. ScriptInOrder'
  <2>1. ASSUME NEW m \in 1..Len(script)
        PROVE  /\ script[m].type # ""
               /\ script[m].type = "CONFIGURE" <=> m = 1
               /\ script[m].given => /\ script[m].type = "DATA" /\ script[m].ts \in Nat
                                     /\ script[m].ts > restored /\ script[m].ts <= clock
               /\ script[m].changed # "" => script[m].type = "PARAMETER_CHANGE"
               /\ script[m].changed # "reader"
               /\ script[m].type = "STOP" => \A k \in (m + 1)..Len(script) : script[k].type = "TEARDOWN"
    BY ScriptFacts DEF GenericInv, ScriptInOrder
  <2>2. ASSUME NEW m \in 1..n
        PROVE  /\ script'[m].type # ""
               /\ script'[m].type = "CONFIGURE" <=> m = 1
               /\ script'[m].given => /\ script'[m].type = "DATA"
                                      /\ script'[m].ts > restored /\ script'[m].ts <= clock'
               /\ script'[m].changed # "" => script'[m].type = "PARAMETER_CHANGE"
               /\ script'[m].changed # "reader"
               /\ script'[m].type = "STOP" => \A k \in (m + 1)..n : script'[k].type = "TEARDOWN"
               /\ script'[m].type = "TEARDOWN" => m = n
    <3>1. CASE m \in 1..Len(script)
      <4>1. script'[m] = script[m]
        BY <1>7, <3>1
      <4>2. \A k \in (m + 1)..n : k = n \/ k \in (m + 1)..Len(script)
        BY <1>1, <1>7
      <4>3. \A k \in (m + 1)..Len(script) : script'[k] = script[k]
        BY <1>7, <3>1
      <4>4. script[m].given => script[m].ts <= clock'
        <5>1. script[m].given => script[m].ts \in Nat /\ script[m].ts <= clock
          BY <2>1, <3>1
        <5> QED BY <1>8, <5>1
      <4>5. ASSUME script[m].type = "STOP", NEW k \in (m + 1)..n
            PROVE  script'[k].type = "TEARDOWN"
        <5>1. CASE k = n
          <6>1. script'[k] = e
            BY <1>7, <5>1
          <6> QED BY <1>4, <3>1, <4>5, <6>1
        <5>2. CASE k \in (m + 1)..Len(script)
          <6>1. \A l \in (m + 1)..Len(script) : script[l].type = "TEARDOWN"
            BY <2>1, <3>1, <4>5
          <6> QED BY <4>3, <5>2, <6>1
        <5> QED BY <4>2, <5>1, <5>2
      <4>6. script[m].type # "TEARDOWN"
        BY <1>4, <3>1
      <4>7. /\ script[m].type # ""
            /\ script[m].type = "CONFIGURE" <=> m = 1
            /\ script[m].given => script[m].type = "DATA" /\ script[m].ts > restored
            /\ script[m].changed # "" => script[m].type = "PARAMETER_CHANGE"
            /\ script[m].changed # "reader"
        BY <2>1, <3>1
      <4> QED BY <4>1, <4>4, <4>5, <4>6, <4>7
    <3>2. CASE m = n
      <4>1. (m + 1)..n = {}
        BY <1>1, <3>2
      <4>2. restored <= clock
        BY DEF GenericInv, ScriptInOrder
      <4>3. e.given => e.ts > restored /\ e.ts <= clock'
        <5>1. e.given => e.ts = clock + 1
          BY <1>4
        <5> QED BY <1>5, <1>8, <4>2, <5>1
      <4> QED BY <1>4, <1>7, <3>2, <4>1, <4>3
    <3> QED BY <1>10, <3>1, <3>2
  <2>3. ASSUME NEW k \in 1..n, NEW m \in 1..n, k < m, script'[k].given, script'[m].given
        PROVE  script'[k].ts < script'[m].ts
    <3>1. k \in 1..Len(script) /\ script'[k] = script[k]
      BY <1>1, <1>7, <2>3
    <3>2. CASE m \in 1..Len(script)
      BY <1>7, <2>3, <3>1, <3>2 DEF GenericInv, ScriptInOrder
    <3>3. CASE m = n
      <4>1. script[k].ts \in Nat /\ script[k].ts <= clock
        BY <2>1, <2>3, <3>1
      <4>2. e.ts = clock + 1 /\ script'[m] = e
        BY <1>4, <1>7, <2>3, <3>3
      <4> QED BY <1>8, <3>1, <4>1, <4>2
    <3> QED BY <1>10, <3>2, <3>3
  <2>4. restored' = restored /\ restored <= clock'
    <3>1. restored <= clock
      BY DEF GenericInv, ScriptInOrder
    <3> QED BY <1>3, <1>8, <3>1
  <2> QED BY <1>7, <2>2, <2>3, <2>4 DEF ScriptInOrder
<1>14. \A m \in 1..Len(script) : /\ Step(m) \in Steps
                                 /\ m + TimeStepCount > n => Step(m) # i
  <2> TAKE m \in 1..Len(script)
  <2>1. m \in Nat /\ 1 <= m /\ m < n
    BY <1>1, <1>7
  <2> QED BY <1>1, <2>1, StepsDiffer
<1>15. SourceData'
  <2>1. ASSUME NEW m \in 1..n, m + TimeStepCount > n
        PROVE  /\ slot'[Step(m)]["source"].valid = script'[m].given
               /\ script'[m].given => slot'[Step(m)]["source"].value = script'[m].ts
    <3>1. CASE m \in 1..Len(script)
      <4>1. m + TimeStepCount > Len(script)
        BY <1>1, <1>7, <2>1, <3>1, GenericAssumption
      <4>2. slot'[Step(m)] = slot[Step(m)] /\ script'[m] = script[m]
        BY <1>6, <1>7, <1>14, <2>1, <3>1
      <4> QED BY <3>1, <4>1, <4>2 DEF GenericInv, SourceData
    <3>2. CASE m = n
      BY <1>1, <1>6, <1>7, <3>2
    <3> QED BY <1>10, <3>1, <3>2
  <2> QED BY <1>7, <2>1 DEF SourceData
<1>16. EventsInOrder'
  <2>1. PICK a \in Nat, b \in Nat : /\ a = at["events"] /\ b = at["show"]
                                    /\ b <= a /\ a <= Len(script)
                                    /\ b + TimeStepCount >= n
    BY <1>3, <1>11 DEF GenericInv, OneRing
  <2>2. \A m \in (b + 1)..Len(script) : UserEvent(m)' = UserEvent(m)
    <3> TAKE m \in (b + 1)..Len(script)
    <3>1. m \in 1..Len(script) /\ m + TimeStepCount > n
      BY <1>1, <1>7, <2>1, GenericAssumption
    <3> QED BY <1>6, <1>14, <3>1 DEF UserEvent
  <2>3. (b + 1)..a \subseteq (b + 1)..Len(script) /\ (a + 1)..Len(script) \subseteq (b + 1)..Len(script)
    BY <1>7, <2>1
  <2>4. OnTheWay' = OnTheWay /\ \A m \in OnTheWay : UserEvent(m)' = UserEvent(m)
    BY <1>11, <2>1, <2>2, <2>3 DEF OnTheWay
  <2>5. ~UserEvent(n)'.valid
    BY <1>1, <1>6, DataflowFacts DEF UserEvent
  <2>6. \A m \in (a + 1)..n : ~UserEvent(m)'.valid
    <3> TAKE m \in (a + 1)..n
    <3>1. m = n \/ m \in (a + 1)..Len(script)
      BY <1>1, <1>7, <2>1
    <3> QED BY <2>1, <2>2, <2>3, <2>5, <3>1 DEF GenericInv, EventsInOrder
  <2>7. \A m \in OnTheWay :
          /\ UserEvent(m).value <= fired
          /\ pending # 0 => UserEvent(m).value < pending
          /\ \A k \in 1..Len(shown) : shown[k] < UserEvent(m).value
          /\ \A l \in OnTheWay : l < m => UserEvent(l).value < UserEvent(m).value
    BY DEF GenericInv, EventsInOrder
  <2>8. UNCHANGED <<shown, pending, fired>>
    BY <1>3 DEF shared
  <2>9. EventOnce'
    BY <2>8 DEF GenericInv, EventsInOrder, EventOnce
  <2> QED BY <1>7, <1>11, <2>1, <2>4, <2>6, <2>7, <2>8, <2>9 DEF GenericInv, EventsInOrder
<1>17. FileIsLatest' /\ LoaderInWindow' /\ Recorded'
  <2>1. UNCHANGED <<file, value, saving, data, recording>> /\ file' >= file
    BY <1>3 DEF shared, GenericInv, GenericTypes
  <2> QED BY <1>9, <1>11, <2>1, FileKept, LoaderKept, RecordedKept
<1>18. ReaderInWindow'
  <2>1. "reader" \in Outputs \ {"source"}
    BY DataflowFacts
  <2>2. \A j \in Steps : slot'[j]["reader"].value = slot[j]["reader"].value
    BY <1>6, <2>1
  <2>3. value' = 0 => \A j \in Steps : slot'[j]["reader"].value = 0
    BY <1>3, <2>2 DEF GenericInv, ReaderInWindow, shared
  <2>4. ASSUME NEW j \in Steps, slot'[j]["reader"].valid
        PROVE  \E m \in 1..n : /\ Step(m) = j /\ m + TimeStepCount > n
                               /\ InWindow(slot[j]["reader"].value, m)'
    <3>1. j # i /\ slot'[j] = slot[j]
      BY <1>6, <2>1, <2>4
    <3>2. PICK m \in 1..Len(script) :
            /\ Step(m) = j /\ m + TimeStepCount > Len(script)
            /\ InWindow(slot[j]["reader"].value, m)
      BY <2>4, <3>1 DEF GenericInv, ReaderInWindow
    <3>3. m + TimeStepCount > n /\ m \in 1..n
      <4>1. m \in Nat /\ m >= 1 /\ TimeStepCount \in Nat
        BY GenericAssumption
      <4>2. Step(m + TimeStepCount) = Step(m)
        BY <4>1, StepsDiffer
      <4>3. m + TimeStepCount # n
        BY <1>1, <3>1, <3>2, <4>2
      <4> QED BY <1>1, <1>7, <3>2, <4>1, <4>3
    <3>4. PICK v \in Nat : v = slot[j]["reader"].value
      BY <2>1 DEF GenericInv, GenericTypes
    <3>5. InWindow(v, m)'
      BY <1>9, <3>2, <3>4, ExtendsKeeps DEF GenericInv
    <3>6. v = slot'[j]["reader"].value
      BY <3>1, <3>4
    <3>7. InWindow(slot[j]["reader"].value, m)'
      BY <3>5, <3>6 DEF InWindow
    <3> QED BY <3>2, <3>3, <3>7
  <2> QED BY <1>7, <2>3, <2>4 DEF ReaderInWindow
<1> QED BY <1>9, <1>12, <1>13, <1>15, <1>16, <1>17, <1>18 DEF GenericInv

-----------------------------------------------------------------------------
(* The theorems. *)

LEMMA GenericInitial ==
  ASSUME Init
  PROVE  GenericInv
<1>1. Len(script) = 0 /\ \A n \in 1..0 : FALSE
  BY DEF Init
<1>2. \A c \in {"events", "reader", "loader", "writer", "recorder", "show"} :
        c \in Components /\ at[c] = 0
  BY DataflowFacts DEF Init
<1>3. "reader" \in Outputs
  BY DataflowFacts
<1>4. GenericTypes
  <2>1. script \in Seq(ScriptEvent) /\ at \in [Components -> Nat] /\ shown \in Seq(Nat)
    BY DEF Init
  <2>2. Empty \in [valid : BOOLEAN, value : Nat]
    BY DEF Empty
  <2>3. slot \in [Steps -> [Outputs -> [valid : BOOLEAN, value : Nat]]]
    BY <2>2 DEF Init
  <2>4. recording \in [open : BOOLEAN, frames : Seq(Nat)]
    BY DEF Init
  <2> QED BY <2>1, <2>3, <2>4 DEF GenericTypes, Init
<1>5. OneRing /\ ScriptInOrder /\ SourceData
  BY <1>1, <1>2, GenericAssumption DEF OneRing, ScriptInOrder, SourceData, Init
<1>6. Kept(0) = {0} /\ GivenFrames(0) = {}
  BY DEF Kept, GivenFrames, Init
<1>7. EventsInOrder
  <2>1. OnTheWay = {} /\ Len(shown) = 0 /\ DOMAIN shown = {}
    BY <1>2 DEF OnTheWay, Init
  <2>2. \A n \in (at["events"] + 1)..Len(script) : FALSE
    BY <1>1, <1>2
  <2> QED BY <2>1, <2>2 DEF EventsInOrder, EventOnce, Init
<1>8. FileIsLatest /\ LoaderInWindow
  BY <1>2, <1>6 DEF FileIsLatest, LoaderInWindow, Latest, Init
<1>9. ReaderInWindow
  <2>1. \A i \in Steps : slot[i]["reader"].value = 0 /\ ~slot[i]["reader"].valid
    BY <1>3 DEF Init, Empty
  <2> QED BY <2>1 DEF ReaderInWindow
<1>10. Recorded
  <2>1. DOMAIN recording.frames = {} /\ Range(recording.frames) = {} /\ recording.open = FALSE
    BY DEF Init, Range
  <2>2. GivenFrames(at["recorder"]) = {} /\ \A n \in 1..at["recorder"] : FALSE
    BY <1>2, <1>6
  <2> QED BY <2>1, <2>2 DEF Recorded
<1> QED BY <1>4, <1>5, <1>7, <1>8, <1>9, <1>10 DEF GenericInv

LEMMA GenericStep ==
  ASSUME GenericInv, [Next]_vars
  PROVE  GenericInv'
<1>1. CASE LoadEvent
  BY <1>1, LoadEventInv
<1>2. CASE fireEvent
  BY <1>2, FireInv
<1>3. CASE Restart
  BY <1>3, RestartInv
<1>4. CASE \E c \in Components : Passes(c)
  BY <1>4, PassesInv
<1>5. CASE SendEvent \/ Show
  BY <1>5, SendInv, ShowInv
<1>6. CASE ConfigureReader \/ Read \/ Write \/ Save
  BY <1>6, ConfigureReaderInv, ReadInv, WriteInv, SaveInv
<1>7. CASE ConfigureLoader \/ Load \/ Record
  BY <1>7, ConfigureLoaderInv, LoadInv, RecordInv
<1>8. CASE UNCHANGED vars
  <2>1. /\ UNCHANGED <<run, script, at, slot, clock, restored>>
        /\ UNCHANGED <<pending, fired, shown, value, saving, file, data, recording>>
    BY <1>8 DEF vars, shared
  <2>2. GenericTypes' /\ OneRing' /\ ScriptInOrder' /\ SourceData'
    BY <2>1, ZenonT(30) DEF GenericInv, GenericTypes, OneRing, ScriptInOrder, SourceData
  <2>3. EventsInOrder'
    BY <2>1 DEF GenericInv, EventsInOrder, EventOnce, OnTheWay, UserEvent
  <2>4. Extends /\ file' >= file
    BY <2>1 DEF Extends, GenericInv, GenericTypes
  <2> QED BY <2>1, <2>2, <2>3, <2>4, FileKept, ReaderKept, LoaderKept, RecordedKept
          DEF GenericInv
<1> QED BY <1>1, <1>2, <1>3, <1>4, <1>5, <1>6, <1>7, <1>8 DEF Next, Finished

\* The inductive invariant of the generic components holds in every state.
THEOREM GenericInvariant == Spec => []GenericInv
<1>1. Init => GenericInv
  BY GenericInitial
<1>2. GenericInv /\ [Next]_vars => GenericInv'
  BY GenericStep
<1> QED BY <1>1, <1>2, PTL DEF Spec

\* The greatest element of a bounded set, and how it is recognised.
LEMMA MaxOfSet ==
  ASSUME NEW S \in SUBSET Nat
  PROVE  /\ \A n \in S : (\A m \in S : m <= n) => Max(S) = n
         /\ \A b \in Nat : S # {} /\ (\A m \in S : m <= b)
              => Max(S) \in S /\ \A m \in S : m <= Max(S)
<1>1. ASSUME NEW n \in S, \A m \in S : m <= n
      PROVE  Max(S) = n
  <2>1. \E x \in S : \A y \in S : x >= y
    BY <1>1
  <2>2. Max(S) \in S /\ \A y \in S : Max(S) >= y
    BY <2>1 DEF Max
  <2>3. Max(S) \in Nat /\ n \in Nat /\ Max(S) >= n /\ Max(S) <= n
    BY <1>1, <2>2
  <2> QED BY <2>3
<1>2. ASSUME NEW b \in Nat, S # {}, \A m \in S : m <= b
      PROVE  Max(S) \in S /\ \A m \in S : m <= Max(S)
  <2> DEFINE above(n) == {m \in S : m > n}
             B == {above(n) : n \in S}
  <2>1. IsFiniteSet(S)
    BY <1>2, FS_BoundedSetOfNaturals
  <2>2. \A n \in S : above(n) \in FiniteSubsetsOf(S)
    BY <2>1, FS_Subset DEF FiniteSubsetsOf
  <2>3. \E X \in B : \A Y \in B : <<Y, X>> \notin StrictSubsetOrdering(S)
    <3>1. B # {} /\ B \subseteq FiniteSubsetsOf(S)
      BY <1>2, <2>2
    <3> HIDE DEF B
    <3> QED BY <3>1, FS_StrictSubsetOrderingWellFounded, WFMin
  <2>4. PICK n \in S : \A m \in S : <<above(m), above(n)>> \notin StrictSubsetOrdering(S)
    BY <2>3
  <2>5. ASSUME NEW m \in S, m > n PROVE FALSE
    <3>1. n \in Nat /\ \A k \in S : k \in Nat
      OBVIOUS
    <3>2. above(m) \subseteq above(n) /\ m \in above(n) /\ m \notin above(m)
      <4>1. \A k \in S : k > m => k > n
        BY <2>5, <3>1
      <4>2. m > n /\ ~(m > m)
        BY <2>5, <3>1
      <4> QED BY <4>1, <4>2
    <3>3. above(m) # above(n) /\ above(m) \in SUBSET S /\ above(n) \in SUBSET S
      BY <3>2
    <3> HIDE DEF above
    <3>4. <<above(m), above(n)>> \in StrictSubsetOrdering(S)
      BY <3>2, <3>3 DEF StrictSubsetOrdering
    <3> QED BY <2>4, <3>4
  <2>6. \A m \in S : m <= n
    <3>1. n \in Nat /\ \A k \in S : k \in Nat
      OBVIOUS
    <3> QED BY <2>5, <3>1
  <2> QED BY <1>1, <2>6
<1> QED BY <1>1, <1>2

\* The window of an event in terms of the greatest value kept before it.
LEMMA WindowIsMax ==
  ASSUME GenericInv, NEW n \in 1..Len(script), NEW v \in Nat, InWindow(v, n)
  PROVE  v \in Kept(Behind(n)) /\ v >= Max(Kept(Before(n)))
<1>1. PICK b \in 0..Len(script) : b = Before(n)
  <2>1. n \in Nat /\ n >= 1 /\ TimeStepCount \in Nat /\ Len(script) \in Nat
    BY GenericAssumption, ScriptFacts DEF GenericInv
  <2>2. Before(n) = IF n > TimeStepCount THEN n - TimeStepCount ELSE 0
    BY <2>1, WindowBorders DEF GenericInv
  <2> QED BY <2>1, <2>2
<1>2. Kept(b) \in SUBSET Nat /\ Kept(b) # {}
  BY KeptFacts DEF GenericInv
<1>3. \A u \in Kept(b) : u <= clock
  BY KeptBelow
<1>4. clock \in Nat
  BY DEF GenericInv, GenericTypes
<1>5. Max(Kept(b)) \in Kept(b)
  BY <1>2, <1>3, <1>4, MaxOfSet
<1>6. \A u \in Kept(b) : u <= v
  BY <1>1 DEF InWindow
<1>7. Max(Kept(b)) \in Nat /\ Max(Kept(b)) <= v
  BY <1>2, <1>5, <1>6
<1> QED BY <1>1, <1>7 DEF InWindow

\* The invariant names the events that EventIn and LastLoad stand for.
LEMMA WindowsHold ==
  ASSUME GenericInv
  PROVE  ReadWindow
<1>1. Len(script) \in Nat /\ DOMAIN script = 1..Len(script)
  BY ScriptFacts DEF GenericInv
<1>2. ASSUME NEW i \in Steps, slot[i]["reader"].valid
      PROVE  LET n == EventIn(i)
             IN /\ slot[i]["reader"].value \in Kept(Behind(n))
                /\ slot[i]["reader"].value >= Max(Kept(Before(n)))
  <2>1. PICK n \in 1..Len(script) :
          /\ Step(n) = i /\ n + TimeStepCount > Len(script)
          /\ InWindow(slot[i]["reader"].value, n)
    BY <1>2 DEF GenericInv, ReaderInWindow
  <2>2. slot[i]["reader"].value \in Nat
    BY DataflowFacts DEF GenericInv, GenericTypes
  <2>3. EventIn(i) = n
    <3> DEFINE S == {0} \cup {m \in DOMAIN script : Step(m) = i}
    <3>1. S \in SUBSET Nat /\ n \in S
      BY <1>1, <2>1
    <3>2. ASSUME NEW m \in S PROVE m <= n
      <4>1. CASE m = 0
        BY <4>1
      <4>2. CASE m \in 1..Len(script) /\ Step(m) = i
        <5>1. m \in Nat /\ n \in Nat /\ n >= 1 /\ TimeStepCount \in Nat
          BY <4>2, GenericAssumption
        <5>2. ~(n < m)
          <6>1. n < m => m < n + TimeStepCount
            BY <1>1, <2>1, <4>2, <5>1
          <6> QED BY <2>1, <4>2, <5>1, <6>1, StepsDiffer
        <5> QED BY <5>1, <5>2
      <4> QED BY <1>1, <3>2, <4>1, <4>2
    <3> HIDE DEF S
    <3>3. Max(S) = n
      BY <3>1, <3>2, MaxOfSet
    <3> QED BY <3>3 DEF EventIn, S
  <2> QED BY <2>1, <2>2, <2>3, WindowIsMax
<1>3. ASSUME at["loader"] > 0
      PROVE  /\ data \in Kept(Behind(LastLoad))
             /\ data >= Max(Kept(Before(LastLoad)))
  <2>1. PICK a \in Nat : a = at["loader"] /\ a <= Len(script)
    BY PlacesFacts DEF GenericInv
  <2>2. PICK n \in 1..a : /\ Loads(n) /\ \A m \in (n + 1)..a : ~Loads(m)
                          /\ InWindow(data, n)
    BY <1>3, <2>1 DEF GenericInv, LoaderInWindow
  <2>3. LastLoad = n
    <3> DEFINE S == {m \in 1..a : Loads(m)}
    <3>1. S \in SUBSET Nat /\ n \in S
      BY <2>2
    <3>2. \A m \in S : m <= n
      <4> TAKE m \in S
      <4>1. m \notin (n + 1)..a
        BY <2>2
      <4> QED BY <2>1, <4>1
    <3>3. Max(S) = n
      <4> HIDE DEF S
      <4> QED BY <3>1, <3>2, MaxOfSet
    <3> QED BY <2>1, <3>3 DEF LastLoad, Loads
  <2>4. data \in Nat /\ n \in 1..Len(script)
    BY <1>1, <2>1 DEF GenericInv, GenericTypes
  <2> QED BY <2>2, <2>3, <2>4, WindowIsMax
<1> QED BY <1>2, <1>3 DEF ReadWindow

\* The application gets every user event back at most once and in the order of
\* firing (SyncUserEventComponent, ComponentBuffer, ApplicationSyncSink).
THEOREM EventsComeBackOnce == Spec => []EventOnce
<1>1. GenericInv => EventOnce
  BY DEF GenericInv, EventsInOrder
<1> QED BY <1>1, GenericInvariant, PTL

\* recorder saves every frame that has a value exactly once and in order, and
\* its file is open from CONFIGURE to STOP (FileWriter,
\* TimeStepBuffer::resetNewEvent).
THEOREM FramesAreRecorded == Spec => []Recorded
<1>1. GenericInv => Recorded
  BY DEF GenericInv
<1> QED BY <1>1, GenericInvariant, PTL

\* The ring keeps reader and loader together with writer, which nothing orders
\* them behind: what they read is neither too old nor too new
\* (FileReaderWriterRead, FileReaderWriterWrite, FileReader).
THEOREM ReadsStayInWindow == Spec => []ReadWindow
<1>1. GenericInv => ReadWindow
  BY WindowsHold
<1> QED BY <1>1, GenericInvariant, PTL
=============================================================================
