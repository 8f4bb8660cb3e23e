----------------------- MODULE CalibrationPanelProofs ------------------------
(***************************************************************************)
(* Proofs about CalibrationPanel, for any sessions and any numbers of      *)
(* crashes, mounts, losses, commands and messages.                         *)
(***************************************************************************)
EXTENDS CalibrationPanel, SequenceTheorems, TLAPS

-----------------------------------------------------------------------------
(* The inductive invariant.                                                *)

CtrlOK ==
    /\ rec \in Sessions \cup {None} /\ starting \in {rec, None}
    /\ pc \in [Sessions -> {"new", "starting", "first", "record", "ending",
                            "dead"}]
    /\ finish \in [Sessions -> {"empty", "save", "abort"}]
    /\ setHome \in [Sessions -> BOOLEAN] /\ homed \in [Sessions -> BOOLEAN]
    /\ torque \in {"off", "before", "raised"}

\* The controller has the one session that is alive, and the torque of the time
\* before the start is gone when the session's goroutine runs.
LiveOK ==
    /\ \A s \in Sessions :
           /\ pc[s] \in {"starting", "first", "record"} <=> rec = s
           /\ pc[s] = "starting" <=> starting = s
    /\ torque = "before" => rec = None \/ pc[rec] = "starting"

BootOK ==
    boot \in BOOLEAN /\ early \in BOOLEAN /\ crashes \in 0 .. MaxCrashes

CommandsOK == commands \in Seq(PanelCommand) /\ Len(commands) <= MaxCommands

\* A session is said to record only when its goroutine has begun.
Told(m) ==
    m.state.phase = "recording" =>
        m.of \in Sessions /\ pc[m.of] \notin {"new", "starting"}

CardOK ==
    /\ bus \in Seq(PanelMessage) /\ Len(bus) <= MaxBus
    /\ \A i \in 1 .. Len(bus) : Told(bus[i])
    /\ cal \in PanelMessage \cup {NoValue}
    /\ cal # NoValue => Told(cal)
    /\ mounted \in BOOLEAN /\ missed \in BOOLEAN
    /\ mounts \in 0 .. MaxMounts /\ lost \in 0 .. MaxLost
    /\ mounted \/ (bus = <<>> /\ cal = NoValue)

Inv == CtrlOK /\ LiveOK /\ BootOK /\ CommandsOK /\ CardOK

\* What was said of a session stays true: no session starts again.
Later ==
    \A s \in Sessions :
        pc[s] \notin {"new", "starting"} => pc'[s] \notin {"new", "starting"}

LEMMA Bounds ==
    /\ MaxCrashes \in Nat /\ MaxMounts \in Nat /\ MaxLost \in Nat
    /\ MaxCommands \in Nat /\ MaxBus \in Nat
    /\ None \notin Sessions /\ NoValue \notin PanelMessage
BY PanelAssumption

LEMMA InvInit == Init => Inv
<1> SUFFICES ASSUME Init PROVE Inv
  OBVIOUS
<1> USE Bounds DEF Init
<1>1. CtrlOK
  BY DEF CtrlOK
<1>2. LiveOK
  BY DEF LiveOK
<1>3. BootOK
  <2>1. boot \in BOOLEAN /\ early \in BOOLEAN
    OBVIOUS
  <2>2. QED
    BY <2>1 DEF BootOK
<1>4. CommandsOK
  BY EmptySeq DEF CommandsOK
<1>5. CardOK
  <2>1. bus \in Seq(PanelMessage) /\ Len(bus) = 0
    BY EmptySeq
  <2>2. mounted \in BOOLEAN /\ missed \in BOOLEAN
    OBVIOUS
  <2>3. QED
    BY <2>1, <2>2 DEF CardOK
<1>6. QED
  BY <1>1, <1>2, <1>3, <1>4, <1>5 DEF Inv

-----------------------------------------------------------------------------
(* The card's side of a step of the module.                                *)

LEMMA ToldStays ==
    ASSUME Later, NEW m, Told(m)
    PROVE  m.state.phase = "recording" =>
               m.of \in Sessions /\ pc'[m.of] \notin {"new", "starting"}
BY DEF Later, Told

LEMMA CardKept ==
    ASSUME CardOK, Later, UNCHANGED <<cardVars, busVars>>
    PROVE  CardOK'
<1>1. \A i \in 1 .. Len(bus') : Told(bus[i])'
  BY ToldStays DEF CardOK, Told, busVars
<1>2. cal' # NoValue => Told(cal)'
  BY ToldStays DEF CardOK, Told, cardVars
<1>3. QED
  BY <1>1, <1>2 DEF CardOK, cardVars, busVars

LEMMA CardPublish ==
    ASSUME CardOK, Later, UNCHANGED cardVars,
           NEW phase \in Phase, NEW s \in Sessions \cup {None},
           NEW home \in BOOLEAN, Publish(phase, s, home),
           phase = "recording" =>
               s \in Sessions /\ pc'[s] \notin {"new", "starting"}
    PROVE  CardOK'
<1> USE Bounds DEF cardVars, busVars
<1> DEFINE m == [state |-> [phase |-> phase, homeSet |-> home], of |-> s]
<1>1. m \in PanelMessage
  BY DEF PanelMessage, CalibrationState
<1>2. m.state.phase = phase /\ m.of = s
  OBVIOUS
<1>3. /\ missed' \in BOOLEAN /\ lost' \in 0 .. MaxLost
      /\ bus' # bus => mounted
      /\ bus' = bus \/ (bus' = Append(bus, m) /\ Len(bus) < MaxBus)
  <2>1. missed \in BOOLEAN /\ lost \in 0 .. MaxLost
    BY DEF CardOK
  <2>2. CASE /\ mounted /\ Len(bus) < MaxBus
             /\ bus' = Append(bus, m)
             /\ missed' = (missed /\ ~(phase # "recording"))
             /\ UNCHANGED lost
    BY <2>1, <2>2
  <2>3. CASE /\ lost < MaxLost /\ lost' = lost + 1
             /\ missed' = (missed \/ phase # "recording")
             /\ UNCHANGED bus
    BY <2>1, <2>3
  <2>4. CASE UNCHANGED <<bus, lost, missed>>
    BY <2>1, <2>4
  <2>5. QED
    BY <2>2, <2>3, <2>4 DEF Publish
<1> HIDE DEF m
<1>4. cal' # NoValue => Told(cal)'
  BY ToldStays DEF CardOK, Told
<1>5. CASE bus' = bus
  <2>1. \A i \in 1 .. Len(bus') : Told(bus[i])'
    BY <1>5, ToldStays DEF CardOK, Told
  <2>2. QED
    BY <1>3, <1>4, <1>5, <2>1 DEF CardOK
<1>6. CASE bus' = Append(bus, m) /\ Len(bus) < MaxBus
  <2>1. bus \in Seq(PanelMessage)
    BY DEF CardOK
  <2>2. /\ bus' \in Seq(PanelMessage) /\ Len(bus') = Len(bus) + 1
        /\ \A i \in 1 .. Len(bus) : bus'[i] = bus[i]
        /\ bus'[Len(bus) + 1] = m /\ bus' # <<>>
    BY <1>1, <1>6, <2>1, AppendProperties
  <2>3. \A i \in 1 .. Len(bus') : i \in 1 .. Len(bus) \/ i = Len(bus) + 1
    BY <2>1, <2>2
  <2>4. ASSUME NEW i \in 1 .. Len(bus') PROVE Told(bus[i])'
    <3>1. CASE i \in 1 .. Len(bus)
      BY <2>2, <3>1, ToldStays DEF CardOK, Told
    <3>2. CASE i = Len(bus) + 1
      BY <1>2, <2>2, <3>2 DEF Told
    <3>3. QED
      BY <2>3, <3>1, <3>2
  <2>5. Len(bus') <= MaxBus
    BY <1>6, <2>1, <2>2
  <2>6. mounted
    BY <1>3, <1>6, <2>1, <2>2
  <2>7. QED
    BY <1>3, <1>4, <2>2, <2>4, <2>5, <2>6 DEF CardOK
<1>7. QED
  BY <1>3, <1>5, <1>6

-----------------------------------------------------------------------------
(* The operator, the handler, the sessions and the boot.                   *)

LEMMA PressInv ==
    ASSUME Inv, NEW case \in Button, Press(case)
    PROVE  Inv'
<1> USE Bounds DEF ctrlVars, bootVars, cardVars, busVars
<1> DEFINE c == [case |-> case, of |-> IF cal = NoValue THEN None ELSE cal.of]
<1>1. c \in PanelCommand
  BY DEF Inv, CardOK, PanelCommand, PanelMessage
<1>2. commands' = Append(commands, c) /\ Len(commands) < MaxCommands
  BY DEF Press
<1> HIDE DEF c
<1>3. commands' \in Seq(PanelCommand) /\ Len(commands') = Len(commands) + 1
  BY <1>1, <1>2, AppendProperties DEF Inv, CommandsOK
<1>4. CommandsOK'
  BY <1>2, <1>3 DEF Inv, CommandsOK
<1>5. Later /\ CtrlOK' /\ LiveOK' /\ BootOK'
  BY DEF Press, Inv, Later, CtrlOK, LiveOK, BootOK
<1>6. CardOK'
  BY <1>5, CardKept DEF Press, Inv
<1>7. QED
  BY <1>4, <1>5, <1>6 DEF Inv

LEMMA OperatorInv == Inv /\ (Operator \/ Deliver) => Inv'
<1> SUFFICES ASSUME Inv, Operator \/ Deliver PROVE Inv'
  OBVIOUS
<1> USE Bounds DEF ctrlVars, bootVars
<1>1. CASE Mount \/ Unmount \/ Deliver
  <2>1. CtrlOK' /\ LiveOK' /\ BootOK' /\ CommandsOK' /\ Later
    BY <1>1 DEF Mount, Unmount, Deliver, Inv, CtrlOK, LiveOK, BootOK,
                CommandsOK, Later
  <2>2. CASE Mount
    <3>1. mounted' = TRUE /\ mounts' \in 0 .. MaxMounts
      BY <2>2 DEF Mount, Inv, CardOK
    <3>2. QED
      BY <2>1, <2>2, <3>1 DEF Mount, Inv, CardOK, busVars, Told
  <2>3. CASE Unmount
    <3>1. bus' \in Seq(PanelMessage) /\ Len(bus') = 0
      BY <2>3, EmptySeq DEF Unmount
    <3>2. mounted' = FALSE /\ missed' = FALSE /\ bus' = <<>> /\ cal' = NoValue
      BY <2>3 DEF Unmount
    <3>3. \A i \in 1 .. Len(bus') : Told(bus[i])'
      BY <3>1
    <3>4. CardOK'
      <4>1. mounted' \in BOOLEAN /\ missed' \in BOOLEAN
        BY <3>2
      <4>2. Len(bus') <= MaxBus
        BY <3>1
      <4>3. UNCHANGED <<mounts, lost>>
        BY <2>3 DEF Unmount
      <4>4. QED
        BY <3>1, <3>2, <3>3, <4>1, <4>2, <4>3 DEF Inv, CardOK
    <3>5. QED
      BY <2>1, <3>4 DEF Inv
  <2>4. CASE Deliver
    <3>1. bus \in Seq(PanelMessage) /\ bus # <<>>
      BY <2>4 DEF Deliver, Inv, CardOK
    <3>2. /\ cal' \in PanelMessage /\ bus' \in Seq(PanelMessage)
          /\ Len(bus') = Len(bus) - 1
          /\ \A i \in 1 .. Len(bus') : bus'[i] = bus[i + 1]
      BY <2>4, <3>1, HeadTailProperties DEF Deliver
    <3>3. Len(bus) \in Nat /\ Len(bus) # 0 /\ cal' = bus[1]
      BY <2>4, <3>1, EmptySeq DEF Deliver
    <3>4. Told(cal)' /\ \A i \in 1 .. Len(bus') : Told(bus[i])'
      BY <2>4, <3>2, <3>3 DEF Deliver, Inv, CardOK, Told
    <3>5. mounted
      BY <3>1 DEF Inv, CardOK
    <3>6. Len(bus') <= MaxBus
      BY <3>2, <3>3 DEF Inv, CardOK
    <3>7. QED
      BY <2>1, <2>4, <3>2, <3>4, <3>5, <3>6 DEF Deliver, Inv, CardOK
  <2>5. QED
    BY <1>1, <2>2, <2>3, <2>4
<1>2. CASE PressStart \/ PressHome \/ PressDone \/ PressAbort
  BY <1>2, PressInv DEF PressStart, PressHome, PressDone, PressAbort, Button
<1>3. QED
  BY <1>1, <1>2 DEF Operator

LEMMA HandleCtrl ==
    ASSUME Inv, starting = None, NEW c, Handle(c)
    PROVE  CtrlOK' /\ LiveOK' /\ Later
<1> USE Bounds DEF Inv, CtrlOK, LiveOK, Later, ctrlVars
<1>1. CASE Start
  <2>1. CASE rec # None
    BY <1>1, <2>1 DEF Start
  <2>2. CASE rec = None
    <3>1. PICK s \in Sessions :
              /\ pc[s] = "new"
              /\ rec' = s /\ starting' = s
              /\ pc' = [pc EXCEPT ![s] = "starting"]
      BY <1>1, <2>2 DEF Start
    <3>2. UNCHANGED <<finish, setHome, homed>> /\ torque' \in {"off", "before"}
      BY <1>1, <2>2 DEF Start
    <3>3. CtrlOK'
      BY <3>1, <3>2
    <3>4. LiveOK' /\ Later
      BY <2>2, <3>1, <3>2
    <3>5. QED
      BY <3>3, <3>4
  <2>3. QED
    BY <2>1, <2>2
<1>2. CASE Home
  BY <1>2 DEF Home
<1>3. CASE Signal("save") \/ Signal("abort")
  BY <1>3 DEF Signal
<1>4. QED
  BY <1>1, <1>2, <1>3 DEF Handle

LEMMA HandlerInv == Inv /\ (Take \/ StartRest \/ TorqueOff \/ TorqueOn) => Inv'
<1> SUFFICES ASSUME Inv, Take \/ StartRest \/ TorqueOff \/ TorqueOn PROVE Inv'
  OBVIOUS
<1> USE Bounds DEF bootVars
<1>1. CASE Take
  <2>1. CtrlOK' /\ LiveOK' /\ Later
    BY <1>1, HandleCtrl DEF Take
  <2>2. CardOK'
    BY <1>1, <2>1, CardKept DEF Take, Inv
  <2>3. commands \in Seq(PanelCommand) /\ commands # <<>>
    BY <1>1 DEF Take, Inv, CommandsOK
  <2>4. CommandsOK'
    <3>1. commands' \in Seq(PanelCommand) /\ Len(commands') = Len(commands) - 1
      BY <1>1, <2>3, HeadTailProperties DEF Take
    <3>2. QED
      BY <2>3, <3>1 DEF Inv, CommandsOK
  <2>5. BootOK'
    BY <1>1 DEF Take, Inv, BootOK
  <2>6. QED
    BY <2>1, <2>2, <2>4, <2>5 DEF Inv
<1>2. CASE StartRest
  <2>1. CtrlOK' /\ LiveOK' /\ Later
    BY <1>2 DEF StartRest, Inv, CtrlOK, LiveOK, Later
  <2>2. CardOK'
    BY <1>2, <2>1, CardKept DEF StartRest, Inv
  <2>3. QED
    BY <1>2, <2>1, <2>2 DEF StartRest, Inv, BootOK, CommandsOK
<1>3. CASE TorqueOff \/ TorqueOn
  <2>1. CtrlOK' /\ LiveOK' /\ Later
    BY <1>3 DEF TorqueOff, TorqueOn, Inv, CtrlOK, LiveOK, Later
  <2>2. CardOK'
    BY <1>3, <2>1, CardKept DEF TorqueOff, TorqueOn, Inv
  <2>3. QED
    BY <1>3, <2>1, <2>2 DEF TorqueOff, TorqueOn, Inv, BootOK, CommandsOK
<1>4. QED
  BY <1>1, <1>2, <1>3

LEMMA SessionInv ==
    ASSUME Inv, NEW s \in Sessions, Session(s)
    PROVE  Inv'
<1> USE Bounds DEF ctrlVars, bootVars
<1>1. CtrlOK' /\ LiveOK' /\ Later
  <2> USE DEF Inv, CtrlOK, LiveOK, Later
  <2>1. CASE First(s)
    BY <2>1 DEF First
  <2>2. CASE Republish(s)
    BY <2>2 DEF Republish
  <2>3. CASE TakeHome(s)
    BY <2>3 DEF TakeHome
  <2>4. CASE TakeFinish(s)
    BY <2>4 DEF TakeFinish
  <2>5. CASE End(s)
    BY <2>5 DEF End
  <2>6. QED
    BY <2>1, <2>2, <2>3, <2>4, <2>5 DEF Session
<1>2. BootOK' /\ CommandsOK' /\ UNCHANGED cardVars
  BY DEF Session, First, Republish, TakeHome, TakeFinish, End, cardVars,
         Inv, BootOK, CommandsOK
<1>3. CardOK /\ homed[s] \in BOOLEAN /\ homed'[s] \in BOOLEAN
  BY <1>1 DEF Inv, CtrlOK
<1>4. CardOK'
  <2>1. CASE First(s) \/ Republish(s)
    <3>1. Publish("recording", s, homed[s]) /\ pc'[s] = "record"
      BY <2>1 DEF First, Republish, Inv, CtrlOK
    <3>2. QED
      BY <1>1, <1>2, <1>3, <3>1, CardPublish DEF Phase
  <2>2. CASE TakeHome(s)
    <3>1. Publish("recording", s, homed'[s]) /\ pc'[s] = "record"
      BY <2>2 DEF TakeHome
    <3>2. QED
      BY <1>1, <1>2, <1>3, <3>1, CardPublish DEF Phase
  <2>3. CASE TakeFinish(s)
    BY <1>1, <1>3, <2>3, CardKept DEF TakeFinish
  <2>4. CASE End(s)
    <3>1. PICK phase \in {"done", "aborted"} : Publish(phase, s, homed[s])
      BY <2>4 DEF End
    <3>2. QED
      BY <1>1, <1>2, <1>3, <3>1, CardPublish DEF Phase
  <2>5. QED
    BY <2>1, <2>2, <2>3, <2>4 DEF Session
<1>5. QED
  BY <1>1, <1>2, <1>4 DEF Inv

LEMMA BootInv == Inv /\ (BootPublish \/ BootLoadFails \/ Crash) => Inv'
<1> SUFFICES ASSUME Inv, BootPublish \/ BootLoadFails \/ Crash PROVE Inv'
  OBVIOUS
<1> USE Bounds DEF ctrlVars
<1>1. CASE BootPublish
  <2>1. CtrlOK' /\ LiveOK' /\ Later /\ CommandsOK'
    BY <1>1 DEF BootPublish, Inv, CtrlOK, LiveOK, Later, CommandsOK
  <2>2. BootOK'
    BY <1>1 DEF BootPublish, Inv, BootOK
  <2>3. CardOK'
    <3>1. Publish("idle", None, FALSE) /\ UNCHANGED cardVars
      BY <1>1 DEF BootPublish
    <3>2. CardOK /\ "idle" \in Phase /\ FALSE \in BOOLEAN
      BY DEF Inv, Phase
    <3>3. QED
      BY <2>1, <3>1, <3>2, CardPublish
  <2>4. QED
    BY <2>1, <2>2, <2>3 DEF Inv
<1>2. CASE BootLoadFails
  <2>1. CtrlOK' /\ LiveOK' /\ CommandsOK'
    BY <1>2 DEF BootLoadFails, Inv, CtrlOK, LiveOK, CommandsOK
  <2>2. BootOK'
    BY <1>2 DEF BootLoadFails, Inv, BootOK
  <2>3. CardOK'
    <3>1. missed' \in BOOLEAN
      BY <1>2 DEF BootLoadFails, Inv, CardOK
    <3>2. QED
      BY <1>2, <3>1 DEF BootLoadFails, Inv, CardOK, cardVars, Told
  <2>4. QED
    BY <2>1, <2>2, <2>3 DEF Inv
<1>3. CASE Crash
  <2>1. CtrlOK'
    BY <1>3 DEF Crash, Inv, CtrlOK
  <2>2. LiveOK' /\ Later
    BY <1>3 DEF Crash, Inv, CtrlOK, LiveOK, Later
  <2>3. CommandsOK'
    BY <1>3, EmptySeq DEF Crash, CommandsOK
  <2>4. BootOK'
    BY <1>3 DEF Crash, Inv, BootOK, CardOK
  <2>5. CardOK'
    BY <1>3, <2>2, CardKept DEF Crash, Inv
  <2>6. QED
    BY <2>1, <2>2, <2>3, <2>4, <2>5 DEF Inv
<1>4. QED
  BY <1>1, <1>2, <1>3

LEMMA InvNext == Inv /\ [Next]_vars => Inv'
<1> SUFFICES ASSUME Inv, [Next]_vars PROVE Inv'
  OBVIOUS
<1>1. CASE Operator \/ Deliver
  BY <1>1, OperatorInv
<1>2. CASE Take \/ StartRest \/ TorqueOff \/ TorqueOn
  BY <1>2, HandlerInv
<1>3. ASSUME NEW s \in Sessions, Session(s) PROVE Inv'
  BY <1>3, SessionInv
<1>4. CASE BootPublish \/ BootLoadFails \/ Crash
  BY <1>4, BootInv
<1>5. CASE UNCHANGED vars
  BY <1>5 DEF vars, ctrlVars, bootVars, cardVars, busVars, Inv, CtrlOK, LiveOK,
              BootOK, CommandsOK, CardOK, Told
<1>6. QED
  BY <1>1, <1>2, <1>3, <1>4, <1>5 DEF Next

LEMMA AlwaysInv == Spec => []Inv
BY InvInit, InvNext, PTL DEF Spec

-----------------------------------------------------------------------------
(* What keeps a signal from reaching another session than the card's.      *)

Starts(c)   == c.case = "runCalibration"
Signals(c)  == c.case \in {"finishCalibration", "abort"}
StartQueued == \E i \in 1 .. Len(commands) : Starts(commands[i])

Records(m) == m.state.phase = "recording"
NoneEnding == \A s \in Sessions : pc[s] # "ending"

\* The card was opened once at most, no command ran into the boot, and the module
\* did not restart under the card.
Orderly == mounts <= 1 /\ ~early

\* No session other than t is live, and t has its home if that is said of it.
About(t, home) == rec # None => rec = t /\ (home => homed[t])

\* One session ends at a time, while none is live; a new one has no signal.
EndingOK ==
    \A s \in Sessions :
        /\ pc[s] = "ending" =>
               rec = None /\ \A t \in Sessions : pc[t] = "ending" => t = s
        /\ pc[s] = "new" => finish[s] = "empty"

\* A signal on its way is about the live session.  One start at most is on its
\* way: it comes before the first signal to the live session, which ignores it,
\* or behind the signals to a session that is gone.
QueueOK ==
    /\ \A i \in 1 .. Len(commands) :
           Signals(commands[i]) =>
               About(commands[i].of, commands[i].case = "finishCalibration")
    /\ \A j \in 1 .. Len(commands) :
           Starts(commands[j]) =>
               /\ NoneEnding
               /\ \A i \in 1 .. Len(commands) : Starts(commands[i]) => i = j
               /\ rec # None =>
                      /\ finish[rec] = "empty"
                      /\ \A i \in 1 .. j : ~Signals(commands[i])
               /\ rec = None =>
                      \A i \in j .. Len(commands) : ~Signals(commands[i])

Shown(m) ==
    Records(m) => /\ About(m.of, m.state.homeSet)
                  /\ StartQueued => rec # None

\* What was said of a recording is about the live session.  The boot's message
\* is the first, and the end of a session is the last while the card shows it.
Place(i) ==
    /\ Shown(bus[i])
    /\ bus[i].state.phase = "idle" => i = 1 /\ cal = NoValue
    /\ bus[i].state.phase \in {"done", "aborted"} =>
           /\ i = Len(bus) /\ Recording
           /\ rec = None /\ NoneEnding /\ ~StartQueued

SeenOK ==
    /\ cal # NoValue => Shown(cal)
    /\ \A i \in 1 .. Len(bus) : Place(i)

\* An open card that shows no recording has sent no signal to a live session.
UnseenOK ==
    mounted /\ ~Recording =>
        /\ NoneEnding
        /\ rec # None =>
               /\ finish[rec] = "empty"
               /\ \A i \in 1 .. Len(commands) : ~Signals(commands[i])
        /\ rec = None => \A i \in 1 .. Len(bus) : ~Records(bus[i])

\* Nothing starts before the card is opened, and nothing before the boot is over.
BeforeOK ==
    /\ mounted => mounts # 0
    /\ mounts = 0 => commands = <<>> /\ rec = None /\ NoneEnding
    /\ boot /\ mounted =>
           cal = NoValue /\ bus = <<>> /\ rec = None /\ NoneEnding

FollowOK == EndingOK /\ QueueOK /\ SeenOK /\ UnseenOK /\ BeforeOK

Follow == Orderly => FollowOK

LEMMA FollowInit == Init => Follow
<1> SUFFICES ASSUME Init PROVE FollowOK
  BY DEF Follow
<1>1. commands = <<>> /\ bus = <<>> /\ Len(commands) = 0 /\ Len(bus) = 0
  BY EmptySeq DEF Init
<1>2. /\ rec = None /\ ~mounted /\ mounts = 0 /\ cal = NoValue
      /\ \A s \in Sessions : pc[s] = "new" /\ finish[s] = "empty"
  BY DEF Init
<1>3. EndingOK /\ QueueOK /\ SeenOK
  BY <1>1, <1>2 DEF EndingOK, QueueOK, SeenOK
<1>4. UnseenOK /\ BeforeOK
  BY <1>1, <1>2 DEF UnseenOK, BeforeOK, NoneEnding
<1>5. QED
  BY <1>3, <1>4 DEF FollowOK

\* The step leaves the live session, its end and its signals alone.
Steady ==
    /\ rec' = rec
    /\ \A s \in Sessions :
           /\ pc'[s] = "ending" <=> pc[s] = "ending"
           /\ pc'[s] = "new" => pc[s] = "new"
           /\ homed[s] => homed'[s]
           /\ finish'[s] = finish[s]

LEMMA SteadyFrame ==
    ASSUME Inv, EndingOK, QueueOK, Steady, UNCHANGED commands
    PROVE  /\ EndingOK' /\ QueueOK'
           /\ StartQueued' = StartQueued /\ NoneEnding' = NoneEnding
           /\ \A m : Shown(m) => Shown(m)'
<1>1. EndingOK' /\ NoneEnding' = NoneEnding /\ StartQueued' = StartQueued
  BY DEF EndingOK, Steady, NoneEnding, StartQueued
<1>2. rec # None => rec \in Sessions
  BY DEF Inv, CtrlOK
<1>3. \A t, home : About(t, home) => About(t, home)'
  BY <1>2 DEF About, Steady
<1>4. QueueOK'
  BY <1>1, <1>2, <1>3 DEF QueueOK, Steady
<1>5. QED
  BY <1>1, <1>3, <1>4 DEF Shown, Steady

\* A step that leaves the commands and the card alone as well.
LEMMA SteadyFollow ==
    ASSUME Inv, FollowOK, Steady, UNCHANGED <<commands, cardVars, bus>>,
           boot' => boot
    PROVE  FollowOK'
<1> USE DEF FollowOK, cardVars
<1>1. /\ EndingOK' /\ QueueOK'
      /\ StartQueued' = StartQueued /\ NoneEnding' = NoneEnding
      /\ \A m : Shown(m) => Shown(m)'
  BY SteadyFrame
<1>2. Recording' = Recording
  BY DEF Recording
<1>3. SeenOK'
  <2>1. cal' # NoValue => Shown(cal)'
    BY <1>1 DEF SeenOK, Shown, About
  <2>2. ASSUME NEW i \in 1 .. Len(bus') PROVE Place(i)'
    <3>1. Shown(bus[i])'
      BY <1>1 DEF SeenOK, Place, Shown, About
    <3>2. QED
      BY <1>1, <1>2, <3>1 DEF SeenOK, Place, Steady
  <2>3. QED
    BY <2>1, <2>2 DEF SeenOK
<1>4. UnseenOK'
  <2>1. rec # None => rec \in Sessions
    BY DEF Inv, CtrlOK
  <2>2. QED
    BY <1>1, <1>2, <2>1 DEF UnseenOK, Steady
<1>5. BeforeOK'
  BY <1>1 DEF BeforeOK, Steady
<1>6. QED
  BY <1>1, <1>3, <1>4, <1>5

\* The live session publishes that it records.
LEMMA RecordingFollow ==
    ASSUME Inv, FollowOK, Steady, UNCHANGED <<commands, cardVars, boot>>,
           NEW s \in Sessions, rec = s, NEW home \in BOOLEAN,
           home => homed'[s], Publish("recording", s, home)
    PROVE  FollowOK'
<1> DEFINE m == [state |-> [phase |-> "recording", homeSet |-> home], of |-> s]
<1>1. CASE UNCHANGED bus
  BY <1>1, SteadyFollow
<1>2. CASE ~UNCHANGED bus
  <2> USE DEF FollowOK, cardVars
  <2>1. bus' = Append(bus, m) /\ mounted
    BY <1>2 DEF Publish, busVars
  <2>2. m.state.phase = "recording" /\ m.of = s /\ m.state.homeSet = home
    OBVIOUS
  <2> HIDE DEF m
  <2>3. /\ bus \in Seq(PanelMessage) /\ Len(bus) \in Nat
        /\ Len(bus') = Len(bus) + 1 /\ bus'[Len(bus) + 1] = m
        /\ \A i \in 1 .. Len(bus) : bus'[i] = bus[i]
    <3>1. bus \in Seq(PanelMessage)
      BY DEF Inv, CardOK
    <3>2. m \in PanelMessage
      BY DEF m, PanelMessage, CalibrationState, Phase
    <3>3. QED
      BY <2>1, <3>1, <3>2, AppendProperties, LenProperties
  <2>4. /\ EndingOK' /\ QueueOK'
        /\ StartQueued' = StartQueued /\ NoneEnding' = NoneEnding
        /\ \A n : Shown(n) => Shown(n)'
    BY SteadyFrame
  <2>5. Recording' = Recording /\ rec # None /\ rec' = s
    BY Bounds DEF Recording, Steady
  <2>6. \A i \in 1 .. Len(bus) : bus[i].state.phase \notin {"done", "aborted"}
    BY <2>5 DEF SeenOK, Place
  <2>7. SeenOK'
    <3>1. cal' # NoValue => Shown(cal)'
      BY <2>4 DEF SeenOK, Shown, About
    <3>2. ASSUME NEW i \in 1 .. Len(bus') PROVE Place(i)'
      <4>1. i \in 1 .. Len(bus) \/ i = Len(bus) + 1
        BY <2>3
      <4>2. CASE i \in 1 .. Len(bus)
        <5>1. Shown(bus[i])'
          BY <2>3, <2>4, <4>2 DEF SeenOK, Place, Shown, About
        <5>2. QED
          BY <2>3, <2>6, <4>2, <5>1 DEF SeenOK, Place
      <4>3. CASE i = Len(bus) + 1
        BY <2>2, <2>3, <2>5, <4>3 DEF Place, Shown, About, Records
      <4>4. QED
        BY <4>1, <4>2, <4>3
    <3>3. QED
      BY <3>1, <3>2 DEF SeenOK
  <2>8. UnseenOK'
    BY <2>4, <2>5 DEF UnseenOK, Steady
  <2>9. BeforeOK'
    BY <2>1, <2>5 DEF BeforeOK
  <2>10. QED
    BY <2>4, <2>7, <2>8, <2>9
<1>3. QED
  BY <1>1, <1>2

LEMMA MountFollow ==
    ASSUME Inv, FollowOK, Mount \/ Unmount, mounts' <= 1
    PROVE  FollowOK'
<1> USE DEF FollowOK, ctrlVars, bootVars, busVars
<1>1. UNCHANGED <<rec, pc, finish, homed, commands, boot>>
  BY DEF Mount, Unmount
<1>2. EndingOK' /\ QueueOK' /\ NoneEnding' = NoneEnding
  BY <1>1 DEF EndingOK, QueueOK, NoneEnding, About
<1>3. /\ bus' = <<>> /\ Len(bus') = 0 /\ cal' = NoValue
  BY EmptySeq DEF Mount, Unmount, Inv, CardOK
<1>4. SeenOK'
  BY <1>3 DEF SeenOK
<1>5. CASE Mount
  <2>1. mounts = 0 /\ mounts' = 1
    BY <1>5 DEF Mount, Inv, CardOK
  <2>2. rec' = None /\ NoneEnding'
    BY <1>1, <1>2, <2>1 DEF BeforeOK
  <2>3. UnseenOK' /\ BeforeOK'
    BY <1>3, <2>1, <2>2 DEF UnseenOK, BeforeOK
  <2>4. QED
    BY <1>2, <1>4, <2>3
<1>6. CASE Unmount
  <2>1. mounted' = FALSE /\ UNCHANGED mounts
    BY <1>6 DEF Unmount
  <2>2. UnseenOK' /\ BeforeOK'
    BY <1>1, <1>2, <2>1 DEF UnseenOK, BeforeOK
  <2>3. QED
    BY <1>2, <1>4, <2>2
<1>7. QED
  BY <1>5, <1>6

LEMMA PressFollow ==
    ASSUME Inv, FollowOK, NEW case \in Button, Press(case),
           case = "runCalibration" => ~Recording /\ ~StartQueued,
           case \in {"finishCalibration", "abort"} => Recording,
           case = "finishCalibration" => HomeSet
    PROVE  FollowOK'
<1> USE DEF FollowOK, ctrlVars, bootVars, cardVars, busVars
<1> DEFINE c == [case |-> case, of |-> IF cal = NoValue THEN None ELSE cal.of]
<1>1. UNCHANGED <<rec, pc, finish, homed, boot, cal, bus, mounted, mounts>>
  BY DEF Press
<1>2. c.case = case /\ (cal # NoValue => c.of = cal.of) /\ c \in PanelCommand
  BY DEF Inv, CardOK, PanelCommand, PanelMessage
<1>3. mounted /\ commands' = Append(commands, c)
  BY DEF Press
<1> HIDE DEF c
<1>4. /\ commands \in Seq(PanelCommand) /\ Len(commands) \in Nat
      /\ Len(commands') = Len(commands) + 1
      /\ commands'[Len(commands) + 1] = c /\ commands' # <<>>
      /\ \A i \in 1 .. Len(commands) : commands'[i] = commands[i]
  <2>1. commands \in Seq(PanelCommand)
    BY DEF Inv, CommandsOK
  <2>2. QED
    BY <1>2, <1>3, <2>1, AppendProperties, LenProperties
<1>5. \A i \in 1 .. Len(commands') :
          i \in 1 .. Len(commands) \/ i = Len(commands) + 1
  BY <1>4
<1>6. /\ EndingOK' /\ NoneEnding' = NoneEnding /\ Recording' = Recording
      /\ \A t, home : About(t, home)' <=> About(t, home)
  BY <1>1 DEF EndingOK, NoneEnding, Recording, About
<1>7. StartQueued' <=> StartQueued \/ Starts(c)
  BY <1>4, <1>5 DEF StartQueued
<1>8. CASE Starts(c)
  <2>1. ~Recording /\ ~StartQueued /\ ~Signals(c)
    BY <1>2, <1>8 DEF Starts, Signals
  <2>2. /\ NoneEnding
        /\ rec # None =>
               /\ finish[rec] = "empty"
               /\ \A i \in 1 .. Len(commands) : ~Signals(commands[i])
        /\ rec = None => \A i \in 1 .. Len(bus) : ~Records(bus[i])
    BY <1>3, <2>1 DEF UnseenOK
  <2>3. QueueOK'
    <3>1. ASSUME NEW i \in 1 .. Len(commands'), Signals(commands'[i])
          PROVE  About(commands'[i].of, commands'[i].case = "finishCalibration")
      <4>1. i \in 1 .. Len(commands) /\ commands'[i] = commands[i]
        BY <1>4, <1>5, <2>1, <3>1
      <4>2. QED
        BY <3>1, <4>1 DEF QueueOK
    <3>2. ASSUME NEW j \in 1 .. Len(commands'), Starts(commands'[j])
          PROVE  j = Len(commands) + 1
      BY <1>4, <1>5, <2>1, <3>2 DEF StartQueued
    <3>3. \A i \in 1 .. Len(commands') :
              rec # None => ~Signals(commands'[i])
      BY <1>4, <1>5, <2>1, <2>2
    <3>4. QED
      BY <1>1, <1>4, <1>6, <2>1, <2>2, <3>1, <3>2, <3>3 DEF QueueOK
  <2>4. SeenOK'
    <3>1. cal' # NoValue => Shown(cal)'
      BY <1>1, <2>1 DEF Recording, Shown, Records
    <3>2. ASSUME NEW i \in 1 .. Len(bus') PROVE Place(i)'
      BY <1>1, <1>6, <2>1, <2>2 DEF SeenOK, Place, Shown, About
    <3>3. QED
      BY <3>1, <3>2 DEF SeenOK
  <2>5. UnseenOK'
    BY <1>1, <1>4, <1>5, <1>6, <2>1, <2>2 DEF UnseenOK
  <2>6. BeforeOK'
    BY <1>1, <1>3, <1>6 DEF BeforeOK
  <2>7. QED
    BY <1>6, <2>3, <2>4, <2>5, <2>6
<1>9. CASE ~Starts(c)
  <2>1. StartQueued' <=> StartQueued
    BY <1>7, <1>9
  <2>2. Signals(c) =>
            /\ Recording /\ c.of = cal.of
            /\ About(c.of, c.case = "finishCalibration")
            /\ StartQueued => rec # None
    BY <1>2 DEF Signals, Recording, HomeSet, SeenOK, Shown, About, Records
  <2>3. QueueOK'
    <3>1. ASSUME NEW i \in 1 .. Len(commands'), Signals(commands'[i])
          PROVE  About(commands'[i].of, commands'[i].case = "finishCalibration")
      <4>1. CASE i \in 1 .. Len(commands)
        BY <1>4, <3>1, <4>1 DEF QueueOK
      <4>2. CASE i = Len(commands) + 1
        BY <1>4, <2>2, <3>1, <4>2
      <4>3. QED
        BY <1>5, <4>1, <4>2
    <3>2. ASSUME NEW j \in 1 .. Len(commands'), Starts(commands'[j])
          PROVE  /\ NoneEnding
                 /\ \A i \in 1 .. Len(commands') : Starts(commands'[i]) => i = j
                 /\ rec # None =>
                        /\ finish[rec] = "empty"
                        /\ \A i \in 1 .. j : ~Signals(commands'[i])
                 /\ rec = None =>
                        \A i \in j .. Len(commands') : ~Signals(commands'[i])
      <4>1. j \in 1 .. Len(commands) /\ commands'[j] = commands[j] /\ StartQueued
        BY <1>4, <1>5, <1>9, <3>2 DEF StartQueued
      <4>2. \A i \in 1 .. Len(commands') : Starts(commands'[i]) => i = j
        BY <1>4, <1>5, <1>9, <3>2, <4>1 DEF QueueOK
      <4>3. /\ NoneEnding
            /\ rec # None =>
                   /\ finish[rec] = "empty"
                   /\ \A i \in 1 .. j : ~Signals(commands'[i])
        BY <1>4, <3>2, <4>1 DEF QueueOK
      <4>4. ASSUME rec = None, NEW i \in j .. Len(commands')
            PROVE  ~Signals(commands'[i])
        <5>1. i \in 1 .. Len(commands')
          BY <4>1
        <5>2. ~Signals(c)
          BY <2>2, <4>1, <4>4
        <5>3. CASE i \in j .. Len(commands)
          BY <1>4, <3>2, <4>1, <4>4, <5>3 DEF QueueOK
        <5>4. CASE i = Len(commands) + 1
          BY <1>4, <5>2, <5>4
        <5>5. QED
          BY <1>4, <1>5, <5>1, <5>3, <5>4
      <4>5. QED
        BY <4>2, <4>3, <4>4
    <3>3. QED
      BY <1>1, <1>6, <3>1, <3>2 DEF QueueOK
  <2>4. SeenOK'
    <3>1. cal' # NoValue => Shown(cal)'
      BY <1>1, <2>1 DEF SeenOK, Shown, About
    <3>2. ASSUME NEW i \in 1 .. Len(bus') PROVE Place(i)'
      BY <1>1, <1>6, <2>1 DEF SeenOK, Place, Shown, About
    <3>3. QED
      BY <3>1, <3>2 DEF SeenOK
  <2>5. UnseenOK'
    BY <1>1, <1>4, <1>5, <1>6, <2>2 DEF UnseenOK
  <2>6. BeforeOK'
    BY <1>1, <1>3, <1>6 DEF BeforeOK
  <2>7. QED
    BY <1>6, <2>3, <2>4, <2>5, <2>6
<1>10. QED
  BY <1>8, <1>9

LEMMA DeliverFollow ==
    ASSUME Inv, FollowOK, Deliver
    PROVE  FollowOK'
<1> USE DEF FollowOK, ctrlVars, bootVars
<1>1. /\ UNCHANGED <<rec, pc, finish, homed, commands, boot, mounted, mounts>>
      /\ bus # <<>>
  BY DEF Deliver
<1>2. /\ EndingOK' /\ QueueOK' /\ NoneEnding' = NoneEnding
      /\ StartQueued' = StartQueued /\ \A m : Shown(m) => Shown(m)'
  BY <1>1, SteadyFrame DEF Steady
<1>3. bus \in Seq(PanelMessage) /\ Len(bus) \in Nat /\ Len(bus) # 0
  BY <1>1, LenProperties, EmptySeq DEF Inv, CardOK
<1>4. /\ cal' = bus[1] /\ cal' \in PanelMessage /\ Len(bus') = Len(bus) - 1
      /\ \A i \in 1 .. Len(bus') : bus'[i] = bus[i + 1]
  BY <1>1, <1>3, HeadTailProperties DEF Deliver
<1>5. cal' # NoValue
  BY <1>4, Bounds
<1>6. 1 \in 1 .. Len(bus) /\ \A i \in 1 .. Len(bus') : i + 1 \in 1 .. Len(bus)
  BY <1>3, <1>4
<1>7. \A i \in 1 .. Len(bus) : Place(i)
  BY DEF SeenOK
<1>8. bus[1].state.phase \in {"idle", "recording", "done", "aborted"}
  BY <1>4 DEF PanelMessage, CalibrationState, Phase
<1>9. Shown(cal)'
  BY <1>2, <1>4, <1>6, <1>7 DEF Place, Shown, About
<1>10. \A i \in 1 .. Len(bus') : Shown(bus[i])'
  BY <1>2, <1>4, <1>6, <1>7 DEF Place, Shown, About
<1>11. \A i \in 1 .. Len(bus') : bus'[i].state.phase # "idle"
  BY <1>3, <1>4, <1>6, <1>7 DEF Place
<1>12. Recording' <=> bus[1].state.phase = "recording"
  BY <1>4, <1>5 DEF Recording
<1>13. CASE bus[1].state.phase = "recording"
  <2>1. ASSUME NEW i \in 1 .. Len(bus') PROVE Place(i)'
    <3>1. ASSUME bus'[i].state.phase \in {"done", "aborted"}
          PROVE  /\ i = Len(bus') /\ rec' = None /\ NoneEnding' /\ ~StartQueued'
      <4>1. /\ i + 1 = Len(bus)
            /\ rec = None /\ NoneEnding /\ ~StartQueued
        BY <1>4, <1>6, <1>7, <3>1 DEF Place
      <4>2. QED
        BY <1>1, <1>2, <1>3, <1>4, <4>1
    <3>2. QED
      BY <1>10, <1>11, <1>12, <1>13, <3>1 DEF Place
  <2>2. SeenOK'
    BY <1>9, <2>1 DEF SeenOK
  <2>3. UnseenOK'
    BY <1>12, <1>13 DEF UnseenOK
  <2>4. BeforeOK'
    BY <1>1, <1>2 DEF BeforeOK
  <2>5. QED
    BY <1>2, <2>2, <2>3, <2>4
<1>14. CASE bus[1].state.phase \in {"done", "aborted"}
  <2>1. Len(bus) = 1 /\ rec = None /\ NoneEnding /\ ~StartQueued
    BY <1>6, <1>7, <1>14 DEF Place
  <2>2. Len(bus') = 0
    BY <1>4, <2>1
  <2>3. SeenOK'
    BY <1>9, <2>2 DEF SeenOK
  <2>4. UnseenOK'
    BY <1>1, <1>2, <2>1, <2>2 DEF UnseenOK
  <2>5. BeforeOK'
    BY <1>1, <1>2 DEF BeforeOK
  <2>6. QED
    BY <1>2, <2>3, <2>4, <2>5
<1>15. CASE bus[1].state.phase = "idle"
  <2>1. cal = NoValue /\ ~Recording
    BY <1>6, <1>7, <1>15 DEF Place, Recording
  <2>2. \A i \in 1 .. Len(bus') : bus'[i].state.phase \notin {"done", "aborted"}
    BY <1>4, <1>6, <1>7, <2>1 DEF Place
  <2>3. SeenOK'
    <3>1. \A i \in 1 .. Len(bus') : Place(i)'
      BY <1>10, <1>11, <2>2 DEF Place
    <3>2. QED
      BY <1>9, <3>1 DEF SeenOK
  <2>4. UnseenOK'
    <3>1. mounted /\ ~Recording
      BY <1>1, <1>3, EmptySeq, <2>1 DEF Inv, CardOK
    <3>2. rec = None => \A i \in 1 .. Len(bus') : ~Records(bus'[i])
      BY <1>4, <1>6, <3>1 DEF UnseenOK
    <3>3. QED
      BY <1>1, <1>2, <3>1, <3>2 DEF UnseenOK
  <2>5. BeforeOK'
    BY <1>1, <1>2 DEF BeforeOK
  <2>6. QED
    BY <1>2, <2>3, <2>4, <2>5
<1>16. QED
  BY <1>8, <1>13, <1>14, <1>15

\* The handler takes a command; the boot is over, or the step is not orderly.
LEMMA TakeFollow ==
    ASSUME Inv, FollowOK, Take, ~early'
    PROVE  FollowOK'
<1> USE DEF FollowOK
<1>1. /\ starting = None /\ UNCHANGED <<boot, cal, mounted, mounts, bus>>
      /\ commands # <<>> /\ ~boot /\ Handle(Head(commands))
  BY DEF Take, cardVars, busVars
<1>2. commands \in Seq(PanelCommand) /\ Len(commands) \in Nat /\ Len(commands) # 0
  BY <1>1, LenProperties, EmptySeq DEF Inv, CommandsOK
<1>3. /\ Len(commands') = Len(commands) - 1 /\ Head(commands) = commands[1]
      /\ \A i \in 1 .. Len(commands') : commands'[i] = commands[i + 1]
  BY <1>1, <1>2, HeadTailProperties DEF Take
<1>4. 1 \in 1 .. Len(commands)
      /\ \A i \in 1 .. Len(commands') : i + 1 \in 1 .. Len(commands)
  BY <1>2, <1>3
<1>5. StartQueued' => StartQueued
  BY <1>3, <1>4 DEF StartQueued
<1>6. Recording' = Recording /\ (rec # None => rec \in Sessions)
  BY <1>1 DEF Recording, Inv, CtrlOK
<1>7. CASE Starts(commands[1])
  <2>1. Start /\ StartQueued
    BY <1>1, <1>3, <1>4, <1>7 DEF Handle, Starts, StartQueued
  <2>2. /\ NoneEnding /\ ~StartQueued'
        /\ rec # None => finish[rec] = "empty"
        /\ rec = None => \A i \in 1 .. Len(commands') : ~Signals(commands'[i])
    <3>1. NoneEnding /\ (rec # None => finish[rec] = "empty")
      BY <1>4, <1>7 DEF QueueOK
    <3>2. ~StartQueued'
      <4>1. ASSUME NEW i \in 1 .. Len(commands'), Starts(commands'[i])
            PROVE  FALSE
        <5>1. i + 1 \in 1 .. Len(commands) /\ Starts(commands[i + 1])
          BY <1>3, <1>4, <4>1
        <5>2. i + 1 = 1
          BY <1>4, <1>7, <5>1 DEF QueueOK
        <5>3. QED
          BY <5>2
      <4>2. QED
        BY <4>1 DEF StartQueued
    <3>3. rec = None => \A i \in 1 .. Len(commands') : ~Signals(commands'[i])
      BY <1>3, <1>4, <1>7 DEF QueueOK
    <3>4. QED
      BY <3>1, <3>2, <3>3
  <2>3. CASE rec # None
    <3>1. UNCHANGED <<rec, pc, finish, homed>>
      BY <2>1, <2>3 DEF Start, ctrlVars
    <3>2. EndingOK' /\ NoneEnding' = NoneEnding
      BY <3>1 DEF EndingOK, NoneEnding
    <3>3. QueueOK'
      <4>1. \A i \in 1 .. Len(commands') : ~Starts(commands'[i])
        BY <2>2 DEF StartQueued
      <4>2. \A i \in 1 .. Len(commands') :
                Signals(commands'[i]) =>
                    About(commands'[i].of,
                          commands'[i].case = "finishCalibration")
        BY <1>3, <1>4 DEF QueueOK
      <4>3. QED
        BY <3>1, <4>1, <4>2 DEF QueueOK, About
    <3>4. SeenOK'
      <4>1. cal' # NoValue => Shown(cal)'
        BY <1>1, <2>2, <3>1 DEF SeenOK, Shown, About
      <4>2. ASSUME NEW i \in 1 .. Len(bus') PROVE Place(i)'
        BY <1>1, <1>6, <2>2, <3>1, <3>2 DEF SeenOK, Place, Shown, About
      <4>3. QED
        BY <4>1, <4>2 DEF SeenOK
    <3>5. UnseenOK'
      BY <1>1, <1>3, <1>4, <1>6, <3>1, <3>2 DEF UnseenOK
    <3>6. BeforeOK'
      BY <1>1, <1>2, <3>1, <3>2, EmptySeq DEF BeforeOK
    <3>7. QED
      BY <3>2, <3>3, <3>4, <3>5, <3>6
  <2>4. CASE rec = None
    <3>1. PICK s \in Sessions :
              pc[s] = "new" /\ rec' = s /\ pc' = [pc EXCEPT ![s] = "starting"]
      BY <2>1, <2>4 DEF Start
    <3>2. UNCHANGED <<finish, homed>>
      BY <2>1, <2>4 DEF Start
    <3>3. /\ \A t \in Sessions : pc'[t] = IF t = s THEN "starting" ELSE pc[t]
          /\ finish'[s] = "empty" /\ rec' # None
      BY <3>1, <3>2, Bounds DEF Inv, CtrlOK, EndingOK
    <3>4. NoneEnding' /\ EndingOK'
      BY <2>2, <3>2, <3>3 DEF NoneEnding, EndingOK
    <3>5. QueueOK'
      BY <2>2, <2>4 DEF QueueOK, StartQueued
    <3>6. SeenOK'
      <4>1. cal' # NoValue => Shown(cal)'
        BY <1>1, <2>1, <2>4 DEF SeenOK, Shown
      <4>2. ASSUME NEW i \in 1 .. Len(bus') PROVE Place(i)'
        BY <1>1, <2>1, <2>4 DEF SeenOK, Place, Shown
      <4>3. QED
        BY <4>1, <4>2 DEF SeenOK
    <3>7. UnseenOK'
      BY <2>2, <2>4, <3>1, <3>3, <3>4 DEF UnseenOK
    <3>8. BeforeOK'
      BY <1>1, <1>2, EmptySeq DEF BeforeOK
    <3>9. QED
      BY <3>4, <3>5, <3>6, <3>7, <3>8
  <2>5. QED
    BY <2>3, <2>4
<1>8. CASE ~Starts(commands[1])
  <2>1. UNCHANGED <<rec, pc, homed>>
    BY <1>1, <1>3, <1>8 DEF Handle, Starts, Home, Signal
  <2>2. \A t \in Sessions :
            t # rec \/ ~Signals(commands[1]) => finish'[t] = finish[t]
    BY <1>1, <1>3, <1>8 DEF Handle, Starts, Signals, Home, Signal
  <2>3. EndingOK' /\ NoneEnding' = NoneEnding
    <3>1. \A t \in Sessions : pc[t] = "new" => t # rec
      BY DEF Inv, LiveOK
    <3>2. QED
      BY <2>1, <2>2, <3>1 DEF EndingOK, NoneEnding
  <2>4. QueueOK'
    <3>1. \A i \in 1 .. Len(commands') :
              Signals(commands'[i]) =>
                  About(commands'[i].of,
                        commands'[i].case = "finishCalibration")
      BY <1>3, <1>4 DEF QueueOK
    <3>2. ASSUME NEW j \in 1 .. Len(commands'), Starts(commands'[j])
          PROVE  /\ NoneEnding
                 /\ \A i \in 1 .. Len(commands') : Starts(commands'[i]) => i = j
                 /\ rec # None =>
                        /\ finish'[rec] = "empty"
                        /\ \A i \in 1 .. j : ~Signals(commands'[i])
                 /\ rec = None =>
                        \A i \in j .. Len(commands') : ~Signals(commands'[i])
      <4>1. j + 1 \in 1 .. Len(commands) /\ Starts(commands[j + 1])
        BY <1>3, <1>4, <3>2
      <4>2. NoneEnding
        BY <4>1 DEF QueueOK
      <4>3. ASSUME NEW i \in 1 .. Len(commands'), Starts(commands'[i])
            PROVE  i = j
        <5>1. i + 1 \in 1 .. Len(commands) /\ Starts(commands[i + 1])
          BY <1>3, <1>4, <4>3
        <5>2. i + 1 = j + 1
          BY <4>1, <5>1 DEF QueueOK
        <5>3. QED
          BY <5>2
      <4>4. ASSUME rec # None
            PROVE  /\ finish'[rec] = "empty"
                   /\ \A i \in 1 .. j : ~Signals(commands'[i])
        <5>1. /\ finish[rec] = "empty"
              /\ \A i \in 1 .. j + 1 : ~Signals(commands[i])
          BY <4>1, <4>4 DEF QueueOK
        <5>2. ~Signals(commands[1])
          BY <4>1, <5>1
        <5>3. ASSUME NEW i \in 1 .. j PROVE ~Signals(commands'[i])
          <6>1. i \in 1 .. Len(commands') /\ i + 1 \in 1 .. j + 1
            BY <1>2, <1>3
          <6>2. QED
            BY <1>3, <5>1, <6>1
        <5>4. QED
          BY <1>6, <2>2, <4>4, <5>1, <5>2, <5>3
      <4>5. ASSUME rec = None, NEW i \in j .. Len(commands')
            PROVE  ~Signals(commands'[i])
        <5>1. i \in 1 .. Len(commands') /\ i + 1 \in j + 1 .. Len(commands)
          BY <1>2, <1>3
        <5>2. QED
          BY <1>3, <4>1, <4>5, <5>1 DEF QueueOK
      <4>6. QED
        BY <4>2, <4>3, <4>4, <4>5
    <3>3. QED
      BY <2>1, <2>3, <3>1, <3>2 DEF QueueOK, About
  <2>5. SeenOK'
    <3>1. cal' # NoValue => Shown(cal)'
      BY <1>1, <1>5, <2>1 DEF SeenOK, Shown, About
    <3>2. ASSUME NEW i \in 1 .. Len(bus') PROVE Place(i)'
      BY <1>1, <1>5, <1>6, <2>1, <2>3 DEF SeenOK, Place, Shown, About
    <3>3. QED
      BY <3>1, <3>2 DEF SeenOK
  <2>6. UnseenOK'
    <3>1. ASSUME mounted, ~Recording, rec # None
          PROVE  /\ finish'[rec] = "empty"
                 /\ \A i \in 1 .. Len(commands') : ~Signals(commands'[i])
      <4>1. /\ finish[rec] = "empty"
            /\ \A i \in 1 .. Len(commands) : ~Signals(commands[i])
        BY <3>1 DEF UnseenOK
      <4>2. QED
        BY <1>3, <1>4, <1>6, <2>2, <3>1, <4>1
    <3>2. QED
      BY <1>1, <1>6, <2>1, <2>3, <3>1 DEF UnseenOK
  <2>7. BeforeOK'
    BY <1>1, <1>2, EmptySeq DEF BeforeOK
  <2>8. QED
    BY <2>3, <2>4, <2>5, <2>6, <2>7
<1>9. QED
  BY <1>7, <1>8

\* A session that takes its signal was shown, and no start is on its way.
LEMMA TakeFinishFollow ==
    ASSUME Inv, FollowOK, NEW s \in Sessions, TakeFinish(s)
    PROVE  FollowOK'
<1> USE DEF FollowOK
<1>1. /\ pc[s] = "record" /\ finish[s] # "empty" /\ rec' = None
      /\ \A t \in Sessions : pc'[t] = IF t = s THEN "ending" ELSE pc[t]
      /\ UNCHANGED <<finish, homed, commands, boot, cal, mounted, mounts, bus>>
  BY DEF TakeFinish, Inv, CtrlOK, bootVars, cardVars, busVars
<1>2. rec = s /\ rec # None
  BY <1>1, Bounds DEF Inv, LiveOK
<1>3. ~StartQueued /\ ~StartQueued'
  BY <1>1, <1>2 DEF QueueOK, StartQueued
<1>4. mounted => Recording
  BY <1>1, <1>2 DEF UnseenOK
<1>5. Recording' = Recording
  BY <1>1 DEF Recording
<1>6. EndingOK'
  BY <1>1, <1>2 DEF EndingOK
<1>7. QueueOK'
  BY <1>1, <1>3 DEF QueueOK, StartQueued, About
<1>8. SeenOK'
  <2>1. cal' # NoValue => Shown(cal)'
    BY <1>1, <1>3 DEF Shown, About
  <2>2. ASSUME NEW i \in 1 .. Len(bus') PROVE Place(i)'
    BY <1>1, <1>2, <1>3 DEF SeenOK, Place, Shown, About
  <2>3. QED
    BY <2>1, <2>2 DEF SeenOK
<1>9. UnseenOK'
  BY <1>1, <1>4, <1>5 DEF UnseenOK
<1>10. BeforeOK'
  BY <1>1, <1>2 DEF BeforeOK
<1>11. QED
  BY <1>6, <1>7, <1>8, <1>9, <1>10

\* Its end is the last message, and the card shows the session until it comes.
LEMMA EndFollow ==
    ASSUME Inv, FollowOK, NEW s \in Sessions, End(s)
    PROVE  FollowOK'
<1> USE DEF FollowOK
<1>1. /\ pc[s] = "ending"
      /\ \A t \in Sessions : pc'[t] = IF t = s THEN "dead" ELSE pc[t]
      /\ \A t \in Sessions : t # s => finish'[t] = finish[t]
      /\ UNCHANGED <<rec, commands, boot, cal, mounted, mounts>>
  BY DEF End, Inv, CtrlOK, bootVars, cardVars
<1>2. rec = None /\ \A t \in Sessions : pc[t] = "ending" => t = s
  BY <1>1 DEF EndingOK
<1>3. NoneEnding' /\ EndingOK'
  BY <1>1, <1>2 DEF NoneEnding, EndingOK
<1>4. ~NoneEnding /\ ~StartQueued /\ ~StartQueued'
  BY <1>1 DEF NoneEnding, StartQueued, QueueOK
<1>5. QueueOK'
  BY <1>1, <1>2, <1>4 DEF QueueOK, StartQueued, About
<1>6. Recording' = Recording
  BY <1>1 DEF Recording
<1>7. mounted => Recording
  BY <1>4 DEF UnseenOK
<1>8. \A n : Shown(n)'
  BY <1>1, <1>2, <1>4 DEF Shown, About
<1>9. SeenOK'
  <2>1. PICK phase \in {"done", "aborted"} : Publish(phase, s, homed[s])
    BY DEF End
  <2> DEFINE m == [state |-> [phase |-> phase, homeSet |-> homed[s]], of |-> s]
  <2>2. CASE UNCHANGED bus
    <3>1. ASSUME NEW i \in 1 .. Len(bus') PROVE Place(i)'
      BY <1>1, <1>2, <1>3, <1>4, <1>6, <1>8, <2>2
         DEF SeenOK, Place, Shown, About
    <3>2. QED
      BY <1>8, <3>1 DEF SeenOK, Shown, About
  <2>3. CASE bus' = Append(bus, m) /\ mounted
    <3>1. m.state.phase = phase /\ m \in PanelMessage
      BY DEF m, PanelMessage, CalibrationState, Phase, Inv, CtrlOK
    <3> HIDE DEF m
    <3>2. /\ Len(bus) \in Nat /\ Len(bus') = Len(bus) + 1
          /\ bus'[Len(bus) + 1] = m
          /\ \A i \in 1 .. Len(bus) : bus'[i] = bus[i]
      <4>1. bus \in Seq(PanelMessage)
        BY DEF Inv, CardOK
      <4>2. QED
        BY <2>3, <3>1, <4>1, AppendProperties, LenProperties
    <3>3. ASSUME NEW i \in 1 .. Len(bus') PROVE Place(i)'
      <4>1. i \in 1 .. Len(bus) \/ i = Len(bus) + 1
        BY <3>2
      <4>2. Shown(bus[i])'
        BY <1>8 DEF Shown, About
      <4>3. CASE i \in 1 .. Len(bus)
        BY <1>1, <1>4, <3>2, <4>2, <4>3 DEF SeenOK, Place
      <4>4. CASE i = Len(bus) + 1
        BY <1>1, <1>2, <1>3, <1>4, <1>6, <1>7, <2>3, <3>1, <3>2, <4>2, <4>4
           DEF Place
      <4>5. QED
        BY <4>1, <4>3, <4>4
    <3>4. QED
      BY <1>8, <3>3 DEF SeenOK, Shown, About
  <2>4. QED
    BY <2>1, <2>2, <2>3 DEF Publish, busVars
<1>10. UnseenOK'
  BY <1>1, <1>6, <1>7 DEF UnseenOK
<1>11. BeforeOK'
  BY <1>1, <1>2, <1>4 DEF BeforeOK
<1>12. QED
  BY <1>3, <1>5, <1>9, <1>10, <1>11

\* The boot's message is the first that the open card gets.
LEMMA BootFollow ==
    ASSUME Inv, FollowOK, BootPublish \/ BootLoadFails
    PROVE  FollowOK'
<1> USE DEF FollowOK
<1> DEFINE m == [state |-> [phase |-> "idle", homeSet |-> FALSE], of |-> None]
<1>1. /\ Steady /\ boot /\ ~boot'
      /\ UNCHANGED <<rec, pc, finish, homed, commands, cal, mounted, mounts>>
  BY DEF BootPublish, BootLoadFails, Steady, ctrlVars, cardVars
<1>2. CASE UNCHANGED bus
  BY <1>1, <1>2, SteadyFollow DEF cardVars
<1>3. CASE bus' = Append(bus, m) /\ mounted
  <2>1. m.state.phase = "idle" /\ m \in PanelMessage
    BY DEF PanelMessage, CalibrationState, Phase
  <2> HIDE DEF m
  <2>2. cal = NoValue /\ bus = <<>> /\ rec = None /\ NoneEnding
    BY <1>1, <1>3 DEF BeforeOK
  <2>3. Len(bus') = 1 /\ bus'[1] = m
    BY <1>3, <2>1, <2>2, AppendProperties, EmptySeq
  <2>4. /\ EndingOK' /\ QueueOK'
        /\ StartQueued' = StartQueued /\ NoneEnding' = NoneEnding
    BY <1>1, SteadyFrame
  <2>5. ASSUME NEW i \in 1 .. Len(bus')
        PROVE  Place(i)' /\ ~Records(bus'[i])
    <3>1. i = 1
      BY <2>3
    <3>2. QED
      BY <1>1, <2>1, <2>2, <2>3, <3>1 DEF Place, Shown, Records
  <2>6. SeenOK' /\ UnseenOK'
    BY <1>1, <2>2, <2>4, <2>5 DEF SeenOK, UnseenOK
  <2>7. BeforeOK'
    BY <1>1, <2>4 DEF BeforeOK
  <2>8. QED
    BY <2>4, <2>6, <2>7
<1>4. QED
  BY <1>2, <1>3 DEF BootPublish, BootLoadFails, Publish, busVars

\* The module restarts while no card is open.
LEMMA CrashFollow ==
    ASSUME Inv, FollowOK, Crash, ~early'
    PROVE  FollowOK'
<1>1. /\ ~mounted /\ rec' = None /\ commands' = <<>> /\ Len(commands') = 0
      /\ \A s \in Sessions : pc'[s] # "ending" /\ finish'[s] = "empty"
      /\ UNCHANGED <<mounted, mounts, cal, bus>>
  BY EmptySeq DEF Crash, cardVars, busVars
<1>2. bus' = <<>> /\ Len(bus') = 0 /\ cal' = NoValue
  BY <1>1, EmptySeq DEF Inv, CardOK
<1>3. EndingOK' /\ QueueOK' /\ SeenOK' /\ NoneEnding'
  BY <1>1, <1>2 DEF EndingOK, QueueOK, SeenOK, NoneEnding
<1>4. UnseenOK' /\ BeforeOK'
  BY <1>1, <1>3 DEF UnseenOK, BeforeOK
<1>5. QED
  BY <1>3, <1>4 DEF FollowOK

LEMMA FollowNext == Inv /\ Follow /\ [Next]_vars => Follow'
<1> SUFFICES ASSUME Inv, Follow, [Next]_vars, Orderly' PROVE FollowOK'
  BY DEF Follow
<1>1. Orderly /\ (Take \/ Crash => ~early')
  <2>1. mounts' = mounts \/ mounts' = mounts + 1
    <3>1. ASSUME NEW s \in Sessions, Session(s) PROVE mounts' = mounts
      BY <3>1 DEF Session, First, Republish, TakeHome, TakeFinish, End, cardVars
    <3>2. QED
      BY <3>1 DEF Next, Operator, Mount, Unmount, Deliver, PressStart,
             PressHome, PressDone, PressAbort, Press, Take, StartRest,
             TorqueOff, TorqueOn, BootPublish, BootLoadFails, Crash,
             cardVars, vars
  <2>2. early => early'
    BY DEF Next, Operator, Mount, Unmount, Deliver, PressStart,
           PressHome, PressDone, PressAbort, Press, Take, StartRest, TorqueOff,
           TorqueOn, Session, First, Republish, TakeHome, TakeFinish, End,
           BootPublish, BootLoadFails, Crash, bootVars, vars
  <2>3. mounts \in Nat /\ mounts' \in Nat
    BY InvNext DEF Inv, CardOK
  <2>4. QED
    BY <2>1, <2>2, <2>3 DEF Orderly
<1>2. FollowOK
  BY <1>1 DEF Follow
<1>3. CASE Mount \/ Unmount
  BY <1>2, <1>3, MountFollow DEF Orderly
<1>4. CASE PressStart \/ PressHome \/ PressDone \/ PressAbort
  BY <1>2, <1>4, PressFollow
     DEF PressStart, PressHome, PressDone, PressAbort, Button, StartQueued, Starts
<1>5. CASE Deliver
  BY <1>2, <1>5, DeliverFollow
<1>6. CASE Take
  BY <1>1, <1>2, <1>6, TakeFollow
<1>7. CASE StartRest \/ TorqueOff \/ TorqueOn
  <2>1. Steady /\ UNCHANGED <<commands, cardVars, bus, boot>>
    BY <1>7 DEF StartRest, TorqueOff, TorqueOn, Steady, Inv, CtrlOK, LiveOK,
                bootVars, cardVars, busVars
  <2>2. QED
    BY <1>2, <2>1, SteadyFollow
<1>8. ASSUME NEW s \in Sessions, Session(s) PROVE FollowOK'
  <2>1. CASE First(s) \/ Republish(s) \/ TakeHome(s)
    <3>1. Steady /\ UNCHANGED <<commands, cardVars, boot>>
      BY <2>1 DEF First, Republish, TakeHome, Steady, Inv, CtrlOK, ctrlVars,
                  bootVars
    <3>2. rec = s /\ homed'[s] \in BOOLEAN
      BY <2>1, InvNext DEF First, Republish, TakeHome, Inv, CtrlOK, LiveOK
    <3>3. Publish("recording", s, homed'[s])
      BY <2>1 DEF First, Republish, TakeHome, ctrlVars
    <3>4. QED
      BY <1>2, <3>1, <3>2, <3>3, RecordingFollow
  <2>2. CASE TakeFinish(s)
    BY <1>2, <2>2, TakeFinishFollow
  <2>3. CASE End(s)
    BY <1>2, <2>3, EndFollow
  <2>4. QED
    BY <1>8, <2>1, <2>2, <2>3 DEF Session
<1>9. CASE BootPublish \/ BootLoadFails
  BY <1>2, <1>9, BootFollow
<1>10. CASE Crash
  BY <1>1, <1>2, <1>10, CrashFollow
<1>11. CASE UNCHANGED vars
  <2>1. Steady /\ UNCHANGED <<commands, cardVars, bus, boot>>
    BY <1>11 DEF vars, ctrlVars, bootVars, busVars, Steady
  <2>2. QED
    BY <1>2, <2>1, SteadyFollow
<1>12. QED
  BY <1>3, <1>4, <1>5, <1>6, <1>7, <1>8, <1>9, <1>10, <1>11 DEF Next, Operator

-----------------------------------------------------------------------------
(* The last word about a session.                                          *)

Audible(s) == pc[s] \in {"record", "ending"}

\* Nothing is published: what was to be heard still is.
LEMMA LastWordKept ==
    ASSUME Inv, LastWord, UNCHANGED <<cal, bus>>,
           boot => boot', missed => missed',
           boot' \/ missed' \/ \A s \in Sessions : Audible(s) => Audible(s)'
    PROVE  LastWord'
<1>1. LastState' = LastState
  BY DEF LastState
<1>2. LastState \in PanelMessage \cup {NoValue}
      /\ (LastState # NoValue => Told(LastState))
  <2>1. CASE bus = <<>>
    BY <2>1 DEF LastState, Inv, CardOK
  <2>2. CASE bus # <<>>
    <3>1. bus \in Seq(PanelMessage)
      BY DEF Inv, CardOK
    <3>2. Len(bus) \in 1 .. Len(bus) /\ bus[Len(bus)] \in PanelMessage
      BY <2>2, <3>1, LenProperties, EmptySeq, ElementOfSeq
    <3>3. QED
      BY <2>2, <3>2 DEF LastState, Inv, CardOK
  <2>3. QED
    BY <2>1, <2>2
<1>3. SUFFICES ASSUME LastState # NoValue, LastState.state.phase = "recording"
               PROVE  boot' \/ missed' \/ pc'[LastState.of] \in {"record", "ending"}
  BY <1>1 DEF LastWord
<1>4. LastState.of \in Sessions
  BY <1>2, <1>3 DEF Told
<1>5. QED
  BY <1>3, <1>4 DEF LastWord, Audible

\* A recording session or an end is published, or nobody listens.
LEMMA LastWordPublish ==
    ASSUME Inv, LastWord, UNCHANGED cardVars,
           NEW phase \in Phase, NEW s \in Sessions \cup {None},
           NEW home \in BOOLEAN, Publish(phase, s, home),
           phase = "recording" =>
               /\ pc'[s] \in {"record", "ending"} /\ UNCHANGED boot
               /\ \A t \in Sessions : Audible(t) => Audible(t)'
    PROVE  LastWord'
<1> USE DEF cardVars
<1> DEFINE m == [state |-> [phase |-> phase, homeSet |-> home], of |-> s]
<1>1. CASE bus' = Append(bus, m)
  <2>1. m.state.phase = phase /\ m.of = s /\ m \in PanelMessage
    BY DEF PanelMessage, CalibrationState
  <2> HIDE DEF m
  <2>2. bus \in Seq(PanelMessage)
    BY DEF Inv, CardOK
  <2>3. bus' # <<>> /\ bus'[Len(bus')] = m
    BY <1>1, <2>1, <2>2, AppendProperties, LenProperties, EmptySeq
  <2>4. LastState' = m
    BY <2>3 DEF LastState
  <2>5. QED
    BY <2>1, <2>4 DEF LastWord
<1>2. CASE UNCHANGED bus /\ missed' = (missed \/ phase # "recording") /\ mounted
  <2>1. CASE phase = "recording"
    <3>1. UNCHANGED <<cal, bus>> /\ boot' = boot
      BY <1>2, <2>1
    <3>2. missed => missed'
      BY <1>2
    <3>3. \A t \in Sessions : Audible(t) => Audible(t)'
      BY <2>1
    <3>4. QED
      BY <3>1, <3>2, <3>3, LastWordKept
  <2>2. CASE phase # "recording"
    BY <1>2, <2>2 DEF LastWord
  <2>3. QED
    BY <2>1, <2>2
<1>3. CASE UNCHANGED bus /\ ~mounted
  <2>1. bus' = <<>> /\ cal' = NoValue
    BY <1>3 DEF Inv, CardOK
  <2>2. QED
    BY <2>1 DEF LastWord, LastState
<1>4. QED
  BY <1>1, <1>2, <1>3 DEF Publish, busVars

LEMMA LastWordNext == Inv /\ LastWord /\ [Next]_vars => LastWord'
<1> SUFFICES ASSUME Inv, LastWord, [Next]_vars PROVE LastWord'
  OBVIOUS
<1> USE DEF ctrlVars, bootVars, cardVars, busVars
<1>1. CASE PressStart \/ PressHome \/ PressDone \/ PressAbort
  BY <1>1, LastWordKept DEF PressStart, PressHome, PressDone, PressAbort, Press,
                            Audible
<1>2. CASE Mount \/ TorqueOff \/ TorqueOn \/ UNCHANGED vars
  BY <1>2, LastWordKept DEF Mount, TorqueOff, TorqueOn, vars, Audible
<1>3. CASE Unmount
  BY <1>3 DEF Unmount, LastWord, LastState
<1>4. CASE Deliver
  <2>1. bus \in Seq(PanelMessage) /\ bus # <<>>
    BY <1>4 DEF Deliver, Inv, CardOK
  <2>2. /\ Len(bus) \in Nat /\ Len(bus) # 0 /\ cal' = bus[1]
        /\ bus' \in Seq(PanelMessage) /\ Len(bus') = Len(bus) - 1
        /\ \A i \in 1 .. Len(bus') : bus'[i] = bus[i + 1]
    BY <1>4, <2>1, HeadTailProperties, LenProperties, EmptySeq DEF Deliver
  <2>3. LastState' = LastState
    <3>1. CASE Len(bus) = 1
      BY <2>1, <2>2, <3>1, EmptySeq DEF LastState
    <3>2. CASE Len(bus) > 1
      <4>1. Len(bus') \in 1 .. Len(bus') /\ bus' # <<>>
        BY <2>2, <3>2, EmptySeq
      <4>2. bus'[Len(bus')] = bus[Len(bus)]
        BY <2>2, <4>1
      <4>3. QED
        BY <2>1, <4>1, <4>2 DEF LastState
    <3>3. QED
      BY <2>2, <3>1, <3>2
  <2>4. QED
    BY <1>4, <2>3 DEF Deliver, LastWord
<1>5. CASE Take
  <2>1. CtrlOK' /\ LiveOK' /\ Later /\ UNCHANGED <<cal, bus, boot, missed>>
    BY <1>5, HandleCtrl DEF Take
  <2>2. \A s \in Sessions : Audible(s) => Audible(s)'
    <3>1. Start \/ Home \/ Signal("save") \/ Signal("abort")
      BY <1>5 DEF Take, Handle
    <3>2. CASE Start
      BY <3>2 DEF Start, Audible, Inv, CtrlOK
    <3>3. CASE Home \/ Signal("save") \/ Signal("abort")
      BY <3>3 DEF Home, Signal, Audible
    <3>4. QED
      BY <3>1, <3>2, <3>3
  <2>3. QED
    BY <2>1, <2>2, LastWordKept
<1>6. CASE StartRest
  <2>1. \A s \in Sessions : Audible(s) => Audible(s)'
    BY <1>6 DEF StartRest, Audible, Inv, CtrlOK, LiveOK
  <2>2. QED
    BY <1>6, <2>1, LastWordKept DEF StartRest
<1>7. ASSUME NEW s \in Sessions, Session(s) PROVE LastWord'
  <2>1. homed[s] \in BOOLEAN /\ homed'[s] \in BOOLEAN
    BY InvNext DEF Inv, CtrlOK
  <2>2. CASE First(s) \/ Republish(s) \/ TakeHome(s)
    <3>1. /\ UNCHANGED <<boot, cardVars>> /\ pc'[s] = "record"
          /\ Publish("recording", s, homed'[s])
          /\ \A t \in Sessions : Audible(t) => Audible(t)'
      BY <2>2 DEF First, Republish, TakeHome, Audible, Inv, CtrlOK
    <3>2. QED
      BY <2>1, <3>1, LastWordPublish DEF Phase
  <2>3. CASE TakeFinish(s)
    <3>1. \A t \in Sessions : Audible(t) => Audible(t)'
      BY <2>3 DEF TakeFinish, Audible, Inv, CtrlOK
    <3>2. QED
      BY <2>3, <3>1, LastWordKept DEF TakeFinish
  <2>4. CASE End(s)
    <3>1. PICK phase \in {"done", "aborted"} : Publish(phase, s, homed[s])
      BY <2>4 DEF End
    <3>2. UNCHANGED cardVars /\ phase # "recording" /\ phase \in Phase
      BY <2>4 DEF End, Phase
    <3>3. QED
      BY <2>1, <3>1, <3>2, LastWordPublish
  <2>5. QED
    BY <1>7, <2>2, <2>3, <2>4 DEF Session
<1>8. CASE BootPublish
  <2>1. Publish("idle", None, FALSE) /\ UNCHANGED cardVars
    BY <1>8 DEF BootPublish
  <2>2. "idle" \in Phase /\ "idle" # "recording"
    BY DEF Phase
  <2>3. QED
    BY <2>1, <2>2, LastWordPublish
<1>9. CASE BootLoadFails
  <2>1. UNCHANGED <<cal, bus, mounted>> /\ missed' = (missed \/ mounted)
    BY <1>9 DEF BootLoadFails
  <2>2. ~mounted => LastState' = NoValue
    BY <2>1 DEF LastState, Inv, CardOK
  <2>3. mounted => missed'
    BY <2>1
  <2>4. QED
    BY <2>2, <2>3 DEF LastWord
<1>10. CASE Crash
  BY <1>10 DEF Crash, LastWord
<1>11. QED
  BY <1>1, <1>2, <1>3, <1>4, <1>5, <1>6, <1>7, <1>8, <1>9, <1>10
     DEF Next, Operator

-----------------------------------------------------------------------------
(* The controller's promise.                                               *)

\* A session that has not been opened has no signal.
Unsignalled == \A s \in Sessions : pc[s] = "new" => finish[s] = "empty"

\* The sessions that have been opened.
Used == {s \in Sessions : pc[s] # "new"}

\* Goroutine s moves on; it may give up the channel of a session that is closed.
LEMMA ControllerGoesOn ==
    ASSUME Inv, Unsignalled, UNCHANGED <<rec, crashes>>,
           NEW s \in Sessions, pc[s] # "new",
           NEW stage \in {"first", "record", "dead"},
           pc' = [pc EXCEPT ![s] = stage],
           \/ finish' = finish
           \/ rec # s /\ finish' = [finish EXCEPT ![s] = "empty"]
    PROVE  Unsignalled' /\ UNCHANGED Controller!vars
<1>1. \A t \in Sessions : pc'[t] = "new" <=> pc[t] = "new"
  BY DEF Inv, CtrlOK
<1>2. Used' = Used
  BY <1>1 DEF Used
<1>3. OpenSignal' = OpenSignal
  BY DEF OpenSignal, Inv, CtrlOK
<1>4. Unsignalled'
  BY <1>1 DEF Unsignalled, Inv, CtrlOK
<1>5. QED
  BY <1>2, <1>3, <1>4 DEF Controller!vars, Used

\* The handler's commands are those of the promise, or change nothing of it.
LEMMA ControllerHandle ==
    ASSUME Inv, Unsignalled, UNCHANGED crashes, NEW c, Handle(c)
    PROVE  Unsignalled' /\ [Controller!Next]_(Controller!vars)
<1> USE Bounds DEF Inv, CtrlOK
<1>1. CASE rec' = rec /\ pc' = pc /\ finish' = finish
  BY <1>1 DEF Unsignalled, Controller!vars, OpenSignal
<1>2. ASSUME Start, rec = None PROVE Unsignalled' /\ Controller!Next
  <2>1. PICK s \in Sessions : pc[s] = "new" /\ rec' = s /\ finish' = finish
                              /\ pc' = [pc EXCEPT ![s] = "starting"]
    BY <1>2 DEF Start
  <2>2. Used' = Used \cup {s} /\ s \notin Used
    BY <2>1 DEF Used
  <2>3. OpenSignal' = "empty"
    BY <2>1 DEF OpenSignal, Unsignalled
  <2>4. Controller!Open(s)
    BY <1>2, <2>1, <2>2, <2>3 DEF Controller!Open, Used
  <2>5. Unsignalled'
    BY <2>1 DEF Unsignalled
  <2>6. QED
    BY <2>1, <2>4, <2>5 DEF Controller!Next
<1>3. ASSUME NEW how \in {"save", "abort"}, Signal(how)
      PROVE  Unsignalled' /\ [Controller!Next]_(Controller!vars)
  <2>1. /\ rec' = rec /\ pc' = pc
        /\ \A s \in Sessions : finish'[s] = IF s = rec /\ finish[s] = "empty"
                                            THEN how ELSE finish[s]
    BY <1>3 DEF Signal
  <2>2. Unsignalled'
    BY <2>1 DEF Unsignalled, LiveOK
  <2>3. CASE rec # None /\ finish[rec] = "empty"
    <3>1. OpenSignal = "empty" /\ OpenSignal' = how
      BY <2>1, <2>3 DEF OpenSignal
    <3>2. QED
      BY <2>1, <2>2, <2>3, <3>1
         DEF Controller!Next, Controller!Finish, Controller!Abort
  <2>4. CASE rec = None \/ finish[rec] # "empty"
    <3>1. OpenSignal' = OpenSignal
      BY <2>1, <2>4 DEF OpenSignal
    <3>2. QED
      BY <2>1, <2>2, <3>1 DEF Controller!vars
  <2>5. QED
    BY <2>3, <2>4
<1>4. QED
  BY <1>1, <1>2, <1>3 DEF Handle, Start, Home, ctrlVars

LEMMA ControllerNext ==
    Inv /\ Unsignalled /\ [Next]_vars
        => Unsignalled' /\ [Controller!Next]_(Controller!vars)
<1> SUFFICES ASSUME Inv, Unsignalled, [Next]_vars
             PROVE  Unsignalled' /\ [Controller!Next]_(Controller!vars)
  OBVIOUS
<1> USE DEF ctrlVars, bootVars
<1>1. CASE UNCHANGED <<rec, pc, finish, crashes>>
  BY <1>1 DEF Unsignalled, Controller!vars, OpenSignal
<1>2. CASE Take
  BY <1>2, ControllerHandle DEF Take
<1>3. CASE StartRest
  <2>1. starting \in Sessions /\ pc[starting] = "starting"
    BY <1>3 DEF StartRest, Inv, CtrlOK, LiveOK
  <2>2. QED
    BY <1>3, <2>1, ControllerGoesOn DEF StartRest
<1>4. ASSUME NEW s \in Sessions, Session(s)
      PROVE  Unsignalled' /\ [Controller!Next]_(Controller!vars)
  <2>1. CASE First(s)
    BY <2>1, ControllerGoesOn DEF First
  <2>2. CASE Republish(s) \/ TakeHome(s)
    BY <1>1, <2>2 DEF Republish, TakeHome
  <2>3. CASE TakeFinish(s)
    <3>1. /\ rec = s /\ rec' = None /\ finish[s] # "empty" /\ finish' = finish
          /\ crashes' = crashes /\ pc[s] # "new"
          /\ pc' = [pc EXCEPT ![s] = "ending"]
      BY <2>3 DEF TakeFinish, Inv, LiveOK
    <3>2. \A t \in Sessions : pc'[t] = "new" <=> pc[t] = "new"
      BY <3>1 DEF Inv, CtrlOK
    <3>3. Used' = Used /\ Unsignalled'
      BY <3>1, <3>2 DEF Used, Unsignalled
    <3>4. Controller!Close
      BY <3>1, <3>3, Bounds DEF Controller!Close, OpenSignal, Used
    <3>5. QED
      BY <3>3, <3>4 DEF Controller!Next
  <2>4. CASE End(s)
    <3>1. rec # s
      BY <2>4 DEF End, Inv, LiveOK
    <3>2. QED
      BY <2>4, <3>1, ControllerGoesOn DEF End
  <2>5. QED
    BY <1>4, <2>1, <2>2, <2>3, <2>4 DEF Session
<1>5. CASE Crash
  <2>1. /\ rec' = None /\ crashes' = crashes + 1
        /\ \A s \in Sessions : pc'[s] = "new" <=> pc[s] = "new"
        /\ \A s \in Sessions : finish'[s] = "empty"
    BY <1>5 DEF Crash, Inv, CtrlOK
  <2>2. Used' = Used /\ Unsignalled'
    BY <2>1 DEF Used, Unsignalled
  <2>3. Controller!Restart
    BY <2>1, <2>2 DEF Controller!Restart, OpenSignal, Used
  <2>4. QED
    BY <2>2, <2>3 DEF Controller!Next
<1>6. QED
  BY <1>1, <1>2, <1>3, <1>4, <1>5
     DEF Next, Operator, Mount, Unmount, Deliver, PressStart, PressHome,
         PressDone, PressAbort, Press, TorqueOff, TorqueOn, BootPublish,
         BootLoadFails, vars

-----------------------------------------------------------------------------
(* The theorems.                                                           *)

\* Controller, channels, queues and card keep their types and bounds, and a card
\* that is not mounted has no state and no messages (useCalibration).
THEOREM TypeCorrect == Spec => []TypeOK
<1>1. Inv => TypeOK
  BY DEF Inv, CtrlOK, BootOK, CommandsOK, CardOK, TypeOK
<1>2. QED
  BY <1>1, AlwaysInv, PTL

\* The card's "torque is off": StartRecording turns the torque off before its
\* goroutine publishes anything, so no card says so of a torque from before.
THEOREM TorqueHintCorrect == Spec => []TorqueHint
<1>1. Inv => TorqueHint
  <2> SUFFICES ASSUME Inv, Recording, cal.of = rec, torque = "before"
               PROVE  FALSE
    BY DEF TorqueHint
  <2>1. rec \in Sessions /\ pc[rec] \notin {"new", "starting"}
    BY DEF Recording, Inv, CardOK, Told
  <2>2. rec # None
    BY <2>1, Bounds
  <2>3. QED
    BY <2>1, <2>2 DEF Inv, LiveOK
<1>2. QED
  BY <1>1, AlwaysInv, PTL

\* A Done or an Abort ends the session that the card showed when it was pressed,
\* and a Done only a session with its home set (CalibrationCard.tsx,
\* handleCommand, FinishRecording, Abort), for a card that was opened once, over
\* a module that had booted: however many commands and messages are on their way
\* and whatever was lost.
THEOREM SignalsReachTheirSessionCorrect == Spec => SignalsReachTheirSession
<1> DEFINE Reaches ==
        mounts = 1 /\ ~early =>
          \A s \in Sessions :
              finish[s] = "empty" /\ finish'[s] # "empty" =>
                  /\ Head(commands).of = s
                  /\ finish'[s] = "save" => homed[s]
<1>1. Inv /\ Follow /\ [Next]_vars => [Reaches]_vars
  <2> SUFFICES ASSUME Inv, Follow, [Next]_vars, mounts = 1, ~early,
                      NEW s \in Sessions,
                      finish[s] = "empty", finish'[s] # "empty"
               PROVE  /\ Head(commands).of = s
                      /\ finish'[s] = "save" => homed[s]
    OBVIOUS
  <2> DEFINE c == Head(commands)
  <2>1. PICK how \in {"save", "abort"} :
            /\ Take /\ Signal(how)
            /\ how = "save" => c.case = "finishCalibration"
            /\ Signals(c)
    <3>1. Take
      <4>1. ASSUME NEW t \in Sessions, Session(t) PROVE FALSE
        BY <4>1 DEF Session, First, Republish, TakeHome, TakeFinish, End,
                    ctrlVars, Inv, CtrlOK
      <4>2. ~Crash
        BY DEF Crash
      <4>3. finish' # finish
        OBVIOUS
      <4>4. QED
        BY <4>1, <4>2, <4>3
           DEF Next, Operator, Mount, Unmount, Deliver, PressStart, PressHome,
               PressDone, PressAbort, Press, StartRest, TorqueOff, TorqueOn,
               BootPublish, BootLoadFails, vars, ctrlVars
    <3>2. Handle(c) /\ finish' # finish
      BY <3>1 DEF Take
    <3>3. ~Start /\ ~Home
      BY <3>2 DEF Start, Home, ctrlVars
    <3>4. QED
      BY <3>1, <3>2, <3>3 DEF Handle, Signals
  <2>2. s = rec /\ rec # None /\ finish'[s] = how
    BY <2>1, Bounds DEF Signal
  <2>3. commands \in Seq(PanelCommand) /\ commands # <<>>
    BY <2>1 DEF Take, Inv, CommandsOK
  <2>4. c = commands[1] /\ 1 \in 1 .. Len(commands)
    BY <2>3, HeadTailProperties, LenProperties, EmptySeq
  <2>5. About(c.of, c.case = "finishCalibration")
    BY <2>1, <2>4 DEF Follow, Orderly, FollowOK, QueueOK
  <2>6. QED
    BY <2>1, <2>2, <2>5 DEF About
<1>2. Spec => [](Inv /\ Follow)
  BY InvInit, FollowInit, InvNext, FollowNext, PTL DEF Spec
<1>3. QED
  BY <1>1, <1>2, PTL DEF SignalsReachTheirSession, Spec

\* "recording" is not the last that a card hears of a session (publish, record,
\* the boot), unless it was not sent the end: what NoGhostRecording needs of
\* every state.
THEOREM LastWordCorrect == Spec => []LastWord
<1>1. Init => LastWord
  BY DEF Init, LastWord, LastState
<1>2. QED
  BY <1>1, InvInit, InvNext, LastWordNext, PTL DEF Spec

\* The controller the card talks to keeps the promise that the one of
\* CalibrationSession keeps (StartRecording, signal, record): commands that come
\* late, again or for nothing change nothing of it.
THEOREM ControllerKept == Spec => KeepsController
<1>1. Init => Unsignalled /\ Controller!Init
  BY DEF Init, Unsignalled, Controller!Init, OpenSignal
<1>2. QED
  BY <1>1, InvInit, InvNext, ControllerNext, PTL
     DEF Spec, KeepsController, Controller!Spec
=============================================================================
