-------------------------- MODULE CalibrationPanel --------------------------
(***************************************************************************)
(* A calibration session as its operator drives it: the CALIBRATION card   *)
(* of the Arm tab fed by useCalibration, the command handler, the          *)
(* controller and its session goroutines.                                  *)
(*                                                                         *)
(* CalibrationSession has what a session saves; here a session is what the *)
(* card can see of it.  Commands and states travel in order and may be     *)
(* lost; a session publishes "recording" again and again, its end once.    *)
(* `of` in a command or a message is history: the session it is about.     *)
(***************************************************************************)
EXTENDS Messages, Sequences

CONSTANTS
    Sessions,     \* recording sessions, each used once (a bound for TLC)
    MaxCrashes,   \* bound on the crashes
    MaxMounts,    \* bound on the mounts of the card
    MaxLost,      \* bound on the messages lost
    MaxCommands,  \* bounds on the commands and messages in flight
    MaxBus,
    None

\* One of the card's buttons, and a state for the card.
PanelCommand == [case : Button, of : Sessions \cup {None}]
PanelMessage == [state : CalibrationState, of : Sessions \cup {None}]

ASSUME PanelAssumption ==
    /\ {MaxCrashes, MaxMounts, MaxLost, MaxCommands, MaxBus} \subseteq Nat
    /\ None \notin Sessions
    /\ NoValue \notin PanelMessage

VARIABLES
    rec,        \* Controller.rec
    starting,   \* session StartRecording is starting, or None
    pc,         \* stage of each session's goroutine
    finish,     \* each session's finish channel
    setHome,    \* a request waits in the setHome channel
    homed,      \* Recorder.HomeSet
    torque,     \* "off", or on since "before" the last start, or "raised"
                \*   after it
    boot,       \* the boot has yet to publish what the file holds
    crashes,
    commands,   \* commands on their way to the handler
    bus,        \* messages on their way to the card
    cal,        \* useCalibration's state, NoValue before the first message
    mounted, mounts,
    lost,
    missed,     \* the last message that says "not recording" was not sent to
                \*   the mounted card (history)
    early       \* a command was handled before the boot had published, or the
                \*   module restarted under the mounted card (history)

ctrlVars == <<rec, starting, pc, finish, setHome, homed, torque>>
bootVars == <<boot, crashes, early>>
cardVars == <<cal, mounted, mounts>>
busVars  == <<bus, lost, missed>>
vars == <<ctrlVars, bootVars, commands, cardVars, busVars>>

Init ==
    /\ rec = None /\ starting = None
    /\ pc = [s \in Sessions |-> "new"]
    /\ finish = [s \in Sessions |-> "empty"]
    /\ setHome = [s \in Sessions |-> FALSE]
    /\ homed = [s \in Sessions |-> FALSE]
    /\ torque = "before"
    /\ boot = TRUE /\ crashes = 0
    /\ commands = <<>> /\ bus = <<>>
    /\ cal = NoValue /\ mounted = FALSE /\ mounts = 0
    /\ lost = 0 /\ missed = FALSE /\ early = FALSE

-----------------------------------------------------------------------------
(* The publish closure of main.go, and the bus.                            *)

\* The message reaches the card's connection, or is lost.
Publish(phase, s, home) ==
    LET ends == phase # "recording"
        m    == [state |-> [phase |-> phase, homeSet |-> home], of |-> s]
    IN  \/ /\ mounted /\ Len(bus) < MaxBus
           /\ bus' = Append(bus, m)
           /\ missed' = (missed /\ ~ends)
           /\ UNCHANGED lost
        \/ /\ mounted /\ lost < MaxLost
           /\ lost' = lost + 1
           /\ missed' = (missed \/ ends)
           /\ UNCHANGED bus
        \/ ~mounted /\ UNCHANGED busVars

-----------------------------------------------------------------------------
(* The card.                                                               *)

\* phase is cal?.phase ?? 'idle'.
Recording == cal # NoValue /\ cal.state.phase = "recording"
HomeSet   == cal # NoValue /\ cal.state.homeSet

Mount ==
    /\ ~mounted /\ mounts < MaxMounts
    /\ mounted' = TRUE /\ mounts' = mounts + 1
    /\ UNCHANGED <<ctrlVars, bootVars, commands, cal, busVars>>

\* Mutant of Unmount: the subscription outlives the component.
UnmountSubscribed ==
    /\ mounted
    /\ mounted' = FALSE /\ cal' = NoValue
    /\ UNCHANGED <<ctrlVars, bootVars, commands, mounts, busVars>>

\* The state goes with the component, the messages with its subscription.
Unmount ==
    /\ mounted
    /\ mounted' = FALSE /\ cal' = NoValue
    /\ bus' = <<>> /\ missed' = FALSE
    /\ UNCHANGED <<ctrlVars, bootVars, commands, mounts, lost>>

Deliver ==
    /\ bus # <<>>
    /\ cal' = Head(bus) /\ bus' = Tail(bus)
    /\ UNCHANGED <<ctrlVars, bootVars, commands, mounted, mounts, lost, missed>>

\* send: a command that gets lost is as if the button was not pressed.
Press(case) ==
    /\ mounted /\ Len(commands) < MaxCommands
    /\ commands' = Append(commands,
           [case |-> case, of |-> IF cal = NoValue THEN None ELSE cal.of])
    /\ UNCHANGED <<ctrlVars, bootVars, cardVars, busVars>>

\* Start calibration.  Sessions are a bound: no more starts than sessions.
PressStart ==
    /\ ~Recording
    /\ \E s \in Sessions : pc[s] = "new"
    /\ \A i \in 1 .. Len(commands) : commands[i].case # "runCalibration"
    /\ Press("runCalibration")

PressHome == Recording /\ Press("setHome")

\* Mutant of PressDone: the button is not disabled.
PressDoneEnabled == Recording /\ Press("finishCalibration")

\* Done: disabled unless the home is set.
PressDone == Recording /\ HomeSet /\ Press("finishCalibration")

PressAbort == Recording /\ Press("abort")

-----------------------------------------------------------------------------
(* The command handler, one command at a time.                             *)

\* StartRecording: with a live session the command is ignored.
Start ==
    IF rec # None THEN UNCHANGED ctrlVars
    ELSE /\ \E s \in Sessions :
                /\ pc[s] = "new"
                /\ rec' = s /\ starting' = s
                /\ pc' = [pc EXCEPT ![s] = "starting"]
         /\ torque' = IF torque = "off" THEN "off" ELSE "before"
         /\ UNCHANGED <<finish, setHome, homed>>

\* SetHome: queued unless a capture is already pending.
Home ==
    /\ setHome' = [s \in Sessions |-> setHome[s] \/ s = rec]
    /\ UNCHANGED <<rec, starting, pc, finish, homed, torque>>

\* Mutant of Signal: a later signal takes the place of the first.
SignalLast(how) ==
    /\ finish' = [s \in Sessions |-> IF s = rec THEN how ELSE finish[s]]
    /\ UNCHANGED <<rec, starting, pc, setHome, homed, torque>>

\* FinishRecording and Abort: the first signal stays.
Signal(how) ==
    /\ finish' = [s \in Sessions |->
           IF s = rec /\ finish[s] = "empty" THEN how ELSE finish[s]]
    /\ UNCHANGED <<rec, starting, pc, setHome, homed, torque>>

Handle(c) ==
    \/ c.case = "runCalibration" /\ Start
    \/ c.case = "setHome" /\ Home
    \/ c.case = "finishCalibration" /\ Signal("save")
    \/ c.case = "abort" /\ Signal("abort")

Take ==
    /\ commands # <<>> /\ starting = None
    /\ Handle(Head(commands))
    /\ commands' = Tail(commands)
    /\ early' = (early \/ boot)
    /\ UNCHANGED <<boot, crashes, cardVars, busVars>>

\* Mutant of StartRest: the servos keep their torque.
StartRestHolding ==
    /\ starting # None
    /\ pc' = [pc EXCEPT ![starting] = "first"]
    /\ starting' = None
    /\ UNCHANGED <<rec, finish, setHome, homed, torque, bootVars,
                   commands, cardVars, busVars>>

\* The rest of StartRecording: torque off, and the session's goroutine.
StartRest ==
    /\ starting # None
    /\ torque' = "off"
    /\ pc' = [pc EXCEPT ![starting] = "first"]
    /\ starting' = None
    /\ UNCHANGED <<rec, finish, setHome, homed, bootVars,
                   commands, cardVars, busVars>>

\* set_torque false, from any window and at any time: no session is looked at.
TorqueOff ==
    /\ starting = None /\ torque # "off"
    /\ torque' = "off"
    /\ UNCHANGED <<rec, starting, pc, finish, setHome, homed, bootVars,
                   commands, cardVars, busVars>>

\* set_torque true, or the drive of a recall, in its own goroutine.
TorqueOn ==
    /\ torque # "raised"
    /\ torque' = "raised"
    /\ UNCHANGED <<rec, starting, pc, finish, setHome, homed, bootVars,
                   commands, cardVars, busVars>>

-----------------------------------------------------------------------------
(* The session goroutine: Controller.record.                               *)

First(s) ==
    /\ pc[s] = "first"
    /\ pc' = [pc EXCEPT ![s] = "record"]
    /\ UNCHANGED <<rec, starting, finish, setHome, homed, torque>>
    /\ Publish("recording", s, homed[s])
    /\ UNCHANGED <<bootVars, commands, cardVars>>

\* Mutant of Republish: the ticker's case samples, and publishes nothing.
RepublishNothing(s) == pc[s] = "record" /\ UNCHANGED vars

\* The 150 ms ticker.
Republish(s) ==
    /\ pc[s] = "record"
    /\ UNCHANGED ctrlVars
    /\ Publish("recording", s, homed[s])
    /\ UNCHANGED <<bootVars, commands, cardVars>>

\* Recorder.SetHome: homed with one joint read, and never not homed again.
TakeHome(s) ==
    /\ pc[s] = "record" /\ setHome[s]
    /\ setHome' = [setHome EXCEPT ![s] = FALSE]
    /\ \E read \in BOOLEAN : homed' = [homed EXCEPT ![s] = @ \/ read]
    /\ UNCHANGED <<rec, starting, pc, finish, torque>>
    /\ Publish("recording", s, homed'[s])
    /\ UNCHANGED <<bootVars, commands, cardVars>>

\* The session lets go of the controller before its end is published.
TakeFinish(s) ==
    /\ pc[s] = "record" /\ finish[s] # "empty"
    /\ rec' = None
    /\ pc' = [pc EXCEPT ![s] = "ending"]
    /\ UNCHANGED <<starting, finish, setHome, homed, torque, bootVars,
                   commands, cardVars, busVars>>

\* Mutant of End: an aborted session ends without a word.
EndSilent(s) ==
    /\ pc[s] = "ending"
    /\ pc' = [pc EXCEPT ![s] = "dead"]
    /\ finish' = [finish EXCEPT ![s] = "empty"]
    /\ setHome' = [setHome EXCEPT ![s] = FALSE]
    /\ homed' = [homed EXCEPT ![s] = FALSE]
    /\ UNCHANGED <<rec, starting, torque>>
    /\ IF finish[s] = "save" THEN Publish("done", s, homed[s]) ELSE UNCHANGED busVars
    /\ UNCHANGED <<bootVars, commands, cardVars>>

\* "done" follows the fences and precedes the save.  The session's channels and
\* recorder go with it.
End(s) ==
    /\ pc[s] = "ending"
    /\ pc' = [pc EXCEPT ![s] = "dead"]
    /\ finish' = [finish EXCEPT ![s] = "empty"]
    /\ setHome' = [setHome EXCEPT ![s] = FALSE]
    /\ homed' = [homed EXCEPT ![s] = FALSE]
    /\ UNCHANGED <<rec, starting, torque>>
    /\ Publish(IF finish[s] = "save" THEN "done" ELSE "aborted", s, homed[s])
    /\ UNCHANGED <<bootVars, commands, cardVars>>

-----------------------------------------------------------------------------
(* The module's boot and its crashes.                                      *)

\* The boot publishes what Load found, after the handler has subscribed.
BootPublish ==
    /\ boot
    /\ boot' = FALSE
    /\ UNCHANGED <<ctrlVars, crashes, early>>
    /\ Publish("idle", None, FALSE)
    /\ UNCHANGED <<commands, cardVars>>

\* A Load that fails publishes nothing.
BootLoadFails ==
    /\ boot
    /\ boot' = FALSE
    /\ missed' = (missed \/ mounted)
    /\ UNCHANGED <<ctrlVars, crashes, early, commands, cardVars,
                   bus, lost>>

\* systemd restarts the module; commands on their way die with it, messages to
\* the card do not, and the servos keep their torque.
Crash ==
    /\ crashes < MaxCrashes
    /\ crashes' = crashes + 1
    /\ rec' = None /\ starting' = None
    /\ pc' = [s \in Sessions |-> IF pc[s] = "new" THEN "new" ELSE "dead"]
    /\ finish' = [s \in Sessions |-> "empty"]
    /\ setHome' = [s \in Sessions |-> FALSE]
    /\ homed' = [s \in Sessions |-> FALSE]
    /\ commands' = <<>> /\ boot' = TRUE
    /\ early' = (early \/ mounted)
    /\ UNCHANGED <<torque, cardVars, busVars>>

-----------------------------------------------------------------------------
Operator ==
    \/ Mount \/ Unmount
    \/ PressStart \/ PressHome \/ PressDone \/ PressAbort

Session(s) == First(s) \/ Republish(s) \/ TakeHome(s) \/ TakeFinish(s) \/ End(s)

Next ==
    \/ Operator
    \/ Deliver
    \/ Take \/ StartRest
    \/ TorqueOff \/ TorqueOn
    \/ \E s \in Sessions : Session(s)
    \/ BootPublish \/ BootLoadFails \/ Crash

Spec == Init /\ [][Next]_vars

\* Deliveries, the boot and the sessions' goroutines go on, and a select takes
\* each of its ready cases at some point.  Nothing is assumed of the operator,
\* the command handler, of losses or of crashes.
Fairness ==
    /\ WF_vars(Deliver)
    /\ WF_vars(BootPublish \/ BootLoadFails)
    /\ \A s \in Sessions :
           /\ WF_vars(First(s) \/ TakeFinish(s) \/ End(s))
           /\ WF_vars(Republish(s))

FairSpec == Spec /\ Fairness

-----------------------------------------------------------------------------
(* Properties.                                                             *)

TypeOK ==
    /\ rec \in Sessions \cup {None} /\ starting \in {rec, None}
    /\ pc \in [Sessions -> {"new", "starting", "first", "record", "ending",
                            "dead"}]
    /\ finish \in [Sessions -> {"empty", "save", "abort"}]
    /\ {setHome, homed} \subseteq [Sessions -> BOOLEAN]
    /\ torque \in {"off", "before", "raised"}
    /\ {boot, mounted, missed, early} \subseteq BOOLEAN
    /\ commands \in Seq(PanelCommand) /\ Len(commands) <= MaxCommands
    /\ bus \in Seq(PanelMessage) /\ Len(bus) <= MaxBus
    /\ cal \in PanelMessage \cup {NoValue}
    /\ crashes \in 0 .. MaxCrashes /\ mounts \in 0 .. MaxMounts
    /\ lost \in 0 .. MaxLost
    /\ mounted \/ (bus = <<>> /\ cal = NoValue)

\* A Done or Abort ends the session the card was showing or none, and a Done
\* only a session with its home set, however late the card and the command are.
\* Not so when the card was opened again in between, or commands ran into the
\* boot, or the module restarted: a Start pressed while the card did not show
\* the session there was then starts one that the card does not know.
SignalsReachTheirSession ==
    [][ mounts = 1 /\ ~early =>
          \A s \in Sessions :
              finish[s] = "empty" /\ finish'[s] # "empty" =>
                  /\ Head(commands).of = s
                  /\ finish'[s] = "save" => homed[s] ]_vars

\* What the session that the commands reach was told.
OpenSignal == IF rec = None THEN "empty" ELSE finish[rec]

Controller == INSTANCE ControllerPromise
                  WITH open <- rec,
                       signal <- OpenSignal,
                       used <- {s \in Sessions : pc[s] # "new"},
                       restarts <- crashes

\* The controller that the card's commands reach, late, several at a time and
\* in any order, keeps the promise that CalibrationSession's keeps: the first
\* of Done and Abort decides and ends the session there was (controller.go,
\* main.go's handler).
KeepsController == Controller!Spec

\* The card says that the torque is off from a session's first message on.  It
\* is, for the session that is live, unless a set_torque or a recall turned it
\* on after the start had turned it off: neither asks whether a session records.
TorqueHint ==
    Recording /\ cal.of = rec => torque # "before"

\* The last that an open card has heard, or is about to.
LastState == IF bus = <<>> THEN cal ELSE bus[Len(bus)]

\* "recording" is never the last word about a session: the card still hears of
\* it, or was not sent the end, or hears from the boot that followed a crash.
LastWord ==
    LastState # NoValue /\ LastState.state.phase = "recording"
        => boot \/ missed \/ pc[LastState.of] \in {"record", "ending"}

\* Unless the message that ended it was lost, or the boot after a crash could
\* not load the file, a card does not show a recording for good once there is
\* none: such a card has no Start, and its buttons reach nothing.
NoGhostRecording ==
    <>[](rec = None) => <>[](missed \/ ~Recording)

\* An open card comes to show the session that lasts, whatever was lost and
\* whenever it was opened.
SessionShown ==
    \A s \in Sessions :
        <>[](pc[s] = "record" /\ mounted)
            => <>[](Recording /\ cal.of = s)
=============================================================================
