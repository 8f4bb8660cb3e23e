----------------------------- MODULE PosesPanel -----------------------------
(***************************************************************************)
(* The pose store as the operator sees it: the POSES card of the Arm tab   *)
(* and the recall buttons of the teleop window, both fed by usePoses, and  *)
(* their commands, put around PoseStore.                                   *)
(*                                                                         *)
(* publishPoses first publishes a snapshot of the store and then takes the *)
(* one of PoseStore's HandlerMap and BootMap.  NATS delivers in order to   *)
(* each subscriber and keeps nothing: a message published while a window   *)
(* is closed, or that the connection drops, is never seen.                 *)
(***************************************************************************)
EXTENDS PoseStore, Messages, Sequences

CONSTANTS
    Windows,      \* open or not; each with the buttons of the card and of the
                  \*   teleop window, which share the hook
    MaxCommands,  \* bound on the commands in flight
    MaxBus        \* bound on the messages in flight to a window

ASSUME QueueAssumption ==
    /\ MaxCommands \in Nat /\ MaxBus \in Nat
    /\ NoValue \notin PoseState(Slots)

Publishers == {"handler", "boot"}

VARIABLES
    commands,  \* commands on their way to the handler
    report,    \* publishPoses' message of each goroutine, NoValue without one
    sent,      \* goroutines that have published theirs
    bus,       \* messages on their way to each window
    card,      \* usePoses' state in each window, NoValue before the first
    mounted,
    told       \* windows that were sent the last message published (history)

panelVars == <<commands, report, sent, bus, card, mounted, told>>
allVars   == <<vars, panelVars>>

PanelInit ==
    /\ Init
    /\ commands = <<>>
    /\ report = [g \in Publishers |-> NoValue] /\ sent = {}
    /\ bus = [w \in Windows |-> <<>>]
    /\ card = [w \in Windows |-> NoValue]
    /\ mounted = {} /\ told = {}

\* bySlot.get(slot)?.assigned ?? false
Assigned(w, s) ==
    card[w] # NoValue /\ s \in DOMAIN card[w] /\ card[w][s].assigned

-----------------------------------------------------------------------------
(* The windows.                                                            *)

\* usePoses' effect: a new window knows nothing until the next message.
Mount(w) ==
    /\ w \notin mounted
    /\ mounted' = mounted \cup {w}
    /\ told' = told \ {w}
    /\ UNCHANGED <<vars, commands, report, sent, bus, card>>

\* The effect's cleanup unsubscribes.
Unmount(w) ==
    /\ w \in mounted
    /\ mounted' = mounted \ {w}
    /\ bus' = [bus EXCEPT ![w] = <<>>]
    /\ card' = [card EXCEPT ![w] = NoValue]
    /\ told' = told \ {w}
    /\ UNCHANGED <<vars, commands, report, sent>>

\* setState(PoseState.fromBinary(b)): the whole state is replaced.
Deliver(w) ==
    /\ bus[w] # <<>>
    /\ card' = [card EXCEPT ![w] = Head(bus[w])]
    /\ bus' = [bus EXCEPT ![w] = Tail(@)]
    /\ UNCHANGED <<vars, commands, report, sent, mounted, told>>

\* publish: the command joins those in flight.  One that is lost, or sent by a
\* window whose host gives no publish, is as if the button was not pressed.
Press(w, case, slot) ==
    /\ w \in mounted
    /\ Len(commands) < MaxCommands
    /\ commands' = Append(commands, [case |-> case, value |-> slot])
    /\ UNCHANGED <<vars, report, sent, bus, card, mounted, told>>

\* Assign or Reassign: always enabled.
Assign(w, s) == Press(w, "capturePose", s)

\* Clear: disabled unless assigned.
Clear(w, s) == Assigned(w, s) /\ Press(w, "deletePose", s)

\* The recall button of the teleop window: disabled unless assigned.
RecallPose(w, s) == Assigned(w, s) /\ Press(w, "recallPose", s)

-----------------------------------------------------------------------------
(* The module.                                                             *)

\* The command callback.  A capture that reads no servo changes nothing, and a
\* recall is only handed to the teleop loop.
Take ==
    /\ commands # <<>> /\ handler = "idle"
    /\ commands' = Tail(commands)
    /\ LET c == Head(commands) IN
       \/ /\ c.case = "capturePose"
          /\ \E p \in Poses : Change(c.value, p)
       \/ c.case = "deletePose" /\ Change(c.value, None)
       \/ c.case \in {"capturePose", "recallPose"} /\ UNCHANGED vars
    /\ UNCHANGED <<report, sent, bus, card, mounted, told>>

\* Mutant of AtPublish: the boot publishes before every pose is set.
AtPublishEarly(g) == IF g = "handler" THEN handler = "map" ELSE boot = "fill"

\* Goroutine g is at publishPoses.
AtPublish(g) ==
    IF g = "handler" THEN handler = "map" ELSE boot = "fill" /\ pending = Empty

Snapshot == [s \in Slots |-> [assigned |-> store[s] # None]]

\* publishPoses: posesStore.All(), and a slot state for every slot.
Report(g) ==
    /\ AtPublish(g) /\ g \notin sent /\ report[g] = NoValue
    /\ report' = [report EXCEPT ![g] = Snapshot]
    /\ UNCHANGED <<vars, commands, sent, bus, card, mounted, told>>

\* m.Publish: every open window is sent the message, unless it is lost.
Publish(g) ==
    /\ report[g] # NoValue
    /\ sent' = sent \cup {g}
    /\ report' = [report EXCEPT ![g] = NoValue]
    /\ \E got \in SUBSET mounted :
        /\ \A w \in got : Len(bus[w]) < MaxBus
        /\ bus' = [w \in Windows |->
               IF w \in got THEN Append(bus[w], report[g]) ELSE bus[w]]
        /\ told' = got
    /\ UNCHANGED <<vars, commands, card, mounted>>

\* Then loop.SetPoses(posesStore.Map()).
PanelHandlerMap ==
    /\ HandlerMap /\ "handler" \in sent
    /\ sent' = sent \ {"handler"}
    /\ UNCHANGED <<commands, report, bus, card, mounted, told>>

PanelBootMap ==
    /\ BootMap /\ "boot" \in sent
    /\ sent' = sent \ {"boot"}
    /\ UNCHANGED <<commands, report, bus, card, mounted, told>>

\* The commands not yet handled die with the module's subscription.
PanelCrash ==
    /\ Crash
    /\ commands' = <<>>
    /\ report' = [g \in Publishers |-> NoValue] /\ sent' = {}
    /\ UNCHANGED <<bus, card, mounted, told>>

StoreStep ==
    \/ All \/ Save \/ HandlerSet
    \/ BootLoad \/ BootLoadFails \/ BootSet
    \/ \E s \in Slots : BootFill(s)

-----------------------------------------------------------------------------
Window(w) == \/ Mount(w) \/ Unmount(w) \/ Deliver(w)
             \/ \E s \in Slots : Assign(w, s) \/ Clear(w, s) \/ RecallPose(w, s)

PanelNext ==
    \/ \E w \in Windows : Window(w)
    \/ Take \/ PanelHandlerMap \/ PanelBootMap \/ PanelCrash
    \/ \E g \in Publishers : Report(g) \/ Publish(g)
    \/ StoreStep /\ UNCHANGED panelVars

PanelSpec == PanelInit /\ [][PanelNext]_allVars

-----------------------------------------------------------------------------
(* Properties.                                                             *)

PanelTypeOK ==
    /\ TypeOK
    /\ commands \in Seq(ArmCommand(Slots)) /\ Len(commands) <= MaxCommands
    /\ report \in [Publishers -> PoseState(Slots) \cup {NoValue}]
    /\ sent \subseteq Publishers
    /\ bus \in [Windows -> Seq(PoseState(Slots))]
    /\ card \in [Windows -> PoseState(Slots) \cup {NoValue}]
    /\ told \subseteq mounted /\ mounted \subseteq Windows

\* Between commands, and once nothing is on its way, a window that got the last
\* message offers Clear and recall for exactly the slots that hold a pose, after
\* the same boots and commands as in LiveMatchesStore.
CardMatchesStore ==
    boot = "up" /\ handler = "idle" /\ (clean \/ handled) =>
        \A w \in told : bus[w] = <<>> =>
            \A s \in Slots : Assigned(w, s) <=> store[s] # None
=============================================================================
