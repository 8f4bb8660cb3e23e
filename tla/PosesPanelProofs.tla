-------------------------- MODULE PosesPanelProofs --------------------------
(***************************************************************************)
(* Proofs about PosesPanel, for any slots, poses, windows, bounds and      *)
(* number of crashes.                                                      *)
(***************************************************************************)
EXTENDS PosesPanel, PoseStoreProofs, SequenceTheorems

-----------------------------------------------------------------------------
(* The panel lets the store do nothing new.                                *)

LEMMA CommandSlot ==
    ASSUME NEW c \in ArmCommand(Slots),
           c.case \in {"capturePose", "deletePose"}
    PROVE  c.value \in Slots
BY DEF ArmCommand, Button

LEMMA StoreSteps == PanelTypeOK /\ [PanelNext]_allVars => [Next]_vars
<1> SUFFICES ASSUME PanelTypeOK, PanelNext PROVE [Next]_vars
  BY DEF allVars
<1>1. ASSUME NEW w \in Windows, Window(w) PROVE UNCHANGED vars
  BY <1>1 DEF Window, Mount, Unmount, Deliver, Assign, Clear, RecallPose, Press
<1>2. CASE Take
  <2>1. Head(commands) \in ArmCommand(Slots)
    BY <1>2 DEF Take, PanelTypeOK
  <2>2. /\ Head(commands).case \in {"capturePose", "deletePose"}
               => Head(commands).value \in Slots
    BY <2>1, CommandSlot
  <2>3. QED
    BY <1>2, <2>2 DEF Take, Next, Handler
<1>3. CASE PanelHandlerMap \/ PanelBootMap \/ PanelCrash
  BY <1>3 DEF PanelHandlerMap, PanelBootMap, PanelCrash, Next, Handler, Boot
<1>4. ASSUME NEW g \in Publishers, Report(g) \/ Publish(g)
      PROVE  UNCHANGED vars
  BY <1>4 DEF Report, Publish
<1>5. CASE StoreStep
  BY <1>5 DEF StoreStep, Next, Handler, Boot
<1>6. QED
  BY <1>1, <1>2, <1>3, <1>4, <1>5 DEF PanelNext

LEMMA PanelTypeInit == PanelInit => PanelTypeOK
<1> SUFFICES ASSUME PanelInit PROVE PanelTypeOK
  OBVIOUS
<1>1. TypeOK
  BY TypeInit DEF PanelInit
<1>2. commands \in Seq(ArmCommand(Slots)) /\ Len(commands) <= MaxCommands
  BY QueueAssumption DEF PanelInit
<1>3. bus \in [Windows -> Seq(PoseState(Slots))]
  BY DEF PanelInit
<1>4. QED
  BY <1>1, <1>2, <1>3 DEF PanelInit, PanelTypeOK

LEMMA SnapshotType == Snapshot \in PoseState(Slots)
<1>1. Snapshot \in [Slots -> PoseSlot]
  BY DEF Snapshot, PoseSlot
<1>2. QED
  BY <1>1 DEF PoseState

LEMMA CommandType ==
    ASSUME NEW s \in Slots,
           NEW case \in {"capturePose", "deletePose", "recallPose"}
    PROVE  [case |-> case, value |-> s] \in ArmCommand(Slots)
BY DEF ArmCommand

LEMMA PanelTypeNext ==
    PanelTypeOK /\ [PanelNext]_allVars => PanelTypeOK'
<1> SUFFICES ASSUME PanelTypeOK, [PanelNext]_allVars PROVE PanelTypeOK'
  OBVIOUS
<1>0. TypeOK'
  BY StoreSteps, TypeNext DEF PanelTypeOK
<1>1. ASSUME NEW w \in Windows, Mount(w) PROVE PanelTypeOK'
  BY <1>0, <1>1 DEF Mount, PanelTypeOK
<1>2. ASSUME NEW w \in Windows, Unmount(w) PROVE PanelTypeOK'
  <2>1. bus' \in [Windows -> Seq(PoseState(Slots))]
    BY <1>2 DEF Unmount, PanelTypeOK
  <2>2. card' \in [Windows -> PoseState(Slots) \cup {NoValue}]
    BY <1>2 DEF Unmount, PanelTypeOK
  <2>3. QED
    BY <1>0, <1>2, <2>1, <2>2 DEF Unmount, PanelTypeOK
<1>3. ASSUME NEW w \in Windows, Deliver(w) PROVE PanelTypeOK'
  <2>1. /\ Head(bus[w]) \in PoseState(Slots)
        /\ Tail(bus[w]) \in Seq(PoseState(Slots))
    BY <1>3 DEF Deliver, PanelTypeOK
  <2>2. QED
    BY <1>0, <1>3, <2>1 DEF Deliver, PanelTypeOK
<1>4. ASSUME NEW w \in Windows, NEW s \in Slots,
             Assign(w, s) \/ Clear(w, s) \/ RecallPose(w, s)
      PROVE  PanelTypeOK'
  <2>1. PICK case \in {"capturePose", "deletePose", "recallPose"} :
            Press(w, case, s)
    BY <1>4 DEF Assign, Clear, RecallPose
  <2>2. [case |-> case, value |-> s] \in ArmCommand(Slots)
    BY CommandType
  <2>3. /\ commands' \in Seq(ArmCommand(Slots))
        /\ Len(commands') <= MaxCommands
    BY <2>1, <2>2, QueueAssumption DEF Press, PanelTypeOK
  <2>4. QED
    BY <1>0, <2>1, <2>3 DEF Press, PanelTypeOK
<1>5. CASE Take
  <2>1. /\ commands' \in Seq(ArmCommand(Slots))
        /\ Len(commands') <= MaxCommands
    BY <1>5, QueueAssumption DEF Take, PanelTypeOK
  <2>2. QED
    BY <1>0, <1>5, <2>1 DEF Take, PanelTypeOK
<1>6. CASE PanelHandlerMap \/ PanelBootMap
  BY <1>0, <1>6 DEF PanelHandlerMap, PanelBootMap, PanelTypeOK
<1>7. CASE PanelCrash
  <2>1. /\ commands' \in Seq(ArmCommand(Slots))
        /\ Len(commands') <= MaxCommands
    BY <1>7, QueueAssumption DEF PanelCrash
  <2>2. QED
    BY <1>0, <1>7, <2>1 DEF PanelCrash, PanelTypeOK
<1>8. ASSUME NEW g \in Publishers, Report(g) PROVE PanelTypeOK'
  <2>1. report' \in [Publishers -> PoseState(Slots) \cup {NoValue}]
    BY <1>8, SnapshotType DEF Report, PanelTypeOK
  <2>2. QED
    BY <1>0, <1>8, <2>1 DEF Report, PanelTypeOK
<1>9. ASSUME NEW g \in Publishers, Publish(g) PROVE PanelTypeOK'
  <2>1. report[g] \in PoseState(Slots)
    BY <1>9 DEF Publish, PanelTypeOK
  <2>2. bus' \in [Windows -> Seq(PoseState(Slots))]
    BY <1>9, <2>1 DEF Publish, PanelTypeOK
  <2>3. /\ report' \in [Publishers -> PoseState(Slots) \cup {NoValue}]
        /\ sent' \subseteq Publishers
    BY <1>9 DEF Publish, PanelTypeOK
  <2>4. told' \subseteq mounted' /\ mounted' \subseteq Windows
    BY <1>9 DEF Publish, PanelTypeOK
  <2>5. UNCHANGED <<commands, card>>
    BY <1>9 DEF Publish
  <2>6. QED
    BY <1>0, <2>2, <2>3, <2>4, <2>5 DEF PanelTypeOK
<1>10. CASE UNCHANGED panelVars
  BY <1>0, <1>10 DEF panelVars, PanelTypeOK
<1>11. QED
  BY <1>1, <1>2, <1>3, <1>4, <1>5, <1>6, <1>7, <1>8, <1>9, <1>10
     DEF PanelNext, Window, allVars

\* Queues, cards and snapshots hold messages of their protocol, and only open
\* windows are sent any.
THEOREM PanelTypeCorrect == PanelSpec => []PanelTypeOK
  BY PanelTypeInit, PanelTypeNext, PTL DEF PanelSpec

\* With windows, queues and lost messages around it, the pose store does only
\* what PoseStore says: whatever is proved of PoseStore holds here.
THEOREM PanelImplementsStore == PanelSpec => Spec
<1>1. PanelInit => Init
  BY DEF PanelInit
<1>2. QED
  BY <1>1, StoreSteps, PanelTypeCorrect, PTL DEF PanelSpec, Spec

-----------------------------------------------------------------------------
(* What a window shows.                                                    *)

\* The last message sent to window w is the present state of the store.
Newest(w) == IF bus[w] = <<>> THEN card[w] = Snapshot
                              ELSE bus[w][Len(bus[w])] = Snapshot

AllNewest == \A w \in told : Newest(w)

\* publishPoses is entered only where the code calls it.
AtItsPlace ==
    \A g \in Publishers :
        /\ report[g] # NoValue => AtPublish(g) /\ g \notin sent
        /\ g \in sent => AtPublish(g)

\* What a goroutine is about to publish, or has published, is the store: from
\* its snapshot to the next change.
PublishedFresh ==
    /\ clean /\ boot = "fill" =>
           /\ report["boot"] # NoValue => report["boot"] = Snapshot
           /\ "boot" \in sent => AllNewest
    /\ clean /\ boot = "set" => AllNewest
    /\ boot = "up" /\ (clean \/ handled) =>
           /\ report["handler"] # NoValue => report["handler"] = Snapshot
           /\ handler \in {"idle", "set"} => AllNewest
           /\ "handler" \in sent => AllNewest

CardInv == AtItsPlace /\ PublishedFresh

LEMMA CardInit == PanelInit => CardInv
  BY DEF PanelInit, Init, CardInv, AtItsPlace, PublishedFresh, Publishers

\* A step that leaves the windows and the store alone leaves what they show.
LEMMA NewestKept ==
    UNCHANGED <<bus, card, told, store>> => (AllNewest <=> AllNewest')
  BY DEF AllNewest, Newest, Snapshot

\* Taking the head of a queue leaves its last element the last, or is it.
LEMMA LastOfTail ==
    ASSUME NEW S, NEW m \in Seq(S), m # <<>>
    PROVE  IF Tail(m) = <<>> THEN Head(m) = m[Len(m)]
                             ELSE Tail(m)[Len(Tail(m))] = m[Len(m)]
<1>1. Len(m) \in Nat /\ Len(m) > 0 /\ Head(m) = m[1]
  OBVIOUS
<1>2. Tail(m) \in Seq(S) /\ Len(Tail(m)) = Len(m) - 1
  OBVIOUS
<1>3. \A i \in 1 .. Len(m) - 1 : Tail(m)[i] = m[i + 1]
  OBVIOUS
<1>4. CASE Len(m) = 1
  <2>1. Len(Tail(m)) = 0
    BY <1>2, <1>4
  <2>2. Tail(m) = <<>>
    BY <1>2, <2>1, EmptySeq, Zenon
  <2>3. Head(m) = m[Len(m)]
    BY <1>1, <1>4
  <2>4. QED
    BY <2>2, <2>3
<1>5. CASE Len(m) > 1
  BY <1>1, <1>2, <1>3, <1>5, EmptySeq
<1>6. QED
  BY <1>1, <1>4, <1>5

LEMMA CardNext ==
    PanelTypeOK /\ StoreInv /\ CardInv /\ [PanelNext]_allVars => CardInv'
<1> SUFFICES ASSUME PanelTypeOK, StoreInv, CardInv, [PanelNext]_allVars
             PROVE  CardInv'
  OBVIOUS
<1> USE DEF CardInv, AtItsPlace, AtPublish, Publishers
<1>0. TypeOK
  BY DEF PanelTypeOK
<1>1. ASSUME NEW w \in Windows, Mount(w) \/ Unmount(w) PROVE CardInv'
  <2>1. AllNewest => AllNewest'
    <3>1. Snapshot' = Snapshot
      BY <1>1 DEF Mount, Unmount, vars, Snapshot
    <3>2. ASSUME NEW v \in told'
          PROVE  v \in told /\ bus'[v] = bus[v] /\ card'[v] = card[v]
      BY <1>1 DEF Mount, Unmount, PanelTypeOK
    <3>3. QED
      BY <3>1, <3>2 DEF AllNewest, Newest
  <2>2. UNCHANGED <<store, handler, boot, pending, clean, handled, report, sent>>
    BY <1>1 DEF Mount, Unmount, vars, history
  <2>3. QED
    BY <2>1, <2>2 DEF PublishedFresh, Snapshot
<1>2. ASSUME NEW w \in Windows, Deliver(w) PROVE CardInv'
  <2>1. /\ bus[w] \in Seq(PoseState(Slots)) /\ bus[w] # <<>>
        /\ card' = [card EXCEPT ![w] = Head(bus[w])]
        /\ bus' = [bus EXCEPT ![w] = Tail(bus[w])]
        /\ told' = told
    BY <1>2 DEF Deliver, PanelTypeOK
  <2>2. UNCHANGED <<store, handler, boot, pending, clean, handled, report, sent>>
    BY <1>2 DEF Deliver, vars, history
  <2>3. Newest(w) => Newest(w)'
    <3>1. bus'[w] = Tail(bus[w]) /\ card'[w] = Head(bus[w])
      BY <2>1 DEF PanelTypeOK
    <3>2. IF Tail(bus[w]) = <<>>
          THEN Head(bus[w]) = bus[w][Len(bus[w])]
          ELSE Tail(bus[w])[Len(Tail(bus[w]))] = bus[w][Len(bus[w])]
      BY <2>1, LastOfTail
    <3>3. QED
      BY <2>1, <2>2, <3>1, <3>2 DEF Newest, Snapshot
  <2>4. \A v \in Windows \ {w} : Newest(v) => Newest(v)'
    BY <2>1, <2>2 DEF Newest, Snapshot, PanelTypeOK
  <2>5. AllNewest => AllNewest'
    BY <2>1, <2>3, <2>4 DEF AllNewest, PanelTypeOK
  <2>6. QED
    BY <2>2, <2>5 DEF PublishedFresh, Snapshot
<1>3. ASSUME NEW w \in Windows, NEW s \in Slots,
             Assign(w, s) \/ Clear(w, s) \/ RecallPose(w, s)
      PROVE  CardInv'
  <2>1. UNCHANGED <<vars, report, sent, bus, card, told>>
    BY <1>3 DEF Assign, Clear, RecallPose, Press
  <2>2. QED
    BY <2>1, NewestKept DEF PublishedFresh, vars, history, Snapshot
<1>4. CASE Take
  <2>1. UNCHANGED <<report, sent, bus, card, told>> /\ handler = "idle"
    BY <1>4 DEF Take
  <2>2. CASE UNCHANGED vars
    BY <2>1, <2>2, NewestKept DEF PublishedFresh, vars, history, Snapshot
  <2>3. ASSUME NEW s, NEW p, Change(s, p) PROVE CardInv'
    <3>1. /\ handler' = "all" /\ boot' = boot /\ pending' = pending
          /\ clean' = (clean /\ boot = "up")
          /\ handled' = (handled \/ boot = "up")
      BY <2>3 DEF Change
    <3>2. QED
      BY <2>1, <3>1 DEF PublishedFresh
  <2>4. QED
    BY <1>4, <2>2, <2>3 DEF Take
<1>5. CASE PanelHandlerMap
  <2>1. /\ handler = "map" /\ handler' = "set" /\ "handler" \in sent
        /\ sent' = sent \ {"handler"}
        /\ UNCHANGED <<store, boot, pending, clean, handled,
                       report, bus, card, told>>
    BY <1>5 DEF PanelHandlerMap, HandlerMap, history
  <2>2. QED
    BY <2>1, NewestKept DEF PublishedFresh, Snapshot
<1>6. CASE PanelBootMap
  <2>1. /\ boot = "fill" /\ boot' = "set" /\ "boot" \in sent
        /\ sent' = sent \ {"boot"}
        /\ UNCHANGED <<store, handler, pending, clean, handled,
                       report, bus, card, told>>
    BY <1>6 DEF PanelBootMap, BootMap, history
  <2>2. QED
    BY <2>1, NewestKept DEF PublishedFresh, Snapshot
<1>7. CASE PanelCrash
  BY <1>7 DEF PanelCrash, Crash, PublishedFresh
<1>8. ASSUME NEW g \in Publishers, Report(g) PROVE CardInv'
  <2>1. /\ UNCHANGED <<store, handler, boot, pending, clean, handled,
                       sent, bus, card, told>>
        /\ AtPublish(g) /\ g \notin sent
        /\ report' = [report EXCEPT ![g] = Snapshot]
    BY <1>8 DEF Report, vars, history
  <2>2. report \in [Publishers -> PoseState(Slots) \cup {NoValue}]
    BY DEF PanelTypeOK
  <2>3. Snapshot' = Snapshot
    BY <2>1 DEF Snapshot
  <2>4. QED
    BY <2>1, <2>2, <2>3, NewestKept DEF PublishedFresh
<1>9. ASSUME NEW g \in Publishers, Publish(g) PROVE CardInv'
  <2>1. /\ UNCHANGED <<store, handler, boot, pending, clean, handled, card>>
        /\ report[g] # NoValue
        /\ sent' = sent \cup {g}
        /\ report' = [report EXCEPT ![g] = NoValue]
    BY <1>9 DEF Publish, vars, history
  <2>2. PICK got \in SUBSET mounted :
            /\ bus' = [w \in Windows |->
                   IF w \in got THEN Append(bus[w], report[g]) ELSE bus[w]]
            /\ told' = got
    BY <1>9 DEF Publish
  <2>3. report[g] \in PoseState(Slots) /\ Snapshot' = Snapshot
    BY <2>1 DEF PanelTypeOK, Snapshot
  <2>4. report[g] = Snapshot => AllNewest'
    <3>1. SUFFICES ASSUME report[g] = Snapshot, NEW w \in got
                   PROVE  Newest(w)'
      BY <2>2 DEF AllNewest
    <3>2. /\ bus'[w] = Append(bus[w], report[g])
          /\ bus[w] \in Seq(PoseState(Slots))
      BY <2>2 DEF PanelTypeOK
    <3>3. /\ bus'[w] # <<>>
          /\ bus'[w][Len(bus'[w])] = report[g]
      BY <2>3, <3>2
    <3>4. QED
      BY <2>3, <3>1, <3>3 DEF Newest
  <2>5. report \in [Publishers -> PoseState(Slots) \cup {NoValue}]
    BY DEF PanelTypeOK
  <2>6. CASE g = "handler"
    <3>1. handler = "map"
      BY <2>1, <2>6
    <3>2. clean /\ boot # "up" => handler = "idle"
      BY DEF StoreInv, CleanBoot
    <3>3. QED
      BY <2>1, <2>3, <2>4, <2>5, <2>6, <3>1, <3>2 DEF PublishedFresh
  <2>7. CASE g = "boot"
    <3>1. boot = "fill"
      BY <2>1, <2>7
    <3>2. QED
      BY <2>1, <2>3, <2>4, <2>5, <2>7, <3>1 DEF PublishedFresh
  <2>8. QED
    BY <2>6, <2>7
<1>10. CASE StoreStep /\ UNCHANGED panelVars
  <2>1. UNCHANGED <<report, sent, bus, card, told>>
    BY <1>10 DEF panelVars
  <2>2. CASE All \/ Save \/ HandlerSet \/ BootLoad
    <3>1. UNCHANGED <<store, clean, handled>>
      BY <2>2 DEF All, Save, HandlerSet, BootLoad, history
    <3>2. QED
      BY <2>1, <2>2, <3>1, NewestKept
         DEF PublishedFresh, Snapshot, All, Save, HandlerSet, BootLoad
  <2>3. CASE BootLoadFails \/ BootSet
    <3>1. store' = store /\ handled' = handled /\ handler' = handler
      BY <2>3 DEF BootLoadFails, BootSet
    <3>2. handled => boot = "up"
      BY DEF StoreInv, CleanBoot
    <3>3. QED
      BY <2>1, <2>3, <3>1, <3>2, NewestKept
         DEF PublishedFresh, Snapshot, BootLoadFails, BootSet
  <2>4. ASSUME NEW s \in Slots, BootFill(s) PROVE CardInv'
    <3>1. /\ boot = "fill" /\ pending # Empty
          /\ UNCHANGED <<handler, boot, clean, handled>>
      BY <2>4 DEF BootFill, history, Empty
    <3>2. report["boot"] = NoValue /\ "boot" \notin sent
      BY <3>1
    <3>3. QED
      BY <2>1, <3>1, <3>2 DEF PublishedFresh
  <2>5. QED
    BY <1>10, <2>2, <2>3, <2>4 DEF StoreStep
<1>11. CASE UNCHANGED allVars
  <2>1. UNCHANGED <<vars, report, sent, bus, card, told>>
    BY <1>11 DEF allVars, panelVars
  <2>2. QED
    BY <2>1, NewestKept DEF PublishedFresh, vars, history, Snapshot
<1>12. QED
  BY <1>1, <1>2, <1>3, <1>4, <1>5, <1>6, <1>7, <1>8, <1>9, <1>10, <1>11
     DEF PanelNext, Window

\* Once nothing is on its way, an open window that got the last message offers
\* Clear and recall for exactly the slots that hold a pose.
THEOREM CardMatchesStoreCorrect == PanelSpec => []CardMatchesStore
<1>1. PanelTypeOK /\ CardInv => CardMatchesStore
  <2> SUFFICES ASSUME PanelTypeOK, CardInv,
                      boot = "up", handler = "idle", clean \/ handled,
                      NEW w \in told, bus[w] = <<>>, NEW s \in Slots
               PROVE  Assigned(w, s) <=> store[s] # None
    BY DEF CardMatchesStore
  <2>1. card[w] = Snapshot
    BY DEF CardInv, PublishedFresh, AllNewest, Newest
  <2>2. Snapshot \in PoseState(Slots) /\ Snapshot # NoValue
    BY SnapshotType, QueueAssumption
  <2>3. card[w][s].assigned = (store[s] # None) /\ s \in DOMAIN card[w]
    BY <2>1 DEF Snapshot
  <2>4. QED
    BY <2>1, <2>2, <2>3 DEF Assigned
<1>2. QED
  BY <1>1, PanelTypeCorrect, PanelImplementsStore, StoreCorrect, CardInit,
     CardNext, PTL DEF PanelSpec

\* PoseStore's promises hold with the panel around it: after any command that
\* began with the boot complete the loop recalls the store's poses, and after a
\* clean boot the file holds them and loses none that no command named.
THEOREM StorePromisesKept ==
    PanelSpec => []LiveMatchesStore /\ []DiskMatchesStore /\ OthersSurvive
  BY PanelImplementsStore, LiveMatchesStoreCorrect, DiskMatchesStoreCorrect,
     OthersSurviveCorrect, PTL
=============================================================================
