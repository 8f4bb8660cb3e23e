-------------------------- MODULE PoseStoreProofs --------------------------
(***************************************************************************)
(* Proofs about PoseStore, for any slots, poses and number of crashes.     *)
(***************************************************************************)
EXTENDS PoseStore, TLAPS

LEMMA TypeNext == TypeOK /\ [Next]_vars => TypeOK'
<1> USE DEF TypeOK
<1>0. Empty \in PoseSet
  BY DEF Empty, PoseSet
<1> SUFFICES ASSUME TypeOK, [Next]_vars PROVE TypeOK'
  OBVIOUS
<1>1. ASSUME NEW s \in Slots, NEW p \in Poses \cup {None}, Change(s, p)
      PROVE  TypeOK'
  BY <1>1 DEF Change, PoseSet
<1>2. CASE All
  BY <1>2 DEF All, history
<1>3. CASE Save
  BY <1>0, <1>3 DEF Save
<1>4. CASE HandlerMap
  BY <1>4 DEF HandlerMap, history
<1>5. CASE HandlerSet
  BY <1>0, <1>5 DEF HandlerSet, history
<1>6. CASE BootLoad
  BY <1>6 DEF BootLoad, history
<1>7. CASE BootLoadFails
  BY <1>7 DEF BootLoadFails
<1>8. ASSUME NEW s \in Slots, BootFill(s) PROVE TypeOK'
  BY <1>8 DEF BootFill, history, PoseSet
<1>9. CASE BootMap
  BY <1>9 DEF BootMap, history
<1>10. CASE BootSet
  <2>1. clean' \in BOOLEAN /\ map' \in [{"handler", "boot"} -> PoseSet]
    BY <1>0, <1>10 DEF BootSet
  <2>2. live' \in PoseSet
    BY <1>10 DEF BootSet
  <2>3. /\ boot' = "up" /\ pending = Empty
        /\ UNCHANGED <<store, disk, handler, all, pending, crashes, handled,
                       saved, touched>>
    BY <1>10 DEF BootSet
  <2>4. QED
    BY <2>1, <2>2, <2>3
<1>11. CASE Crash
  <2>1. map' \in [{"handler", "boot"} -> PoseSet]
    BY <1>0, <1>11 DEF Crash
  <2>2. {store', live', disk', all', pending'} \subseteq PoseSet
    BY <1>0, <1>11 DEF Crash
  <2>3. /\ {clean', handled', saved'} \subseteq BOOLEAN
        /\ touched' \subseteq Slots
    BY <1>11 DEF Crash
  <2>4. crashes' \in 0 .. MaxCrashes
    BY <1>11, CrashAssumption DEF Crash
  <2>5. handler' = "idle" /\ boot' = "load"
    BY <1>11 DEF Crash
  <2>6. QED
    BY <2>1, <2>2, <2>3, <2>4, <2>5
<1>12. CASE UNCHANGED vars
  BY <1>12 DEF vars, history
<1>13. QED
  BY <1>1, <1>2, <1>3, <1>4, <1>5, <1>6, <1>7, <1>8, <1>9, <1>10, <1>11,
     <1>12 DEF Next, Handler, Boot

LEMMA TypeInit == Init => TypeOK
<1> SUFFICES ASSUME Init PROVE TypeOK
  OBVIOUS
<1>1. Empty \in PoseSet
  BY DEF Empty, PoseSet
<1>2. {store, live, disk, all, pending} \subseteq PoseSet
  BY <1>1 DEF Init
<1>3. map \in [{"handler", "boot"} -> PoseSet]
  BY <1>1 DEF Init
<1>4. {clean, handled, saved} \subseteq BOOLEAN /\ touched \subseteq Slots
  BY DEF Init
<1>5. QED
  BY <1>2, <1>3, <1>4, CrashAssumption DEF Init, TypeOK

\* The values of the state hold only poses, through every command, boot and
\* crash, and a boot past its loading has nothing left to set.
THEOREM TypeCorrect == Spec => []TypeOK
  BY TypeInit, TypeNext, PTL DEF Spec

-----------------------------------------------------------------------------
(* The inductive invariant.                                                *)

\* Until a clean boot is complete no command has run, and the slots of the file
\* are either in the store or still pending.
CleanBoot ==
    /\ handled => boot = "up"
    /\ clean /\ boot # "up" => handler = "idle"
    /\ clean /\ boot = "load" => store = Empty
    /\ clean /\ boot = "fill" =>
           \A s \in Slots : IF pending[s] = None THEN store[s] = disk[s]
                                                 ELSE pending[s] = disk[s]
    /\ clean /\ boot = "set" => store = disk /\ map["boot"] = store

\* The snapshot the handler has taken, and the loop's poses, are the store.
SnapshotsFresh ==
    boot = "up" /\ (clean \/ handled) =>
        /\ handler = "set" => map["handler"] = store
        /\ handler = "idle" => live = store

\* The file is the store but for slots changed since; what Save will write is
\* the store.
FileFresh ==
    clean /\ boot = "up" =>
        /\ \A s \in Slots \ touched : disk[s] = store[s]
        /\ handler = "save" => all = store
        /\ handler \in {"idle", "map", "set"} /\ saved => disk = store

StoreInv == CleanBoot /\ SnapshotsFresh /\ FileFresh

LEMMA StoreNext == TypeOK /\ StoreInv /\ [Next]_vars => StoreInv'
<1> SUFFICES ASSUME TypeOK, StoreInv, [Next]_vars PROVE StoreInv'
  OBVIOUS
<1> USE DEF StoreInv, CleanBoot, SnapshotsFresh, FileFresh
<1>1. ASSUME NEW s \in Slots, NEW p \in Poses \cup {None}, Change(s, p)
      PROVE  StoreInv'
  <2>1. /\ handler = "idle" /\ handler' = "all"
        /\ UNCHANGED <<live, disk, all, boot, pending, map, saved>>
        /\ clean' = (clean /\ boot = "up")
        /\ handled' = (handled \/ boot = "up")
        /\ touched' = touched \cup {s}
    BY <1>1 DEF Change
  <2>2. \A t \in Slots \ {s} : store'[t] = store[t]
    BY <1>1 DEF Change, TypeOK, PoseSet
  <2>3. QED
    BY <2>1, <2>2
<1>2. CASE All
  BY <1>2 DEF All, history
<1>3. CASE Save
  BY <1>3 DEF Save
<1>4. CASE HandlerMap
  BY <1>4 DEF HandlerMap, history, TypeOK
<1>5. CASE HandlerSet
  BY <1>5 DEF HandlerSet, history, TypeOK
<1>6. CASE BootLoad
  BY <1>6 DEF BootLoad, history, Empty
<1>7. CASE BootLoadFails
  BY <1>7 DEF BootLoadFails
<1>8. ASSUME NEW s \in Slots, BootFill(s) PROVE StoreInv'
  <2>1. /\ boot = "fill" /\ pending[s] # None
        /\ UNCHANGED <<disk, handler, boot, history>>
    BY <1>8 DEF BootFill
  <2>2. /\ store'[s] = pending[s] /\ pending'[s] = None
        /\ \A t \in Slots \ {s} : /\ store'[t] = store[t]
                                  /\ pending'[t] = pending[t]
    BY <1>8 DEF BootFill, TypeOK, PoseSet
  <2>3. QED
    BY <2>1, <2>2 DEF history
<1>9. CASE BootMap
  <2>1. clean => store = disk
    BY <1>9 DEF BootMap, Empty, TypeOK, PoseSet
  <2>2. QED
    BY <1>9, <2>1 DEF BootMap, history, TypeOK
<1>10. CASE BootSet
  BY <1>10 DEF BootSet
<1>11. CASE Crash
  BY <1>11 DEF Crash
<1>12. CASE UNCHANGED vars
  BY <1>12 DEF vars, history
<1>13. QED
  BY <1>1, <1>2, <1>3, <1>4, <1>5, <1>6, <1>7, <1>8, <1>9, <1>10, <1>11,
     <1>12 DEF Next, Handler, Boot

LEMMA StoreInit == Init => StoreInv
  BY DEF Init, StoreInv, CleanBoot, SnapshotsFresh, FileFresh

LEMMA StoreCorrect == Spec => []StoreInv
  BY StoreInit, TypeCorrect, StoreNext, PTL DEF Spec

-----------------------------------------------------------------------------
\* Between commands the loop recalls the poses of the store, whatever order the
\* boot and the handler took their snapshots in, unless the boot was run into.
THEOREM LiveMatchesStoreCorrect == Spec => []LiveMatchesStore
<1>1. StoreInv => LiveMatchesStore
  BY DEF StoreInv, SnapshotsFresh, LiveMatchesStore
<1>2. QED
  BY <1>1, StoreCorrect, PTL

\* After a clean boot the file is the store whenever the last Save worked.
THEOREM DiskMatchesStoreCorrect == Spec => []DiskMatchesStore
<1>1. StoreInv => DiskMatchesStore
  BY DEF StoreInv, FileFresh, DiskMatchesStore
<1>2. QED
  BY <1>1, StoreCorrect, PTL

\* After a clean boot no step loses the saved pose of a slot that no command
\* has named.
THEOREM OthersSurviveCorrect == Spec => OthersSurvive
<1>1. TypeOK /\ StoreInv /\ [Next]_vars =>
          [clean => \A s \in Slots \ touched : disk'[s] = disk[s]]_vars
  <2> SUFFICES ASSUME StoreInv, [Next]_vars, clean,
                      NEW s \in Slots \ touched
               PROVE  disk'[s] = disk[s]
    OBVIOUS
  <2>1. CASE Save
    BY <2>1 DEF Save, StoreInv, CleanBoot, FileFresh
  <2>2. CASE disk' = disk
    BY <2>2
  <2>3. QED
    BY <2>1, <2>2 DEF Next, Handler, Boot, Change, All, HandlerMap, HandlerSet,
       BootLoad, BootLoadFails, BootFill, BootMap, BootSet, Crash, vars
<1>2. QED
  BY <1>1, TypeCorrect, StoreCorrect, PTL DEF Spec, OthersSurvive
=============================================================================
