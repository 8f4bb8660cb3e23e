----------------------------- MODULE PoseStore ------------------------------
(***************************************************************************)
(* Saved poses: internal/poses/poses.go, publishPoses, the pose commands   *)
(* and the boot of main.go.                                                *)
(*                                                                         *)
(* Two goroutines change the store: the boot, which loads the file, and    *)
(* the command handler, whose subscription precedes the load.  Each of     *)
(* them pushes a snapshot of the store to the teleop loop.  The module may *)
(* crash at any step and is restarted.  A pose is a model value.           *)
(***************************************************************************)
EXTENDS Naturals

CONSTANTS
    Slots,
    Poses,
    MaxCrashes,  \* bound on the crashes
    None

ASSUME NoneAssumption == None \notin Poses
ASSUME CrashAssumption == MaxCrashes \in Nat

VARIABLES
    store,    \* Store.byID
    live,     \* Loop.poses
    disk,     \* what the file holds
    handler,  \* stage of the command handler
    all,      \* its All()
    boot,     \* stage of the boot
    pending,  \* slots the boot has loaded and not yet set, with their poses
    map,      \* the snapshot each goroutine has taken for the loop
    crashes,
    clean,    \* this boot's load worked and no command ran before its end (history)
    handled,  \* a command began after this boot's end (history)
    saved,    \* the last Save of this boot worked, or there was none (history)
    touched   \* slots captured or deleted since this boot began (history)

history == <<clean, handled, saved, touched>>
vars == <<store, live, disk, handler, all, boot, pending, map, crashes, history>>

PoseSet == [Slots -> Poses \cup {None}]
Empty   == [s \in Slots |-> None]

Init ==
    /\ store = Empty /\ live = Empty /\ disk = Empty
    /\ handler = "idle" /\ all = Empty
    /\ boot = "load" /\ pending = Empty
    /\ map = [g \in {"handler", "boot"} |-> Empty]
    /\ crashes = 0
    /\ clean = TRUE /\ handled = FALSE /\ saved = TRUE /\ touched = {}

-----------------------------------------------------------------------------
(* The command handler, one command at a time.                             *)

\* Mutant of Change: a delete is not saved.
ChangeUnsaved(s, p) ==
    /\ handler = "idle"
    /\ handler' = IF p = None THEN "map" ELSE "all"
    /\ store' = [store EXCEPT ![s] = p]
    /\ touched' = touched \cup {s}
    /\ clean' = (clean /\ boot = "up")
    /\ handled' = (handled \/ boot = "up")
    /\ UNCHANGED <<live, disk, all, boot, pending, map, crashes, saved>>

\* capture_pose and delete_pose change one slot (p = None deletes it).  A
\* capture that reads no servo changes nothing and returns early.
Change(s, p) ==
    /\ handler = "idle"
    /\ handler' = "all"
    /\ store' = [store EXCEPT ![s] = p]
    /\ touched' = touched \cup {s}
    /\ clean' = (clean /\ boot = "up")
    /\ handled' = (handled \/ boot = "up")
    /\ UNCHANGED <<live, disk, all, boot, pending, map, crashes, saved>>

\* Mutant of All: only the slot that changed is saved.
AllTouched ==
    /\ handler = "all"
    /\ handler' = "save"
    /\ all' = [s \in Slots |-> IF s \in touched THEN store[s] ELSE None]
    /\ UNCHANGED <<store, live, disk, boot, pending, map, crashes, history>>

\* posesStore.All(), the argument of Save.
All ==
    /\ handler = "all"
    /\ handler' = "save"
    /\ all' = store
    /\ UNCHANGED <<store, live, disk, boot, pending, map, crashes, history>>

\* Save replaces the file, or fails and leaves it; the handler ignores which.
Save ==
    /\ handler = "save"
    /\ handler' = "map"
    /\ \E works \in BOOLEAN :
        /\ disk' = IF works THEN all ELSE disk
        /\ saved' = works
    /\ all' = Empty
    /\ UNCHANGED <<store, live, boot, pending, map, crashes, clean, handled, touched>>

\* Mutant of HandlerMap: a delete is not pushed, the loop keeps its poses.
HandlerMapKeepsOld ==
    /\ handler = "map"
    /\ handler' = "set"
    /\ map' = [map EXCEPT !["handler"] =
           [s \in Slots |-> IF store[s] = None THEN live[s] ELSE store[s]]]
    /\ UNCHANGED <<store, live, disk, all, boot, pending, crashes, history>>

\* publishPoses: the snapshot, then the loop's pose set.
HandlerMap ==
    /\ handler = "map"
    /\ handler' = "set"
    /\ map' = [map EXCEPT !["handler"] = store]
    /\ UNCHANGED <<store, live, disk, all, boot, pending, crashes, history>>

HandlerSet ==
    /\ handler = "set"
    /\ handler' = "idle"
    /\ live' = map["handler"]
    /\ map' = [map EXCEPT !["handler"] = Empty]
    /\ UNCHANGED <<store, disk, all, boot, pending, crashes, history>>

-----------------------------------------------------------------------------
(* The boot.                                                               *)

\* Load: a missing file is an empty set.
BootLoad ==
    /\ boot = "load"
    /\ boot' = "fill"
    /\ pending' = disk
    /\ UNCHANGED <<store, live, disk, handler, all, map, crashes, history>>

\* Load fails: the store stays as it is, and the boot goes on.
BootLoadFails ==
    /\ boot = "load"
    /\ boot' = "fill"
    /\ clean' = FALSE
    /\ UNCHANGED <<store, live, disk, handler, all, pending, map, crashes,
                   handled, saved, touched>>

\* Store.Set for one pose of the file, over whatever the slot holds.
BootFill(s) ==
    /\ boot = "fill" /\ pending[s] # None
    /\ store' = [store EXCEPT ![s] = pending[s]]
    /\ pending' = [pending EXCEPT ![s] = None]
    /\ UNCHANGED <<live, disk, handler, all, boot, map, crashes, history>>

\* publishPoses of the boot.
BootMap ==
    /\ boot = "fill" /\ pending = Empty
    /\ boot' = "set"
    /\ map' = [map EXCEPT !["boot"] = store]
    /\ UNCHANGED <<store, live, disk, handler, all, pending, crashes, history>>

BootSet ==
    /\ boot = "set"
    /\ boot' = "up"
    /\ live' = map["boot"]
    /\ map' = [map EXCEPT !["boot"] = Empty]
    /\ clean' = (clean /\ handler = "idle")
    /\ UNCHANGED <<store, disk, handler, all, pending, crashes, handled,
                   saved, touched>>

\* The process dies and is restarted; the file stays (a Save under way has only
\* written its temporary file).
Crash ==
    /\ crashes < MaxCrashes
    /\ crashes' = crashes + 1
    /\ store' = Empty /\ live' = Empty
    /\ handler' = "idle" /\ all' = Empty
    /\ boot' = "load" /\ pending' = Empty
    /\ map' = [g \in {"handler", "boot"} |-> Empty]
    /\ clean' = TRUE /\ handled' = FALSE /\ saved' = TRUE /\ touched' = {}
    /\ UNCHANGED disk

-----------------------------------------------------------------------------
Handler == \/ \E s \in Slots, p \in Poses \cup {None} : Change(s, p)
           \/ All \/ Save \/ HandlerMap \/ HandlerSet

Boot == \/ BootLoad \/ BootLoadFails \/ BootMap \/ BootSet
        \/ \E s \in Slots : BootFill(s)

Next == Handler \/ Boot \/ Crash

Spec == Init /\ [][Next]_vars

-----------------------------------------------------------------------------
(* Properties.                                                             *)

TypeOK ==
    /\ {store, live, disk, all, pending} \subseteq PoseSet
    /\ map \in [{"handler", "boot"} -> PoseSet]
    /\ handler \in {"idle", "all", "save", "map", "set"}
    /\ boot \in {"load", "fill", "set", "up"}
    /\ boot \in {"set", "up"} => pending = Empty
    /\ crashes \in 0 .. MaxCrashes
    /\ {clean, handled, saved} \subseteq BOOLEAN
    /\ touched \subseteq Slots

\* Between commands the loop recalls what the store holds: after any command
\* that began with the boot complete, and after a boot that no command ran into.
LiveMatchesStore ==
    boot = "up" /\ handler = "idle" /\ (clean \/ handled) => live = store

\* After a boot that loaded the file and that no command ran into, the next
\* restart brings back what the store holds, unless the last Save failed.
DiskMatchesStore ==
    boot = "up" /\ handler = "idle" /\ clean /\ saved => disk = store

\* After such a boot, a Save changes the file only in slots a command has
\* captured or deleted: the poses of the others survive every crash.
OthersSurvive ==
    [][ clean => \A s \in Slots \ touched : disk'[s] = disk[s] ]_vars
=============================================================================
