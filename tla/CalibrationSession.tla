------------------------- MODULE CalibrationSession -------------------------
(***************************************************************************)
(* Calibration sessions: internal/control/controller.go, the publish and   *)
(* applyCals closures and the boot of main.go, and calibration.Save/Load.  *)
(*                                                                         *)
(* The command handler (one NATS callback at a time) starts, homes and     *)
(* signals sessions; each session is a goroutine that polls the servos and *)
(* then saves and applies what it measured; the module may crash at any    *)
(* step, is restarted by systemd and loads what the file holds.            *)
(*                                                                         *)
(* A joint's calibration is abstracted to the session that measured it.    *)
(***************************************************************************)
EXTENDS Naturals

CONSTANTS
    Joints,
    Sessions,    \* recording sessions, each used once (a bound for TLC)
    MaxCrashes,  \* bound on the crashes
    None

ASSUME NoneAssumption == None \notin Sessions
ASSUME CrashAssumption == MaxCrashes \in Nat

VARIABLES
    rec,         \* Controller.rec
    recording,   \* Controller.recording
    handler,     \* session the command handler is starting, or None
    pc,          \* stage of each session's goroutine
    finish,      \* each session's finish channel (capacity 1)
    setHome,     \* a request waits in the setHome channel (capacity 1)
    homed,       \* Recorder: some joint has a home
    save,        \* the value received from finish (kept after the end)
    ok,          \* joints that calibrated cleanly (Results)
    file,        \* the file each session created or truncated, by its creator
    content,     \* what each file holds
    corrupt,     \* files that do not decode
    tmp, disk,   \* the files named StatePath.tmp and StatePath, or None
    fences,      \* angle limits in the servos
    cals,        \* the map shared by teleop and the joints publisher
    aliased,     \* the arm server still has the shared map it was made with
    ownArm,      \* the arm server's own map once SetCalibration gave it one
    boot,        \* stage of the boot's load and apply
    loaded,      \* what the boot read
    crashes,
    overlap      \* a session was started while another one, or the boot, was
                 \*   saving or applying (history)

procVars == <<rec, recording, handler, pc, finish, setHome, homed,
              save, ok, file>>
liveVars == <<cals, aliased, ownArm, boot, loaded>>
diskVars == <<content, corrupt, tmp, disk, fences>>
vars == <<procVars, liveVars, diskVars, crashes, overlap>>

Calibration == [Joints -> Sessions \cup {None}]
Unset       == [j \in Joints |-> None]

\* What calibration.Load finds: a missing file reads as an empty set, and one
\* that does not decode gives nothing.
OnDisk == IF disk = None \/ disk \in corrupt THEN Unset ELSE content[disk]

\* The map the arm server uses.
arm == IF aliased THEN cals ELSE ownArm

\* The calibration session s has measured: its clean joints, no others.
Result(s) == [j \in Joints |-> IF j \in ok[s] THEN s ELSE None]

\* What is left of c when only the entries of some joints are.
Only(c, kept) == [j \in Joints |-> IF j \in kept THEN c[j] ELSE None]

\* applyCals replaces the entries of the joints in c, and keeps the others.
Merge(old, c) == [j \in Joints |-> IF c[j] # None THEN c[j] ELSE old[j]]

TailStages == {"results", "create", "encode", "rename", "shared", "arm", "end"}

\* A session's tail or the boot is under way.
Applying == boot # "up" \/ \E s \in Sessions : pc[s] \in TailStages

Init ==
    /\ rec = None /\ recording = FALSE /\ handler = None
    /\ pc = [s \in Sessions |-> "new"]
    /\ finish = [s \in Sessions |-> "empty"]
    /\ setHome = [s \in Sessions |-> FALSE]
    /\ homed = [s \in Sessions |-> FALSE]
    /\ save = [s \in Sessions |-> FALSE]
    /\ ok = [s \in Sessions |-> {}]
    /\ file = [s \in Sessions |-> None]
    /\ content = [s \in Sessions |-> Unset] /\ corrupt = {}
    /\ tmp = None /\ disk = None
    /\ fences = Unset
    /\ cals = Unset /\ aliased = TRUE /\ ownArm = Unset
    /\ boot = "load" /\ loaded = Unset
    /\ crashes = 0 /\ overlap = FALSE

-----------------------------------------------------------------------------
(* The command handler.  StartRecording returns before the next command is *)
(* delivered, so commands wait while handler is not None.                  *)

\* Mutant of StartRecording: a second call is not ignored.
StartRecordingAgain(s) ==
    /\ handler = None /\ pc[s] = "new"
    /\ rec' = s
    /\ handler' = s
    /\ overlap' = (overlap \/ Applying)
    /\ pc' = [pc EXCEPT ![s] = "starting"]
    /\ UNCHANGED <<recording, finish, setHome, homed, save, ok, file,
                   liveVars, diskVars, crashes>>

\* run_calibration while no session is live: rec is set under the lock.  With
\* a live session the command is ignored.
StartRecording(s) ==
    /\ handler = None /\ rec = None /\ pc[s] = "new"
    /\ rec' = s
    /\ handler' = s
    /\ overlap' = (overlap \/ Applying)
    /\ pc' = [pc EXCEPT ![s] = "starting"]
    /\ UNCHANGED <<recording, finish, setHome, homed, save, ok, file,
                   liveVars, diskVars, crashes>>

\* Mutant of StartFlag: the session reads the servos without raising the flag.
StartFlagDown ==
    /\ handler # None
    /\ pc' = [pc EXCEPT ![handler] = "record"]
    /\ handler' = None
    /\ UNCHANGED <<rec, recording, finish, setHome, homed, save, ok, file,
                   liveVars, diskVars, crashes, overlap>>

\* The flag is raised outside the lock, torque released, the goroutine started.
StartFlag ==
    /\ handler # None
    /\ recording' = TRUE
    /\ pc' = [pc EXCEPT ![handler] = "record"]
    /\ handler' = None
    /\ UNCHANGED <<rec, finish, setHome, homed, save, ok, file,
                   liveVars, diskVars, crashes, overlap>>

\* set_home: queued unless a capture is already pending.
SetHome ==
    /\ handler = None /\ rec # None
    /\ setHome' = [setHome EXCEPT ![rec] = TRUE]
    /\ UNCHANGED <<rec, recording, handler, pc, finish, homed, save, ok,
                   file, liveVars, diskVars, crashes, overlap>>

\* Mutant of Signal: a later signal takes the place of the first.
SignalLast(how) ==
    /\ handler = None /\ rec # None
    /\ finish' = [finish EXCEPT ![rec] = how]
    /\ UNCHANGED <<rec, recording, handler, pc, setHome, homed, save, ok,
                   file, liveVars, diskVars, crashes, overlap>>

\* finish_calibration ("save") and abort: the first signal stays.
Signal(how) ==
    /\ handler = None /\ rec # None
    /\ finish[rec] = "empty"
    /\ finish' = [finish EXCEPT ![rec] = how]
    /\ UNCHANGED <<rec, recording, handler, pc, setHome, homed, save, ok,
                   file, liveVars, diskVars, crashes, overlap>>

-----------------------------------------------------------------------------
(* The session goroutine: record's select, then the tail of a finished     *)
(* session.  Sampling the servos is Recorder's; it changes nothing here.   *)

\* Recorder.SetHome: joints that cannot be read are not homed.
TakeHome(s) ==
    /\ pc[s] = "record" /\ setHome[s]
    /\ setHome' = [setHome EXCEPT ![s] = FALSE]
    /\ \E read \in BOOLEAN : homed' = [homed EXCEPT ![s] = @ \/ read]
    /\ UNCHANGED <<rec, recording, handler, pc, finish, save, ok, file,
                   liveVars, diskVars, crashes, overlap>>

\* Mutant of TakeFinish: an aborted session is saved like a finished one.
TakeFinishAlwaysSaves(s) ==
    /\ pc[s] = "record" /\ finish[s] # "empty"
    /\ finish' = [finish EXCEPT ![s] = "empty"]
    /\ rec' = None
    /\ save' = [save EXCEPT ![s] = finish[s] = "save"]
    /\ pc' = [pc EXCEPT ![s] = "results"]
    /\ UNCHANGED <<recording, handler, setHome, homed, ok, file,
                   liveVars, diskVars, crashes, overlap>>

\* Mutant of TakeFinish: only a request to save ends the session.
TakeFinishSave(s) ==
    /\ pc[s] = "record" /\ finish[s] = "save"
    /\ finish' = [finish EXCEPT ![s] = "empty"]
    /\ rec' = None
    /\ save' = [save EXCEPT ![s] = TRUE]
    /\ pc' = [pc EXCEPT ![s] = "results"]
    /\ UNCHANGED <<recording, handler, setHome, homed, ok, file,
                   liveVars, diskVars, crashes, overlap>>

\* The session is closed under the lock, then reports "aborted" or goes on to
\* its results.  A pending setHome is left in its channel.
TakeFinish(s) ==
    /\ pc[s] = "record" /\ finish[s] # "empty"
    /\ finish' = [finish EXCEPT ![s] = "empty"]
    /\ rec' = None
    /\ save' = [save EXCEPT ![s] = finish[s] = "save"]
    /\ pc' = [pc EXCEPT ![s] = IF finish[s] = "save" THEN "results" ELSE "end"]
    /\ UNCHANGED <<recording, handler, setHome, homed, ok, file,
                   liveVars, diskVars, crashes, overlap>>

\* Mutant of Results: a joint without a home may pass.
ResultsWithoutHome(s) ==
    /\ pc[s] = "results"
    /\ \E clean \in SUBSET Joints :
        /\ ok' = [ok EXCEPT ![s] = clean]
        /\ fences' = [j \in Joints |-> IF j \in clean THEN s ELSE fences[j]]
    /\ pc' = [pc EXCEPT ![s] = "create"]
    /\ UNCHANGED <<rec, recording, handler, finish, setHome, homed, save,
                   file, content, corrupt, tmp, disk, liveVars, crashes, overlap>>

\* Results: without a home every joint is flagged; with one, any joint may be
\* (not read, not homed, a bad range: see Recorder).  applyFences then writes
\* the clean joints' limits.
Results(s) ==
    /\ pc[s] = "results"
    /\ \E clean \in IF homed[s] THEN SUBSET Joints ELSE {{}} :
        /\ ok' = [ok EXCEPT ![s] = clean]
        /\ fences' = [j \in Joints |-> IF j \in clean THEN s ELSE fences[j]]
    /\ pc' = [pc EXCEPT ![s] = "create"]
    /\ UNCHANGED <<rec, recording, handler, finish, setHome, homed, save,
                   file, content, corrupt, tmp, disk, liveVars, crashes, overlap>>

\* Mutant of SaveCreate: a temporary file a crash left behind is not truncated.
SaveCreateNoTrunc(s) ==
    /\ pc[s] = "create"
    /\ LET f == IF tmp = None THEN s ELSE tmp IN
        tmp' = f /\ file' = [file EXCEPT ![s] = f]
    /\ pc' = [pc EXCEPT ![s] = "encode"]
    /\ UNCHANGED <<rec, recording, handler, finish, setHome, homed, save,
                   ok, content, corrupt, disk, fences, liveVars, crashes, overlap>>

\* Save: os.Create makes the temporary file, or truncates the one there is.
SaveCreate(s) ==
    /\ pc[s] = "create"
    /\ LET f == IF tmp = None THEN s ELSE tmp IN
        /\ tmp' = f
        /\ file' = [file EXCEPT ![s] = f]
        /\ content' = [content EXCEPT ![f] = Unset]
        /\ corrupt' = corrupt \ {f}
    /\ pc' = [pc EXCEPT ![s] = "encode"]
    /\ UNCHANGED <<rec, recording, handler, finish, setHome, homed, save,
                   ok, disk, fences, liveVars, crashes, overlap>>

\* The encoder writes the clean joints from the start of the open file, whatever
\* its name is by now.  What another Save has written there since os.Create and
\* is longer stays behind: whole entries of it, or a tail that does not decode.
\* Load sorts by joint, so of two entries of one joint either may win.
SaveEncode(s) ==
    /\ pc[s] = "encode"
    /\ LET f == file[s] IN
        \/ /\ content' = [content EXCEPT ![f] = Result(s)]
           /\ corrupt' = corrupt \ {f}
        \/ /\ content[f] # Unset
           /\ \E kept \in SUBSET Joints :
                 content' = [content EXCEPT ![f] = Merge(Result(s), Only(@, kept))]
           /\ corrupt' \in {corrupt, corrupt \cup {f}}
    /\ pc' = [pc EXCEPT ![s] = "rename"]
    /\ UNCHANGED <<rec, recording, handler, finish, setHome, homed, save,
                   ok, file, tmp, disk, fences, liveVars, crashes, overlap>>

\* The file named .tmp replaces StatePath; with no such file, an error that
\* publish ignores.
SaveRename(s) ==
    /\ pc[s] = "rename"
    /\ disk' = IF tmp = None THEN disk ELSE tmp
    /\ tmp' = None
    /\ file' = [file EXCEPT ![s] = None]
    /\ pc' = [pc EXCEPT ![s] = "shared"]
    /\ UNCHANGED <<rec, recording, handler, finish, setHome, homed, save, ok,
                   content, corrupt, fences, liveVars, crashes, overlap>>

\* An error of Create, Encode or Rename: Save returns early and publish
\* ignores it.
SaveFails(s) ==
    /\ pc[s] \in {"create", "encode", "rename"}
    /\ file' = [file EXCEPT ![s] = None]
    /\ pc' = [pc EXCEPT ![s] = "shared"]
    /\ UNCHANGED <<rec, recording, handler, finish, setHome, homed, save, ok,
                   diskVars, liveVars, crashes, overlap>>

\* Mutant of ApplyShared: the shared map is replaced, not merged.
ApplySharedReplaces(s) ==
    /\ pc[s] = "shared"
    /\ cals' = Result(s)
    /\ pc' = [pc EXCEPT ![s] = "arm"]
    /\ UNCHANGED <<rec, recording, handler, finish, setHome, homed, save,
                   ok, file, aliased, ownArm, boot, loaded, diskVars, crashes, overlap>>

\* applyCals: the shared map first.
ApplyShared(s) ==
    /\ pc[s] = "shared"
    /\ cals' = Merge(cals, Result(s))
    /\ pc' = [pc EXCEPT ![s] = "arm"]
    /\ UNCHANGED <<rec, recording, handler, finish, setHome, homed, save,
                   ok, file, aliased, ownArm, boot, loaded, diskVars, crashes, overlap>>

\* Mutant of ApplyArm: the arm server keeps the map it has been given before.
ApplyArmOnce(s) ==
    /\ pc[s] = "arm"
    /\ aliased' = FALSE
    /\ ownArm' = IF aliased THEN Result(s) ELSE ownArm
    /\ pc' = [pc EXCEPT ![s] = "end"]
    /\ UNCHANGED <<rec, recording, handler, finish, setHome, homed, save,
                   ok, file, cals, boot, loaded, diskVars, crashes, overlap>>

\* armSrv.SetCalibration: from here on the arm server has a map of its own.
ApplyArm(s) ==
    /\ pc[s] = "arm"
    /\ aliased' = FALSE /\ ownArm' = Result(s)
    /\ pc' = [pc EXCEPT ![s] = "end"]
    /\ UNCHANGED <<rec, recording, handler, finish, setHome, homed, save,
                   ok, file, cals, boot, loaded, diskVars, crashes, overlap>>

\* Mutant of End: the flag is left up.
EndKeepsFlag(s) ==
    /\ pc[s] = "end"
    /\ setHome' = [setHome EXCEPT ![s] = FALSE]
    /\ pc' = [pc EXCEPT ![s] = "dead"]
    /\ UNCHANGED <<rec, recording, handler, finish, homed, save, ok, file,
                   liveVars, diskVars, crashes, overlap>>

\* The deferred recording.Store(false); the channels are gone.
End(s) ==
    /\ pc[s] = "end"
    /\ recording' = FALSE
    /\ setHome' = [setHome EXCEPT ![s] = FALSE]
    /\ pc' = [pc EXCEPT ![s] = "dead"]
    /\ UNCHANGED <<rec, handler, finish, homed, save, ok, file, liveVars,
                   diskVars, crashes, overlap>>

Tail(s) == \/ Results(s) \/ SaveCreate(s) \/ SaveEncode(s) \/ SaveRename(s)
           \/ SaveFails(s) \/ ApplyShared(s) \/ ApplyArm(s) \/ End(s)

-----------------------------------------------------------------------------
(* Boot and crash.  The command subscription precedes the load.            *)

BootLoad ==
    /\ boot = "load"
    /\ disk = None \/ disk \notin corrupt
    /\ loaded' = OnDisk
    /\ boot' = "shared"
    /\ UNCHANGED <<procVars, cals, aliased, ownArm, diskVars, crashes, overlap>>

\* Load fails, always on a file that does not decode: nothing is applied, and
\* the arm server goes on with the shared map.
BootLoadFails ==
    /\ boot = "load"
    /\ boot' = "up"
    /\ UNCHANGED <<procVars, cals, aliased, ownArm, loaded, diskVars, crashes, overlap>>

BootShared ==
    /\ boot = "shared"
    /\ cals' = Merge(cals, loaded)
    /\ boot' = "arm"
    /\ UNCHANGED <<procVars, aliased, ownArm, loaded, diskVars, crashes, overlap>>

BootArm ==
    /\ boot = "arm"
    /\ aliased' = FALSE /\ ownArm' = loaded
    /\ loaded' = Unset
    /\ boot' = "up"
    /\ UNCHANGED <<procVars, cals, diskVars, crashes, overlap>>

Boot == BootLoad \/ BootLoadFails \/ BootShared \/ BootArm

\* The process dies and is restarted: files and servos keep what they hold.
Crash ==
    /\ crashes < MaxCrashes
    /\ crashes' = crashes + 1
    /\ rec' = None /\ recording' = FALSE /\ handler' = None
    /\ pc' = [s \in Sessions |-> IF pc[s] = "new" THEN "new" ELSE "dead"]
    /\ cals' = Unset /\ aliased' = TRUE /\ ownArm' = Unset
    /\ boot' = "load" /\ loaded' = Unset
    /\ finish' = [s \in Sessions |-> "empty"]
    /\ setHome' = [s \in Sessions |-> FALSE]
    /\ file' = [s \in Sessions |-> None]
    /\ UNCHANGED <<homed, save, ok, diskVars, overlap>>

-----------------------------------------------------------------------------
Command == \/ \E s \in Sessions : StartRecording(s)
           \/ SetHome
           \/ \E how \in {"save", "abort"} : Signal(how)

Next == \/ Command
        \/ StartFlag
        \/ \E s \in Sessions : TakeHome(s) \/ TakeFinish(s) \/ Tail(s)
        \/ Boot
        \/ Crash

Spec == Init /\ [][Next]_vars

\* Goroutines run, and a select whose finish channel stays ready takes it at
\* some point (it chooses uniformly among the ready cases).
Fairness == /\ WF_vars(StartFlag)
            /\ WF_vars(Boot)
            /\ \A s \in Sessions : WF_vars(TakeFinish(s)) /\ WF_vars(Tail(s))

FairSpec == Spec /\ Fairness
-----------------------------------------------------------------------------
(* Properties.                                                             *)

TypeOK ==
    /\ rec \in Sessions \cup {None}
    /\ recording \in BOOLEAN
    /\ handler \in Sessions \cup {None}
    /\ pc \in [Sessions ->
           {"new", "starting", "record", "results", "create", "encode",
            "rename", "shared", "arm", "end", "dead"}]
    /\ finish \in [Sessions -> {"empty", "save", "abort"}]
    /\ setHome \in [Sessions -> BOOLEAN]
    /\ homed \in [Sessions -> BOOLEAN]
    /\ save \in [Sessions -> BOOLEAN]
    /\ ok \in [Sessions -> SUBSET Joints]
    /\ file \in [Sessions -> Sessions \cup {None}]
    /\ \A s \in Sessions : pc[s] \in {"encode", "rename"} => file[s] \in Sessions
    /\ content \in [Sessions -> Calibration]
    /\ corrupt \subseteq Sessions
    /\ tmp \in Sessions \cup {None}
    /\ disk \in Sessions \cup {None}
    /\ fences \in Calibration
    /\ cals \in Calibration
    /\ aliased \in BOOLEAN /\ ownArm \in Calibration
    /\ boot \in {"load", "shared", "arm", "up"}
    /\ loaded \in Calibration
    /\ crashes \in 0 .. MaxCrashes
    /\ overlap \in BOOLEAN

Live(s) == pc[s] \in {"starting", "record"}

\* One session at most polls the servos, and it is the one the commands reach:
\* Finish and SetHome never signal a session that has ended, and a live session
\* never becomes unreachable, across restarts too.
OneLiveSession == \A s \in Sessions : Live(s) <=> rec = s

\* Session s was finished with save, had its home captured, and joint j
\* passed.
Measured(s, j) == save[s] /\ homed[s] /\ j \in ok[s]

\* Whatever two overlapping sessions, an abort, a failed save or a crash leave
\* behind, every entry in use, in the file or in the servos' limits comes from
\* a saved session in which that joint calibrated cleanly.
OnlyMeasured ==
    \A j \in Joints :
        \A c \in {cals, arm, loaded, OnDisk, fences} :
            c[j] # None => Measured(c[j], j)

\* A joint the arm server moves is calibrated for teleop and recall too, also
\* while a session that ended earlier is still applying its result.
ArmWithinShared == \A j \in Joints : arm[j] # None => cals[j] # None

\* What the calibration promises the rest of the module, of which the sessions,
\* the saves and the boot are an implementation.
Promise == INSTANCE CalibrationPromise
               WITH open <- rec,
                    saved <- {s \in Sessions : save[s]},
                    inUse <- cals

KeepsPromise == Promise!Spec

\* What the session that the commands reach was told.
OpenSignal == IF rec = None THEN "empty" ELSE finish[rec]

Controller == INSTANCE ControllerPromise
                  WITH open <- rec,
                       signal <- OpenSignal,
                       used <- {s \in Sessions : pc[s] # "new"},
                       restarts <- crashes

\* Done and Abort as the operator is promised them (StartRecording, signal and
\* record of controller.go): the first of them decides, it ends the session that
\* was open, and it is gone when the next one opens, although the channel
\* outlives the session's place in the controller.
KeepsController == Controller!Spec

\* A session that is told to finish or abort ends, and so lets go of the bus.
SignalledSessionEnds ==
    \A s \in Sessions :
        finish[s] # "empty" \/ pc[s] \in TailStages ~> pc[s] = "dead"

\* Once no session is live any more, the publishers get the bus back for good.
PublishersResume == <>[](rec = None) => <>[]~recording

-----------------------------------------------------------------------------
(* Sessions that do not overlap.  With overlap, a session that ends late   *)
(* lowers the next one's flag, two saves share the temporary file, and the *)
(* two maps may be left with different sessions' entries.                  *)

\* controller.go:31, 34-36: the flag is up while a session reads the servo bus,
\* as long as no session was started before an earlier one had ended.
FlagCoversSession ==
    ~overlap => \A s \in Sessions : pc[s] = "record" => recording

\* store.go:16: Save writes the set atomically: whatever failed and wherever it
\* crashed, the file a reboot finds decodes and is one session's calibration.
FileOfOneSession ==
    ~overlap /\ disk # None =>
        /\ disk \notin corrupt
        /\ \E s \in Sessions : content[disk] = Result(s)

\* Between sessions, teleop and the arm server use the same entry for a joint
\* both have one for, although they are told one after the other.
MapsAgree ==
    ~overlap /\ ~Applying =>
        \A j \in Joints : arm[j] # None => arm[j] = cals[j]
=============================================================================
