----------------------- MODULE CalibrationSessionProofs -----------------------
(***************************************************************************)
(* Theorems about CalibrationSession, for any joints, any number of        *)
(* sessions and any bound on the crashes.                                  *)
(***************************************************************************)
EXTENDS CalibrationSession, TLAPS

-----------------------------------------------------------------------------
(* Type correctness.                                                       *)

\* A session's result is a calibration, and so is its merge into another.
LEMMA ResultType ==
    ASSUME TypeOK, NEW s \in Sessions
    PROVE  Result(s) \in Calibration
BY DEF TypeOK, Result, Calibration

LEMMA MergeType ==
    ASSUME NEW old \in Calibration, NEW c \in Calibration
    PROVE  Merge(old, c) \in Calibration
BY DEF Merge, Calibration

LEMMA OnlyType ==
    ASSUME NEW c \in Calibration, NEW kept \in SUBSET Joints
    PROVE  Only(c, kept) \in Calibration
BY DEF Only, Calibration

LEMMA OnDiskType ==
    ASSUME TypeOK
    PROVE  OnDisk \in Calibration
BY DEF TypeOK, OnDisk, Unset, Calibration

LEMMA UnsetType == Unset \in Calibration
BY DEF Unset, Calibration

LEMMA TypeInit == Init => TypeOK
<1> SUFFICES ASSUME Init PROVE TypeOK
  OBVIOUS
<1>1. crashes \in 0 .. MaxCrashes
  BY CrashAssumption DEF Init
<1>2. QED
  BY <1>1, UnsetType DEF Init, TypeOK

LEMMA TypeNext == TypeOK /\ [Next]_vars => TypeOK'
<1> SUFFICES ASSUME TypeOK, [Next]_vars PROVE TypeOK'
  OBVIOUS
<1> USE DEF procVars, liveVars, diskVars
<1>1. ASSUME NEW s \in Sessions, StartRecording(s) PROVE TypeOK'
  BY <1>1 DEF StartRecording, TypeOK
<1>2. CASE SetHome
  BY <1>2 DEF SetHome, TypeOK
<1>3. ASSUME NEW how \in {"save", "abort"}, Signal(how) PROVE TypeOK'
  BY <1>3 DEF Signal, TypeOK
<1>4. CASE StartFlag
  BY <1>4 DEF StartFlag, TypeOK
<1>5. ASSUME NEW s \in Sessions, TakeHome(s) PROVE TypeOK'
  BY <1>5 DEF TakeHome, TypeOK
<1>6. ASSUME NEW s \in Sessions, TakeFinish(s) PROVE TypeOK'
  BY <1>6 DEF TakeFinish, TypeOK
<1>7. ASSUME NEW s \in Sessions, Results(s) PROVE TypeOK'
  BY <1>7 DEF Results, TypeOK, Calibration
<1>8. ASSUME NEW s \in Sessions, SaveCreate(s) PROVE TypeOK'
  BY <1>8, UnsetType DEF SaveCreate, TypeOK
<1>9. ASSUME NEW s \in Sessions, SaveEncode(s) PROVE TypeOK'
  BY <1>9, ResultType, MergeType, OnlyType DEF SaveEncode, TypeOK
<1>10. ASSUME NEW s \in Sessions, SaveRename(s) PROVE TypeOK'
  BY <1>10 DEF SaveRename, TypeOK
<1>11. ASSUME NEW s \in Sessions, SaveFails(s) PROVE TypeOK'
  BY <1>11 DEF SaveFails, TypeOK
<1>12. ASSUME NEW s \in Sessions, ApplyShared(s) PROVE TypeOK'
  BY <1>12, ResultType, MergeType DEF ApplyShared, TypeOK
<1>13. ASSUME NEW s \in Sessions, ApplyArm(s) PROVE TypeOK'
  BY <1>13, ResultType DEF ApplyArm, TypeOK
<1>14. ASSUME NEW s \in Sessions, End(s) PROVE TypeOK'
  BY <1>14 DEF End, TypeOK
<1>15. CASE BootLoad
  BY <1>15, OnDiskType DEF BootLoad, TypeOK
<1>16. CASE BootLoadFails
  BY <1>16 DEF BootLoadFails, TypeOK
<1>17. CASE BootShared
  BY <1>17, MergeType DEF BootShared, TypeOK
<1>18. CASE BootArm
  BY <1>18, UnsetType DEF BootArm, TypeOK
<1>19. CASE Crash
  <2>1. crashes' \in 0 .. MaxCrashes
    BY <1>19, CrashAssumption DEF Crash, TypeOK
  <2>2. QED
    BY <1>19, <2>1, UnsetType DEF Crash, TypeOK
<1>20. CASE UNCHANGED vars
  BY <1>20 DEF vars, TypeOK
<1>21. QED
  BY <1>1, <1>2, <1>3, <1>4, <1>5, <1>6, <1>7, <1>8, <1>9, <1>10, <1>11,
     <1>12, <1>13, <1>14, <1>15, <1>16, <1>17, <1>18, <1>19, <1>20
     DEF Next, Command, Tail, Boot

\* Every reachable state is well-typed; a session that has not failed to create
\* its file still has it when it encodes and renames.
THEOREM TypeCorrect == Spec => []TypeOK
<1>1. QED
  BY TypeInit, TypeNext, PTL DEF Spec

-----------------------------------------------------------------------------
(* One live session.                                                       *)

\* The session whose start the command handler has not completed is live.
Starting == handler # None => pc[handler] = "starting"

LiveInv == OneLiveSession /\ Starting

LEMMA LiveNext == TypeOK /\ LiveInv /\ [Next]_vars => LiveInv'
<1> SUFFICES ASSUME TypeOK, LiveInv, [Next]_vars PROVE LiveInv'
  OBVIOUS
<1> USE NoneAssumption DEF LiveInv, OneLiveSession, Starting, Live
<1>1. ASSUME NEW s \in Sessions, StartRecording(s) PROVE LiveInv'
  BY <1>1 DEF StartRecording, TypeOK
<1>2. CASE StartFlag
  BY <1>2 DEF StartFlag, TypeOK
<1>3. ASSUME NEW s \in Sessions, TakeFinish(s) PROVE LiveInv'
  <2>1. rec = s /\ rec' = None /\ handler' = handler /\ handler # s
    BY <1>3 DEF TakeFinish, TypeOK
  <2>2. /\ pc'[s] \in {"results", "end"}
        /\ \A t \in Sessions \ {s} : pc'[t] = pc[t]
    BY <1>3 DEF TakeFinish, TypeOK
  <2>3. QED
    BY <2>1, <2>2 DEF TypeOK
<1>4. ASSUME NEW s \in Sessions, Tail(s) PROVE LiveInv'
  <2>1. UNCHANGED <<rec, handler>>
    BY <1>4 DEF Tail, Results, SaveCreate, SaveEncode, SaveRename, SaveFails,
                ApplyShared, ApplyArm, End, procVars, diskVars, liveVars
  <2>2. ~Live(s) /\ \E t \in TailStages \cup {"dead"} : pc' = [pc EXCEPT ![s] = t]
    BY <1>4 DEF Tail, Results, SaveCreate, SaveEncode, SaveRename, SaveFails,
                ApplyShared, ApplyArm, End, TailStages
  <2>3. QED
    BY <2>1, <2>2 DEF TailStages, TypeOK
<1>5. CASE Crash
  BY <1>5 DEF Crash, TypeOK
<1>6. CASE UNCHANGED <<rec, handler, pc>>
  BY <1>6
<1>7. QED
  BY <1>1, <1>2, <1>3, <1>4, <1>5, <1>6
     DEF Next, Command, SetHome, Signal, TakeHome, Boot, BootLoad,
         BootLoadFails, BootShared, BootArm, vars, procVars

LEMMA LiveCorrect == Spec => []LiveInv
<1>1. Init => LiveInv
  BY NoneAssumption DEF Init, LiveInv, OneLiveSession, Starting, Live
<1>2. QED
  BY <1>1, TypeCorrect, LiveNext, PTL DEF Spec

\* Whatever commands arrive while older sessions are still ending, and across
\* restarts, one session at most polls and it is the one the commands reach.
THEOREM OneLiveSessionCorrect == Spec => []OneLiveSession
<1>1. LiveInv => OneLiveSession
  BY DEF LiveInv
<1>2. QED
  BY <1>1, LiveCorrect, PTL

-----------------------------------------------------------------------------
(* Only measured calibrations.                                             *)

\* A joint's entry comes from a session in which it passed.
Backed(c) == \A j \in Joints : c[j] # None => j \in ok[c[j]]

\* What a session has settled at each of its stages.
Settled ==
    \A s \in Sessions :
        /\ pc[s] \in {"new", "starting", "record"} => ~save[s]
        /\ pc[s] \in {"new", "starting", "record", "results"} => ok[s] = {}
        /\ pc[s] \in {"results", "create", "encode", "rename", "shared", "arm"}
               => save[s]
        /\ ok[s] # {} => save[s] /\ homed[s]

AllBacked ==
    /\ Backed(cals) /\ Backed(ownArm) /\ Backed(loaded) /\ Backed(fences)
    /\ \A f \in Sessions : Backed(content[f])

MeasuredInv == Settled /\ AllBacked

LEMMA BackedResult ==
    ASSUME NEW s \in Sessions
    PROVE  Backed(Result(s))
BY DEF Backed, Result

LEMMA BackedMerge ==
    ASSUME NEW old \in Calibration, NEW c \in Calibration, Backed(old), Backed(c)
    PROVE  Backed(Merge(old, c))
BY DEF Backed, Merge, Calibration

LEMMA BackedOnly ==
    ASSUME NEW c \in Calibration, NEW kept \in SUBSET Joints, Backed(c)
    PROVE  Backed(Only(c, kept))
BY DEF Backed, Only

LEMMA BackedUnset == Backed(Unset)
BY DEF Backed, Unset

LEMMA BackedOnDisk ==
    ASSUME TypeOK, AllBacked
    PROVE  Backed(OnDisk)
BY BackedUnset DEF AllBacked, OnDisk, TypeOK

\* A step that only moves session s, past its results, settles nothing new.
LEMMA SettledMove ==
    ASSUME TypeOK, Settled, NEW s \in Sessions, NEW t,
           pc' = [pc EXCEPT ![s] = t],
           \/ t \in {"create", "encode", "rename", "shared", "arm"} /\ save[s]
           \/ t \in {"end", "dead"},
           UNCHANGED <<save, homed, ok>>
    PROVE  Settled'
BY DEF Settled, TypeOK

LEMMA MeasuredNext ==
    TypeOK /\ LiveInv /\ MeasuredInv /\ [Next]_vars => MeasuredInv'
<1> SUFFICES ASSUME TypeOK, LiveInv, MeasuredInv, [Next]_vars
             PROVE  MeasuredInv'
  OBVIOUS
<1> USE NoneAssumption DEF MeasuredInv
<1>1. ASSUME UNCHANGED <<ok, liveVars, diskVars>> PROVE AllBacked'
  BY <1>1 DEF AllBacked, Backed, liveVars, diskVars
<1>2. ASSUME NEW s \in Sessions, StartRecording(s) PROVE MeasuredInv'
  <2>1. Settled'
    BY <1>2 DEF StartRecording, Settled, TypeOK
  <2>2. QED
    BY <1>1, <1>2, <2>1 DEF StartRecording
<1>3. CASE StartFlag
  <2>1. handler \in Sessions /\ pc[handler] = "starting"
    BY <1>3 DEF StartFlag, LiveInv, Starting, TypeOK
  <2>2. Settled'
    BY <1>3, <2>1 DEF StartFlag, Settled, TypeOK
  <2>3. QED
    BY <1>1, <1>3, <2>2 DEF StartFlag
<1>4. ASSUME NEW s \in Sessions, TakeHome(s) PROVE MeasuredInv'
  <2>1. Settled'
    BY <1>4 DEF TakeHome, Settled, TypeOK
  <2>2. QED
    BY <1>1, <1>4, <2>1 DEF TakeHome
<1>5. ASSUME NEW s \in Sessions, TakeFinish(s) PROVE MeasuredInv'
  <2>1. Settled'
    BY <1>5 DEF TakeFinish, Settled, TypeOK
  <2>2. QED
    BY <1>1, <1>5, <2>1 DEF TakeFinish
<1>6. ASSUME NEW s \in Sessions, Results(s) PROVE MeasuredInv'
  <2>1. PICK clean \in IF homed[s] THEN SUBSET Joints ELSE {{}} :
          /\ ok' = [ok EXCEPT ![s] = clean]
          /\ fences' = [j \in Joints |-> IF j \in clean THEN s ELSE fences[j]]
    BY <1>6 DEF Results
  <2>2. Settled'
    BY <1>6, <2>1 DEF Results, Settled, TypeOK
  <2>3. \A t \in Sessions : ok[t] \subseteq ok'[t]
    BY <1>6, <2>1 DEF Results, Settled, TypeOK
  <2>4. ASSUME NEW c \in Calibration, Backed(c)
        PROVE  \A j \in Joints : c[j] # None => j \in ok'[c[j]]
    BY <2>3, <2>4 DEF Backed, Calibration
  <2>5. Backed(fences)'
    <3>1. \A j \in Joints : fences[j] # None => j \in ok'[fences[j]]
      BY <2>4 DEF AllBacked, TypeOK
    <3>2. ok'[s] = clean
      BY <2>1 DEF TypeOK
    <3>3. QED
      BY <2>1, <3>1, <3>2 DEF Backed
  <2>6. UNCHANGED <<cals, ownArm, loaded, content>>
    BY <1>6 DEF Results, liveVars
  <2>7. AllBacked'
    BY <2>4, <2>5, <2>6 DEF AllBacked, Backed, TypeOK
  <2>8. QED
    BY <2>2, <2>7
<1>7. ASSUME NEW s \in Sessions, SaveCreate(s) PROVE MeasuredInv'
  <2>1. Settled'
    BY <1>7, SettledMove DEF SaveCreate, Settled
  <2>2. UNCHANGED <<ok, liveVars, fences>>
    BY <1>7 DEF SaveCreate
  <2>3. \A f \in Sessions : content'[f] \in {content[f], Unset}
    BY <1>7 DEF SaveCreate, TypeOK
  <2>4. QED
    BY <2>1, <2>2, <2>3, BackedUnset DEF AllBacked, Backed, liveVars
<1>8. ASSUME NEW s \in Sessions, SaveEncode(s) PROVE MeasuredInv'
  <2>1. Settled'
    BY <1>8, SettledMove DEF SaveEncode, Settled
  <2>2. UNCHANGED <<ok, liveVars, fences>>
    BY <1>8 DEF SaveEncode
  <2>3. ASSUME NEW f \in Sessions
        PROVE  \/ content'[f] \in {content[f], Result(s)}
               \/ \E kept \in SUBSET Joints :
                      content'[f] = Merge(Result(s), Only(content[f], kept))
    BY <1>8 DEF SaveEncode, TypeOK
  <2>4. ASSUME NEW f \in Sessions PROVE Backed(content'[f])
    <3>1. /\ content[f] \in Calibration /\ Backed(content[f])
          /\ Result(s) \in Calibration /\ Backed(Result(s))
      BY BackedResult, ResultType DEF AllBacked, TypeOK
    <3>2. ASSUME NEW kept \in SUBSET Joints
          PROVE  Backed(Merge(Result(s), Only(content[f], kept)))
      BY <3>1, OnlyType, BackedOnly, BackedMerge
    <3>3. QED
      BY <2>3, <3>1, <3>2
  <2>5. QED
    BY <2>1, <2>2, <2>4 DEF AllBacked, Backed, liveVars
<1>9. ASSUME NEW s \in Sessions, SaveRename(s) \/ SaveFails(s) PROVE MeasuredInv'
  <2>1. Settled'
    BY <1>9, SettledMove DEF SaveRename, SaveFails, Settled
  <2>2. UNCHANGED <<ok, liveVars, content, fences>>
    BY <1>9 DEF SaveRename, SaveFails, diskVars
  <2>3. QED
    BY <2>1, <2>2 DEF AllBacked, Backed, liveVars
<1>10. ASSUME NEW s \in Sessions, ApplyShared(s) PROVE MeasuredInv'
  <2>1. Settled'
    BY <1>10, SettledMove DEF ApplyShared, Settled
  <2>2. /\ UNCHANGED <<ok, ownArm, loaded, content, fences>>
        /\ cals' = Merge(cals, Result(s))
    BY <1>10 DEF ApplyShared, diskVars
  <2>3. Backed(cals')
    BY <2>2, BackedResult, BackedMerge, ResultType DEF AllBacked, TypeOK
  <2>4. QED
    BY <2>1, <2>2, <2>3 DEF AllBacked, Backed
<1>11. ASSUME NEW s \in Sessions, ApplyArm(s) PROVE MeasuredInv'
  <2>1. Settled'
    BY <1>11, SettledMove DEF ApplyArm, Settled
  <2>2. /\ UNCHANGED <<ok, cals, loaded, content, fences>>
        /\ ownArm' = Result(s)
    BY <1>11 DEF ApplyArm, diskVars
  <2>3. QED
    BY <2>1, <2>2, BackedResult DEF AllBacked, Backed
<1>12. ASSUME NEW s \in Sessions, End(s) PROVE MeasuredInv'
  <2>1. Settled'
    BY <1>12, SettledMove DEF End, Settled
  <2>2. QED
    BY <1>1, <1>12, <2>1 DEF End
<1>13. CASE Boot
  <2>1. Settled' /\ UNCHANGED <<ok, diskVars>>
    BY <1>13 DEF Boot, BootLoad, BootLoadFails, BootShared, BootArm, Settled,
                 procVars
  <2>2. Backed(Merge(cals, loaded))
    BY BackedMerge DEF AllBacked, TypeOK
  <2>3. /\ cals' \in {cals, Merge(cals, loaded)}
        /\ ownArm' \in {ownArm, loaded}
        /\ loaded' \in {loaded, OnDisk, Unset}
    BY <1>13 DEF Boot, BootLoad, BootLoadFails, BootShared, BootArm
  <2>4. Backed(cals') /\ Backed(ownArm') /\ Backed(loaded')
    BY <2>2, <2>3, BackedUnset, BackedOnDisk DEF AllBacked
  <2>5. QED
    BY <2>1, <2>4 DEF AllBacked, Backed, diskVars
<1>14. CASE Crash
  <2>1. Settled'
    BY <1>14 DEF Crash, Settled, TypeOK
  <2>2. UNCHANGED <<ok, content, fences>>
        /\ cals' = Unset /\ ownArm' = Unset /\ loaded' = Unset
    BY <1>14 DEF Crash, diskVars
  <2>3. QED
    BY <2>1, <2>2, BackedUnset DEF AllBacked, Backed
<1>15. CASE UNCHANGED <<pc, save, ok, homed, liveVars, diskVars>>
  <2>1. Settled'
    BY <1>15 DEF Settled
  <2>2. QED
    BY <1>1, <1>15, <2>1
<1>16. QED
  BY <1>2, <1>3, <1>4, <1>5, <1>6, <1>7, <1>8, <1>9, <1>10, <1>11, <1>12,
     <1>13, <1>14, <1>15
     DEF Next, Command, SetHome, Signal, Tail, vars, procVars

LEMMA MeasuredCorrect == Spec => []MeasuredInv
<1>1. Init => MeasuredInv
  BY DEF Init, MeasuredInv, Settled, AllBacked, Backed, Unset
<1>2. QED
  BY <1>1, TypeCorrect, LiveCorrect, MeasuredNext, PTL DEF Spec

\* Every calibration in use, in the file or in the servos comes from a saved
\* session in which that joint passed, whatever overlaps, fails or crashes.
THEOREM OnlyMeasuredCorrect == Spec => []OnlyMeasured
<1>1. TypeOK /\ MeasuredInv => OnlyMeasured
  <2> SUFFICES ASSUME TypeOK, MeasuredInv,
                      NEW j \in Joints,
                      NEW c \in {cals, arm, loaded, OnDisk, fences},
                      c[j] # None
               PROVE  Measured(c[j], j)
    BY DEF OnlyMeasured
  <2>1. Backed(c)
    BY BackedOnDisk DEF MeasuredInv, AllBacked, arm
  <2>2. c \in Calibration
    BY OnDiskType DEF TypeOK, arm
  <2>3. c[j] \in Sessions /\ j \in ok[c[j]]
    BY <2>1, <2>2 DEF Backed, Calibration
  <2>4. QED
    BY <2>3 DEF MeasuredInv, Settled, Measured
<1>2. QED
  BY <1>1, TypeCorrect, MeasuredCorrect, PTL

-----------------------------------------------------------------------------
(* The arm server's map within the shared one.                             *)

\* What the shared map holds by the time it is the arm server's turn.
SharedFirst ==
    /\ ~aliased => \A j \in Joints : ownArm[j] # None => cals[j] # None
    /\ \A s \in Sessions : pc[s] = "arm" => \A j \in ok[s] : cals[j] # None
    /\ boot = "arm" => \A j \in Joints : loaded[j] # None => cals[j] # None

\* An entry leaves the shared map only with the process.
LEMMA SharedGrows ==
    ASSUME TypeOK, [Next]_vars, ~Crash, NEW j \in Joints, cals[j] # None
    PROVE  cals'[j] # None
<1> USE NoneAssumption
<1>1. cals' = cals \/ \E c \in Calibration : cals' = Merge(cals, c)
  <2>1. ASSUME NEW s \in Sessions, Tail(s), ~ApplyShared(s) PROVE cals' = cals
    BY <2>1 DEF Tail, Results, SaveCreate, SaveEncode, SaveRename, SaveFails,
                ApplyArm, End, liveVars
  <2>2. QED
    BY <2>1, ResultType DEF Next, Command, StartRecording, StartFlag, SetHome,
       Signal, TakeHome, TakeFinish, ApplyShared, Boot, BootLoad, BootLoadFails,
       BootShared, BootArm, vars, liveVars, TypeOK
<1>2. QED
  BY <1>1 DEF Merge

LEMMA SharedFirstNext ==
    TypeOK /\ MeasuredInv /\ SharedFirst /\ [Next]_vars => SharedFirst'
<1> SUFFICES ASSUME TypeOK, MeasuredInv, SharedFirst, [Next]_vars
             PROVE  SharedFirst'
  OBVIOUS
<1> USE NoneAssumption
<1>1. CASE Crash
  BY <1>1 DEF Crash, SharedFirst, TypeOK
<1> SUFFICES ASSUME ~Crash PROVE SharedFirst'
  BY <1>1
<1>2. \A j \in Joints : cals[j] # None => cals'[j] # None
  BY SharedGrows
<1>3. ASSUME NEW s \in Sessions, ApplyShared(s) PROVE SharedFirst'
  <2>1. \A j \in ok[s] : cals'[j] # None
    BY <1>3 DEF ApplyShared, Merge, Result, TypeOK
  <2>2. /\ UNCHANGED <<aliased, ownArm, ok, boot, loaded>>
        /\ pc' = [pc EXCEPT ![s] = "arm"]
    BY <1>3 DEF ApplyShared
  <2>3. QED
    BY <1>2, <2>1, <2>2 DEF SharedFirst, TypeOK
<1>4. ASSUME NEW s \in Sessions, ApplyArm(s) PROVE SharedFirst'
  <2>1. \A j \in Joints : Result(s)[j] # None => cals[j] # None
    BY <1>4 DEF ApplyArm, SharedFirst, Result
  <2>2. /\ UNCHANGED <<cals, ok, boot, loaded>>
        /\ ownArm' = Result(s)
        /\ pc' = [pc EXCEPT ![s] = "end"]
    BY <1>4 DEF ApplyArm
  <2>3. QED
    BY <2>1, <2>2 DEF SharedFirst, TypeOK
<1>5. CASE Boot
  <2>1. UNCHANGED <<pc, ok>>
    BY <1>5 DEF Boot, BootLoad, BootLoadFails, BootShared, BootArm, procVars
  <2>2. CASE BootLoad \/ BootLoadFails
    BY <2>1, <2>2 DEF BootLoad, BootLoadFails, SharedFirst
  <2>3. CASE BootShared
    <3>1. \A j \in Joints : loaded[j] # None => cals'[j] # None
      BY <2>3 DEF BootShared, Merge
    <3>2. /\ UNCHANGED <<aliased, ownArm, loaded>>
          /\ boot' = "arm"
      BY <2>3 DEF BootShared
    <3>3. QED
      BY <1>2, <2>1, <3>1, <3>2 DEF SharedFirst, TypeOK
  <2>4. CASE BootArm
    BY <2>1, <2>4 DEF BootArm, SharedFirst
  <2>5. QED
    BY <1>5, <2>2, <2>3, <2>4 DEF Boot
<1>6. ASSUME NEW s \in Sessions, Results(s) PROVE SharedFirst'
  <2>1. /\ UNCHANGED <<cals, aliased, ownArm, boot, loaded>>
        /\ pc' = [pc EXCEPT ![s] = "create"]
        /\ \A t \in Sessions \ {s} : ok'[t] = ok[t]
    BY <1>6 DEF Results, liveVars, TypeOK
  <2>2. QED
    BY <2>1 DEF SharedFirst, TypeOK
<1>7. ASSUME UNCHANGED <<liveVars, ok>>,
             \A s \in Sessions : pc'[s] = "arm" => pc[s] = "arm"
      PROVE  SharedFirst'
  BY <1>7 DEF SharedFirst, liveVars
<1>8. ASSUME NEW s \in Sessions, Tail(s),
             ~Results(s), ~ApplyShared(s), ~ApplyArm(s)
      PROVE  SharedFirst'
  BY <1>7, <1>8 DEF Tail, SaveCreate, SaveEncode, SaveRename, SaveFails, End,
                    TypeOK
<1>9. ASSUME NEW s \in Sessions,
             StartRecording(s) \/ TakeHome(s) \/ TakeFinish(s)
      PROVE  SharedFirst'
  BY <1>7, <1>9 DEF StartRecording, TakeHome, TakeFinish, TypeOK
<1>10. CASE StartFlag
  BY <1>7, <1>10 DEF StartFlag, TypeOK
<1>11. CASE UNCHANGED <<liveVars, ok, pc>>
  BY <1>7, <1>11
<1>12. QED
  BY <1>3, <1>4, <1>5, <1>6, <1>8, <1>9, <1>10, <1>11
     DEF Next, Command, SetHome, Signal, Tail, vars, procVars

\* Teleop and recall have a calibration for every joint the arm server has one
\* for, at every step of the two updates of overlapping sessions and the boot.
THEOREM ArmWithinSharedCorrect == Spec => []ArmWithinShared
<1>1. Init => SharedFirst
  BY DEF Init, SharedFirst
<1>2. SharedFirst => ArmWithinShared
  BY DEF SharedFirst, ArmWithinShared, arm
<1>3. QED
  BY <1>1, <1>2, TypeCorrect, MeasuredCorrect, SharedFirstNext, PTL DEF Spec

-----------------------------------------------------------------------------
(* The sessions implement the promise.                                     *)

\* Each step of the sessions, the boot and the crash is a step of the promise
\* or leaves what it speaks of unchanged.
LEMMA PromiseNext ==
    TypeOK /\ LiveInv /\ MeasuredInv /\ [Next]_vars
        => [Promise!Next]_(Promise!vars)
<1> SUFFICES ASSUME TypeOK, LiveInv, MeasuredInv, [Next]_vars
             PROVE  [Promise!Next]_(Promise!vars)
  OBVIOUS
<1> USE NoneAssumption DEF Promise!vars
<1> DEFINE saved == {s \in Sessions : save[s]}
<1>1. ASSUME UNCHANGED <<rec, save, cals>> PROVE UNCHANGED Promise!vars
  BY <1>1
<1>2. ASSUME NEW s \in Sessions, StartRecording(s) PROVE Promise!Open(s)
  <2>1. s \notin saved
    BY <1>2 DEF StartRecording, MeasuredInv, Settled
  <2>2. QED
    BY <1>2, <2>1 DEF StartRecording, liveVars, Promise!Open
<1>3. ASSUME NEW s \in Sessions, TakeFinish(s)
      PROVE  Promise!Save \/ Promise!Discard
  <2>1. rec = s /\ rec' = None /\ cals' = cals
    BY <1>3 DEF TakeFinish, LiveInv, OneLiveSession, Live, liveVars
  <2>2. ~save[s]
    BY <1>3 DEF TakeFinish, MeasuredInv, Settled
  <2>3. save' = [save EXCEPT ![s] = finish[s] = "save"]
    BY <1>3 DEF TakeFinish
  <2>4. CASE finish[s] = "save"
    <3>1. save'[s] /\ \A t \in Sessions \ {s} : save'[t] = save[t]
      BY <2>3, <2>4 DEF TypeOK
    <3>2. saved' = saved \cup {rec}
      BY <2>1, <3>1
    <3>3. QED
      BY <2>1, <3>2 DEF Promise!Save
  <2>5. CASE finish[s] # "save"
    <3>1. saved' = saved
      BY <2>2, <2>3, <2>5 DEF TypeOK
    <3>2. QED
      BY <2>1, <3>1 DEF Promise!Discard
  <2>6. QED
    BY <2>4, <2>5
<1>4. ASSUME NEW c \in Calibration, Backed(c),
             cals' = Merge(cals, c), UNCHANGED <<rec, save>>
      PROVE  Promise!Adopt
  <2>0. ASSUME NEW d \in Calibration, Backed(d), NEW j \in Joints
        PROVE  d[j] \in saved \cup {None}
    <3>1. d[j] # None => d[j] \in Sessions /\ ok[d[j]] # {}
      BY <2>0 DEF Backed, Calibration
    <3>2. \A s \in Sessions : ok[s] # {} => save[s]
      BY DEF MeasuredInv, Settled
    <3>3. QED
      BY <3>1, <3>2
  <2>1. \A j \in Joints : cals[j] \in saved \cup {None}
    BY <2>0 DEF MeasuredInv, AllBacked, TypeOK
  <2>2. \A j \in Joints : c[j] \in saved \cup {None}
    BY <1>4, <2>0
  <2>3. cals' \in [Joints -> saved \cup {None}]
        /\ \A j \in Joints : cals'[j] \in saved \cup {cals[j]}
    BY <1>4, <2>1, <2>2 DEF Merge
  <2>4. QED
    BY <1>4, <2>3 DEF Promise!Adopt
<1>5. ASSUME NEW s \in Sessions, ApplyShared(s) PROVE Promise!Adopt
  BY <1>4, <1>5, ResultType, BackedResult DEF ApplyShared
<1>6. ASSUME BootShared PROVE Promise!Adopt
  BY <1>4, <1>6 DEF BootShared, procVars, MeasuredInv, AllBacked, TypeOK
<1>7. ASSUME Crash PROVE Promise!Restart
  BY <1>7 DEF Crash, Promise!Restart, Promise!Unset, Unset
<1>8. ASSUME NEW s \in Sessions, Tail(s), ~ApplyShared(s)
      PROVE  UNCHANGED <<rec, save, cals>>
  BY <1>8 DEF Tail, Results, SaveCreate, SaveEncode, SaveRename, SaveFails,
              ApplyArm, End, liveVars
<1>9. CASE StartFlag \/ SetHome \/ (\E how \in {"save", "abort"} : Signal(how))
           \/ (\E s \in Sessions : TakeHome(s))
  BY <1>1, <1>9 DEF StartFlag, SetHome, Signal, TakeHome, liveVars
<1>10. CASE BootLoad \/ BootLoadFails \/ BootArm
  BY <1>1, <1>10 DEF BootLoad, BootLoadFails, BootArm, procVars
<1>11. CASE UNCHANGED vars
  BY <1>1, <1>11 DEF vars, procVars, liveVars
<1>12. QED
  BY <1>1, <1>2, <1>3, <1>5, <1>6, <1>7, <1>8, <1>9, <1>10, <1>11
     DEF Next, Command, Boot, Promise!Next

\* The detailed sessions, with their overlapping ends, failing saves, boots and
\* crashes, implement the abstract promise.
THEOREM PromiseKept == Spec => KeepsPromise
<1>1. Init => Promise!Init
  BY DEF Init, Promise!Init, Promise!Unset, Unset
<1>2. QED
  BY <1>1, TypeCorrect, LiveCorrect, MeasuredCorrect, PromiseNext, PTL
     DEF Spec, KeepsPromise, Promise!Spec

-----------------------------------------------------------------------------
(* The controller's promise.                                               *)

\* A session that has not been opened has no signal: the commands signal the
\* session that the controller has, and channels are made with their session.
Unsignalled == \A s \in Sessions : pc[s] = "new" => finish[s] = "empty"

LEMMA UnsignalledNext ==
    TypeOK /\ LiveInv /\ Unsignalled /\ [Next]_vars => Unsignalled'
<1> SUFFICES ASSUME TypeOK, LiveInv, Unsignalled, [Next]_vars
             PROVE  Unsignalled'
  OBVIOUS
<1> USE DEF Unsignalled
<1>1. ASSUME NEW how \in {"save", "abort"}, Signal(how) PROVE Unsignalled'
  <2>1. rec \in Sessions /\ pc[rec] # "new"
    BY <1>1 DEF Signal, TypeOK, LiveInv, OneLiveSession, Live
  <2>2. QED
    BY <1>1, <2>1 DEF Signal, TypeOK
<1>2. ASSUME NEW s \in Sessions, StartRecording(s) PROVE Unsignalled'
  BY <1>2 DEF StartRecording, TypeOK
<1>3. CASE StartFlag
  BY <1>3 DEF StartFlag, TypeOK
<1>4. ASSUME NEW s \in Sessions, TakeFinish(s) PROVE Unsignalled'
  BY <1>4 DEF TakeFinish, TypeOK
<1>5. ASSUME NEW s \in Sessions, Tail(s) PROVE Unsignalled'
  <2>1. /\ finish' = finish
        /\ \E t \in TailStages \cup {"dead"} : pc' = [pc EXCEPT ![s] = t]
    BY <1>5 DEF Tail, Results, SaveCreate, SaveEncode, SaveRename, SaveFails,
                ApplyShared, ApplyArm, End, TailStages
  <2>2. QED
    BY <2>1 DEF TailStages, TypeOK
<1>6. CASE Crash
  BY <1>6 DEF Crash
<1>7. CASE UNCHANGED <<pc, finish>>
  BY <1>7
<1>8. QED
  BY <1>1, <1>2, <1>3, <1>4, <1>5, <1>6, <1>7
     DEF Next, Command, SetHome, TakeHome, Boot, BootLoad, BootLoadFails,
         BootShared, BootArm, vars, procVars

LEMMA UnsignalledCorrect == Spec => []Unsignalled
<1>1. Init => Unsignalled
  BY DEF Init, Unsignalled
<1>2. QED
  BY <1>1, TypeCorrect, LiveCorrect, UnsignalledNext, PTL DEF Spec

LEMMA ControllerNext ==
    TypeOK /\ LiveInv /\ Unsignalled /\ [Next]_vars
        => [Controller!Next]_(Controller!vars)
<1> SUFFICES ASSUME TypeOK, LiveInv, Unsignalled, [Next]_vars
             PROVE  [Controller!Next]_(Controller!vars)
  OBVIOUS
<1> USE NoneAssumption DEF Controller!vars
<1> DEFINE used == {s \in Sessions : pc[s] # "new"}
<1>1. ASSUME UNCHANGED <<rec, finish, crashes>>, used' = used
      PROVE  UNCHANGED Controller!vars
  BY <1>1 DEF OpenSignal
<1>2. ASSUME NEW s \in Sessions, StartRecording(s) PROVE Controller!Open(s)
  <2>1. used' = used \cup {s} /\ s \notin used
    BY <1>2 DEF StartRecording, TypeOK
  <2>2. OpenSignal' = "empty"
    BY <1>2 DEF StartRecording, OpenSignal, Unsignalled
  <2>3. QED
    BY <1>2, <2>1, <2>2 DEF StartRecording, Controller!Open
<1>3. ASSUME NEW how \in {"save", "abort"}, Signal(how)
      PROVE  Controller!Finish \/ Controller!Abort
  <2>1. /\ rec # None /\ rec' = rec /\ crashes' = crashes /\ used' = used
        /\ finish[rec] = "empty" /\ finish'[rec] = how
    BY <1>3 DEF Signal, TypeOK
  <2>2. OpenSignal = "empty" /\ OpenSignal' = how
    BY <2>1 DEF OpenSignal
  <2>3. QED
    BY <2>1, <2>2 DEF Controller!Finish, Controller!Abort
<1>4. ASSUME NEW s \in Sessions, TakeFinish(s) PROVE Controller!Close
  <2>1. rec = s /\ rec' = None /\ crashes' = crashes /\ finish[s] # "empty"
    BY <1>4 DEF TakeFinish, LiveInv, OneLiveSession, Live
  <2>2. used' = used
    BY <1>4 DEF TakeFinish, TypeOK
  <2>3. QED
    BY <2>1, <2>2 DEF OpenSignal, Controller!Close
<1>5. ASSUME Crash PROVE Controller!Restart
  <2>1. rec' = None /\ crashes' = crashes + 1 /\ used' = used
    BY <1>5 DEF Crash
  <2>2. QED
    BY <2>1 DEF OpenSignal, Controller!Restart
<1>6. ASSUME NEW s \in Sessions, Tail(s) PROVE UNCHANGED Controller!vars
  <2>1. /\ UNCHANGED <<rec, finish, crashes>> /\ pc[s] # "new"
        /\ \E t \in TailStages \cup {"dead"} : pc' = [pc EXCEPT ![s] = t]
    BY <1>6 DEF Tail, Results, SaveCreate, SaveEncode, SaveRename, SaveFails,
                ApplyShared, ApplyArm, End, TailStages
  <2>2. used' = used
    BY <2>1 DEF TailStages, TypeOK
  <2>3. QED
    BY <1>1, <2>1, <2>2
<1>7. CASE StartFlag
  <2>1. pc[handler] = "starting" /\ pc' = [pc EXCEPT ![handler] = "record"]
        /\ UNCHANGED <<rec, finish, crashes>>
    BY <1>7 DEF StartFlag, LiveInv, Starting
  <2>2. used' = used
    BY <2>1 DEF TypeOK
  <2>3. QED
    BY <1>1, <2>1, <2>2
<1>8. CASE SetHome \/ (\E s \in Sessions : TakeHome(s)) \/ Boot
           \/ UNCHANGED vars
  <2>1. UNCHANGED <<rec, finish, crashes, pc>>
    BY <1>8 DEF SetHome, TakeHome, Boot, BootLoad, BootLoadFails, BootShared,
                BootArm, vars, procVars
  <2>2. QED
    BY <1>1, <2>1
<1>9. QED
  BY <1>2, <1>3, <1>4, <1>5, <1>6, <1>7, <1>8
     DEF Next, Command, Controller!Next

\* The first signal decides, it ends the session that was open, and none is
\* left over for the next session (StartRecording, signal, record).
THEOREM ControllerKept == Spec => KeepsController
<1>1. Init => Controller!Init
  BY DEF Init, Controller!Init, OpenSignal
<1>2. QED
  BY <1>1, TypeCorrect, LiveCorrect, UnsignalledCorrect, ControllerNext, PTL
     DEF Spec, KeepsController, Controller!Spec

-----------------------------------------------------------------------------
(* Sessions that do not overlap.                                           *)

\* One activity at a time: a session that polls, one that ends, or the boot;
\* the polling one has the flag up.
Alone ==
    /\ rec # None => ~Applying
    /\ \A s, t \in Sessions :
           pc[s] \in TailStages /\ pc[t] \in TailStages => s = t
    /\ boot # "up" => \A s \in Sessions : pc[s] \notin TailStages
    /\ \A s \in Sessions : pc[s] = "record" => recording

AloneInv == ~overlap => Alone

\* The session a tail step belongs to is the only activity before and after.
LEMMA AloneTail ==
    ASSUME TypeOK, LiveInv, Alone, NEW s \in Sessions, pc[s] \in TailStages,
           NEW t \in TailStages \cup {"dead"}, pc' = [pc EXCEPT ![s] = t],
           UNCHANGED <<rec, boot>>
    PROVE  Alone'
<1>1. rec = None /\ boot = "up" /\ \A r \in Sessions \ {s} : pc[r] \notin TailStages
  BY DEF Alone, Applying
<1>2. /\ rec' = None /\ boot' = "up"
      /\ \A r \in Sessions \ {s} : pc'[r] \notin TailStages
  BY <1>1 DEF TypeOK
<1>3. \A r \in Sessions : pc'[r] # "record"
  <2>1. \A r \in Sessions : ~Live(r)
    BY <1>1, NoneAssumption DEF LiveInv, OneLiveSession
  <2>2. QED
    BY <2>1 DEF Live, TailStages, TypeOK
<1>4. QED
  BY <1>2, <1>3 DEF Alone

\* Only a start changes the overlap history, and none takes it back.
LEMMA OverlapStays ==
    ASSUME [Next]_vars, ~overlap'
    PROVE  ~overlap
<1>1. ASSUME NEW s \in Sessions, StartRecording(s) PROVE ~overlap
  BY <1>1 DEF StartRecording
<1>2. CASE overlap' = overlap
  BY <1>2
<1>3. ASSUME NEW s \in Sessions, TakeHome(s) \/ TakeFinish(s)
      PROVE  overlap' = overlap
  BY <1>3 DEF TakeHome, TakeFinish
<1>4. ASSUME NEW s \in Sessions, Tail(s) PROVE overlap' = overlap
  BY <1>4 DEF Tail, Results, SaveCreate, SaveEncode, SaveRename, SaveFails,
              ApplyShared, ApplyArm, End
<1>5. Boot \/ Crash => overlap' = overlap
  BY DEF Boot, BootLoad, BootLoadFails, BootShared, BootArm, Crash
<1>6. StartFlag \/ SetHome => overlap' = overlap
  BY DEF StartFlag, SetHome
<1>7. ASSUME NEW how \in {"save", "abort"}, Signal(how)
      PROVE  overlap' = overlap
  BY <1>7 DEF Signal
<1>8. UNCHANGED vars => overlap' = overlap
  BY DEF vars
<1>9. QED
  BY <1>1, <1>2, <1>3, <1>4, <1>5, <1>6, <1>7, <1>8 DEF Next, Command

LEMMA AloneNext == TypeOK /\ LiveInv /\ AloneInv /\ [Next]_vars => AloneInv'
<1> SUFFICES ASSUME TypeOK, LiveInv, AloneInv, [Next]_vars, ~overlap'
             PROVE  Alone'
  BY DEF AloneInv
<1>0. ~overlap /\ Alone
  BY OverlapStays DEF AloneInv
<1> USE NoneAssumption
<1>1. ASSUME NEW s \in Sessions, StartRecording(s) PROVE Alone'
  <2>1. ~Applying /\ boot' = boot /\ recording' = recording
    BY <1>1 DEF StartRecording, liveVars
  <2>2. pc' = [pc EXCEPT ![s] = "starting"]
    BY <1>1 DEF StartRecording
  <2>3. \A t \in Sessions : pc'[t] \notin TailStages
    BY <2>1, <2>2 DEF Applying, TailStages, TypeOK
  <2>4. boot' = "up"
    BY <2>1 DEF Applying
  <2>5. \A t \in Sessions : pc'[t] = "record" => recording'
    BY <1>0, <2>1, <2>2 DEF Alone, TypeOK
  <2>6. QED
    BY <2>3, <2>4, <2>5 DEF Alone, Applying
<1>2. CASE StartFlag
  <2>1. handler \in Sessions /\ pc' = [pc EXCEPT ![handler] = "record"]
    BY <1>2 DEF StartFlag, TypeOK
  <2>2. recording' /\ UNCHANGED <<rec, boot>>
    BY <1>2 DEF StartFlag, liveVars
  <2>3. \A t \in Sessions : pc'[t] \in TailStages => pc[t] \in TailStages
    BY <2>1 DEF TailStages, TypeOK
  <2>4. QED
    BY <1>0, <2>2, <2>3 DEF Alone, Applying
<1>3. ASSUME NEW s \in Sessions, TakeFinish(s) PROVE Alone'
  <2>1. rec = s
    BY <1>3 DEF TakeFinish, LiveInv, OneLiveSession, Live
  <2>2. boot = "up" /\ \A t \in Sessions : pc[t] \notin TailStages
    BY <1>0, <2>1 DEF Alone, Applying
  <2>3. /\ rec' = None /\ UNCHANGED <<boot, recording>>
        /\ pc' = [pc EXCEPT ![s] = IF finish[s] = "save" THEN "results" ELSE "end"]
    BY <1>3 DEF TakeFinish, liveVars
  <2>4. \A t \in Sessions \ {s} : pc'[t] = pc[t]
    BY <2>3 DEF TypeOK
  <2>5. pc'[s] \in {"results", "end"}
    BY <2>3 DEF TypeOK
  <2>6. QED
    BY <1>0, <2>2, <2>3, <2>4, <2>5 DEF Alone
<1>4. ASSUME NEW s \in Sessions, Tail(s) PROVE Alone'
  <2>1. /\ pc[s] \in TailStages
        /\ \E t \in TailStages \cup {"dead"} : pc' = [pc EXCEPT ![s] = t]
    BY <1>4 DEF Tail, Results, SaveCreate, SaveEncode, SaveRename, SaveFails,
                ApplyShared, ApplyArm, End, TailStages
  <2>2. UNCHANGED <<rec, boot>>
    BY <1>4 DEF Tail, Results, SaveCreate, SaveEncode, SaveRename, SaveFails,
                ApplyShared, ApplyArm, End, liveVars
  <2>3. QED
    BY <1>0, <2>1, <2>2, AloneTail
<1>5. CASE Boot
  <2>1. boot # "up" /\ UNCHANGED <<rec, pc, recording>>
    BY <1>5 DEF Boot, BootLoad, BootLoadFails, BootShared, BootArm, procVars
  <2>2. rec = None /\ \A s \in Sessions : pc[s] \notin TailStages
    BY <1>0, <2>1 DEF Alone, Applying
  <2>3. QED
    BY <1>0, <2>1, <2>2 DEF Alone
<1>6. CASE Crash
  <2>1. rec' = None /\ \A s \in Sessions : pc'[s] \in {"new", "dead"}
    BY <1>6 DEF Crash
  <2>2. QED
    BY <2>1 DEF Alone, TailStages
<1>7. CASE UNCHANGED <<rec, pc, recording, boot>>
  BY <1>0, <1>7 DEF Alone, Applying
<1>8. QED
  BY <1>1, <1>2, <1>3, <1>4, <1>5, <1>6, <1>7
     DEF Next, Command, SetHome, Signal, TakeHome, vars, procVars, liveVars

LEMMA AloneCorrect == Spec => []AloneInv
<1>1. Init => AloneInv
  BY DEF Init, AloneInv, Alone, TailStages
<1>2. QED
  BY <1>1, TypeCorrect, LiveCorrect, AloneNext, PTL DEF Spec

\* The flag is up whenever a session reads the servo bus, for any sequence of
\* sessions none of which starts before the one before it has ended.
THEOREM FlagCoversSessionCorrect == Spec => []FlagCoversSession
<1>1. AloneInv => FlagCoversSession
  BY DEF AloneInv, Alone, FlagCoversSession
<1>2. QED
  BY <1>1, AloneCorrect, PTL

\* Outside the two writes of a session's end or of the boot, the arm server's
\* own map agrees with the shared one; before the second write the first is done.
Agree == \A j \in Joints : ownArm[j] # None => ownArm[j] = cals[j]

AgreeInv ==
    ~overlap =>
        /\ ~aliased /\ boot # "arm" /\ (\A s \in Sessions : pc[s] # "arm")
               => Agree
        /\ aliased => ownArm = Unset
        /\ boot # "up" => aliased
        /\ boot = "arm" => \A j \in Joints : loaded[j] # None => loaded[j] = cals[j]
        /\ \A s \in Sessions : pc[s] = "arm" => \A j \in ok[s] : cals[j] = s

LEMMA AgreeNext ==
    TypeOK /\ LiveInv /\ AloneInv /\ AgreeInv /\ [Next]_vars => AgreeInv'
<1> SUFFICES ASSUME TypeOK, LiveInv, AloneInv, AgreeInv, [Next]_vars, ~overlap'
             PROVE  AgreeInv'
  BY DEF AgreeInv
<1>0. ~overlap /\ Alone
  BY OverlapStays DEF AloneInv
<1> USE NoneAssumption
<1>1. ASSUME NEW s \in Sessions, ApplyShared(s) PROVE AgreeInv'
  <2>1. /\ UNCHANGED <<aliased, ownArm, boot, loaded, ok>>
        /\ pc' = [pc EXCEPT ![s] = "arm"]
        /\ cals' = Merge(cals, Result(s))
    BY <1>1 DEF ApplyShared
  <2>2. boot = "up" /\ \A t \in Sessions \ {s} : pc'[t] # "arm"
    BY <1>0, <1>1, <2>1 DEF ApplyShared, Alone, TailStages, TypeOK
  <2>3. \A j \in ok[s] : cals'[j] = s
    BY <2>1 DEF Merge, Result, TypeOK
  <2>4. pc'[s] = "arm"
    BY <2>1 DEF TypeOK
  <2>5. QED
    BY <1>0, <2>1, <2>2, <2>3, <2>4 DEF AgreeInv
<1>2. ASSUME NEW s \in Sessions, ApplyArm(s) PROVE AgreeInv'
  <2>1. /\ UNCHANGED <<cals, boot, loaded, ok>>
        /\ pc[s] = "arm" /\ pc' = [pc EXCEPT ![s] = "end"]
        /\ aliased' = FALSE /\ ownArm' = Result(s)
    BY <1>2 DEF ApplyArm
  <2>2. boot = "up" /\ \A t \in Sessions : pc'[t] # "arm"
    BY <1>0, <2>1 DEF Alone, TailStages, TypeOK
  <2>3. Agree'
    BY <1>0, <2>1 DEF Agree, AgreeInv, Result
  <2>4. QED
    BY <2>1, <2>2, <2>3 DEF AgreeInv
<1>3. CASE BootShared
  <2>1. /\ UNCHANGED <<pc, ok, aliased, ownArm, loaded>>
        /\ boot # "up" /\ boot' = "arm"
        /\ cals' = Merge(cals, loaded)
    BY <1>3 DEF BootShared, procVars
  <2>2. \A s \in Sessions : pc[s] # "arm"
    BY <1>0, <2>1 DEF Alone, TailStages
  <2>3. \A j \in Joints : loaded[j] # None => loaded[j] = cals'[j]
    BY <2>1 DEF Merge
  <2>4. QED
    BY <1>0, <2>1, <2>2, <2>3 DEF AgreeInv
<1>4. CASE BootArm
  <2>1. /\ UNCHANGED <<pc, ok, cals>>
        /\ boot = "arm" /\ boot' = "up" /\ ownArm' = loaded
        /\ aliased' = FALSE
    BY <1>4 DEF BootArm, procVars
  <2>2. \A s \in Sessions : pc[s] # "arm"
    BY <1>0, <2>1 DEF Alone, TailStages
  <2>3. Agree'
    BY <1>0, <2>1 DEF Agree, AgreeInv
  <2>4. QED
    BY <1>0, <2>1, <2>2, <2>3 DEF AgreeInv
<1>5. CASE BootLoad \/ BootLoadFails
  <2>1. /\ UNCHANGED <<pc, ok, cals, aliased, ownArm>>
        /\ boot # "arm" /\ boot' # "arm" /\ boot # "up"
    BY <1>5 DEF BootLoad, BootLoadFails, procVars
  <2>2. QED
    BY <1>0, <2>1 DEF AgreeInv, Agree
<1>6. CASE Crash
  <2>1. /\ aliased' = TRUE /\ ownArm' = Unset /\ boot' = "load"
        /\ \A s \in Sessions : pc'[s] \in {"new", "dead"}
    BY <1>6 DEF Crash
  <2>2. QED
    BY <2>1 DEF AgreeInv, Unset
<1>7. ASSUME UNCHANGED liveVars,
             \A s \in Sessions : pc'[s] = "arm" <=> pc[s] = "arm",
             \A s \in Sessions : pc'[s] = "arm" => ok'[s] = ok[s]
      PROVE  AgreeInv'
  <2>1. UNCHANGED <<cals, aliased, ownArm, boot, loaded>>
    BY <1>7 DEF liveVars
  <2>2. QED
    BY <1>0, <1>7, <2>1 DEF AgreeInv, Agree
<1>8. ASSUME NEW s \in Sessions, Tail(s), ~ApplyShared(s), ~ApplyArm(s),
             pc[s] # "arm"
      PROVE  AgreeInv'
  <2>1. UNCHANGED liveVars /\ \A t \in Sessions \ {s} : pc'[t] = pc[t]
    BY <1>8 DEF Tail, Results, SaveCreate, SaveEncode, SaveRename, SaveFails,
                End, TypeOK
  <2>2. pc'[s] # "arm" /\ \A t \in Sessions \ {s} : ok'[t] = ok[t]
    BY <1>8 DEF Tail, Results, SaveCreate, SaveEncode, SaveRename, SaveFails,
                End, TypeOK
  <2>3. QED
    BY <1>7, <1>8, <2>1, <2>2
<1>9. ASSUME NEW s \in Sessions,
             StartRecording(s) \/ TakeHome(s) \/ TakeFinish(s)
      PROVE  AgreeInv'
  BY <1>7, <1>9 DEF StartRecording, TakeHome, TakeFinish, TypeOK
<1>10. CASE StartFlag
  <2>1. handler \in Sessions /\ pc[handler] = "starting"
    BY <1>10 DEF StartFlag, LiveInv, Starting, TypeOK
  <2>2. QED
    BY <1>7, <1>10, <2>1 DEF StartFlag, TypeOK
<1>11. CASE UNCHANGED <<liveVars, ok, pc>>
  BY <1>7, <1>11
<1>12. ASSUME NEW s \in Sessions, Tail(s), ~ApplyArm(s) PROVE pc[s] # "arm"
  BY <1>12 DEF Tail, Results, SaveCreate, SaveEncode, SaveRename, SaveFails,
               ApplyShared, End
<1>13. QED
  BY <1>1, <1>2, <1>3, <1>4, <1>5, <1>6, <1>8, <1>9, <1>10, <1>11, <1>12
     DEF Next, Command, SetHome, Signal, Boot, Tail, vars, procVars

\* Between sessions that do not overlap, teleop and the arm server use the same
\* entry of every joint both know, whatever failed or crashed before.
THEOREM MapsAgreeCorrect == Spec => []MapsAgree
<1>1. Init => AgreeInv
  BY DEF Init, AgreeInv
<1>2. AgreeInv => MapsAgree
  BY DEF AgreeInv, Agree, MapsAgree, arm, Applying, TailStages
<1>3. QED
  BY <1>1, <1>2, TypeCorrect, LiveCorrect, AloneCorrect, AgreeNext, PTL DEF Spec

\* A session that has made its file knows what it will be; its name is taken by
\* nobody before.
Unmade(s) == pc[s] \in {"new", "starting", "record", "results", "create"}

\* File f decodes and is the calibration of a session that is past its results.
Complete(f) ==
    /\ f \notin corrupt
    /\ \E s \in Sessions :
        /\ pc[s] \notin {"new", "starting", "record", "results"}
        /\ content[f] = Result(s)

FilesInv ==
    /\ \A s \in Sessions : Unmade(s) => s # disk /\ s # tmp
    /\ ~overlap =>
        /\ disk # None => Complete(disk)
        /\ tmp # None => tmp # disk
        /\ \A s \in Sessions :
            /\ pc[s] \in {"encode", "rename"} =>
                   file[s] = tmp /\ tmp # None /\ tmp \notin corrupt
            /\ pc[s] = "encode" => content[tmp] = Unset
            /\ pc[s] = "rename" => content[tmp] = Result(s)

\* A step that leaves the files alone, and no session's result but one's that
\* had none before, keeps FilesInv.
LEMMA FilesKept ==
    ASSUME TypeOK, FilesInv,
           UNCHANGED <<content, corrupt, tmp, disk>>,
           \A s \in Sessions : Unmade(s)' => Unmade(s),
           \A s \in Sessions :
               pc[s] \notin {"new", "starting", "record", "results"} =>
                   /\ pc'[s] \notin {"new", "starting", "record", "results"}
                   /\ ok'[s] = ok[s],
           \A s \in Sessions :
               pc'[s] \in {"encode", "rename"} =>
                   pc'[s] = pc[s] /\ file'[s] = file[s],
           ~overlap' => ~overlap
    PROVE  FilesInv'
<1>1. \A s \in Sessions :
          pc[s] \notin {"new", "starting", "record", "results"} =>
              Result(s)' = Result(s)
  BY DEF Result
<1>2. ASSUME disk # None, ~overlap' PROVE Complete(disk)'
  <2>1. Complete(disk)
    BY <1>2 DEF FilesInv
  <2>2. QED
    BY <1>1, <2>1 DEF Complete
<1>3. \A s \in Sessions : Unmade(s)' => s # disk' /\ s # tmp'
  BY DEF FilesInv
<1>4. ASSUME ~overlap', NEW s \in Sessions
      PROVE  /\ pc'[s] \in {"encode", "rename"} =>
                    file'[s] = tmp' /\ tmp' # None /\ tmp' \notin corrupt'
             /\ pc'[s] = "encode" => content'[tmp'] = Unset
             /\ pc'[s] = "rename" => content'[tmp'] = Result(s)'
  BY <1>1, <1>4 DEF FilesInv
<1>5. ~overlap' /\ tmp' # None => tmp' # disk'
  BY DEF FilesInv
<1>6. QED
  BY <1>2, <1>3, <1>4, <1>5 DEF FilesInv

LEMMA FilesNext ==
    TypeOK /\ LiveInv /\ AloneInv /\ FilesInv /\ [Next]_vars => FilesInv'
<1> SUFFICES ASSUME TypeOK, LiveInv, AloneInv, FilesInv, [Next]_vars
             PROVE  FilesInv'
  OBVIOUS
<1>0. ~overlap' => ~overlap /\ Alone
  BY OverlapStays DEF AloneInv
<1> USE NoneAssumption
<1>1. ASSUME NEW s \in Sessions, SaveCreate(s) PROVE FilesInv'
  <2> DEFINE f == IF tmp = None THEN s ELSE tmp
  <2>1. /\ pc[s] = "create" /\ pc' = [pc EXCEPT ![s] = "encode"]
        /\ tmp' = f /\ file' = [file EXCEPT ![s] = f]
        /\ content' = [content EXCEPT ![f] = Unset]
        /\ corrupt' = corrupt \ {f}
        /\ UNCHANGED <<disk, ok>>
    BY <1>1 DEF SaveCreate
  <2>2. f \in Sessions /\ s # disk /\ s # tmp
    BY <2>1 DEF TypeOK, FilesInv, Unmade
  <2> HIDE DEF f
  <2>3. \A t \in Sessions : Unmade(t)' => t # disk' /\ t # tmp'
    BY <2>1, <2>2 DEF FilesInv, Unmade, TypeOK, f
  <2> SUFFICES ASSUME ~overlap' PROVE FilesInv'
    BY <2>3 DEF FilesInv
  <2>4. ~overlap /\ f # disk
    BY <1>0, <2>2 DEF FilesInv, f
  <2>5. ASSUME disk' # None PROVE Complete(disk)'
    <3>1. content'[disk'] = content[disk] /\ disk' \notin corrupt'
      BY <2>1, <2>4, <2>5 DEF FilesInv, Complete, TypeOK
    <3>2. PICK t \in Sessions :
            /\ pc[t] \notin {"new", "starting", "record", "results"}
            /\ content[disk] = Result(t)
      BY <2>1, <2>4, <2>5 DEF FilesInv, Complete
    <3>3. Result(t)' = Result(t)
      BY <2>1 DEF Result
    <3>4. pc'[t] \notin {"new", "starting", "record", "results"}
      BY <2>1, <3>2 DEF TypeOK
    <3>5. QED
      BY <3>1, <3>2, <3>3, <3>4 DEF Complete
  <2>6. \A t \in Sessions : pc'[t] \in {"encode", "rename"} => t = s
    BY <1>0, <2>1 DEF Alone, TailStages, TypeOK
  <2>7. /\ pc'[s] = "encode" /\ file'[s] = f /\ content'[f] = Unset
        /\ tmp' # None /\ tmp' # disk'
    BY <2>1, <2>2, <2>4 DEF TypeOK
  <2>8. QED
    BY <2>1, <2>3, <2>5, <2>6, <2>7 DEF FilesInv
<1>2. ASSUME NEW s \in Sessions, SaveEncode(s) PROVE FilesInv'
  <2>1. /\ pc[s] = "encode" /\ pc' = [pc EXCEPT ![s] = "rename"]
        /\ UNCHANGED <<ok, file, tmp, disk>>
    BY <1>2 DEF SaveEncode
  <2>2. \A t \in Sessions : Unmade(t)' => t # disk' /\ t # tmp'
    BY <2>1 DEF FilesInv, Unmade, TypeOK
  <2> SUFFICES ASSUME ~overlap' PROVE FilesInv'
    BY <2>2 DEF FilesInv
  <2>3. /\ file[s] = tmp /\ tmp # None /\ tmp # disk /\ content[tmp] = Unset
        /\ tmp \in Sessions
    BY <1>0, <2>1 DEF FilesInv, TypeOK
  <2>4. /\ content' = [content EXCEPT ![tmp] = Result(s)]
        /\ corrupt' = corrupt \ {tmp}
    BY <1>2, <2>3 DEF SaveEncode
  <2>5. \A t \in Sessions : Result(t)' = Result(t)
    BY <2>1 DEF Result
  <2>6. ASSUME disk' # None PROVE Complete(disk)'
    <3>1. content'[disk'] = content[disk] /\ disk' \notin corrupt'
      BY <1>0, <2>1, <2>3, <2>4, <2>6 DEF FilesInv, Complete, TypeOK
    <3>2. PICK t \in Sessions :
            /\ pc[t] \notin {"new", "starting", "record", "results"}
            /\ content[disk] = Result(t)
      BY <1>0, <2>1, <2>6 DEF FilesInv, Complete
    <3>3. pc'[t] \notin {"new", "starting", "record", "results"}
      BY <2>1, <3>2 DEF TypeOK
    <3>4. QED
      BY <2>5, <3>1, <3>2, <3>3 DEF Complete
  <2>7. \A t \in Sessions : pc'[t] \in {"encode", "rename"} => t = s
    BY <1>0, <2>1 DEF Alone, TailStages, TypeOK
  <2>8. /\ pc'[s] = "rename" /\ content'[tmp] = Result(s) /\ tmp \notin corrupt'
    BY <2>1, <2>3, <2>4 DEF TypeOK
  <2>9. QED
    BY <2>1, <2>2, <2>3, <2>5, <2>6, <2>7, <2>8 DEF FilesInv
<1>3. ASSUME NEW s \in Sessions, SaveRename(s) PROVE FilesInv'
  <2>1. /\ pc[s] = "rename" /\ pc' = [pc EXCEPT ![s] = "shared"]
        /\ disk' = (IF tmp = None THEN disk ELSE tmp) /\ tmp' = None
        /\ UNCHANGED <<ok, content, corrupt>>
    BY <1>3 DEF SaveRename
  <2>2. \A t \in Sessions : Unmade(t)' => t # disk' /\ t # tmp'
    BY <2>1 DEF FilesInv, Unmade, TypeOK
  <2> SUFFICES ASSUME ~overlap' PROVE FilesInv'
    BY <2>2 DEF FilesInv
  <2>3. tmp # None /\ tmp \notin corrupt /\ content[tmp] = Result(s)
    BY <1>0, <2>1 DEF FilesInv
  <2>4. Result(s)' = Result(s)
    BY <2>1 DEF Result
  <2>5. pc'[s] = "shared" /\ disk' = tmp
    BY <2>1, <2>3 DEF TypeOK
  <2>6. Complete(disk)'
    BY <2>1, <2>3, <2>4, <2>5 DEF Complete
  <2>7. \A t \in Sessions : pc'[t] \notin {"encode", "rename"}
    BY <1>0, <2>1 DEF Alone, TailStages, TypeOK
  <2>8. QED
    BY <2>1, <2>2, <2>6, <2>7 DEF FilesInv
<1>4. ASSUME NEW s \in Sessions, Results(s) PROVE FilesInv'
  <2>1. /\ pc[s] = "results" /\ pc' = [pc EXCEPT ![s] = "create"]
        /\ UNCHANGED <<file, content, corrupt, tmp, disk>>
        /\ \A t \in Sessions \ {s} : ok'[t] = ok[t]
    BY <1>4 DEF Results, TypeOK
  <2>2. QED
    BY <1>0, <2>1, FilesKept DEF Unmade, TypeOK
<1>5. ASSUME NEW s \in Sessions,
             SaveFails(s) \/ ApplyShared(s) \/ ApplyArm(s) \/ End(s)
      PROVE  FilesInv'
  <2>1. /\ pc[s] \in {"create", "encode", "rename", "shared", "arm", "end"}
        /\ \E t \in {"shared", "arm", "end", "dead"} : pc' = [pc EXCEPT ![s] = t]
        /\ UNCHANGED <<ok, content, corrupt, tmp, disk>>
        /\ \A t \in Sessions \ {s} : file'[t] = file[t]
    BY <1>5 DEF SaveFails, ApplyShared, ApplyArm, End, diskVars, TypeOK
  <2>2. QED
    BY <1>0, <2>1, FilesKept DEF Unmade, TypeOK
<1>6. ASSUME NEW s \in Sessions, StartRecording(s) PROVE FilesInv'
  <2>1. /\ pc[s] = "new" /\ pc' = [pc EXCEPT ![s] = "starting"]
        /\ UNCHANGED <<ok, file, content, corrupt, tmp, disk>>
    BY <1>6 DEF StartRecording, diskVars
  <2>2. QED
    BY <1>0, <2>1, FilesKept DEF Unmade, TypeOK
<1>7. CASE StartFlag
  <2>1. /\ handler \in Sessions /\ pc[handler] = "starting"
        /\ pc' = [pc EXCEPT ![handler] = "record"]
        /\ UNCHANGED <<ok, file, content, corrupt, tmp, disk>>
    BY <1>7 DEF StartFlag, diskVars, LiveInv, Starting, TypeOK
  <2>2. QED
    BY <1>0, <2>1, FilesKept DEF Unmade, TypeOK
<1>8. ASSUME NEW s \in Sessions, TakeFinish(s) PROVE FilesInv'
  <2>1. /\ pc[s] = "record"
        /\ \E t \in {"results", "end"} : pc' = [pc EXCEPT ![s] = t]
        /\ UNCHANGED <<ok, file, content, corrupt, tmp, disk>>
    BY <1>8 DEF TakeFinish, diskVars, TypeOK
  <2>2. QED
    BY <1>0, <2>1, FilesKept DEF Unmade, TypeOK
<1>9. CASE Crash
  <2>1. /\ pc' = [s \in Sessions |-> IF pc[s] = "new" THEN "new" ELSE "dead"]
        /\ UNCHANGED <<ok, content, corrupt, tmp, disk>>
    BY <1>9 DEF Crash, diskVars
  <2>2. QED
    BY <1>0, <2>1, FilesKept DEF Unmade, TypeOK
<1>10. CASE UNCHANGED <<pc, ok, file, content, corrupt, tmp, disk>>
  BY <1>0, <1>10, FilesKept DEF Unmade
<1>11. QED
  BY <1>1, <1>2, <1>3, <1>4, <1>5, <1>6, <1>7, <1>8, <1>9, <1>10
     DEF Next, Command, SetHome, Signal, TakeHome, Tail, Boot, BootLoad,
         BootLoadFails, BootShared, BootArm, vars, procVars, diskVars

\* Whatever failed and wherever the module crashed, the file a reboot finds
\* decodes and is one session's calibration, if no two sessions overlapped.
THEOREM FileOfOneSessionCorrect == Spec => []FileOfOneSession
<1>1. Init => FilesInv
  BY NoneAssumption DEF Init, FilesInv
<1>2. FilesInv => FileOfOneSession
  BY DEF FilesInv, Complete, FileOfOneSession
<1>3. QED
  BY <1>1, <1>2, TypeCorrect, LiveCorrect, AloneCorrect, FilesNext, PTL DEF Spec
=============================================================================
