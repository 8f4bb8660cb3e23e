--------------------------- MODULE ViewportProofs ----------------------------
(***************************************************************************)
(* Proofs about Scene3D and Viewport, for any meshes, readings, presets,   *)
(* opacities and numbers of losses and drags.                              *)
(***************************************************************************)
EXTENDS Viewport, TLAPS

-----------------------------------------------------------------------------
(* The strengthening of the scene's properties.                            *)

\* The robot is published when no mesh loads any more, and not before; meshes
\* are there once the URDF is parsed.
LoadOK ==
    /\ error => fetch = "failed"
    /\ robot => fetch = "parsed" /\ \A m \in Meshes : mesh[m] # "loading"
    /\ fetch # "parsed" => \A m \in Meshes : mesh[m] = "none"

\* A mesh has a material if and only if it is attached.
AttachedOK ==
    \A m \in Meshes :
        /\ mesh[m] = "in" => look[m].material # None
        /\ mesh[m] # "in" => look[m] = NoMesh

\* What is not as the props want it has an effect that is due, and new materials
\* never come without the opacity.
StyleOK ==
    /\ "mono" \in due => "opacity" \in due
    /\ robot =>
        /\ "joints" \in due \/ posed = readings
        /\ \A m \in Meshes : mesh[m] = "in" =>
               /\ "mono" \in due \/ look[m].material = "mono"
               /\ "opacity" \in due \/ look[m].opacity = opacity

\* What is not on the canvas, and a camera that moves, have asked for a frame.
PictureOK ==
    /\ Canvas /\ gl = "ok" /\ ~frame => current
    /\ moving => frame

SceneInv == SceneTypeOK /\ LoadOK /\ AttachedOK /\ StyleOK /\ PictureOK

LEMMA Bounds == MaxDist \in Nat /\ MaxLosses \in Nat /\ MaxDrags \in Nat
BY SceneAssumption

LEMMA SceneInvInit == SceneInit => SceneInv
<1> SUFFICES ASSUME SceneInit PROVE SceneInv
  OBVIOUS
<1> USE SceneAssumption, Bounds
<1>1. SceneTypeOK
  <2>1. {robot, error, frame, current, moving} \subseteq BOOLEAN
    BY DEF SceneInit, SceneTypeOK, AllEffects, RobotEffects, Canvas, NoMesh
  <2>2. gl = "none" <=> ~Canvas
    BY DEF SceneInit, SceneTypeOK, AllEffects, RobotEffects, Canvas, NoMesh
  <2>3. QED
    BY <2>1, <2>2 DEF SceneInit, SceneTypeOK, AllEffects, RobotEffects, Canvas, NoMesh
<1>2. LoadOK /\ AttachedOK
  BY DEF SceneInit, LoadOK, AttachedOK
<1>3. StyleOK /\ PictureOK
  BY DEF SceneInit, StyleOK, PictureOK, AllEffects, RobotEffects
<1>4. QED
  BY <1>1, <1>2, <1>3 DEF SceneInv

-----------------------------------------------------------------------------
(* The steps of the scene.                                                 *)

LEMMA MountInv ==
    SceneInv /\ Mount3D /\ UNCHANGED <<props, losses, drags>> => SceneInv'
<1> SUFFICES ASSUME SceneInv, Mount3D, UNCHANGED <<props, losses, drags>>
             PROVE  SceneInv'
  OBVIOUS
<1> USE SceneAssumption, Bounds DEF Mount3D, NewCanvas, props
<1>1. SceneTypeOK'
  <2>1. ({robot, error, frame, current, moving} \subseteq BOOLEAN)'
    BY DEF SceneInv, SceneTypeOK, AllEffects, RobotEffects, Canvas, NoMesh
  <2>2. (gl = "none" <=> ~Canvas)'
    BY DEF SceneInv, SceneTypeOK, AllEffects, RobotEffects, Canvas, NoMesh
  <2>3. QED
    BY <2>1, <2>2 DEF SceneInv, SceneTypeOK, AllEffects, RobotEffects, Canvas, NoMesh
<1>2. LoadOK' /\ AttachedOK'
  BY DEF LoadOK, AttachedOK
<1>3. StyleOK' /\ PictureOK'
  BY DEF StyleOK, PictureOK, AllEffects, RobotEffects
<1>4. QED
  BY <1>1, <1>2, <1>3 DEF SceneInv

LEMMA UnmountInv ==
    SceneInv /\ Unmount3D /\ UNCHANGED <<props, losses, drags>> => SceneInv'
<1> SUFFICES ASSUME SceneInv, Unmount3D, UNCHANGED <<props, losses, drags>>
             PROVE  SceneInv'
  OBVIOUS
<1> USE SceneAssumption, Bounds DEF Unmount3D, NoCanvas, props
<1>1. SceneTypeOK'
  <2>1. ({robot, error, frame, current, moving} \subseteq BOOLEAN)'
    BY DEF SceneInv, SceneTypeOK, Canvas, NoMesh
  <2>2. (gl = "none" <=> ~Canvas)'
    BY DEF SceneInv, SceneTypeOK, Canvas, NoMesh
  <2>3. QED
    BY <2>1, <2>2 DEF SceneInv, SceneTypeOK, Canvas, NoMesh
<1>2. LoadOK' /\ AttachedOK'
  BY DEF LoadOK, AttachedOK
<1>3. StyleOK' /\ PictureOK'
  BY DEF StyleOK, PictureOK, Canvas
<1>4. QED
  BY <1>1, <1>2, <1>3 DEF SceneInv

LEMMA LoadInv == SceneInv /\ Load => SceneInv'
<1> SUFFICES ASSUME SceneInv, Load PROVE SceneInv'
  OBVIOUS
<1> USE SceneAssumption, Bounds
<1>1. CASE FetchDone
  <2> USE <1>1 DEF FetchDone, props, robotVars, canvasVars, cameraVars
  <2>1. SceneTypeOK'
    BY DEF SceneInv, SceneTypeOK, Canvas
  <2>2. LoadOK'
    BY DEF SceneInv, LoadOK
  <2>3. AttachedOK' /\ StyleOK'
    BY DEF SceneInv, LoadOK, AttachedOK, StyleOK
  <2>4. PictureOK'
    BY DEF SceneInv, PictureOK, Canvas
  <2>5. QED
    BY <2>1, <2>2, <2>3, <2>4 DEF SceneInv
<1>2. CASE FetchFails
  <2> USE <1>2 DEF FetchFails, NoCanvas, props, robotVars
  <2>1. SceneTypeOK'
    <3>1. ({robot, error, frame, current, moving} \subseteq BOOLEAN)'
      BY DEF SceneInv, SceneTypeOK, Canvas
    <3>2. (gl = "none" <=> ~Canvas)'
      BY DEF SceneInv, SceneTypeOK, Canvas
    <3>3. QED
      BY <3>1, <3>2 DEF SceneInv, SceneTypeOK, Canvas
  <2>2. LoadOK'
    BY DEF SceneInv, LoadOK
  <2>3. AttachedOK' /\ StyleOK'
    BY DEF SceneInv, LoadOK, AttachedOK, StyleOK
  <2>4. PictureOK'
    BY DEF SceneInv, PictureOK, Canvas
  <2>5. QED
    BY <2>1, <2>2, <2>3, <2>4 DEF SceneInv
<1>3. ASSUME NEW m \in Meshes, NEW ok \in BOOLEAN, MeshEnd(m, ok)
      PROVE  SceneInv'
  <2> USE <1>3 DEF MeshEnd, AllEnded, props, cameraVars
  <2>1. ~robot /\ fetch = "parsed" /\ ~error
    BY DEF SceneInv, SceneTypeOK, LoadOK
  <2>2. SceneTypeOK'
    <3>1. /\ look' \in [Meshes -> [material : {None, "grey", "mono"},
                                   opacity : Opacities]]
          /\ mesh' \in [Meshes -> {"none", "loading", "in", "failed"}]
      BY DEF SceneInv, SceneTypeOK, Grey, NoMesh
    <3>2. QED
      BY <3>1 DEF SceneInv, SceneTypeOK, Canvas, AllEffects, RobotEffects
  <2>3. LoadOK'
    BY <2>1 DEF SceneInv, SceneTypeOK, LoadOK
  <2>4. AttachedOK'
    BY DEF SceneInv, SceneTypeOK, AttachedOK, Grey, NoMesh
  <2>5. StyleOK' /\ PictureOK'
    BY <2>1 DEF SceneInv, SceneTypeOK, StyleOK, PictureOK, Canvas, RobotEffects
  <2>6. QED
    BY <2>2, <2>3, <2>4, <2>5 DEF SceneInv
<1>4. QED
  BY <1>1, <1>2, <1>3 DEF Load

\* A new prop leaves its effect due wherever there is a canvas.
LEMMA PropsInv ==
    ASSUME SceneInv,
           \/ \E p \in Presets : SetPreset(p)
           \/ \E o \in Opacities : SetOpacity(o)
           \/ \E r \in Readings : SetPose(r)
    PROVE  SceneInv'
<1> USE SceneAssumption, Bounds DEF loadVars, robotVars, cameraVars, Depends, Canvas
<1>0. robot => fetch # "none" /\ ~error
  BY DEF SceneInv, LoadOK, SceneTypeOK
<1>1. ASSUME NEW p \in Presets, SetPreset(p) PROVE SceneInv'
  BY <1>0, <1>1 DEF SetPreset, SceneInv, SceneTypeOK, LoadOK, AttachedOK,
                    StyleOK, PictureOK, AllEffects
<1>2. ASSUME NEW o \in Opacities, SetOpacity(o) PROVE SceneInv'
  BY <1>0, <1>2 DEF SetOpacity, SceneInv, SceneTypeOK, LoadOK, AttachedOK,
                    StyleOK, PictureOK, AllEffects, RobotEffects
<1>3. ASSUME NEW r \in Readings, SetPose(r) PROVE SceneInv'
  BY <1>0, <1>3 DEF SetPose, SceneInv, SceneTypeOK, LoadOK, AttachedOK,
                    StyleOK, PictureOK, AllEffects, RobotEffects
<1>4. QED
  BY <1>1, <1>2, <1>3

-----------------------------------------------------------------------------
(* The effects: materials first, the opacity on the materials there are.   *)

LEMMA StyledMeshes ==
    ASSUME SceneInv, NEW m \in Meshes
    PROVE  /\ mesh[m] # "in" => Styled[m] = NoMesh
           /\ mesh[m] = "in" =>
                /\ Styled[m].material = IF "mono" \in due THEN "mono"
                                        ELSE look[m].material
                /\ Styled[m].opacity = IF "opacity" \in due THEN opacity
                                       ELSE look[m].opacity
           /\ Styled[m] \in [material : {None, "grey", "mono"},
                             opacity : Opacities]
           /\ due \cap {"mono", "opacity"} = {} => Styled[m] = look[m]
<1> USE SceneAssumption, Bounds
<1>1. /\ look[m] \in [material : {None, "grey", "mono"}, opacity : Opacities]
      /\ "mono" \in due => "opacity" \in due
  BY DEF SceneInv, SceneTypeOK, StyleOK
<1>2. CASE mesh[m] # "in"
  <2>1. look[m] = NoMesh /\ m \notin Attached
    BY <1>2 DEF SceneInv, AttachedOK, Attached
  <2>2. QED
    BY <1>1, <1>2, <2>1 DEF Styled, WithOpacity, Monochrome
<1>3. CASE mesh[m] = "in"
  <2>1. m \in Attached
    BY <1>3 DEF SceneInv, AttachedOK, Attached, NoMesh
  <2>2. Monochrome(look)[m] = IF "mono" \in due THEN Mono ELSE look[m]
    BY <2>1 DEF Monochrome
  <2>3. Styled[m] = IF "opacity" \in due
                    THEN [Monochrome(look)[m] EXCEPT !.opacity = opacity]
                    ELSE Monochrome(look)[m]
    BY <2>1 DEF Styled, WithOpacity
  <2>4. opacity \in Opacities
    BY DEF SceneInv, SceneTypeOK
  <2>5. CASE "mono" \in due
    BY <1>1, <1>3, <2>2, <2>3, <2>4, <2>5 DEF Mono
  <2>6. CASE "mono" \notin due
    BY <1>1, <1>3, <2>2, <2>3, <2>4, <2>6
  <2>7. QED
    BY <2>5, <2>6
<1>4. QED
  BY <1>2, <1>3

LEMMA EffectsInv == SceneInv /\ Effects => SceneInv'
<1> SUFFICES ASSUME SceneInv, Effects PROVE SceneInv'
  OBVIOUS
<1> USE SceneAssumption, Bounds DEF Effects, props, loadVars
<1>1. look' \in [Meshes -> [material : {None, "grey", "mono"},
                            opacity : Opacities]]
  <2>1. CASE robot
    <3>1. Styled = [m \in Meshes |-> Styled[m]]
      BY DEF Styled, WithOpacity
    <3>2. QED
      BY <2>1, <3>1, StyledMeshes
  <2>2. CASE ~robot
    BY <2>2 DEF SceneInv, SceneTypeOK
  <2>3. QED
    BY <2>1, <2>2
<1>2. SceneTypeOK'
  BY <1>1 DEF SceneInv, SceneTypeOK, Canvas
<1>3. LoadOK'
  BY DEF SceneInv, LoadOK
<1>4. AttachedOK'
  <2>1. CASE robot
    BY <2>1, StyledMeshes DEF SceneInv, AttachedOK
  <2>2. CASE ~robot
    BY <2>2 DEF SceneInv, AttachedOK
  <2>3. QED
    BY <2>1, <2>2
<1>5. StyleOK'
  <2>1. CASE robot
    BY <2>1, StyledMeshes DEF SceneInv, StyleOK
  <2>2. CASE ~robot
    BY <2>2 DEF StyleOK
  <2>3. QED
    BY <2>1, <2>2
<1>6. PictureOK'
  <2>1. look' # look \/ posed' # posed => Invalidates
    <3>1. CASE robot /\ due \cap {"mono", "opacity"} = {}
      <4>1. look \in [Meshes -> [material : {None, "grey", "mono"},
                                 opacity : Opacities]]
        BY DEF SceneInv, SceneTypeOK
      <4>2. \A m \in Meshes : look'[m] = look[m]
        BY <3>1, StyledMeshes
      <4>3. look' = look
        BY <1>1, <4>1, <4>2
      <4>4. QED
        BY <3>1, <4>3 DEF Invalidates, RobotEffects
    <3>2. CASE robot /\ due \cap {"mono", "opacity"} # {}
      BY <3>2 DEF Invalidates, RobotEffects
    <3>3. CASE ~robot
      BY <3>3
    <3>4. QED
      BY <3>1, <3>2, <3>3
  <2>2. "camera" \in due => Invalidates
    BY DEF Invalidates
  <2>3. {frame, current, moving} \subseteq BOOLEAN
    BY DEF SceneInv, SceneTypeOK
  <2>4. QED
    BY <2>1, <2>2, <2>3 DEF SceneInv, PictureOK, Canvas
<1>7. QED
  BY <1>2, <1>3, <1>4, <1>5, <1>6 DEF SceneInv

LEMMA DrawInv == SceneInv /\ Draw3D => SceneInv'
<1> SUFFICES ASSUME SceneInv, Draw3D PROVE SceneInv'
  OBVIOUS
<1> USE SceneAssumption, Bounds DEF props, loadVars, robotVars, cameraVars
<1>1. CASE Effects
  BY <1>1, EffectsInv
<1>2. CASE Frame
  <2>1. SceneTypeOK'
    BY <1>2 DEF Frame, SceneInv, SceneTypeOK, Canvas
  <2>2. LoadOK' /\ AttachedOK' /\ StyleOK'
    BY <1>2 DEF Frame, SceneInv, LoadOK, AttachedOK, StyleOK
  <2>3. PictureOK'
    BY <1>2 DEF Frame, PictureOK
  <2>4. QED
    BY <2>1, <2>2, <2>3 DEF SceneInv
<1>3. CASE Drag
  <2>1. SceneTypeOK'
    <3>1. ({robot, error, frame, current, moving} \subseteq BOOLEAN)'
      BY <1>3 DEF Drag, SceneInv, SceneTypeOK, Canvas
    <3>2. (gl = "none" <=> ~Canvas)'
      BY <1>3 DEF Drag, SceneInv, SceneTypeOK, Canvas
    <3>3. QED
      BY <1>3, <3>1, <3>2 DEF Drag, SceneInv, SceneTypeOK, Canvas
  <2>2. LoadOK' /\ AttachedOK' /\ StyleOK'
    BY <1>3 DEF Drag, SceneInv, LoadOK, AttachedOK, StyleOK
  <2>3. PictureOK'
    BY <1>3 DEF Drag, PictureOK
  <2>4. QED
    BY <2>1, <2>2, <2>3 DEF SceneInv
<1>4. CASE Lose
  <2>1. SceneTypeOK'
    <3>1. ({robot, error, frame, current, moving} \subseteq BOOLEAN)'
      BY <1>4 DEF Lose, SceneInv, SceneTypeOK, Canvas
    <3>2. (gl = "none" <=> ~Canvas)'
      BY <1>4 DEF Lose, SceneInv, SceneTypeOK, Canvas
    <3>3. QED
      BY <1>4, <3>1, <3>2 DEF Lose, SceneInv, SceneTypeOK, Canvas
  <2>2. LoadOK' /\ AttachedOK' /\ StyleOK'
    BY <1>4 DEF Lose, SceneInv, LoadOK, AttachedOK, StyleOK
  <2>3. PictureOK'
    BY <1>4 DEF Lose, SceneInv, PictureOK
  <2>4. QED
    BY <2>1, <2>2, <2>3 DEF SceneInv
<1>5. CASE Restore
  <2>1. SceneTypeOK'
    <3>1. ({robot, error, frame, current, moving} \subseteq BOOLEAN)'
      BY <1>5 DEF Restore, NewCanvas, SceneInv, SceneTypeOK, Canvas, AllEffects
    <3>2. (gl = "none" <=> ~Canvas)'
      BY <1>5 DEF Restore, NewCanvas, SceneInv, SceneTypeOK, Canvas, AllEffects
    <3>3. QED
      BY <1>5, <3>1, <3>2
      DEF Restore, NewCanvas, SceneInv, SceneTypeOK, Canvas, AllEffects
  <2>2. LoadOK' /\ AttachedOK'
    BY <1>5 DEF Restore, NewCanvas, SceneInv, LoadOK, AttachedOK
  <2>3. StyleOK' /\ PictureOK'
    BY <1>5 DEF Restore, NewCanvas, StyleOK, PictureOK, AllEffects, RobotEffects
  <2>4. QED
    BY <2>1, <2>2, <2>3 DEF SceneInv
<1>6. QED
  BY <1>1, <1>2, <1>3, <1>4, <1>5 DEF Draw3D

-----------------------------------------------------------------------------
(* The viewport.                                                           *)

SchematicTypeOK ==
    /\ mode \in {"3d", "2d"} /\ flat \in FlatViews
    /\ {drawDue, resized} \subseteq BOOLEAN
    /\ {closure, drawn} \subseteq (Readings \X FlatViews) \cup {None}
    /\ mode = "3d" <=> fetch # "none"
    /\ mode = "3d" => FlatNone

Inv == SceneInv /\ SchematicTypeOK /\ SchematicCurrent

LEMMA InvInit == Init => Inv
<1> SUFFICES ASSUME Init PROVE Inv
  OBVIOUS
<1>1. SceneInv
  BY SceneInvInit DEF Init
<1>2. SchematicTypeOK /\ SchematicCurrent
  BY DEF Init, SceneInit, FlatNone, SchematicTypeOK, SchematicCurrent
<1>3. QED
  BY <1>1, <1>2 DEF Inv

\* The loader and the canvas leave a scene mounted or unmounted.
LEMMA SceneStaysMounted ==
    ASSUME Load \/ Draw3D
    PROVE  UNCHANGED readings /\ (fetch = "none") = (fetch' = "none")
BY DEF Load, Draw3D, FetchDone, FetchFails, MeshEnd, Effects, Frame, Drag, Lose,
       Restore, props, loadVars

LEMMA InvNext == Inv /\ [Next]_vars => Inv'
<1> SUFFICES ASSUME Inv, [Next]_vars PROVE Inv'
  OBVIOUS
<1> USE DEF SchematicTypeOK, SchematicCurrent, Data, FlatNone
<1>1. CASE To3D
  <2>1. SceneInv'
    BY <1>1, MountInv DEF Inv, To3D
  <2>2. QED
    BY <1>1, <2>1 DEF Inv, To3D, Mount3D, props
<1>2. CASE To2D
  <2>1. SceneInv'
    BY <1>2, UnmountInv DEF Inv, To2D
  <2>2. QED
    BY <1>2, <2>1 DEF Inv, To2D, Unmount3D, props
<1>3. CASE Control
  <2>1. SceneInv'
    BY <1>3, PropsInv DEF Inv, Control
  <2>2. UNCHANGED <<readings, fetch>>
    BY <1>3 DEF Control, SetPreset, SetOpacity, loadVars
  <2>3. QED
    BY <1>3, <2>1, <2>2 DEF Inv, Control, flatVars
<1>4. ASSUME NEW v \in FlatViews, SetFlat(v) PROVE Inv'
  <2>1. SceneInv'
    BY <1>4 DEF Inv, SetFlat, sceneVars, props, loadVars, robotVars, canvasVars,
                cameraVars, SceneInv, SceneTypeOK, LoadOK, AttachedOK, StyleOK,
                PictureOK, Canvas
  <2>2. QED
    BY <1>4, <2>1 DEF Inv, SetFlat, sceneVars, props, loadVars
<1>5. ASSUME NEW r \in Readings, Receive(r) PROVE Inv'
  <2>1. SceneInv'
    BY <1>5, PropsInv DEF Inv, Receive
  <2>2. UNCHANGED fetch
    BY <1>5 DEF Receive, SetPose, loadVars
  <2>3. QED
    BY <1>5, <2>1, <2>2 DEF Inv, Receive
<1>6. CASE DrawData \/ Resize \/ UNCHANGED vars
  <2>1. UNCHANGED sceneVars
    BY <1>6 DEF DrawData, Resize, vars
  <2>2. SceneInv'
    BY <2>1 DEF Inv, sceneVars, props, loadVars, robotVars, canvasVars,
                cameraVars, SceneInv, SceneTypeOK, LoadOK, AttachedOK, StyleOK,
                PictureOK, Canvas
  <2>3. UNCHANGED <<readings, fetch>> /\ readings \in Readings
    BY <2>1 DEF sceneVars, props, loadVars, Inv, SceneInv, SceneTypeOK
  <2>4. CASE DrawData
    <3>1. Data \in Readings \X FlatViews /\ Data' = Data
      BY <2>3, <2>4 DEF Inv, DrawData
    <3>2. /\ mode = "2d" /\ UNCHANGED <<mode, flat>>
          /\ drawDue' = FALSE /\ resized' = FALSE
      BY <2>4 DEF Inv, DrawData
    <3>3. drawn' = Data /\ closure' \in {Data, closure}
      BY <2>4 DEF DrawData
    <3>4. SchematicTypeOK'
      <4>1. closure \in (Readings \X FlatViews) \cup {None}
        BY DEF Inv
      <4>2. {drawn', closure'} \subseteq (Readings \X FlatViews) \cup {None}
        <5> HIDE DEF Data
        <5> QED
          BY <3>1, <3>3, <4>1
      <4>3. QED
        BY <2>3, <3>2, <4>2 DEF Inv
    <3>5. SchematicCurrent'
      BY <3>1, <3>2, <3>3
    <3>6. QED
      BY <2>2, <3>4, <3>5 DEF Inv
  <2>5. CASE Resize
    BY <2>2, <2>3, <2>5 DEF Inv, Resize
  <2>6. CASE UNCHANGED vars
    BY <2>2, <2>3, <2>6 DEF Inv, vars, flatVars
  <2>7. QED
    BY <1>6, <2>4, <2>5, <2>6
<1>7. CASE (Load \/ Draw3D) /\ UNCHANGED <<mode, flat, flatVars>>
  <2>1. SceneInv'
    BY <1>7, LoadInv, DrawInv DEF Inv
  <2>2. QED
    BY <1>7, <2>1, SceneStaysMounted DEF Inv, flatVars
<1>8. QED
  BY <1>1, <1>2, <1>3, <1>4, <1>5, <1>6, <1>7 DEF Next

LEMMA AlwaysInv == Spec => []Inv
BY InvInit, InvNext, PTL DEF Spec

-----------------------------------------------------------------------------
(* The theorems.                                                           *)

\* Scene, canvas and schematic keep their types; one of the two is mounted, as
\* the mode's button has it (ArmTeleop), and the other keeps nothing.
THEOREM TypeCorrect == Spec => []TypeOK
<1>1. Inv => TypeOK
  BY DEF Inv, SceneInv, SchematicTypeOK, TypeOK
<1>2. QED
  BY <1>1, AlwaysInv, PTL

\* RobotInScene's effects: whenever the meshes arrive and the props change, the
\* robot that has no effect due looks and stands as the props say.
THEOREM SceneFollowsCorrect == Spec => []SceneFollows
<1>1. Inv => SceneFollows
  <2> SUFFICES ASSUME Inv, robot, due = {},
                      NEW m \in Meshes, mesh[m] = "in"
               PROVE  /\ posed = readings
                      /\ look[m] = [material |-> "mono", opacity |-> opacity]
    BY DEF SceneFollows, Inv, SceneInv, StyleOK
  <2>1. look[m] \in [material : {None, "grey", "mono"}, opacity : Opacities]
    BY DEF Inv, SceneInv, SceneTypeOK
  <2>2. look[m].material = "mono" /\ look[m].opacity = opacity /\ posed = readings
    BY DEF Inv, SceneInv, StyleOK
  <2>3. QED
    BY <2>1, <2>2
<1>2. QED
  BY <1>1, AlwaysInv, PTL

\* The canvas draws on demand: no change of the scene, of the camera or of the
\* context is left without a frame that shows it.
THEOREM PictureCurrentCorrect == Spec => []PictureCurrent
<1>1. Inv => PictureCurrent
  BY DEF Inv, SceneInv, PictureOK, PictureCurrent
<1>2. QED
  BY <1>1, AlwaysInv, PTL

\* The schematic's two effects: new data is drawn, and a resize draws that of
\* the mount.
THEOREM SchematicCurrentCorrect == Spec => []SchematicCurrent
BY AlwaysInv, PTL DEF Inv
=============================================================================
