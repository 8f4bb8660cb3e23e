------------------------------ MODULE Scene3D -------------------------------
(***************************************************************************)
(* The 3D model of the arm: useUrdfRobot, which loads it, RobotInScene,    *)
(* whose effects style and pose it, CameraRig, and the canvas, which only  *)
(* draws a frame that was asked for and may lose its context.              *)
(*                                                                         *)
(* React renders on every change and runs the effects whose dependencies   *)
(* changed some time later, all at once and in the order they are written  *)
(* in; `due` holds those that have yet to run.  An effect whose dependency *)
(* has come back to its old value runs once more here, which changes       *)
(* nothing.  What a cancelled load does after its unmount is not seen by   *)
(* anybody and left out.                                                   *)
(***************************************************************************)
EXTENDS Naturals

CONSTANTS
    Meshes,
    Readings,              \* readings the panel may get, each with its pose
    Presets, Default,      \* CAMERA_PRESETS, DEFAULT_PRESET
    Opacities, Opaque,
    MaxDist,               \* frames the camera eases for, at most
    MaxLosses, MaxDrags,   \* bounds on what the browser and the user do
    None

ASSUME SceneAssumption ==
    /\ Default \in Presets /\ Opaque \in Opacities
    /\ {MaxDist, MaxLosses, MaxDrags} \subseteq Nat
    /\ None \notin Readings \cup {"grey", "mono"}

VARIABLES
    readings, preset, opacity,  \* props
    fetch,    \* of the URDF
    mesh,     \* of each STL
    robot,    \* useUrdfRobot's robot is there
    error,    \* useUrdfRobot's error is shown instead of the canvas
    look,     \* each attached mesh's material
    posed,    \* readings the robot's joints were set from
    due,      \* effects that have yet to run
    frame,    \* invalidate was called since the last frame
    current,  \* the last frame shows the scene as it is (history)
    gl,       \* the canvas' context
    losses,
    dist,     \* frames from the camera to the preset's position
    moving,   \* CameraRig's moving
    drags

props      == <<readings, preset, opacity>>
loadVars   == <<fetch, mesh, robot, error>>
robotVars  == <<look, posed>>
canvasVars == <<due, frame, current, gl, losses>>
cameraVars == <<dist, moving, drags>>
sceneVars  == <<props, loadVars, robotVars, canvasVars, cameraVars>>

NoMesh == [material |-> None, opacity |-> Opaque]
Grey   == [material |-> "grey", opacity |-> Opaque]
Mono   == [material |-> "mono", opacity |-> Opaque]

RobotEffects == {"mono", "opacity", "joints"}
AllEffects   == RobotEffects \cup {"listen", "camera"}

\* The canvas is there until the error takes its place.
Canvas == fetch # "none" /\ ~error

-----------------------------------------------------------------------------
(* Mounting.                                                               *)

\* The scene is mounted with the window.
SceneInit ==
    /\ readings \in Readings /\ preset = Default /\ opacity = Opaque
    /\ fetch = "fetching" /\ mesh = [m \in Meshes |-> "none"]
    /\ robot = FALSE /\ error = FALSE
    /\ look = [m \in Meshes |-> NoMesh] /\ posed = None
    /\ due = AllEffects /\ frame = TRUE /\ current = FALSE
    /\ gl = "ok" /\ losses = 0
    /\ dist = 0 /\ moving = FALSE /\ drags = 0

\* A new canvas: every effect of its children, the camera at the default.
NewCanvas ==
    /\ due' = AllEffects
    /\ frame' = TRUE /\ current' = FALSE
    /\ gl' = "ok"
    /\ dist' = IF preset = Default THEN 0 ELSE MaxDist
    /\ moving' = FALSE

NoCanvas ==
    /\ due' = {} /\ frame' = FALSE /\ current' = FALSE
    /\ gl' = "none"
    /\ dist' = 0 /\ moving' = FALSE

\* The effect of useUrdfRobot starts the load.
Mount3D ==
    /\ fetch' = "fetching" /\ mesh' = [m \in Meshes |-> "none"]
    /\ robot' = FALSE /\ error' = FALSE
    /\ look' = [m \in Meshes |-> NoMesh] /\ posed' = None
    /\ NewCanvas

\* Its cleanup cancels the load and disposes of the robot.
Unmount3D ==
    /\ fetch' = "none" /\ mesh' = [m \in Meshes |-> "none"]
    /\ robot' = FALSE /\ error' = FALSE
    /\ look' = [m \in Meshes |-> NoMesh] /\ posed' = None
    /\ NoCanvas

-----------------------------------------------------------------------------
(* The load.                                                               *)

\* The URDF is parsed: the robot is built, and its meshes start to load.
FetchDone ==
    /\ fetch = "fetching"
    /\ fetch' = "parsed" /\ mesh' = [m \in Meshes |-> "loading"]
    /\ UNCHANGED <<props, robot, error, robotVars, canvasVars, cameraVars>>

FetchFails ==
    /\ fetch = "fetching"
    /\ fetch' = "failed" /\ error' = TRUE
    /\ NoCanvas
    /\ UNCHANGED <<props, mesh, robot, robotVars, losses, drags>>

\* Mutant of AllEnded: a mesh that failed is not counted.
AllIn(state) == \A m \in Meshes : state[m] = "in"

\* The loading manager's onLoad: every mesh has ended, one way or the other.
AllEnded(state) == \A m \in Meshes : state[m] # "loading"

\* A mesh is attached, or its error only logged; the last one publishes the
\* robot, and the canvas draws a frame for what was added to it.
MeshEnd(m, ok) ==
    /\ mesh[m] = "loading"
    /\ mesh' = [mesh EXCEPT ![m] = IF ok THEN "in" ELSE "failed"]
    /\ look' = [look EXCEPT ![m] = IF ok THEN Grey ELSE NoMesh]
    /\ IF AllEnded(mesh') /\ ~robot
       THEN /\ robot' = TRUE
            /\ due' = due \cup RobotEffects
            /\ frame' = TRUE /\ current' = FALSE
       ELSE UNCHANGED <<robot, due, frame, current>>
    /\ UNCHANGED <<props, fetch, error, posed, gl, losses, cameraVars>>

-----------------------------------------------------------------------------
(* The props.                                                              *)

Depends(effect) == due' = IF Canvas THEN due \cup {effect} ELSE due

SetPreset(p) ==
    /\ p # preset /\ preset' = p
    /\ Depends("camera")
    /\ UNCHANGED <<readings, opacity, loadVars, robotVars, frame, current, gl,
                   losses, cameraVars>>

SetOpacity(o) ==
    /\ o # opacity /\ opacity' = o
    /\ Depends("opacity")
    /\ UNCHANGED <<readings, preset, loadVars, robotVars, frame, current, gl,
                   losses, cameraVars>>

\* New readings: the pose is memoized on them.
SetPose(r) ==
    /\ r # readings /\ readings' = r
    /\ Depends("joints")
    /\ UNCHANGED <<preset, opacity, loadVars, robotVars, frame, current, gl,
                   losses, cameraVars>>

-----------------------------------------------------------------------------
(* The effects.                                                            *)

Attached == {m \in Meshes : look[m] # NoMesh}

\* applyMonochrome: new materials.
Monochrome(lk) ==
    [m \in Meshes |-> IF m \in Attached /\ "mono" \in due THEN Mono ELSE lk[m]]

\* setArmOpacity: the materials there are.
WithOpacity(lk) ==
    [m \in Meshes |-> IF m \in Attached /\ "opacity" \in due
                      THEN [lk[m] EXCEPT !.opacity = opacity] ELSE lk[m]]

\* Mutant of Styled: the effects in the other order.
StyledOpacityFirst == Monochrome(WithOpacity(look))

Styled == WithOpacity(Monochrome(look))

\* Mutant of Invalidates: the joints' effect asks for no frame.
InvalidatesStyle ==
    (robot /\ due \cap {"mono", "opacity"} # {}) \/ "camera" \in due

\* Every effect that changed something calls invalidate.
Invalidates == (robot /\ due \cap RobotEffects # {}) \/ "camera" \in due

Effects ==
    /\ due # {}
    /\ due' = {}
    /\ look' = IF robot THEN Styled ELSE look
    /\ posed' = IF robot /\ "joints" \in due THEN readings ELSE posed
    /\ current' = (current /\ look' = look /\ posed' = posed)
    /\ frame' = (frame \/ Invalidates)
    /\ moving' = (moving \/ "camera" \in due)
    /\ IF "camera" \in due THEN dist' \in 0 .. MaxDist ELSE dist' = dist
    /\ UNCHANGED <<props, loadVars, gl, losses, drags>>

-----------------------------------------------------------------------------
(* The canvas.                                                             *)

\* Mutant of Frame: the rig does not ask for its next frame.
FrameOnce ==
    /\ frame
    /\ dist' = IF moving /\ dist > 0 THEN dist - 1 ELSE dist
    /\ moving' = (moving /\ dist' > 0)
    /\ frame' = FALSE
    /\ current' = (gl = "ok")
    /\ UNCHANGED <<props, loadVars, robotVars, due, gl, losses, drags>>

\* useFrame, then the drawing, which a lost context ignores.  The rig asks for
\* the next frame until it is there.
Frame ==
    /\ frame
    /\ dist' = IF moving /\ dist > 0 THEN dist - 1 ELSE dist
    /\ moving' = (moving /\ dist' > 0)
    /\ frame' = moving'
    /\ current' = (gl = "ok")
    /\ UNCHANGED <<props, loadVars, robotVars, due, gl, losses, drags>>

\* The user orbits; the controls ask for the frame.
Drag ==
    /\ Canvas /\ drags < MaxDrags
    /\ drags' = drags + 1
    /\ dist' \in 0 .. MaxDist
    /\ frame' = TRUE /\ current' = FALSE
    /\ UNCHANGED <<props, loadVars, robotVars, due, gl, losses, moving>>

Lose ==
    /\ gl = "ok" /\ losses < MaxLosses
    /\ gl' = "lost" /\ losses' = losses + 1
    /\ current' = FALSE
    /\ UNCHANGED <<props, loadVars, robotVars, due, frame, cameraVars>>

\* onRestored bumps the generation, the key of the canvas.  Its listener is
\* there: the effects run long before a context comes back.
Restore ==
    /\ gl = "lost" /\ "listen" \notin due
    /\ NewCanvas
    /\ UNCHANGED <<props, loadVars, robotVars, losses, drags>>

-----------------------------------------------------------------------------
Load   == \/ FetchDone \/ FetchFails
          \/ \E m \in Meshes, ok \in BOOLEAN : MeshEnd(m, ok)
Draw3D == \/ Effects \/ Frame \/ Drag \/ Lose \/ Restore

\* The network answers, React runs its effects and the browser draws frames.
SceneFairness ==
    /\ WF_sceneVars(FetchDone \/ FetchFails)
    /\ \A m \in Meshes : WF_sceneVars(\E ok \in BOOLEAN : MeshEnd(m, ok))
    /\ WF_sceneVars(Effects)
    /\ WF_sceneVars(Frame)

-----------------------------------------------------------------------------
(* Properties.                                                             *)

SceneTypeOK ==
    /\ readings \in Readings /\ preset \in Presets /\ opacity \in Opacities
    /\ fetch \in {"none", "fetching", "parsed", "failed"}
    /\ mesh \in [Meshes -> {"none", "loading", "in", "failed"}]
    /\ {robot, error, frame, current, moving} \subseteq BOOLEAN
    /\ look \in [Meshes -> [material : {None, "grey", "mono"}, opacity : Opacities]]
    /\ posed \in Readings \cup {None}
    /\ due \subseteq AllEffects
    /\ gl \in {"none", "ok", "lost"}
    /\ gl = "none" <=> ~Canvas
    /\ dist \in 0 .. MaxDist
    /\ losses \in 0 .. MaxLosses /\ drags \in 0 .. MaxDrags

\* Once no effect is due, every mesh the loader could load has the monochrome
\* material at the chosen opacity and the robot is posed as the readings are:
\* whenever the meshes arrived, whichever props changed in the meantime, and
\* after the canvas was made anew.
SceneFollows ==
    robot /\ due = {} =>
        /\ posed = readings
        /\ \A m \in Meshes : mesh[m] = "in" =>
               look[m] = [material |-> "mono", opacity |-> opacity]

\* Frames are drawn on demand: when nothing more is going to happen, the canvas
\* shows the scene as it is and the camera is not left half way.
PictureCurrent ==
    Canvas /\ gl = "ok" /\ due = {} /\ ~frame => current /\ ~moving

\* A preset that stays chosen is reached: easing does not go on for ever, nor
\* does it wait for a frame that nobody asks for.
CameraSettles ==
    \A p \in Presets : <>[](preset = p /\ Canvas) => <>[]~moving

\* A viewer that stays open comes to show the robot or the error, also when some
\* of the meshes cannot be loaded.
ViewerResolves == <>[](fetch # "none") => <>[](robot \/ error)
=============================================================================
