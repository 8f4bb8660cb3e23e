------------------------------ MODULE Viewport ------------------------------
(***************************************************************************)
(* The viewport of the teleop window: the 3D scene or the 2D schematic,    *)
(* one of them mounted at a time.  The Arm tab has both side by side, each *)
(* as it is here.                                                          *)
(***************************************************************************)
EXTENDS Scene3D

CONSTANT FlatViews

VARIABLES
    mode,      \* "3d" or "2d"
    flat,      \* the view of the schematic
    drawDue,   \* the schematic's effect of its data has yet to run
    closure,   \* what the resize observer's callback was made with
    drawn,     \* readings and view the schematic shows
    resized    \* a resize was the last to draw it (history)

flatVars == <<drawDue, closure, drawn, resized>>
vars     == <<sceneVars, mode, flat, flatVars>>

Data == <<readings, flat>>

FlatNone ==
    /\ drawDue = FALSE /\ closure = None /\ drawn = None /\ resized = FALSE

Init ==
    /\ SceneInit
    /\ mode = "3d" /\ flat \in FlatViews
    /\ FlatNone

-----------------------------------------------------------------------------
(* The window.                                                             *)

\* The mode's button: one scene is unmounted, the other mounted.
To3D ==
    /\ mode = "2d"
    /\ mode' = "3d"
    /\ Mount3D
    /\ drawDue' = FALSE /\ closure' = None /\ drawn' = None /\ resized' = FALSE
    /\ UNCHANGED <<props, losses, drags, flat>>

To2D ==
    /\ mode = "3d"
    /\ mode' = "2d"
    /\ Unmount3D
    /\ drawDue' = TRUE
    /\ UNCHANGED <<props, losses, drags, flat, closure, drawn, resized>>

\* Mutant of SetFlat: the view is not among the effect's dependencies.
SetFlatIgnored(v) ==
    /\ mode = "2d" /\ v # flat
    /\ flat' = v
    /\ UNCHANGED <<sceneVars, mode, flatVars>>

\* The view's button, shown with the schematic.
SetFlat(v) ==
    /\ mode = "2d" /\ v # flat
    /\ flat' = v
    /\ drawDue' = TRUE
    /\ UNCHANGED <<sceneVars, mode, closure, drawn, resized>>

\* The preset's buttons are shown with the 3D scene, the opacity always.
Control ==
    /\ \/ mode = "3d" /\ \E p \in Presets : SetPreset(p)
       \/ \E o \in Opacities : SetOpacity(o)
    /\ UNCHANGED <<mode, flat, flatVars>>

\* A joints message.
Receive(r) ==
    /\ SetPose(r)
    /\ drawDue' = (mode = "2d")
    /\ UNCHANGED <<mode, flat, closure, drawn, resized>>

-----------------------------------------------------------------------------
(* The schematic.                                                          *)

\* The effects: the drawing, and with the first one the observer, which is made
\* once and keeps the readings and the view of that time.
DrawData ==
    /\ drawDue
    /\ drawDue' = FALSE
    /\ drawn' = Data /\ resized' = FALSE
    /\ closure' = IF closure = None THEN Data ELSE closure
    /\ UNCHANGED <<sceneVars, mode, flat>>

\* The observer's callback, also called once when it is made.
Resize ==
    /\ closure # None
    /\ drawn' = closure /\ resized' = TRUE
    /\ UNCHANGED <<sceneVars, mode, flat, drawDue, closure>>

-----------------------------------------------------------------------------
Next ==
    \/ To3D \/ To2D
    \/ Control
    \/ \E v \in FlatViews : SetFlat(v)
    \/ \E r \in Readings : Receive(r)
    \/ DrawData \/ Resize
    \/ (Load \/ Draw3D) /\ UNCHANGED <<mode, flat, flatVars>>

Spec == Init /\ [][Next]_vars

FairSpec == Spec /\ SceneFairness

-----------------------------------------------------------------------------
(* Properties.                                                             *)

TypeOK ==
    /\ SceneTypeOK
    /\ mode \in {"3d", "2d"} /\ flat \in FlatViews
    /\ {drawDue, resized} \subseteq BOOLEAN
    /\ {closure, drawn} \subseteq (Readings \X FlatViews) \cup {None}
    /\ mode = "3d" <=> fetch # "none"
    /\ mode = "3d" => FlatNone

\* The schematic shows the readings and the view there are, except after a
\* resize: its callback draws those of the mount, until the next data.
SchematicCurrent ==
    mode = "2d" /\ ~drawDue => drawn = IF resized THEN closure ELSE Data
=============================================================================
