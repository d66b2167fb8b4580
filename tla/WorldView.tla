----------------------------- MODULE WorldView -----------------------------
(***************************************************************************)
(* The camera of the web client's world: the fly-to reducer                *)
(* (world-runtime/camera.ts), direct navigation (navigation.ts), the       *)
(* store's camera operations (state/session.ts), the pointer handlers that *)
(* drive them (WorldInput.tsx) and the two effects of the page that move   *)
(* the camera by themselves (App.tsx: a route presented over the world,    *)
(* and a shared link to a battle).                                         *)
(*                                                                         *)
(* A pose is a named place of the layout and whether a pan, a zoom or a    *)
(* glide has moved the camera off it; the geometry, the easing curve and   *)
(* the soft boundary are left out.  Time is counted in half-lives of the   *)
(* glide, so a drift of d decays to d \div 2^t after t ticks.              *)
(***************************************************************************)
EXTENDS Integers, Sequences, FiniteSets

CONSTANTS
    Sectors,           \* indices of the sectors, one battle in each
    Null,              \* null: no flight, no drag, no focus
    Fingers,           \* pointers that may touch the canvas
    SPATIAL,           \* durations.spatialTransition, in half-lives
    CINEMATIC,         \* durations.cinematic
    Flicks,            \* distances one pointer move may cover, 0 included
    MaxTime,           \* bound on the clock
    MaxInputs,         \* bound on what the visitor and the server do
    MaxCinematics      \* bound on calls of playCinematic

Places == {"global", "presentation", "sector", "battlefield", "cinematic", "between"}
            \X (Sectors \cup {0})
Modes == {"GLOBAL_FREE", "SECTOR_FOCUS", "BATTLE_TACTICAL", "CINEMATIC_TEMP",
          "PROFILE_PRESENTATION"}
Flights == [to : Places, toMode : Modes, endsAt : Nat, interruptible : BOOLEAN,
            restore : Places \cup {Null}]

ASSUME WorldAssumption ==
    /\ SPATIAL \in Nat \ {0} /\ CINEMATIC \in Nat \ {0}
    /\ Flicks \subseteq Nat
    /\ Null \notin Flights

VARIABLES
    camera,        \* CameraState
    navigation,    \* NavigationState
    touches,       \* live pointers of WorldInput, in the order they landed
    pinchBase,     \* the two pointers pinchStartSeparation was measured between
    dragMoved,     \* the store's dragMoved
    route,          \* the route: the world, the world at a battle, or a page over it
    battles,       \* the round whose battles fill the sectors
    reducedMotion, \* the operating system's setting, as the store last heard it
    clock,
    gesture,       \* history: what the pointers really did since the first landed
    asked,         \* history: the last command was ESC or RESET VIEW, and to where
    tapped,        \* history: what the gesture behind the last selection had done
    inputs, cinematics

worldVars == <<camera, navigation, touches, pinchBase, dragMoved, route, battles,
               reducedMotion, clock, gesture, asked, tapped, inputs, cinematics>>

Page == <<"PAGE", 0>>                   \* a page presented over the world
World == <<"WORLD", 0>>
War(i) == <<"WAR", i>>                  \* the world at battle i of the first round

(* Places of the layout (world/layout.ts) and the pose at one of them.     *)
AtGlobal == <<"global", 0>>
AtPresentation == <<"presentation", 0>>
AtSector(i) == <<"sector", i>>
AtBattlefield(i) == <<"battlefield", i>>
AtCinematic(i) == <<"cinematic", i>>
Between == <<"between", 0>>
Pose(place) == [place |-> place, moved |-> FALSE]
Moved(pose) == [pose EXCEPT !.moved = TRUE]

(* The battle of a sector in the current round; null when none is shown.   *)
battleAt(i) == <<battles, i>>
focusedSectorIndex ==
    IF camera.focus # Null /\ camera.focus[1] = battles THEN camera.focus[2] ELSE Null

zoomLevelForMode(mode) ==
    CASE mode = "SECTOR_FOCUS" -> 2
      [] mode = "BATTLE_TACTICAL" -> 3
      [] mode = "CINEMATIC_TEMP" -> 4
      [] OTHER -> 1

initialCamera ==
    [pose |-> Pose(AtGlobal), mode |-> "GLOBAL_FREE", flight |-> Null, focus |-> Null]

IDLE_NAVIGATION == [drag |-> Null, drift |-> 0, driftAt |-> Null]

isLocked(cam) == cam.flight # Null /\ ~cam.flight.interruptible

-----------------------------------------------------------------------------
(* The fly-to reducer                                                      *)

Request(place, mode, focus) ==
    [place |-> place, mode |-> mode, focus |-> focus, duration |-> SPATIAL,
     interruptible |-> TRUE, restore |-> Null]

flyTo(cam, req, at) ==
    IF isLocked(cam) THEN cam
    ELSE IF reducedMotion
    THEN [pose |-> Pose(req.place), mode |-> req.mode, flight |-> Null, focus |-> req.focus]
    ELSE [cam EXCEPT !.focus = req.focus,
                     !.flight = [to |-> req.place, toMode |-> req.mode,
                                 endsAt |-> at + req.duration,
                                 interruptible |-> req.interruptible,
                                 restore |-> req.restore]]

advance(cam, at) ==
    IF cam.flight = Null THEN cam
    ELSE IF at < cam.flight.endsAt
    THEN [cam EXCEPT !.pose = Pose(Between)]
    ELSE LET finished == [pose |-> Pose(cam.flight.to), mode |-> cam.flight.toMode,
                          flight |-> Null, focus |-> cam.focus]
         IN IF cam.flight.restore = Null THEN finished
            ELSE flyTo(finished, Request(cam.flight.restore, "BATTLE_TACTICAL", cam.focus), at)

released(cam) == [cam EXCEPT !.flight = Null]

resetView(cam, at) == flyTo(released(cam), Request(AtGlobal, "GLOBAL_FREE", Null), at)

intendedMode(cam) == IF cam.flight # Null THEN cam.flight.toMode ELSE cam.mode

outwardMode(mode) ==
    CASE mode = "CINEMATIC_TEMP" -> "BATTLE_TACTICAL"
      [] mode = "BATTLE_TACTICAL" -> "SECTOR_FOCUS"
      [] mode \in {"SECTOR_FOCUS", "PROFILE_PRESENTATION"} -> "GLOBAL_FREE"
      [] OTHER -> Null

(* poseForMode: a level that needs a sector has no pose without a focus.   *)
poseForMode(mode, sector) ==
    IF mode = "GLOBAL_FREE" THEN AtGlobal
    ELSE IF sector = Null THEN Null
    ELSE CASE mode = "SECTOR_FOCUS" -> AtSector(sector)
           [] mode = "BATTLE_TACTICAL" -> AtBattlefield(sector)
           [] OTHER -> Null

-----------------------------------------------------------------------------
(* Direct navigation                                                       *)

beginPan(sample) ==
    IF isLocked(camera) THEN UNCHANGED <<camera, navigation>>
    ELSE /\ camera' = released(camera)
         /\ navigation' = [drag |-> sample, drift |-> 0, driftAt |-> Null]

panTo(sample, delta) ==
    IF navigation.drag = Null \/ isLocked(camera) THEN UNCHANGED <<camera, navigation>>
    ELSE LET elapsed == sample.at - navigation.drag.at
         IN /\ camera' = [released(camera) EXCEPT !.pose =
                             IF delta > 0 THEN Moved(camera.pose) ELSE camera.pose]
            /\ navigation' = [drag |-> sample, driftAt |-> sample.at,
                              drift |-> CASE reducedMotion -> 0
                                          [] elapsed > 0 -> delta \div elapsed
                                          [] OTHER -> navigation.drift]

endPan ==
    navigation' = IF navigation.drag = Null THEN navigation
                  ELSE IF reducedMotion THEN IDLE_NAVIGATION
                  ELSE [drag |-> Null, drift |-> navigation.drift, driftAt |-> clock]

(* A queued fly-to owns the camera, and a drag does: the drift waits.      *)
applyDrift(cam, at) ==
    LET nav == navigation
        nextDrift == nav.drift \div (2 ^ (at - nav.driftAt))
    IN IF nav.drag # Null \/ nav.driftAt = Null \/ cam.flight # Null \/ at <= nav.driftAt
       THEN [camera |-> cam, navigation |-> nav]
       ELSE IF nextDrift < 1 THEN [camera |-> cam, navigation |-> IDLE_NAVIGATION]
       ELSE [camera |-> [cam EXCEPT !.pose = Moved(cam.pose)],
             navigation |-> [drag |-> Null, drift |-> nextDrift, driftAt |-> at]]

zoomBy(cam) == IF isLocked(cam) THEN cam ELSE [released(cam) EXCEPT !.pose = Moved(cam.pose)]

-----------------------------------------------------------------------------
WorldInit ==
    /\ camera = initialCamera
    /\ navigation = IDLE_NAVIGATION
    /\ touches = <<>> /\ pinchBase = Null /\ dragMoved = FALSE
    /\ route \in {World} \cup {War(i) : i \in Sectors}
    /\ battles = 0 /\ clock = 0 /\ reducedMotion = FALSE
    /\ gesture = [down |-> {}, moved |-> FALSE, fingers |-> 0, resized |-> FALSE]
    /\ asked = Null /\ tapped = Null
    /\ inputs = 0 /\ cinematics = 0

Spend == inputs < MaxInputs /\ inputs' = inputs + 1

gestureVars == <<touches, pinchBase, dragMoved, gesture, tapped>>

(* tick: every frame, a queued fly-to first and then any residual drift.   *)
Tick ==
    LET drifted == applyDrift(advance(camera, clock), clock)
    IN /\ <<drifted.camera, drifted.navigation>> # <<camera, navigation>>
       /\ camera' = drifted.camera
       /\ navigation' = drifted.navigation
       /\ UNCHANGED <<gestureVars, route, battles, reducedMotion, clock, asked, inputs, cinematics>>

Pass ==
    /\ clock < MaxTime
    /\ clock' = clock + 1
    /\ UNCHANGED <<camera, navigation, gestureVars, route, battles, reducedMotion, asked, inputs, cinematics>>

Sample(f) == [finger |-> f, at |-> clock]

startDrag(f) == beginPan(Sample(f))

(* onPointerDown: a second finger ends the pan and begins a pinch, a third *)
(* is only remembered.                                                     *)
onPointerDown(f) ==
    /\ Spend
    /\ f \notin gesture.down
    /\ gesture' = IF gesture.down = {}
                  THEN [down |-> {f}, moved |-> FALSE, fingers |-> 1, resized |-> FALSE]
                  ELSE [gesture EXCEPT !.down = @ \cup {f}, !.fingers = @ + 1]
    /\ touches' = Append(touches, f)
    /\ asked' = Null
    /\ \/ /\ Len(touches) = 0
          /\ startDrag(f)
          /\ dragMoved' = FALSE
          /\ UNCHANGED pinchBase
       \/ /\ Len(touches) = 1
          /\ endPan
          /\ pinchBase' = {touches[1], f}
          /\ UNCHANGED <<camera, dragMoved>>
       \/ /\ Len(touches) > 1
          /\ UNCHANGED <<camera, navigation, dragMoved, pinchBase>>
    /\ UNCHANGED <<route, battles, reducedMotion, clock, tapped, cinematics>>

(* onPointerMove, past the tap slop or inside it.                          *)
onPointerMove(f, delta) ==
    /\ Spend
    /\ f \in gesture.down
    /\ gesture' = [gesture EXCEPT !.moved = @ \/ delta > 0]
    /\ asked' = Null
    /\ \/ /\ \A k \in DOMAIN touches : touches[k] # f
          /\ UNCHANGED <<camera, navigation, dragMoved, pinchBase>>
       \/ /\ touches = <<f>>
          /\ dragMoved' = (dragMoved \/ delta > 0)
          /\ panTo(Sample(f), delta)
          /\ UNCHANGED pinchBase
       \/ /\ Len(touches) > 1
          /\ \E k \in DOMAIN touches : touches[k] = f
          /\ pinchBase # Null
          /\ camera' = zoomBy(camera)
          /\ pinchBase' = {touches[1], touches[2]}
          /\ UNCHANGED <<navigation, dragMoved>>
    /\ UNCHANGED <<touches, route, battles, reducedMotion, clock, tapped, cinematics>>

(* After a pinch the remaining finger starts a fresh pan that is never a tap. *)
panWithTheRest(rest) ==
    /\ startDrag(rest[1])
    /\ dragMoved' = TRUE

(* endPointer: lifting one of two fingers starts a fresh pan, lifting the  *)
(* last one leaves the drift to decay.                                     *)
endPointer(f) ==
    /\ f \in gesture.down
    /\ gesture' = [gesture EXCEPT !.down = @ \ {f}]
    /\ asked' = Null
    /\ \/ /\ \A k \in DOMAIN touches : touches[k] # f
          /\ UNCHANGED <<touches, pinchBase, camera, navigation, dragMoved>>
       \/ \E k \in DOMAIN touches :
            LET rest == SubSeq(touches, 1, k - 1) \o SubSeq(touches, k + 1, Len(touches))
            IN /\ touches[k] = f
               /\ touches' = rest
               /\ pinchBase' = IF Len(rest) < 2 THEN Null ELSE pinchBase
               /\ IF Len(rest) = 1 THEN panWithTheRest(rest)
                  ELSE endPan /\ UNCHANGED <<camera, dragMoved>>
    /\ UNCHANGED <<route, battles, reducedMotion, clock, tapped, inputs, cinematics>>

(* The effect of WorldInput runs again when the canvas changes height: the *)
(* handlers start over with no touches, whatever is on the glass.          *)
Resize ==
    /\ Spend
    /\ touches' = <<>> /\ pinchBase' = Null
    /\ gesture' = [gesture EXCEPT !.resized = TRUE]
    /\ UNCHANGED <<camera, navigation, dragMoved, route, battles, reducedMotion, clock, asked, tapped, cinematics>>

(* onWheel and the +/- controls.                                           *)
zoomNotches ==
    /\ Spend
    /\ camera' = zoomBy(camera)
    /\ asked' = Null
    /\ UNCHANGED <<navigation, gestureVars, route, battles, reducedMotion, clock, cinematics>>

-----------------------------------------------------------------------------
(* Commands of the store                                                   *)

focusSector(i) ==
    camera' = flyTo(camera, Request(AtSector(i), "SECTOR_FOCUS", battleAt(i)), clock)

(* onSelect: the click that follows a gesture over a sector.               *)
onSelect(i) ==
    /\ Spend
    /\ gesture.fingers > 0 /\ gesture.down = {} /\ ~dragMoved
    /\ tapped' = gesture
    /\ gesture' = [gesture EXCEPT !.fingers = 0]
    /\ asked' = Null
    /\ IF zoomLevelForMode(camera.mode) >= 2 /\ camera.focus = battleAt(i)
       THEN camera' = flyTo(camera, Request(AtBattlefield(i), "BATTLE_TACTICAL", battleAt(i)), clock)
       ELSE focusSector(i)
    /\ UNCHANGED <<navigation, touches, pinchBase, dragMoved, route, battles, reducedMotion, clock, cinematics>>

playCinematic(i) ==
    /\ cinematics < MaxCinematics
    /\ cinematics' = cinematics + 1
    /\ camera' = flyTo(camera, [place |-> AtCinematic(i), mode |-> "CINEMATIC_TEMP",
                                focus |-> camera.focus, duration |-> CINEMATIC,
                                interruptible |-> FALSE, restore |-> AtBattlefield(i)], clock)
    /\ asked' = Null
    /\ UNCHANGED <<navigation, gestureVars, route, battles, reducedMotion, clock, inputs>>

focusMyWar(i) ==
    /\ Spend
    /\ camera' = flyTo(released(camera), Request(AtSector(i), "SECTOR_FOCUS", battleAt(i)), clock)
    /\ asked' = Null
    /\ UNCHANGED <<navigation, gestureVars, route, battles, reducedMotion, clock, cinematics>>

ResetView ==
    /\ Spend
    /\ camera' = resetView(camera, clock)
    /\ asked' = [by |-> "RESET VIEW", place |-> AtGlobal]
    /\ UNCHANGED <<navigation, gestureVars, route, battles, reducedMotion, clock, cinematics>>

SteppedOutwardGliding(mode, place) ==
    /\ camera' = flyTo(released(camera),
                       Request(place, mode, IF mode = "GLOBAL_FREE" THEN Null ELSE camera.focus),
                       clock)
    /\ UNCHANGED navigation

SteppedOutward(mode, place) ==
    /\ camera' = flyTo(released(camera),
                       Request(place, mode, IF mode = "GLOBAL_FREE" THEN Null ELSE camera.focus),
                       clock)
    /\ navigation' = IDLE_NAVIGATION

(* ESC: ignored under a page, where the camera is or will be presenting.   *)
StepOutward ==
    LET mode == outwardMode(intendedMode(camera))
        place == poseForMode(mode, focusedSectorIndex)
    IN /\ Spend
       /\ intendedMode(camera) # "PROFILE_PRESENTATION"
       /\ IF mode = Null \/ place = Null
          THEN /\ navigation' = IDLE_NAVIGATION
               /\ UNCHANGED <<camera, asked>>
          ELSE /\ SteppedOutward(mode, place)
               /\ asked' = [by |-> "ESC", place |-> place]
       /\ UNCHANGED <<gestureVars, route, battles, reducedMotion, clock, cinematics>>

-----------------------------------------------------------------------------
(* Effects of the page                                                     *)

presentWorld(presenting) ==
    CASE presenting /\ camera.mode = "GLOBAL_FREE" ->
            camera' = flyTo(camera, Request(AtPresentation, "PROFILE_PRESENTATION", Null), clock)
      [] ~presenting /\ camera.mode = "PROFILE_PRESENTATION" ->
            camera' = resetView(camera, clock)
      [] OTHER -> UNCHANGED camera

(* The route changes kind: a page over the world, or back to the world.    *)
Navigate ==
    /\ Spend
    /\ route' = IF route = Page THEN World ELSE Page
    /\ presentWorld(route # Page)
    /\ asked' = Null
    /\ UNCHANGED <<navigation, gestureVars, battles, reducedMotion, clock, cinematics>>

(* The effect of a shared /war/:battleId link runs whenever the battles of *)
(* the store are replaced, a live update of any of them included.          *)
BattlesReplaced ==
    /\ Spend
    /\ battles' \in {battles, 1}
    /\ IF route \notin {World, Page} /\ battles' = 0
       THEN /\ camera' = flyTo(camera, Request(AtSector(route[2]), "SECTOR_FOCUS", <<0, route[2]>>), clock)
            /\ UNCHANGED asked
       ELSE UNCHANGED <<camera, asked>>
    /\ UNCHANGED <<navigation, gestureVars, route, reducedMotion, clock, cinematics>>

(* The visitor's setting changes in mid-session: flights already queued    *)
(* still end as they were, what follows them is as the setting says.       *)
setReducedMotion ==
    /\ Spend
    /\ reducedMotion' = ~reducedMotion
    /\ UNCHANGED <<camera, navigation, gestureVars, route, battles, clock, asked, cinematics>>

WorldNext ==
    \/ Tick \/ Pass \/ Resize \/ zoomNotches
    \/ \E f \in Fingers : \/ onPointerDown(f)
                          \/ \E delta \in Flicks : onPointerMove(f, delta)
                          \/ endPointer(f)
    \/ \E i \in Sectors : onSelect(i) \/ playCinematic(i) \/ focusMyWar(i)
    \/ ResetView \/ StepOutward
    \/ Navigate \/ BattlesReplaced \/ setReducedMotion

WorldSpec == WorldInit /\ [][WorldNext]_worldVars

-----------------------------------------------------------------------------
(* Properties                                                              *)

Arrived(by) ==
    asked # Null /\ asked.by = by /\ camera.flight = Null
        => camera.pose = Pose(asked.place)

(* The camera goes where it was sent.  The click that flies to a sector    *)
(* follows a gesture of one finger that did not move: whatever fingers     *)
(* land, move and lift in whatever order, a pan or a pinch is never taken  *)
(* for a tap (WorldScene.tsx onSelect, with dragMoved kept by              *)
(* WorldInput.tsx), unless the canvas was resized under the finger.  And   *)
(* ESC ends at the level it asked for, exactly: no flick that was still    *)
(* gliding and no cinematic moves the camera off it (session.ts            *)
(* stepOutward), as long as no link pulls the camera elsewhere.            *)
CameraGoesWhereSent ==
    /\ tapped # Null /\ ~tapped.resized => ~tapped.moved /\ tapped.fingers = 1
    /\ route \in {World, Page} => Arrived("ESC")

(* "RESET VIEW always returns to a known global anchor" (camera.ts): once  *)
(* the camera rests, and nobody touched it since, it rests at the anchor.  *)
ResetArrives == route \in {World, Page} => Arrived("RESET VIEW")

(* Back in the world, the camera does not come to rest in the framing of a *)
(* page that is gone, where ESC is ignored (navigation.ts outwardMode:     *)
(* "never leave the user stranded").                                       *)
PresentationEnds ==
    route # Page /\ camera.flight = Null => camera.mode # "PROFILE_PRESENTATION"

(* A close-up is temporary: no camera rests in one (camera.ts: "Level 4 is *)
(* always temporary").                                                     *)
CinematicsEnd == camera.mode = "CINEMATIC_TEMP" => camera.flight # Null
=============================================================================
