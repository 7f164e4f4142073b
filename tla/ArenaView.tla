---- MODULE ArenaView ----
(***************************************************************************)
(* The engine demo (RollbackArenaView.cpp and RollbackArenaModel.cpp under *)
(* examples/ue5): an actor that the engine calls back (BeginPlay, Tick,    *)
(* ScreenshotProcessed, EndPlay), that plays a run of the runtime, takes   *)
(* screenshots and, as a smoke test, writes evidence and exits with a      *)
(* status.                                                                 *)
(*                                                                         *)
(* The engine decides when it calls back, whether a screenshot is ever     *)
(* processed and when the world ends.  Meshes, the camera and the text of  *)
(* the evidence are left out, and so are the transport presets, which only *)
(* change what the network does, and the editor's wait for its shaders     *)
(* before an automatic exit, which a later TimePasses stands for.  A tick  *)
(* sees at most one control key.                                           *)
(***************************************************************************)
EXTENDS BridgeRuntime

CONSTANTS
  Buttons,        \* the buttons of the local player
  Deltas,         \* the lengths of engine frames, in units of the clock
  WarmupTicks,    \* ticks before the first screenshot
  CaptureModes    \* bound: the modes in which a demo that is no smoke test captures

ASSUME ViewAssumption ==
  /\ Deltas \subseteq Nat
  /\ WarmupTicks \in Nat

VARIABLES view, runtime

vars == <<view, runtime>>

Keys == {"none", "escape", "pause", "reset", "preset", "one", "two", "three", "step"}

(* The modes the keys start. *)
ModeOf(key) == CASE key = "one" -> "auto" [] key = "two" -> "interactive"
                 [] key = "three" -> "desync" [] OTHER -> view.settings

(* ReadSettings, where the command line is valid. *)
Options ==
  {o \in [smoke : BOOLEAN, udp : BOOLEAN, capturing : BOOLEAN, exits : BOOLEAN,
          ready : BOOLEAN, mode : {"auto", "interactive", "desync", "udp"}] :
     /\ o.udp <=> o.mode = "udp"
     /\ o.smoke => o.capturing /\ o.mode \in {"auto", "udp"}
     /\ o.ready => o.udp
     /\ o.capturing /\ ~ o.smoke => o.mode \in CaptureModes}

NoEvidence == [success |-> FALSE, saved |-> FALSE]

NewView(o) ==
  [at |-> "loading", options |-> o, model |-> FALSE, settings |-> "none",
   failure |-> FALSE, handler |-> FALSE, pending |-> {}, restarted |-> FALSE,
   seen |-> {},                          \* the peers with a SeenCorrection
   capture |-> "none", captured |-> {}, warmup |-> WarmupTicks,
   failureCapture |-> FALSE, attempted |-> FALSE,
   written |-> FALSE, evidence |-> NoEvidence,
   due |-> FALSE, late |-> FALSE,        \* ExitAfterSeconds, the watchdog's 45 s
   exiting |-> FALSE, exit |-> -1]

Init ==
  /\ \E o \in Options : view = NewView(o)
  /\ runtime = NewRuntime

(* The state in the middle of a callback. *)
At(v, r) == [v |-> v, r |-> r, skip |-> FALSE]

Becomes(w) == view' = w.v /\ runtime' = w.r

-----------------------------------------------------------------------------
(* Evidence and exits *)

(* UpdateProjection: which corrections have been shown. *)
Projected(v, r) ==
  [v EXCEPT !.seen = (@ \ r.active) \union (r.active \intersect r.corrected)]

Rolled(r) == r.corrected # {}

(* Mutant: the report is not read again. *)
CompleteUnread(v, r) ==
  /\ r.held # {} /\ r.result # "none"
  /\ {"start", "final"} \subseteq v.captured
  /\ Rolled(r) => "correction" \in v.captured

(* What SaveEvidence and SaveUdpEvidence ask of a success. *)
Complete(v, r) ==
  /\ r.held # {} /\ r.result = "agreed"
  /\ {"start", "final"} \subseteq v.captured
  /\ IF v.options.udp
     THEN Cardinality(r.active) = 1 /\ (Rolled(r) => "correction" \in v.captured)
     ELSE Rolled(r) /\ "correction" \in v.captured

SaveEvidence(w, success, disk) ==
  LET good == success /\ Complete(w.v, w.r)
  IN [w EXCEPT !.v = [@ EXCEPT !.written = TRUE, !.failure = w.v.failure \/ ~ good,
                               !.evidence = [success |-> good, saved |-> disk]]]

(* An exit with an error ends the process at once, the other one when the  *)
(* engine gets to it.                                                      *)
Quit(w, status, disk) ==
  LET early == w.v.options.smoke /\ ~ w.v.written
      saved == IF early THEN SaveEvidence(w, FALSE, disk) ELSE w
  IN IF w.v.exiting THEN w
     ELSE IF early \/ status # 0
     THEN [saved EXCEPT !.v = [@ EXCEPT !.exiting = TRUE, !.exit = 1, !.handler = FALSE,
                                        !.capture = "none"],
                        !.r = Stop(@)]
     ELSE [saved EXCEPT !.v = [@ EXCEPT !.exiting = TRUE]]

RequestCapture(w, name) ==
  IF w.v.capture # "none" \/ ~ w.v.options.capturing THEN w
  ELSE [w EXCEPT !.v = [@ EXCEPT !.capture = name]]

(* A smoke test that fails writes its evidence and exits, after a last     *)
(* screenshot of a desync between UDP peers.                               *)
Fail(w, disk) ==
  LET failed == [w EXCEPT !.v = [@ EXCEPT !.failure = TRUE]]
  IN IF ~ w.v.options.smoke \/ w.v.written THEN failed
     ELSE IF /\ w.v.options.udp /\ w.v.model /\ w.r.desync
             /\ ~ w.v.attempted /\ w.v.capture = "none" /\ w.v.handler
     THEN RequestCapture([failed EXCEPT !.v = [Projected(@, w.r) EXCEPT !.attempted = TRUE,
                                               !.failureCapture = TRUE]], "desync")
     ELSE Quit(SaveEvidence(failed, FALSE, disk), 1, disk)

Playing == view.at = "playing" /\ view.exit = -1

Disks == IF view.options.smoke /\ ~ view.written THEN BOOLEAN ELSE {TRUE}

-----------------------------------------------------------------------------
(* BeginPlay *)

(* The steps of BeginPlay that can fail, beside those of Start. *)
BeginFaults ==
  StartFaults(view.options.mode) \union {"settings", "visuals", "bridge", "source"}
    \union (IF view.options.ready THEN {"ready"} ELSE {})

BeginPlay(fault, disk) ==
  LET mode == view.options.mode
      begun == [view EXCEPT !.at = "playing"]
      loaded == fault \notin {"settings", "visuals", "bridge"}
      started == fault \in {"none", "source", "ready"}
      r == IF ~ loaded THEN runtime
           ELSE Start(runtime, mode, IF started THEN "none" ELSE fault)
      v == [begun EXCEPT !.model = loaded, !.settings = IF started THEN mode ELSE @]
      failed == Fail(At(v, r), disk)
  IN /\ view.at = "loading" /\ view.exit = -1
     /\ fault \in BeginFaults
     /\ Becomes(CASE fault = "none" -> At(Projected([v EXCEPT !.handler = TRUE], r), r)
                  [] fault = "ready" /\ ~ v.options.smoke -> Quit(failed, 1, disk)
                  [] OTHER -> failed)

-----------------------------------------------------------------------------
(* Tick *)

(* The buttons a step is given: the player's own in an interactive run.    *)
Given(v) == IF v.settings = "interactive" THEN v.pending ELSE {}

Starts(key) == key \in {"reset", "preset", "one", "two", "three"}

(* A start from a key: what was pressed before it is forgotten. *)
Restarted(w, key, fault, disk) ==
  LET r == Start(w.r, ModeOf(key), fault)
  IN IF fault # "none" THEN Fail([w EXCEPT !.r = r], disk)
     ELSE [w EXCEPT !.r = r, !.skip = TRUE,
                    !.v = [@ EXCEPT !.settings = ModeOf(key), !.seen = {}, !.pending = {},
                                    !.restarted = TRUE]]

SteppedByKey(w, r, disk) ==
  LET stepped == [w EXCEPT !.r = [r EXCEPT !.steps = 0], !.skip = TRUE,
                           !.v = [@ EXCEPT !.pending = {}]]
  IN IF r.failed THEN Fail(stepped, disk) ELSE stepped

Escaped(w, disk) ==
  CASE w.v.options.smoke -> Fail(w, disk)
    [] w.v.options.udp /\ ~ w.v.options.smoke -> Quit(Fail(w, disk), 1, disk)
    [] OTHER -> Quit(w, 0, disk)

(* ReadControls: every outcome of a key. *)
Controlled(w, key, disk) ==
  IF key = "escape" THEN {Escaped(w, disk)}
  ELSE IF w.v.options.smoke \/ w.v.options.udp \/ ~ w.v.model \/ w.v.failure THEN {w}
  ELSE CASE key = "pause" -> {[w EXCEPT !.r = [@ EXCEPT !.paused = ~ w.r.paused]]}
         [] Starts(key) -> {Restarted(w, key, fault, disk) : fault \in StartFaults(ModeOf(key))}
         [] key = "step" /\ Running(w.r) ->
              {SteppedByKey(w, r, disk) : r \in SingleStep(w.r, Given(w.v))}
         [] OTHER -> {w}

Captured(w, name) == name \in w.v.captured

(* The end of a tick: screenshots that have come due, and the verdict. *)
Concluded(w, disk) ==
  LET shown == [w EXCEPT !.v = Projected(@, w.r)]
      capturing == w.v.options.capturing
      saved == SaveEvidence(shown, TRUE, disk)
  IN IF capturing /\ ~ Captured(w, "correction") /\ shown.v.seen # {}
     THEN RequestCapture(shown, "correction")
     ELSE IF w.r.finished /\ capturing /\ ~ Captured(w, "final")
     THEN RequestCapture(shown, "final")
     ELSE IF w.v.options.smoke /\ w.r.finished /\ Captured(w, "final") /\ ~ w.v.written
     THEN Quit(saved, IF saved.v.evidence.success /\ disk THEN 0 ELSE 1, disk)
     ELSE shown

(* Mutant: the buttons are forgotten with every engine frame. *)
PlayedForgetting(w, r, disk) ==
  LET played == [w EXCEPT !.r = [r EXCEPT !.steps = 0], !.v.pending = {}]
  IN IF r.failed THEN Fail(played, disk) ELSE Concluded(played, disk)

(* The clock has been advanced to r: what was pressed is taken as used if  *)
(* there was a step, also one of the tail.                                 *)
Played(w, r, disk) ==
  LET played == [w EXCEPT !.r = [r EXCEPT !.steps = 0],
                          !.v = [@ EXCEPT !.pending = IF r.steps > 0 THEN {} ELSE w.v.pending]]
  IN IF r.failed THEN Fail(played, disk) ELSE Concluded(played, disk)

(* Mutant: the watchdog waits for the screenshot, as the exit does. *)
ExpiredUncaptured(w) == w.v.options.smoke /\ w.v.late /\ w.v.capture = "none"

(* The early returns of Tick, in their order. *)
Leaving(w) == w.v.exiting
Expired(w) == w.v.options.smoke /\ w.v.late
AwaitsFailureCapture(w) == w.v.failureCapture
ExitDue(w) == w.v.options.exits /\ w.v.due /\ w.v.capture = "none"
Idle(w) == w.v.failure \/ ~ w.v.model
AwaitsStart(w) == w.v.options.capturing /\ ~ Captured(w, "start")

(* The part before the game: until the first screenshot has been taken.    *)
WarmedUp(w, presented) ==
  LET shown == [w EXCEPT !.v = Projected(@, w.r)]
  IN IF ~ presented THEN [shown EXCEPT !.v = [@ EXCEPT !.warmup = WarmupTicks]]
     ELSE IF w.v.capture # "none" THEN shown
     ELSE IF w.v.warmup > 0 THEN [shown EXCEPT !.v = [@ EXCEPT !.warmup = w.v.warmup - 1]]
     ELSE RequestCapture(shown, "start")

Tick(w, disk) ==
  \/ /\ Leaving(w)
     /\ Becomes(w)
  \/ /\ ~ Leaving(w) /\ Expired(w)
     /\ Becomes(Fail(w, disk))
  \/ /\ ~ Leaving(w) /\ ~ Expired(w) /\ AwaitsFailureCapture(w)
     /\ Becomes(IF w.v.capture # "none" THEN w
                ELSE Quit(SaveEvidence([w EXCEPT !.v = [@ EXCEPT !.failureCapture = FALSE]],
                                       FALSE, disk), 1, disk))
  \/ /\ ~ Leaving(w) /\ ~ Expired(w) /\ ~ AwaitsFailureCapture(w)
     /\ ExitDue(w)
     /\ Becomes(Quit(w, 0, disk))
  \/ /\ ~ Leaving(w) /\ ~ Expired(w) /\ ~ AwaitsFailureCapture(w) /\ ~ ExitDue(w)
     /\ \/ /\ Idle(w)
           /\ Becomes(w)
        \/ /\ ~ Idle(w) /\ AwaitsStart(w)
           /\ \E presented \in BOOLEAN : Becomes(WarmedUp(w, presented))
        \/ /\ ~ Idle(w) /\ ~ AwaitsStart(w) /\ w.v.capture # "none"
           /\ Becomes(w)
        \/ /\ ~ Idle(w) /\ ~ AwaitsStart(w) /\ w.v.capture = "none"
           /\ IF w.skip \/ ~ Running(w.r) THEN Becomes(Concluded(w, disk))
              ELSE \E delta \in Deltas : \E r \in TickWallClock(w.r, delta, Given(w.v)) :
                     Becomes(Played(w, r, disk))

(* LocalButtons, the keys, and the rest of the tick.  LastTickSteps is read *)
(* in the tick that has set it, and not after that.                        *)
EngineTick(key, pressed, disk) ==
  /\ Playing
  /\ disk \in Disks
  /\ \E w \in Controlled(At([view EXCEPT !.pending = @ \union pressed, !.restarted = FALSE],
                            [runtime EXCEPT !.steps = 0, !.used = {}]), key, disk) : Tick(w, disk)

-----------------------------------------------------------------------------
(* The other callbacks *)

(* A screenshot has been processed, and its file has been written or not. *)
ScreenshotProcessed(present, disk) ==
  LET taken == [view EXCEPT !.capture = "none"]
      name == IF view.capture \in {"start", "correction"} THEN view.capture ELSE "final"
  IN /\ Playing /\ view.handler /\ view.capture # "none"
     /\ disk \in Disks
     /\ Becomes(IF present THEN At([taken EXCEPT !.captured = @ \union {name}], runtime)
                ELSE Fail(At(taken, runtime), disk))

(* StopAll: the engine is about to exit, and stops every runtime. *)
StopAll ==
  /\ Playing
  /\ view' = [view EXCEPT !.at = "closing"]
  /\ runtime' = Stop(runtime)

(* The world ends; a smoke test that is not complete is a failure. *)
EndPlay(disk) ==
  LET incomplete == view.options.smoke /\ ~ view.written
      saved == IF incomplete THEN SaveEvidence(At(view, runtime), FALSE, disk) ELSE At(view, runtime)
  IN /\ view.at \in {"playing", "closing"} /\ view.exit = -1
     /\ disk \in Disks
     /\ Becomes([saved EXCEPT !.v = [@ EXCEPT !.at = "ended", !.handler = FALSE,
                                               !.capture = "none", !.model = FALSE,
                                               !.exit = IF incomplete THEN 1 ELSE view.exit],
                              !.r = Stop(@)])

(* The process ends by itself. *)
ProcessEnds ==
  /\ view.at = "ended" /\ view.exit = -1
  /\ view' = [view EXCEPT !.exit = 0]
  /\ UNCHANGED runtime

(* The watchdog's time, or that of an automatic exit, passes. *)
TimePasses ==
  /\ Playing
  /\ \/ view.options.smoke /\ ~ view.late /\ view' = [view EXCEPT !.late = TRUE]
     \/ view.options.exits /\ ~ view.due /\ view' = [view EXCEPT !.due = TRUE]
  /\ UNCHANGED runtime

Begins == \E fault \in BeginFaults, disk \in Disks : BeginPlay(fault, disk)
Ticks == \E key \in Keys, pressed \in SUBSET Buttons, disk \in BOOLEAN : EngineTick(key, pressed, disk)
Ends == \E disk \in BOOLEAN : EndPlay(disk)

Next ==
  \/ Begins
  \/ Ticks
  \/ \E present, disk \in BOOLEAN : ScreenshotProcessed(present, disk)
  \/ StopAll
  \/ Ends
  \/ ProcessEnds
  \/ TimePasses

Spec == Init /\ [][Next]_vars

(* The engine calls its actors, time passes, and an exit that was asked    *)
(* for, or has begun, comes.  Begins and Ends are enabled just where these *)
(* conditions hold, and end them: what is said of them is weak fairness.   *)
(* Nothing is assumed of screenshots or keys: the ticks that are sure to   *)
(* come once the watchdog's time has passed are those without a key.       *)
FairSpec ==
  /\ Spec
  /\ ~ <>[](view.at = "loading" /\ view.exit = -1)
  /\ ~ <>[]((view.exiting \/ view.at = "closing") /\ view.at # "ended" /\ view.exit = -1)
  /\ WF_vars(view.late /\ \E disk \in BOOLEAN : EngineTick("none", {}, disk))
  /\ WF_vars(TimePasses)
  /\ WF_vars(ProcessEnds)

-----------------------------------------------------------------------------
(* Properties *)

(* The exit status of a smoke test is that of its evidence: whatever ends  *)
(* it (the game, a failure, a key, the watchdog, an automatic exit, the    *)
(* end of the world), evidence was written before the exit, and the status *)
(* is 0 only for a run that the SDK reports to have agreed, with its       *)
(* screenshots taken.                                                      *)
ExitMatchesEvidence ==
  view.options.smoke /\ view.exit # -1 =>
    /\ view.written
    /\ view.exit = 0 <=> view.evidence.success /\ view.evidence.saved
    /\ view.exit = 0 =>
         /\ runtime.result = "agreed" /\ ~ runtime.failed
         /\ {"start", "final"} \subseteq view.captured
         /\ Rolled(runtime) => "correction" \in view.captured

(* The runtime holds a whole run or nothing, however a start fails and     *)
(* however the demo ends; no destroy is refused, which would abort the     *)
(* engine, and no handle outlives the process's run.                       *)
RunsAreWhole ==
  /\ ~ runtime.refused
  /\ runtime.handles = runtime.held
  /\ runtime.held # {} => runtime.held = Whole(runtime.options)
  /\ view.exit # -1 => runtime.held = {}

(* What was pressed is gone, and no frame has used it, although the game   *)
(* goes on: its frames are not all played, there was no restart and no     *)
(* failure.                                                                *)
Lost(presses) ==
  /\ view.settings = "interactive" /\ runtime.frame < FrameCount
  /\ ~ presses \subseteq view'.pending
  /\ ~ (presses \subseteq runtime'.used /\ runtime'.frame > runtime.frame)
  /\ ~ view'.restarted /\ ~ view'.failure

(* A tick that finds these buttons pressed, or, if there are none, any     *)
(* step.                                                                   *)
Reads(pressed) ==
  pressed = {} \/ \E key \in Keys, disk \in BOOLEAN : EngineTick(key, pressed, disk)

(* A press is kept until a frame of the game has used it, over engine      *)
(* frames too short for a step, pauses and screenshots, and so is one that *)
(* is read in the tick that plays the frame; only a restart or a failure   *)
(* drops it.  This is so until the last frame: Tick and the step key       *)
(* forget what is pending after a step of the tail as well, which has no   *)
(* use for it.                                                             *)
PressesReachTheGame ==
  [][\A pressed \in SUBSET Buttons :
       Lost(view.pending \union pressed) => ~ Reads(pressed)]_vars

(* A smoke test comes to its end, although the game may fail or hang, and  *)
(* a screenshot may never be processed.                                    *)
SmokeTestEnds == view.options.smoke ~> view.exit # -1
====
