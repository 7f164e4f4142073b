---- MODULE BridgeRuntime ----
(***************************************************************************)
(* The engine plugin's runtime (RollbackLabRuntime.cpp, RollbackLabSdk.cpp *)
(* under examples/ue5): FRuntime, which loads the SDK's library, owns the  *)
(* C handles of a run and steps them at a fixed rate of the wall clock.    *)
(*                                                                         *)
(* A runtime is a record.  What a run holds is a set of handles: the       *)
(* library, the sessions "a" and "b", and a driver, "live" or "udp", that  *)
(* borrows the sessions.  What the simulation computes is left out: a step *)
(* is a frame of the game or none, corrections, and at the end what the    *)
(* SDK reports.                                                            *)
(***************************************************************************)
EXTENDS Integers, FiniteSets

CONSTANTS
  FrameCount,     \* Scenario.frame_count
  TailSteps,      \* Scenario.tail_redundancy_ticks + 32
  FixedStep,      \* FixedStepSeconds, in units of the clock
  MaxCatchUp,     \* MaximumCatchUpSteps
  Corrections     \* bound: the sets of peers that a step corrects

ASSUME RuntimeAssumption ==
  /\ FrameCount \in Nat \ {0}
  /\ TailSteps \in Nat \ {0}
  /\ FixedStep \in Nat \ {0}
  /\ MaxCatchUp \in Nat \ {0}
  /\ Corrections \subseteq SUBSET {"a", "b"}

Sessions == {"a", "b"}

(* What the SDK says of a run: nothing yet, a report of success with both  *)
(* peers in the same confirmed state, one with peers that differ, a report *)
(* of failure.                                                             *)
Results == {"none", "agreed", "apart", "failed"}

NewRuntime ==
  [held |-> {},               \* the handles of Impl->Resources
   handles |-> {},            \* the handles that exist in the SDK
   borrowed |-> {},           \* the sessions a driver has borrowed
   refused |-> FALSE,         \* a destroy was refused: checkf aborts
   options |-> "none",        \* the mode of LastOptions, if bHasOptions
   frame |-> 0,               \* the frames of the game that have been played
   tail |-> 0,                \* the steps of a live driver after the last frame
   finished |-> FALSE, desync |-> FALSE, failed |-> FALSE,
   result |-> "none",
   active |-> {},             \* the peers with a HandleIdentity
   corrected |-> {},          \* the peers with a CorrectionRevision other than 0
   paused |-> FALSE, accumulator |-> 0, steps |-> 0,
   used |-> {}]               \* the buttons of the frames of the last tick

Running(r) == r.held # {} /\ ~ r.failed /\ ~ r.finished

-----------------------------------------------------------------------------
(* Handles *)

Own(r, h) == [r EXCEPT !.held = @ \union {h}, !.handles = @ \union {h}]

(* The SDK refuses to destroy a borrowed session; a library must not be    *)
(* freed under its handles.                                                *)
Refuses(r, h) ==
  \/ h \in r.borrowed
  \/ h = "library" /\ r.handles # {"library"}

Destroy(r, h) ==
  IF h \notin r.held THEN r
  ELSE IF Refuses(r, h) THEN [r EXCEPT !.refused = TRUE]
  ELSE [r EXCEPT !.held = @ \ {h}, !.handles = @ \ {h},
                 !.borrowed = IF h \in {"live", "udp"} THEN {} ELSE @]

(* The members of FRunResources are destroyed, the last one first. *)
Release(r) ==
  Destroy(Destroy(Destroy(Destroy(Destroy(r, "udp"), "live"), "b"), "a"), "library")

(* LoadSdk: the manifest and the files are checked before the library is   *)
(* loaded, its exports and its version after that.                         *)
LoadSdk(r, fault) ==
  CASE fault = "manifest" -> r
    [] fault = "exports" -> Release(Own(r, "library"))
    [] OTHER -> Own(r, "library")

SessionsOf(mode) == IF mode = "udp" THEN {"a"} ELSE {"a", "b"}

DriverOf(mode) == IF mode = "udp" THEN "udp" ELSE "live"

CreateDriver(r, mode) ==
  [Own(r, DriverOf(mode)) EXCEPT !.borrowed = SessionsOf(mode)]

(* The handles of a run, up to the one that cannot be created. *)
Created(r, mode, fault) ==
  LET loaded == LoadSdk(r, fault)
      first == Own(loaded, "a")
      sessions == IF mode = "udp" \/ fault = "b" THEN first ELSE Own(first, "b")
  IN CASE loaded.held = {} \/ fault = "a" -> loaded
       [] fault \in {"b", "driver"} -> sessions
       [] OTHER -> CreateDriver(sessions, mode)

(* What a whole run holds. *)
Whole(mode) == {"library", DriverOf(mode)} \union SessionsOf(mode)

-----------------------------------------------------------------------------
(* The run *)

Stop(r) == [Release(r) EXCEPT !.active = {}, !.steps = 0]

(* RefreshViews *)
Views(r, corrected) ==
  [r EXCEPT !.active = r.held \intersect Sessions,
            !.corrected = (@ \union corrected) \intersect r.held]

(* The ways a start can fail. *)
StartFaults(mode) ==
  {"none", "manifest", "exports", "a", "driver", "views"}
    \union (IF mode = "udp" THEN {} ELSE {"b"})

(* What a start begins with: everything of the run before is dropped. *)
Cleared(r) ==
  [Stop(r) EXCEPT !.frame = 0, !.tail = 0, !.finished = FALSE, !.desync = FALSE,
                  !.failed = FALSE, !.result = "none", !.corrected = {},
                  !.paused = FALSE, !.accumulator = 0, !.used = {}]

(* Mutant: what was created before the failure is kept for another try. *)
StartKeeping(r, mode, fault) ==
  LET created == Created(Cleared(r), mode, fault)
  IN IF fault # "none" THEN created ELSE [Views(created, {}) EXCEPT !.options = mode]

(* A start that fails drops what it has created, and keeps the options of  *)
(* the last one that did not.                                              *)
Start(r, mode, fault) ==
  LET created == Created(Cleared(r), mode, fault)
  IN IF fault # "none" THEN Stop(created) ELSE [Views(created, {}) EXCEPT !.options = mode]

(* Whether a step plays a frame: every step does until the last frame,     *)
(* except those of a peer over UDP that still awaits the other's hello.    *)
PlaysFrame(r) ==
  IF r.frame = FrameCount THEN {FALSE}
  ELSE IF r.options = "udp" /\ r.frame = 0 THEN BOOLEAN ELSE {TRUE}

(* What the SDK may report after a step: a live driver ends a run after    *)
(* TailSteps steps that only send and deliver what is left, a peer over    *)
(* UDP once both have confirmed the game.                                  *)
Reported(r) ==
  IF r.frame < FrameCount THEN {"none"}
  ELSE IF r.options = "udp" THEN {"none", "agreed"}
  ELSE IF r.tail + 1 < TailSteps THEN {"none"} ELSE Results \ {"none"}

(* What a step of the driver may do: its status and that of the views,     *)
(* whether it plays a frame, the corrected peers, and the report if it is  *)
(* the last one.                                                           *)
Outcomes(r) ==
  LET fails == IF r.options = "udp" THEN {"failed", "desync"} ELSE {"failed"}
  IN [status : {"ok"}, views : BOOLEAN, plays : PlaysFrame(r), corrected : Corrections,
      result : Reported(r)]
       \union [status : fails, views : BOOLEAN, plays : {FALSE}, corrected : Corrections,
               result : {"none"}]

(* A step that succeeds: only a frame uses the buttons.                    *)
Stepped(r, buttons, o) ==
  LET moved == IF o.plays THEN [r EXCEPT !.frame = @ + 1, !.used = buttons]
               ELSE IF r.options # "udp" THEN [r EXCEPT !.tail = @ + 1] ELSE r
  IN [moved EXCEPT !.result = o.result, !.finished = o.result # "none"]

(* AdvanceOne: the views are read again after a step of the UDP driver     *)
(* that failed too, and its result counts.                                 *)
AdvanceOne(r, buttons, o) ==
  LET viewed(q) == IF o.views THEN Views(q, o.corrected) ELSE [q EXCEPT !.failed = TRUE]
  IN IF o.status = "ok" THEN viewed(Stepped(r, buttons, o))
     ELSE IF r.options # "udp" THEN [r EXCEPT !.failed = TRUE]
     ELSE viewed([r EXCEPT !.failed = TRUE, !.desync = o.status = "desync"])

(* A turn of the loop of TickWallClock, if the run goes on: a step that    *)
(* does not fail is counted.                                               *)
Turn(r, buttons) ==
  LET Counted(q) == IF q.failed THEN q ELSE [q EXCEPT !.steps = @ + 1]
  IN IF Running(r) THEN {Counted(AdvanceOne(r, buttons, o)) : o \in Outcomes(r)} ELSE {r}

(* Every way to take up to n steps. *)
StepsOf(r, n, buttons) ==
  LET after[k \in 0 .. n] ==
        IF k = 0 THEN {r} ELSE UNION {Turn(q, buttons) : q \in after[k - 1]}
  IN after[n]

(* Whole steps of the time that has come together, at most MaxCatchUp of   *)
(* them; the debt that is left beyond a step is discarded.                 *)
TickWallClock(r, delta, buttons) ==
  LET total == r.accumulator + delta
      n == IF total >= FixedStep * MaxCatchUp THEN MaxCatchUp ELSE total \div FixedStep
      rest == (total - n * FixedStep) % FixedStep
      idle == [r EXCEPT !.steps = 0]
  IN IF r.paused THEN {idle}
     ELSE StepsOf([idle EXCEPT !.accumulator = rest, !.used = {}], n, buttons)

SingleStep(r, buttons) == StepsOf([r EXCEPT !.steps = 0, !.used = {}], 1, buttons)
====
