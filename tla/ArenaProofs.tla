---- MODULE ArenaProofs ----
(***************************************************************************)
(* Proofs about ArenaView, for every number of frames and catch-up steps,  *)
(* every set of buttons and frame lengths, and whatever the engine does.   *)
(***************************************************************************)
EXTENDS ArenaView, WellFoundedInduction, TLAPS

-----------------------------------------------------------------------------
(* The invariant *)

(* What a runtime can hold. *)
Handles == {"library", "a", "b", "live", "udp"}

(* The screenshots that are asked for. *)
Names == {"start", "correction", "final", "desync"}

(* The modes of a run, or none. *)
Modes == {"none", "auto", "interactive", "desync", "udp"}

(* FRuntime, and the handles and views of the SDK behind it. *)
RuntimeType ==
  [held : SUBSET Handles, handles : SUBSET Handles, borrowed : SUBSET Sessions,
   refused : BOOLEAN, options : Modes, frame : Nat, tail : Nat, finished : BOOLEAN,
   desync : BOOLEAN, failed : BOOLEAN, result : Results, active : SUBSET Sessions,
   corrected : SUBSET Sessions, paused : BOOLEAN, accumulator : Nat, steps : Nat,
   used : SUBSET Buttons]

(* The members of ARollbackArenaView that the model keeps. *)
ViewType ==
  [at : {"loading", "playing", "closing", "ended"}, options : Options, model : BOOLEAN,
   settings : Modes, failure : BOOLEAN, handler : BOOLEAN, pending : SUBSET Buttons,
   restarted : BOOLEAN, seen : SUBSET Sessions, capture : Names \union {"none"},
   captured : SUBSET Names, warmup : Nat, failureCapture : BOOLEAN, attempted : BOOLEAN,
   written : BOOLEAN, evidence : [success : BOOLEAN, saved : BOOLEAN],
   due : BOOLEAN, late : BOOLEAN, exiting : BOOLEAN, exit : {-1, 0, 1}]

(* A runtime holds what exists: nothing, or a whole run whose driver has   *)
(* borrowed its sessions.                                                  *)
Orderly(r) ==
  /\ r \in RuntimeType
  /\ ~ r.refused
  /\ r.handles = r.held
  /\ \/ r.held = {} /\ r.borrowed = {}
     \/ r.held = Whole(r.options) /\ r.borrowed = SessionsOf(r.options)

(* What a success was written for. *)
Proven(v, r) ==
  /\ v.evidence.success /\ v.evidence.saved
  /\ r.result = "agreed" /\ ~ r.failed
  /\ {"start", "final"} \subseteq v.captured
  /\ Rolled(r) => "correction" \in v.captured

(* A smoke test writes its evidence before it exits, and exits as it is    *)
(* written: with an error at once, else the engine is asked to.            *)
SmokeFits(v, r) ==
  /\ v.exiting => v.written
  /\ v.written /\ v.exit # 1 => v.exiting /\ Proven(v, r)
  /\ v.exit # -1 \/ v.at = "ended" => v.written
  /\ v.exit = 1 => ~ (v.evidence.success /\ v.evidence.saved)

(* The demo in the middle of a callback or between two. *)
Fits(v, r) ==
  /\ v \in ViewType
  /\ Orderly(r)
  /\ v.settings = r.options
  /\ r.failed => v.failure
  /\ v.exit # -1 \/ v.at = "ended" => r.held = {}
  /\ v.at = "loading" => ~ v.exiting /\ ~ v.written /\ ~ r.failed
  /\ v.options.smoke => SmokeFits(v, r)


(* The invariant: of every state between two callbacks. *)
DemoFits == Fits(view, runtime)
-----------------------------------------------------------------------------
(* Handles *)

(* What a runtime holds can be destroyed, members last first: a session is *)
(* borrowed only by a driver that goes before it.                          *)
Sound(r) ==
  /\ r \in RuntimeType
  /\ ~ r.refused
  /\ r.handles = r.held
  /\ r.borrowed # {} => r.held \intersect {"live", "udp"} # {}

(* Nothing but handles, views and the count of steps has changed. *)
SameRun(r, q) ==
  /\ q.options = r.options /\ q.frame = r.frame /\ q.tail = r.tail /\ q.finished = r.finished
  /\ q.desync = r.desync /\ q.failed = r.failed /\ q.result = r.result
  /\ q.corrected = r.corrected /\ q.paused = r.paused
  /\ q.accumulator = r.accumulator /\ q.used = r.used

(* An orderly runtime can be destroyed. *)
LEMMA OrderlyIsSound ==
  ASSUME NEW r, Orderly(r)
  PROVE  Sound(r)
  BY DEF Orderly, Sound, Whole, DriverOf

(* A handle that nobody has borrowed is destroyed without a refusal. *)
LEMMA DestroyKeepsSound ==
  ASSUME NEW r, Sound(r), NEW h \in Handles,
         h \in {"a", "b"} => r.borrowed = {},
         h = "library" => r.held \subseteq {"library"}
  PROVE  LET q == Destroy(r, h)
         IN  /\ Sound(q) /\ SameRun(r, q) /\ q.held = r.held \ {h}
             /\ q.borrowed = IF h \in r.held /\ h \in {"live", "udp"} THEN {} ELSE r.borrowed
<1> DEFINE q == Destroy(r, h)
<1>1. r.borrowed \subseteq Sessions /\ r.held \subseteq Handles /\ r.handles = r.held
  BY DEF Sound, RuntimeType
<1>2. CASE h \notin r.held
  <2>1. q = r
    BY <1>2 DEF Destroy
  <2>2. r.held = r.held \ {h} /\ SameRun(r, r)
    BY <1>2 DEF SameRun
  <2> HIDE DEF q
  <2>3. Sound(q) /\ SameRun(r, q) /\ q.held = r.held \ {h} /\ q.borrowed = r.borrowed
    BY <2>1, <2>2
  <2> QED
    BY <1>2, <2>3 DEF q
<1>3. CASE h \in r.held
  <2>1. ~ Refuses(r, h)
    BY <1>1, <1>3 DEF Refuses, Handles, Sessions
  <2>2. q = [r EXCEPT !.held = @ \ {h}, !.handles = @ \ {h},
                      !.borrowed = IF h \in {"live", "udp"} THEN {} ELSE @]
    BY <1>3, <2>1 DEF Destroy
  <2> HIDE DEF q
  <2>3. /\ q \in RuntimeType /\ ~ q.refused /\ q.held = r.held \ {h} /\ q.handles = q.held
        /\ q.borrowed = IF h \in {"live", "udp"} THEN {} ELSE r.borrowed
    BY <2>2 DEF Sound, RuntimeType
  <2>4. SameRun(r, q)
    BY <2>2 DEF SameRun, Sound, RuntimeType
  <2>5. q.borrowed # {} => q.held \intersect {"live", "udp"} # {}
    BY <2>3 DEF Sound
  <2>6. Sound(q)
    BY <2>3, <2>5 DEF Sound
  <2> QED
    BY <1>3, <2>3, <2>4, <2>6 DEF q
<1> QED
  BY <1>2, <1>3

(* Everything is destroyed, in the order of the members. *)
LEMMA ReleaseEmpties ==
  ASSUME NEW r, Sound(r)
  PROVE  LET q == Release(r)
         IN  /\ q \in RuntimeType /\ ~ q.refused /\ SameRun(r, q)
             /\ q.held = {} /\ q.handles = {} /\ q.borrowed = {}
<1> DEFINE r1 == Destroy(r, "udp")
           r2 == Destroy(r1, "live")
           r3 == Destroy(r2, "b")
           r4 == Destroy(r3, "a")
           r5 == Destroy(r4, "library")
<1>0. Release(r) = r5
  BY DEF Release
<1>1. /\ Sound(r1) /\ SameRun(r, r1) /\ r1.held = r.held \ {"udp"}
      /\ r1.borrowed = IF "udp" \in r.held THEN {} ELSE r.borrowed
  <2>1. "udp" \in Handles /\ "udp" \notin {"a", "b"} /\ "udp" # "library" /\ "udp" \in {"live", "udp"}
    BY DEF Handles
  <2> QED
    BY <2>1, DestroyKeepsSound
<1> HIDE DEF r1
<1>2. /\ Sound(r2) /\ SameRun(r1, r2) /\ r2.held = r1.held \ {"live"}
      /\ r2.borrowed = IF "live" \in r1.held THEN {} ELSE r1.borrowed
  <2>1. "live" \in Handles /\ "live" \notin {"a", "b"} /\ "live" # "library" /\ "live" \in {"live", "udp"}
    BY DEF Handles
  <2> QED
    BY <1>1, <2>1, DestroyKeepsSound
<1> HIDE DEF r2
<1>3. r2.borrowed = {} /\ "udp" \notin r2.held /\ "live" \notin r2.held
  BY <1>1, <1>2 DEF Sound
<1>4. Sound(r3) /\ SameRun(r2, r3) /\ r3.held = r2.held \ {"b"} /\ r3.borrowed = {}
  <2>1. "b" \in Handles /\ "b" # "library" /\ "b" \notin {"live", "udp"}
    BY DEF Handles
  <2> QED
    BY <1>2, <1>3, <2>1, DestroyKeepsSound
<1> HIDE DEF r3
<1>5. Sound(r4) /\ SameRun(r3, r4) /\ r4.held = r3.held \ {"a"} /\ r4.borrowed = {}
  <2>1. "a" \in Handles /\ "a" # "library" /\ "a" \notin {"live", "udp"}
    BY DEF Handles
  <2> QED
    BY <1>4, <2>1, DestroyKeepsSound
<1> HIDE DEF r4
<1>6. r4.held \subseteq {"library"}
  <2>1. r.held \subseteq Handles
    BY DEF Sound, RuntimeType
  <2> QED
    BY <2>1, <1>1, <1>2, <1>4, <1>5 DEF Handles
<1>7. Sound(r5) /\ SameRun(r4, r5) /\ r5.held = r4.held \ {"library"} /\ r5.borrowed = {}
  <2>1. "library" \in Handles /\ "library" \notin {"a", "b"} /\ "library" \notin {"live", "udp"}
    BY DEF Handles
  <2> QED
    BY <1>5, <1>6, <2>1, DestroyKeepsSound
<1> HIDE DEF r5
<1>8. SameRun(r, r5)
  BY <1>1, <1>2, <1>4, <1>5, <1>7 DEF SameRun
<1>9. r5.held = {} /\ r5.handles = {} /\ r5 \in RuntimeType /\ ~ r5.refused
  BY <1>6, <1>7 DEF Sound
<1> QED
  BY <1>0, <1>7, <1>8, <1>9

(* Stop drops the handles and keeps what the run has come to. *)
LEMMA StopEmpties ==
  ASSUME NEW r, Sound(r)
  PROVE  LET q == Stop(r) IN Orderly(q) /\ SameRun(r, q) /\ q.held = {}
<1> DEFINE p == Release(r)
           q == Stop(r)
<1>1. /\ p \in RuntimeType /\ ~ p.refused /\ SameRun(r, p)
      /\ p.held = {} /\ p.handles = {} /\ p.borrowed = {}
  BY ReleaseEmpties
<1>2. q = [p EXCEPT !.active = {}, !.steps = 0]
  BY DEF Stop
<1> HIDE DEF p, q
<1>3. q \in RuntimeType
  BY <1>1, <1>2 DEF RuntimeType
<1>4. ~ q.refused /\ q.held = {} /\ q.handles = {} /\ q.borrowed = {} /\ SameRun(p, q)
  BY <1>1, <1>2 DEF RuntimeType, SameRun
<1>5. SameRun(r, q)
  BY <1>1, <1>4 DEF SameRun
<1>6. Orderly(q)
  BY <1>3, <1>4 DEF Orderly
<1> QED
  BY <1>4, <1>5, <1>6 DEF q
-----------------------------------------------------------------------------
(* Starts *)

(* The steps of Start that can fail. *)
Faults == {"none", "manifest", "exports", "a", "b", "driver", "views"}

(* A runtime that owns one handle more. *)
LEMMA OwnKeepsSound ==
  ASSUME NEW r, Sound(r), NEW h \in Handles
  PROVE  LET q == Own(r, h)
         IN  /\ Sound(q) /\ SameRun(r, q)
             /\ q.held = r.held \union {h} /\ q.borrowed = r.borrowed
<1> DEFINE q == Own(r, h)
<1>1. q = [r EXCEPT !.held = @ \union {h}, !.handles = @ \union {h}]
  BY DEF Own
<1> HIDE DEF q
<1>2. /\ q \in RuntimeType /\ ~ q.refused /\ q.held = r.held \union {h} /\ q.handles = q.held
      /\ q.borrowed = r.borrowed
  BY <1>1 DEF Sound, RuntimeType
<1>3. SameRun(r, q)
  BY <1>1 DEF SameRun, Sound, RuntimeType
<1>4. Sound(q)
  BY <1>2 DEF Sound
<1> QED
  BY <1>2, <1>3, <1>4 DEF q

(* What a start begins with holds nothing and has not failed. *)
LEMMA ClearedIsEmpty ==
  ASSUME NEW r, Sound(r)
  PROVE  LET q == Cleared(r)
         IN  /\ Sound(q) /\ q.held = {} /\ q.borrowed = {} /\ ~ q.failed
             /\ q.options = r.options
<1> DEFINE p == Stop(r)
           q == Cleared(r)
<1>1. /\ p \in RuntimeType /\ ~ p.refused /\ p.held = {} /\ p.handles = {} /\ p.borrowed = {}
      /\ p.options = r.options
  <2>1. Orderly(p) /\ p.held = {} /\ p.options = r.options
    BY StopEmpties DEF SameRun
  <2> HIDE DEF p
  <2>2. Whole(p.options) # {}
    BY DEF Whole
  <2> QED
    BY <2>1, <2>2 DEF Orderly
<1>2. q = [p EXCEPT !.frame = 0, !.tail = 0, !.finished = FALSE, !.desync = FALSE,
                    !.failed = FALSE, !.result = "none", !.corrected = {},
                    !.paused = FALSE, !.accumulator = 0, !.used = {}]
  BY DEF Cleared
<1> HIDE DEF p, q
<1>3. q \in RuntimeType
  BY <1>1, <1>2 DEF RuntimeType, Results
<1>4. /\ ~ q.refused /\ q.held = {} /\ q.handles = {} /\ q.borrowed = {} /\ ~ q.failed
      /\ q.options = r.options
  BY <1>1, <1>2 DEF RuntimeType
<1>5. Sound(q)
  BY <1>3, <1>4 DEF Sound
<1> QED
  BY <1>4, <1>5 DEF q

(* The library is loaded, or nothing is. *)
LEMMA LoadSdkFits ==
  ASSUME NEW r, Sound(r), r.held = {}, r.borrowed = {}, NEW fault \in Faults
  PROVE  LET q == LoadSdk(r, fault)
         IN  /\ Sound(q) /\ q.borrowed = {} /\ SameRun(r, q)
             /\ q.held = IF fault \in {"manifest", "exports"} THEN {} ELSE {"library"}
<1> DEFINE p == Own(r, "library")
           s == Release(p)
           q == LoadSdk(r, fault)
<1>1. Sound(p) /\ SameRun(r, p) /\ p.held = {"library"} /\ p.borrowed = {}
  <2>1. "library" \in Handles
    BY DEF Handles
  <2>2. Sound(p) /\ SameRun(r, p) /\ p.held = r.held \union {"library"} /\ p.borrowed = r.borrowed
    BY <2>1, OwnKeepsSound
  <2> HIDE DEF p
  <2> QED
    BY <2>2
<1> HIDE DEF p
<1>2. /\ s \in RuntimeType /\ ~ s.refused /\ SameRun(p, s)
      /\ s.held = {} /\ s.handles = {} /\ s.borrowed = {}
  BY <1>1, ReleaseEmpties
<1>3. q = IF fault = "manifest" THEN r ELSE IF fault = "exports" THEN s ELSE p
  BY DEF LoadSdk, Faults, p
<1> HIDE DEF s, q
<1>4. Sound(s) /\ SameRun(r, s)
  BY <1>1, <1>2 DEF Sound, SameRun
<1>5. SameRun(r, r)
  BY DEF SameRun
<1>6. Sound(q) /\ SameRun(r, q)
  BY <1>1, <1>3, <1>4, <1>5
<1>7. q.borrowed = {} /\ q.held = IF fault \in {"manifest", "exports"} THEN {} ELSE {"library"}
  BY <1>1, <1>2, <1>3
<1> QED
  BY <1>6, <1>7 DEF q

(* The handles that are created, up to the one that cannot be. *)
LEMMA CreatedFits ==
  ASSUME NEW r, Sound(r), r.held = {}, r.borrowed = {}, NEW mode \in Modes, NEW fault \in Faults
  PROVE  LET q == Created(r, mode, fault)
         IN  /\ Sound(q) /\ SameRun(r, q)
             /\ fault = "none" => q.held = Whole(mode) /\ q.borrowed = SessionsOf(mode)
<1> DEFINE loaded == LoadSdk(r, fault)
           first == Own(loaded, "a")
           second == Own(first, "b")
           sessions == IF mode = "udp" \/ fault = "b" THEN first ELSE second
           driver == Own(sessions, DriverOf(mode))
           run == [driver EXCEPT !.borrowed = SessionsOf(mode)]
           q == Created(r, mode, fault)
<1>0. q = IF loaded.held = {} \/ fault = "a" THEN loaded
          ELSE IF fault \in {"b", "driver"} THEN sessions ELSE run
  <2>1. \A l : l = loaded /\ l.held = {} => fault \in {"manifest", "exports"}
    BY LoadSdkFits
  <2> QED
    BY <2>1 DEF Created, CreateDriver
<1>1. /\ Sound(loaded) /\ loaded.borrowed = {} /\ SameRun(r, loaded)
      /\ loaded.held = IF fault \in {"manifest", "exports"} THEN {} ELSE {"library"}
  BY LoadSdkFits
<1> HIDE DEF loaded
<1>2. /\ Sound(first) /\ SameRun(loaded, first)
      /\ first.held = loaded.held \union {"a"} /\ first.borrowed = {}
  <2>1. "a" \in Handles
    BY DEF Handles
  <2>2. /\ Sound(first) /\ SameRun(loaded, first)
        /\ first.held = loaded.held \union {"a"} /\ first.borrowed = loaded.borrowed
    BY <1>1, <2>1, OwnKeepsSound
  <2> QED
    BY <1>1, <2>2
<1> HIDE DEF first
<1>3. /\ Sound(second) /\ SameRun(first, second)
      /\ second.held = first.held \union {"b"} /\ second.borrowed = {}
  <2>1. "b" \in Handles
    BY DEF Handles
  <2>2. /\ Sound(second) /\ SameRun(first, second)
        /\ second.held = first.held \union {"b"} /\ second.borrowed = first.borrowed
    BY <1>2, <2>1, OwnKeepsSound
  <2> QED
    BY <1>2, <2>2
<1> HIDE DEF second
<1>4. Sound(sessions) /\ SameRun(r, sessions) /\ sessions.borrowed = {}
  <2>1. SameRun(r, first) /\ SameRun(r, second)
    BY <1>1, <1>2, <1>3 DEF SameRun
  <2> QED
    BY <1>2, <1>3, <2>1
<1>5. fault = "none" => sessions.held = {"library"} \union SessionsOf(mode)
  BY <1>1, <1>2, <1>3 DEF SessionsOf
<1> HIDE DEF sessions
<1>6. /\ Sound(driver) /\ SameRun(sessions, driver)
      /\ driver.held = sessions.held \union {DriverOf(mode)}
  <2>1. DriverOf(mode) \in Handles
    BY DEF Handles, DriverOf
  <2> QED
    BY <1>4, <2>1, OwnKeepsSound
<1> HIDE DEF driver
<1>7. Sound(run) /\ SameRun(r, run) /\ run.held = driver.held /\ run.borrowed = SessionsOf(mode)
  <2>1. /\ run \in RuntimeType /\ ~ run.refused /\ run.handles = run.held
        /\ run.held = driver.held /\ run.borrowed = SessionsOf(mode)
    BY <1>6 DEF Sound, RuntimeType, SessionsOf, Sessions
  <2>2. SameRun(driver, run)
    BY <1>6 DEF Sound, RuntimeType, SameRun
  <2> HIDE DEF run
  <2>3. SameRun(r, run)
    BY <1>4, <1>6, <2>2 DEF SameRun
  <2>4. Sound(run)
    BY <1>6, <2>1 DEF Sound, DriverOf
  <2> QED
    BY <2>1, <2>3, <2>4
<1> HIDE DEF run, q
<1>8. Sound(q) /\ SameRun(r, q)
  BY <1>0, <1>1, <1>4, <1>7
<1>9. ASSUME fault = "none"
      PROVE  q.held = Whole(mode) /\ q.borrowed = SessionsOf(mode)
  <2>1. q = run
    BY <1>0, <1>1, <1>9
  <2> QED
    BY <1>5, <1>6, <1>7, <1>9, <2>1 DEF Whole
<1> QED
  BY <1>8, <1>9 DEF q
(* Views keep the handles; a peer has corrections only while it has views. *)
LEMMA ViewsKeep ==
  ASSUME NEW r, r \in RuntimeType, NEW corrected \in SUBSET Sessions
  PROVE  LET q == Views(r, corrected)
         IN  /\ q \in RuntimeType /\ q.held = r.held /\ q.handles = r.handles
             /\ q.borrowed = r.borrowed /\ q.refused = r.refused /\ q.options = r.options
             /\ q.frame = r.frame /\ q.failed = r.failed /\ q.used = r.used
             /\ q.steps = r.steps
<1> DEFINE q == Views(r, corrected)
<1>1. q = [r EXCEPT !.active = r.held \intersect Sessions,
                    !.corrected = (@ \union corrected) \intersect r.held]
  BY DEF Views
<1>2. r.held \intersect Sessions \in SUBSET Sessions
  OBVIOUS
<1>3. (r.corrected \union corrected) \intersect r.held \in SUBSET Sessions
  BY DEF RuntimeType
<1> HIDE DEF q
<1>4. q \in RuntimeType
  BY <1>1, <1>2, <1>3 DEF RuntimeType
<1>5. /\ q.held = r.held /\ q.handles = r.handles
      /\ q.borrowed = r.borrowed /\ q.refused = r.refused /\ q.options = r.options
      /\ q.frame = r.frame /\ q.failed = r.failed /\ q.used = r.used /\ q.steps = r.steps
  BY <1>1 DEF RuntimeType
<1> QED
  BY <1>4, <1>5 DEF q

(* A start leaves a whole run, or nothing. *)
LEMMA StartFits ==
  ASSUME NEW r, Orderly(r), NEW mode \in Modes, NEW fault \in Faults
  PROVE  LET q == Start(r, mode, fault)
         IN  /\ Orderly(q) /\ ~ q.failed /\ (fault # "none" => q.held = {})
             /\ q.options = IF fault = "none" THEN mode ELSE r.options
<1> DEFINE c == Cleared(r)
           p == Created(c, mode, fault)
           s == Stop(p)
           u == Views(p, {})
           q == Start(r, mode, fault)
<1>1. Sound(c) /\ c.held = {} /\ c.borrowed = {} /\ ~ c.failed /\ c.options = r.options
  BY OrderlyIsSound, ClearedIsEmpty
<1>2. q = IF fault # "none" THEN s ELSE [u EXCEPT !.options = mode]
  BY DEF Start
<1> HIDE DEF c
<1>3. /\ Sound(p) /\ SameRun(c, p)
      /\ fault = "none" => p.held = Whole(mode) /\ p.borrowed = SessionsOf(mode)
  BY <1>1, CreatedFits
<1> HIDE DEF p
<1>4. /\ ~ p.failed /\ p \in RuntimeType /\ ~ p.refused /\ p.handles = p.held
      /\ p.options = r.options
  BY <1>1, <1>3 DEF SameRun, Sound
<1>5. Orderly(s) /\ SameRun(p, s) /\ s.held = {}
  BY <1>3, StopEmpties
<1>6. /\ u \in RuntimeType /\ u.held = p.held /\ u.handles = p.handles
      /\ u.borrowed = p.borrowed /\ u.refused = p.refused /\ u.failed = p.failed
  <2>1. {} \in SUBSET Sessions
    OBVIOUS
  <2> QED
    BY <1>4, <2>1, ViewsKeep
<1> HIDE DEF s, u, q
<1>7. CASE fault # "none"
  <2>1. q = s /\ ~ s.failed /\ s.options = r.options
    BY <1>2, <1>4, <1>5, <1>7 DEF SameRun
  <2> QED
    BY <1>5, <1>7, <2>1 DEF q
<1>8. CASE fault = "none"
  <2>1. q = [u EXCEPT !.options = mode]
    BY <1>2, <1>8
  <2>2. /\ q \in RuntimeType /\ ~ q.refused /\ q.handles = q.held /\ ~ q.failed
        /\ q.held = p.held /\ q.borrowed = p.borrowed /\ q.options = mode
    BY <1>4, <1>6, <2>1 DEF RuntimeType
  <2>3. Orderly(q)
    BY <1>3, <1>8, <2>2 DEF Orderly
  <2> QED
    BY <1>8, <2>2, <2>3 DEF q
<1> QED
  BY <1>7, <1>8

-----------------------------------------------------------------------------
(* Steps *)

(* The handles are the ones before, and so is what is taken of them. *)
SameHandles(r, q) ==
  /\ q.held = r.held /\ q.handles = r.handles /\ q.borrowed = r.borrowed
  /\ q.refused = r.refused /\ q.options = r.options

(* A runtime with the handles of an orderly one is orderly. *)
LEMMA SameHandlesOrderly ==
  ASSUME NEW r, Orderly(r), NEW q \in RuntimeType, SameHandles(r, q)
  PROVE  Orderly(q)
  BY DEF Orderly, SameHandles

(* A run of which no more is told: over UDP the buttons are scripted, and  *)
(* after the last frame they have no use.                                  *)
Over(r) == r.options = "udp" \/ r.frame = FrameCount

(* The outcomes of a step, as what they are made of: a live driver's good  *)
(* step is a frame until the game is over.                                 *)
LEMMA OutcomeTypes ==
  ASSUME NEW r, NEW o \in Outcomes(r)
  PROVE  /\ o.corrected \in SUBSET Sessions /\ o.result \in Results
         /\ o.status = "ok" /\ ~ Over(r) => o.plays
<1>1. o.result \in Results /\ o.corrected \in Corrections
  BY DEF Outcomes, Reported, Results
<1>2. o.corrected \in SUBSET Sessions
  BY <1>1, RuntimeAssumption DEF Sessions
<1>3. ASSUME o.status = "ok", ~ Over(r)
      PROVE  o.plays
  <2>1. o.plays \in PlaysFrame(r)
    BY <1>3 DEF Outcomes
  <2>2. PlaysFrame(r) = {TRUE}
    BY <1>3 DEF PlaysFrame, Over
  <2> QED
    BY <2>1, <2>2
<1> QED
  BY <1>1, <1>2, <1>3

(* The views are read after a step, or that fails. *)
Viewed(q, o) == IF o.views THEN Views(q, o.corrected) ELSE [q EXCEPT !.failed = TRUE]

(* Reading the views disturbs no handle, and counts no step. *)
LEMMA ViewedFits ==
  ASSUME NEW r, NEW q \in RuntimeType, NEW o \in Outcomes(r)
  PROVE  LET p == Viewed(q, o)
         IN  /\ p \in RuntimeType /\ SameHandles(q, p) /\ p.frame = q.frame
             /\ p.used = q.used /\ p.steps = q.steps
<1> DEFINE u == Views(q, o.corrected)
           f == [q EXCEPT !.failed = TRUE]
           p == Viewed(q, o)
<1>1. /\ u \in RuntimeType /\ u.held = q.held /\ u.handles = q.handles
      /\ u.borrowed = q.borrowed /\ u.refused = q.refused /\ u.options = q.options
      /\ u.frame = q.frame /\ u.used = q.used /\ u.steps = q.steps
  <2>1. o.corrected \in SUBSET Sessions
    BY OutcomeTypes
  <2> QED
    BY <2>1, ViewsKeep
<1>2. SameHandles(q, u)
  BY <1>1 DEF SameHandles
<1>3. f \in RuntimeType /\ f.frame = q.frame /\ f.used = q.used /\ f.steps = q.steps
  BY DEF RuntimeType
<1>4. SameHandles(q, f)
  BY DEF SameHandles, RuntimeType
<1>5. p = u \/ p = f
  BY DEF Viewed
<1> HIDE DEF u, f, p
<1>6. p \in RuntimeType /\ SameHandles(q, p) /\ p.frame = q.frame /\ p.used = q.used /\ p.steps = q.steps
  BY <1>1, <1>2, <1>3, <1>4, <1>5
<1> QED
  BY <1>6 DEF p

(* What a good step makes of a runtime: a frame that uses the buttons, or  *)
(* none.                                                                   *)
LEMMA SteppedFits ==
  ASSUME NEW r \in RuntimeType, NEW buttons \in SUBSET Buttons, NEW o \in Outcomes(r)
  PROVE  LET q == Stepped(r, buttons, o)
         IN  /\ q \in RuntimeType /\ SameHandles(r, q) /\ q.steps = r.steps
             /\ IF o.plays THEN q.used = buttons /\ q.frame = r.frame + 1
                ELSE q.used = r.used /\ q.frame = r.frame
<1> DEFINE played == [r EXCEPT !.frame = @ + 1, !.used = buttons]
           idle == IF r.options # "udp" THEN [r EXCEPT !.tail = @ + 1] ELSE r
           moved == IF o.plays THEN played ELSE idle
           ended == o.result # "none"
           q == Stepped(r, buttons, o)
<1>1. q = [moved EXCEPT !.result = o.result, !.finished = ended]
  BY DEF Stepped
<1>2. r.frame \in Nat /\ r.tail \in Nat /\ r.frame + 1 \in Nat /\ r.tail + 1 \in Nat
  BY DEF RuntimeType
<1>3. /\ played \in RuntimeType /\ SameHandles(r, played) /\ played.steps = r.steps
      /\ played.used = buttons /\ played.frame = r.frame + 1
  BY <1>2 DEF RuntimeType, SameHandles
<1>4. /\ idle \in RuntimeType /\ SameHandles(r, idle) /\ idle.steps = r.steps
      /\ idle.used = r.used /\ idle.frame = r.frame
  BY <1>2 DEF RuntimeType, SameHandles
<1> HIDE DEF played, idle
<1>5. /\ moved \in RuntimeType /\ SameHandles(r, moved) /\ moved.steps = r.steps
      /\ IF o.plays THEN moved.used = buttons /\ moved.frame = r.frame + 1
         ELSE moved.used = r.used /\ moved.frame = r.frame
  BY <1>3, <1>4
<1>6. o.result \in Results /\ ended \in BOOLEAN
  BY OutcomeTypes
<1> HIDE DEF moved, ended, q
<1>7. /\ q \in RuntimeType /\ SameHandles(moved, q) /\ q.steps = moved.steps
      /\ q.used = moved.used /\ q.frame = moved.frame
  BY <1>1, <1>5, <1>6 DEF RuntimeType, SameHandles
<1>8. SameHandles(r, q)
  BY <1>5, <1>7 DEF SameHandles
<1> QED
  BY <1>5, <1>7, <1>8 DEF q

(* The buttons a runtime has been given are those of a frame since r, or   *)
(* the run was over.                                                       *)
Uses(r, q, buttons) == Over(r) \/ (q.used = buttons /\ q.frame > r.frame)

(* A step keeps the handles; one that does not fail has used the buttons   *)
(* it was given, in a frame of its own, or left those that were.           *)
LEMMA AdvanceFits ==
  ASSUME NEW r, Orderly(r), NEW buttons \in SUBSET Buttons, NEW o \in Outcomes(r)
  PROVE  LET q == AdvanceOne(r, buttons, o)
         IN  /\ Orderly(q) /\ q.options = r.options /\ q.frame >= r.frame /\ q.steps = r.steps
             /\ q.failed \/ (Uses(r, q, buttons) /\ q.used \in {buttons, r.used})
<1> DEFINE stepped == Stepped(r, buttons, o)
           lost == [r EXCEPT !.failed = TRUE]
           broken == [r EXCEPT !.failed = TRUE, !.desync = o.status = "desync"]
           q == AdvanceOne(r, buttons, o)
<1>1. q = IF o.status = "ok" THEN Viewed(stepped, o)
          ELSE IF r.options # "udp" THEN lost ELSE Viewed(broken, o)
  BY DEF AdvanceOne, Viewed
<1>2. r \in RuntimeType /\ r.frame \in Nat
  BY DEF Orderly, RuntimeType
<1>3. /\ stepped \in RuntimeType /\ SameHandles(r, stepped) /\ stepped.steps = r.steps
      /\ IF o.plays THEN stepped.used = buttons /\ stepped.frame = r.frame + 1
         ELSE stepped.used = r.used /\ stepped.frame = r.frame
  BY <1>2, SteppedFits
<1>4. lost \in RuntimeType /\ SameHandles(r, lost) /\ lost.frame = r.frame /\ lost.steps = r.steps /\ lost.failed
  BY <1>2 DEF RuntimeType, SameHandles
<1>5. broken \in RuntimeType /\ SameHandles(r, broken) /\ broken.frame = r.frame /\ broken.steps = r.steps /\ broken.failed
  BY <1>2 DEF RuntimeType, SameHandles
<1> HIDE DEF stepped, lost, broken, q
<1>6. CASE o.status = "ok"
  <2> DEFINE p == Viewed(stepped, o)
  <2>1. /\ p \in RuntimeType /\ SameHandles(stepped, p) /\ p.frame = stepped.frame
        /\ p.used = stepped.used /\ p.steps = stepped.steps
    BY <1>3, ViewedFits
  <2> HIDE DEF p
  <2>2. SameHandles(r, p)
    BY <1>3, <2>1 DEF SameHandles
  <2>3. Orderly(p) /\ p.frame >= r.frame /\ p.used \in {buttons, r.used} /\ p.steps = r.steps
    BY <1>2, <1>3, <2>1, <2>2, SameHandlesOrderly
  <2>4. p.options = r.options
    BY <2>2 DEF SameHandles
  <2>5. Uses(r, p, buttons)
    <3>1. Over(r) \/ o.plays
      BY <1>6, OutcomeTypes
    <3> QED
      BY <1>2, <1>3, <2>1, <3>1 DEF Uses
  <2>6. q = p
    BY <1>1, <1>6 DEF p
  <2> QED
    BY <2>3, <2>4, <2>5, <2>6 DEF q
<1>7. CASE o.status # "ok" /\ r.options # "udp"
  <2>1. Orderly(lost) /\ lost.frame >= r.frame /\ lost.options = r.options
    BY <1>2, <1>4, SameHandlesOrderly DEF SameHandles
  <2>2. q = lost
    BY <1>1, <1>7
  <2> QED
    BY <1>4, <2>1, <2>2 DEF q
<1>8. CASE o.status # "ok" /\ r.options = "udp"
  <2> DEFINE p == Viewed(broken, o)
  <2>1. /\ p \in RuntimeType /\ SameHandles(broken, p) /\ p.frame = broken.frame
        /\ p.steps = broken.steps
    BY <1>5, ViewedFits
  <2>2. p.failed
    <3> DEFINE u == Views(broken, o.corrected)
    <3>1. u.failed = broken.failed
      <4>1. o.corrected \in SUBSET Sessions
        BY OutcomeTypes
      <4> QED
        BY <1>5, <4>1, ViewsKeep
    <3>2. [broken EXCEPT !.failed = TRUE].failed
      BY <1>5 DEF RuntimeType
    <3> QED
      BY <1>5, <3>1, <3>2 DEF Viewed
  <2> HIDE DEF p
  <2>3. SameHandles(r, p)
    BY <1>5, <2>1 DEF SameHandles
  <2>4. Orderly(p) /\ p.frame >= r.frame /\ p.steps = r.steps /\ p.options = r.options
    BY <1>2, <1>5, <2>1, <2>3, SameHandlesOrderly DEF SameHandles
  <2>5. q = p
    BY <1>1, <1>8 DEF p
  <2> QED
    BY <2>2, <2>4, <2>5 DEF q
<1> QED
  BY <1>6, <1>7, <1>8
-----------------------------------------------------------------------------
(* Several steps *)

(* A nonempty set of natural numbers has a least one. *)
LEMMA LeastNumber ==
  ASSUME NEW T \in SUBSET Nat, T # {}
  PROVE  \E n \in T : \A m \in T : n <= m
<1>1. IsWellFoundedOn(OpToRel(<, Nat), Nat)
  BY NatLessThanWellFounded
<1>2. PICK n \in T : \A m \in T : ~ (<<m, n>> \in OpToRel(<, Nat))
  BY <1>1, WFMin
<1>3. ASSUME NEW m \in T
      PROVE  n <= m
  <2>1. m \in Nat /\ n \in Nat /\ ~ (m < n)
    BY <1>2 DEF OpToRel
  <2> QED
    BY <2>1
<1> QED
  BY <1>3

(* The runtimes after each of m turns. *)
Turns(g, r, m, buttons) ==
  g = [k \in 0 .. m |-> IF k = 0 THEN {r} ELSE UNION {Turn(q, buttons) : q \in g[k - 1]}]

(* There are such sets for every m: those of a smaller m go one further.   *)
LEMMA TurnsExist ==
  ASSUME NEW r, NEW buttons, NEW n \in Nat
  PROVE  \E g : Turns(g, r, n, buttons)
<1> DEFINE bad == {m \in Nat : ~ \E g : Turns(g, r, m, buttons)}
<1> SUFFICES ASSUME bad # {}
             PROVE  FALSE
  OBVIOUS
<1>1. PICK m \in bad : \A i \in bad : m <= i
  <2>1. bad \in SUBSET Nat
    OBVIOUS
  <2> HIDE DEF bad
  <2> QED
    BY <2>1, LeastNumber
<1>2. m \in Nat /\ ~ \E g : Turns(g, r, m, buttons)
  OBVIOUS
<1>3. m # 0
  <2> SUFFICES ASSUME m = 0
               PROVE  FALSE
    OBVIOUS
  <2>1. Turns([k \in 0 .. 0 |-> {r}], r, 0, buttons)
    BY DEF Turns
  <2> QED
    BY <1>2, <2>1
<1>4. m - 1 \in Nat /\ m - 1 \notin bad
  BY <1>1, <1>2, <1>3
<1>5. PICK g : Turns(g, r, m - 1, buttons)
  BY <1>4
<1> DEFINE next(f, k) == UNION {Turn(q, buttons) : q \in f[k - 1]}
           h == [k \in 0 .. m |-> IF k = 0 THEN {r} ELSE next(g, k)]
<1>6. \A k \in 0 .. m - 1 : h[k] = g[k]
  <2> TAKE k \in 0 .. m - 1
  <2>1. g[k] = IF k = 0 THEN {r} ELSE next(g, k)
    BY <1>5 DEF Turns
  <2>2. k \in 0 .. m
    BY <1>2
  <2> HIDE DEF next
  <2> QED
    BY <2>1, <2>2
<1>7. \A k \in 1 .. m : next(h, k) = next(g, k)
  <2> TAKE k \in 1 .. m
  <2>1. k - 1 \in 0 .. m - 1
    BY <1>2
  <2>2. h[k - 1] = g[k - 1]
    BY <1>6, <2>1
  <2> HIDE DEF h
  <2> QED
    BY <2>2
<1>8. Turns(h, r, m, buttons)
  <2>1. \A k \in 0 .. m :
          (IF k = 0 THEN {r} ELSE next(g, k)) = (IF k = 0 THEN {r} ELSE next(h, k))
    <3> HIDE DEF next, h
    <3> QED
      BY <1>2, <1>7
  <2>2. h = [k \in 0 .. m |-> IF k = 0 THEN {r} ELSE next(h, k)]
    <3>1. h = [k \in 0 .. m |-> IF k = 0 THEN {r} ELSE next(g, k)]
      OBVIOUS
    <3> HIDE DEF next, h
    <3> QED
      BY <2>1, <3>1
  <2> HIDE DEF h
  <2> QED
    BY <2>2 DEF Turns
<1> QED
  BY <1>2, <1>8

(* The sets are those of StepsOf. *)
LEMMA StepsAreTurns ==
  ASSUME NEW r, NEW buttons, NEW n \in Nat
  PROVE  \E g : Turns(g, r, n, buttons) /\ StepsOf(r, n, buttons) = g[n]
<1> DEFINE after == CHOOSE g : Turns(g, r, n, buttons)
<1>1. Turns(after, r, n, buttons)
  BY TurnsExist
<1>2. StepsOf(r, n, buttons) = after[n]
  BY DEF StepsOf, Turns
<1> HIDE DEF after
<1> QED
  BY <1>1, <1>2

(* What a turn does not leave, the steps do not leave. *)
LEMMA StepsStay ==
  ASSUME NEW P, NEW r \in P, NEW buttons, NEW n \in Nat,
         \A q \in P : Turn(q, buttons) \subseteq P
  PROVE  StepsOf(r, n, buttons) \subseteq P
<1>1. PICK g : Turns(g, r, n, buttons) /\ StepsOf(r, n, buttons) = g[n]
  BY StepsAreTurns
<1> DEFINE bad == {k \in 0 .. n : ~ (g[k] \subseteq P)}
<1> SUFFICES ASSUME bad # {}
             PROVE  FALSE
  BY <1>1
<1>2. PICK k \in bad : \A i \in bad : k <= i
  <2>1. bad \in SUBSET Nat
    OBVIOUS
  <2> HIDE DEF bad
  <2> QED
    BY <2>1, LeastNumber
<1>3. k \in 0 .. n /\ ~ (g[k] \subseteq P)
  OBVIOUS
<1>4. g[k] = IF k = 0 THEN {r} ELSE UNION {Turn(q, buttons) : q \in g[k - 1]}
  BY <1>1, <1>3 DEF Turns
<1>5. k # 0
  BY <1>3, <1>4
<1>6. k - 1 \in 0 .. n /\ k - 1 \notin bad
  BY <1>2, <1>3, <1>5
<1>7. g[k - 1] \subseteq P
  BY <1>6
<1> QED
  BY <1>3, <1>4, <1>5, <1>7

(* One step is one turn. *)
LEMMA OneStepIsATurn ==
  ASSUME NEW r, NEW buttons
  PROVE  StepsOf(r, 1, buttons) = Turn(r, buttons)
<1>1. PICK g : Turns(g, r, 1, buttons) /\ StepsOf(r, 1, buttons) = g[1]
  BY StepsAreTurns
<1>2. g[0] = {r} /\ g[1] = UNION {Turn(q, buttons) : q \in g[1 - 1]}
  BY <1>1 DEF Turns
<1>3. g[1] = UNION {Turn(q, buttons) : q \in {r}}
  BY <1>2
<1> QED
  BY <1>1, <1>3
(* A runtime that has taken steps since r: what it was given has been used *)
(* in a frame, or it has failed, or the run was over.                      *)
Moved(r, q, buttons) ==
  /\ Orderly(q) /\ q.options = r.options
  /\ q.frame >= r.frame
  /\ q.failed \/ (q.steps = 0 /\ q.frame = r.frame) \/ Uses(r, q, buttons)

(* So it is after another turn. *)
LEMMA TurnMoves ==
  ASSUME NEW r, r.frame \in Nat, NEW buttons \in SUBSET Buttons,
         NEW q, Moved(r, q, buttons), NEW p \in Turn(q, buttons)
  PROVE  Moved(r, p, buttons) /\ (Running(q) => p.failed \/ Uses(r, p, buttons))
<1>1. CASE ~ Running(q)
  BY <1>1 DEF Turn
<1>2. CASE Running(q)
  <2>1. PICK o \in Outcomes(q) :
          p = LET a == AdvanceOne(q, buttons, o) IN IF a.failed THEN a ELSE [a EXCEPT !.steps = @ + 1]
    BY <1>2 DEF Turn
  <2> DEFINE a == AdvanceOne(q, buttons, o)
  <2>2. /\ Orderly(a) /\ a.options = q.options /\ a.frame >= q.frame
        /\ a.failed \/ (Uses(q, a, buttons) /\ a.used \in {buttons, q.used})
    BY AdvanceFits DEF Moved
  <2>3. p = IF a.failed THEN a ELSE [a EXCEPT !.steps = @ + 1]
    BY <2>1
  <2> HIDE DEF a
  <2>4. a \in RuntimeType /\ a.frame \in Nat /\ q.frame \in Nat /\ a.steps \in Nat
    BY <2>2 DEF Moved, Orderly, RuntimeType
  <2>5. a.frame >= r.frame /\ a.options = r.options /\ (a.failed \/ Uses(r, a, buttons))
    <3>1. a.frame >= r.frame /\ a.options = r.options
      BY <2>2, <2>4 DEF Moved
    <3>2. CASE q.frame = r.frame
      <4>1. Over(q) <=> Over(r)
        BY <3>2 DEF Moved, Over
      <4> QED
        BY <2>2, <3>1, <3>2, <4>1 DEF Uses
    <3>3. CASE ~ q.failed /\ Uses(r, q, buttons)
      BY <2>2, <2>4, <3>1, <3>3 DEF Uses
    <3> QED
      BY <1>2, <3>1, <3>2, <3>3 DEF Moved, Running
  <2>6. CASE a.failed
    BY <2>2, <2>3, <2>5, <2>6 DEF Moved
  <2>7. CASE ~ a.failed
    <3>1. p = [a EXCEPT !.steps = @ + 1]
      BY <2>3, <2>7
    <3>2. /\ p \in RuntimeType /\ SameHandles(a, p) /\ p.frame = a.frame
          /\ p.used = a.used /\ p.failed = a.failed /\ p.options = a.options
      BY <2>4, <3>1 DEF RuntimeType, SameHandles
    <3>3. Orderly(p)
      BY <2>2, <3>2, SameHandlesOrderly
    <3> QED
      BY <2>5, <2>7, <3>2, <3>3 DEF Moved, Uses
  <2> QED
    BY <2>6, <2>7
<1> QED
  BY <1>1, <1>2

(* The steps of an engine frame start with the count and the buttons       *)
(* reset.                                                                  *)
LEMMA StepsMove ==
  ASSUME NEW r, Orderly(r), r.steps = 0, NEW n \in Nat, NEW buttons \in SUBSET Buttons,
         NEW q \in StepsOf(r, n, buttons)
  PROVE  Moved(r, q, buttons)
<1> DEFINE P == {p \in RuntimeType : Moved(r, p, buttons)}
<1>1. r.frame \in Nat /\ r \in RuntimeType
  BY DEF Orderly, RuntimeType
<1>2. r \in P
  BY <1>1 DEF Moved
<1>3. \A p \in P : Turn(p, buttons) \subseteq P
  <2> TAKE p \in P
  <2>1. \A t \in Turn(p, buttons) : Moved(r, t, buttons)
    BY <1>1, TurnMoves
  <2>2. \A t : Moved(r, t, buttons) => t \in P
    BY DEF Moved, Orderly
  <2> QED
    BY <2>1, <2>2
<1> HIDE DEF P
<1>4. StepsOf(r, n, buttons) \subseteq P
  BY <1>2, <1>3, StepsStay
<1> QED
  BY <1>4 DEF P

(* What the wall clock makes of an engine frame. *)
LEMMA ClockMoves ==
  ASSUME NEW r, Orderly(r), NEW delta \in Nat, NEW buttons \in SUBSET Buttons,
         NEW q \in TickWallClock(r, delta, buttons)
  PROVE  Moved(r, q, buttons)
<1> DEFINE total == r.accumulator + delta
           n == IF total >= FixedStep * MaxCatchUp THEN MaxCatchUp ELSE total \div FixedStep
           rest == (total - n * FixedStep) % FixedStep
           idle == [r EXCEPT !.steps = 0]
           begun == [idle EXCEPT !.accumulator = rest, !.used = {}]
<1>1. r \in RuntimeType /\ r.frame \in Nat /\ total \in Nat
  BY DEF Orderly, RuntimeType
<1>2. q \in IF r.paused THEN {idle} ELSE StepsOf(begun, n, buttons)
  BY DEF TickWallClock
<1>3. FixedStep \in Nat \ {0} /\ MaxCatchUp \in Nat
  BY RuntimeAssumption
<1> HIDE DEF total
<1>4. n \in Nat
  BY <1>1, <1>3
<1> HIDE DEF n
<1>5. rest \in Nat
  <2> DEFINE debt == total - n * FixedStep
  <2>1. debt \in Int
    BY <1>1, <1>3, <1>4
  <2> HIDE DEF debt
  <2> QED
    BY <1>3, <2>1 DEF debt
<1> HIDE DEF rest
<1>6. /\ idle \in RuntimeType /\ SameHandles(r, idle) /\ idle.frame = r.frame /\ idle.steps = 0
  BY <1>1 DEF RuntimeType, SameHandles
<1> HIDE DEF idle
<1>7. /\ begun \in RuntimeType /\ SameHandles(idle, begun) /\ begun.frame = r.frame
      /\ begun.steps = 0
  BY <1>5, <1>6 DEF RuntimeType, SameHandles
<1> HIDE DEF begun
<1>8. Orderly(idle)
  BY <1>6, SameHandlesOrderly
<1>9. Orderly(begun)
  BY <1>7, <1>8, SameHandlesOrderly
<1>10. CASE r.paused
  <2>1. q = idle
    BY <1>2, <1>10
  <2> QED
    BY <1>1, <1>6, <1>8, <2>1 DEF Moved, SameHandles
<1>11. CASE ~ r.paused
  <2>1. q \in StepsOf(begun, n, buttons)
    BY <1>2, <1>11
  <2>2. Moved(begun, q, buttons)
    BY <1>4, <1>7, <1>9, <2>1, StepsMove
  <2>3. begun.options = r.options
    BY <1>6, <1>7 DEF SameHandles
  <2> QED
    BY <1>7, <2>2, <2>3 DEF Moved, Uses, Over
<1> QED
  BY <1>10, <1>11

(* A single step of a running demo uses what it was given, or fails. *)
LEMMA SingleStepMoves ==
  ASSUME NEW r, Orderly(r), Running(r), NEW buttons \in SUBSET Buttons,
         NEW q \in SingleStep(r, buttons)
  PROVE  Orderly(q) /\ q.options = r.options /\ (q.failed \/ Uses(r, q, buttons))
<1> DEFINE begun == [r EXCEPT !.steps = 0, !.used = {}]
<1>1. r \in RuntimeType /\ r.frame \in Nat
  BY DEF Orderly, RuntimeType
<1>2. /\ begun \in RuntimeType /\ SameHandles(r, begun) /\ begun.frame = r.frame
      /\ begun.steps = 0 /\ begun.failed = r.failed /\ begun.finished = r.finished
  BY <1>1 DEF RuntimeType, SameHandles
<1>3. q \in StepsOf(begun, 1, buttons)
  BY DEF SingleStep
<1> HIDE DEF begun
<1>4. q \in Turn(begun, buttons)
  BY <1>3, OneStepIsATurn
<1>5. Orderly(begun)
  BY <1>2, SameHandlesOrderly
<1>6. Moved(begun, begun, buttons) /\ Running(begun)
  BY <1>1, <1>2, <1>5 DEF Moved, Running, SameHandles
<1>7. Moved(begun, q, buttons) /\ (q.failed \/ Uses(begun, q, buttons))
  BY <1>1, <1>2, <1>4, <1>6, TurnMoves
<1>8. begun.options = r.options
  BY <1>2 DEF SameHandles
<1> QED
  BY <1>2, <1>7, <1>8 DEF Moved, Uses, Over
-----------------------------------------------------------------------------
(* Evidence and exits *)

(* The states in the middle of a callback. *)
Demos == [v : ViewType, r : RuntimeType, skip : BOOLEAN]

(* What was pressed, and what has been done with it, stays as it is. *)
Calm(w, x) ==
  /\ x.v.pending = w.v.pending /\ x.v.restarted = w.v.restarted
  /\ x.v.settings = w.v.settings /\ x.v.options = w.v.options
  /\ w.v.failure => x.v.failure
  /\ x.r.used = w.r.used /\ x.r.frame = w.r.frame /\ x.r.options = w.r.options
  /\ x.skip = w.skip

(* Only the picture has changed: captures, what was shown, the warm-up. *)
Alike(w, x) ==
  /\ x \in Demos /\ x.r = w.r /\ Calm(w, x)
  /\ x.v.at = w.v.at /\ x.v.failure = w.v.failure
  /\ x.v.captured = w.v.captured /\ x.v.written = w.v.written
  /\ x.v.evidence = w.v.evidence
  /\ x.v.exiting = w.v.exiting /\ x.v.exit = w.v.exit

(* The invariant does not speak of the picture. *)
LEMMA AlikeFits ==
  ASSUME NEW w, NEW x, Alike(w, x), Fits(w.v, w.r)
  PROVE  Fits(x.v, x.r)
<1>1. SmokeFits(w.v, w.r) => SmokeFits(x.v, x.r)
  BY DEF Alike, SmokeFits, Proven
<1>2. x.v \in ViewType
  BY DEF Alike, Demos
<1> QED
  BY <1>1, <1>2 DEF Alike, Calm, Fits

(* Two changes of the picture are one. *)
LEMMA AlikeTwice ==
  ASSUME NEW w, NEW x, NEW y, Alike(w, x), Alike(x, y)
  PROVE  Alike(w, y)
  BY DEF Alike, Calm

(* Two calm changes are one. *)
LEMMA CalmTwice ==
  ASSUME NEW w, NEW x, NEW y, Calm(w, x), Calm(x, y)
  PROVE  Calm(w, y)
  BY DEF Calm

(* A capture is asked for, or one is pending already. *)
LEMMA CaptureAlike ==
  ASSUME NEW w \in Demos, NEW name \in Names
  PROVE  Alike(w, RequestCapture(w, name))
<1> DEFINE x == RequestCapture(w, name)
           v == [w.v EXCEPT !.capture = name]
<1>1. Alike(w, w)
  BY DEF Alike, Calm
<1>2. w.v \in ViewType /\ w.r \in RuntimeType /\ w.skip \in BOOLEAN
  BY DEF Demos
<1>3. [w EXCEPT !.v = [@ EXCEPT !.capture = name]] = [v |-> v, r |-> w.r, skip |-> w.skip]
  BY DEF Demos
<1>4. /\ v \in ViewType /\ v.pending = w.v.pending /\ v.restarted = w.v.restarted
      /\ v.settings = w.v.settings /\ v.options = w.v.options
      /\ v.failure = w.v.failure /\ v.at = w.v.at
      /\ v.captured = w.v.captured /\ v.written = w.v.written
      /\ v.evidence = w.v.evidence /\ v.exiting = w.v.exiting /\ v.exit = w.v.exit
  BY <1>2 DEF ViewType
<1> HIDE DEF v
<1>5. Alike(w, [v |-> v, r |-> w.r, skip |-> w.skip])
  BY <1>2, <1>4 DEF Alike, Calm, Demos
<1> QED
  BY <1>1, <1>3, <1>5 DEF RequestCapture

(* What has been shown is remembered. *)
LEMMA ProjectedAlike ==
  ASSUME NEW w \in Demos
  PROVE  Alike(w, [w EXCEPT !.v = Projected(@, w.r)])
<1> DEFINE v == Projected(w.v, w.r)
<1>1. w.v \in ViewType /\ w.r \in RuntimeType /\ w.skip \in BOOLEAN
  BY DEF Demos
<1>2. [w EXCEPT !.v = Projected(@, w.r)] = [v |-> v, r |-> w.r, skip |-> w.skip]
  BY DEF Demos
<1>3. /\ v \in ViewType /\ v.pending = w.v.pending /\ v.restarted = w.v.restarted
      /\ v.settings = w.v.settings /\ v.options = w.v.options
      /\ v.failure = w.v.failure /\ v.at = w.v.at
      /\ v.captured = w.v.captured /\ v.written = w.v.written
      /\ v.evidence = w.v.evidence /\ v.exiting = w.v.exiting /\ v.exit = w.v.exit
  BY <1>1 DEF Projected, ViewType, RuntimeType
<1> HIDE DEF v
<1>4. Alike(w, [v |-> v, r |-> w.r, skip |-> w.skip])
  BY <1>1, <1>3 DEF Alike, Calm, Demos
<1> QED
  BY <1>2, <1>4

(* What SaveEvidence writes. *)
Evident(w, success, disk, x) ==
  /\ x \in Demos /\ x.r = w.r /\ Calm(w, x)
  /\ x.v.written
  /\ x.v.evidence.success <=> success /\ Complete(w.v, w.r)
  /\ x.v.evidence.saved <=> disk
  /\ x.v.at = w.v.at /\ x.v.captured = w.v.captured
  /\ x.v.exiting = w.v.exiting /\ x.v.exit = w.v.exit

(* SaveEvidence writes it (SaveEvidence in RollbackArenaView.cpp). *)
LEMMA SaveIs ==
  ASSUME NEW w \in Demos, NEW success \in BOOLEAN, NEW disk \in BOOLEAN
  PROVE  Evident(w, success, disk, SaveEvidence(w, success, disk))
<1> DEFINE good == success /\ Complete(w.v, w.r)
           evidence == [success |-> good, saved |-> disk]
           v == [w.v EXCEPT !.written = TRUE, !.failure = @ \/ ~ good, !.evidence = evidence]
           x == SaveEvidence(w, success, disk)
<1>1. w.v \in ViewType /\ w.r \in RuntimeType /\ w.skip \in BOOLEAN
  BY DEF Demos
<1>2. x = [v |-> v, r |-> w.r, skip |-> w.skip]
  <2>1. x = [w EXCEPT !.v = v]
    BY DEF SaveEvidence
  <2> HIDE DEF v, x
  <2> QED
    BY <2>1 DEF Demos
<1>3. good \in BOOLEAN
  BY DEF Complete
<1>4. evidence \in [success : BOOLEAN, saved : BOOLEAN] /\ evidence.success = good /\ evidence.saved = disk
  BY <1>3
<1> HIDE DEF good, evidence
<1>5. /\ v \in ViewType /\ v.pending = w.v.pending /\ v.restarted = w.v.restarted
      /\ v.settings = w.v.settings /\ v.options = w.v.options
      /\ (w.v.failure => v.failure) /\ v.at = w.v.at
      /\ v.captured = w.v.captured /\ v.written
      /\ v.evidence = evidence /\ v.exiting = w.v.exiting /\ v.exit = w.v.exit
  BY <1>1, <1>3, <1>4 DEF ViewType
<1> HIDE DEF v, x
<1>6. x \in Demos /\ x.r = w.r /\ x.v = v /\ x.skip = w.skip
  BY <1>1, <1>2, <1>5 DEF Demos
<1>7. Calm(w, x)
  BY <1>5, <1>6 DEF Calm
<1>8. (x.v.evidence.success <=> good) /\ (x.v.evidence.saved <=> disk)
  BY <1>4, <1>5, <1>6
<1> QED
  BY <1>5, <1>6, <1>7, <1>8 DEF x, good, Evident

(* A demo that has ended with an error, or was asked to exit. *)
LEMMA EndedIs ==
  ASSUME NEW w \in Demos, Orderly(w.r)
  PROVE  LET x == [w EXCEPT !.v = [@ EXCEPT !.exiting = TRUE, !.exit = 1, !.handler = FALSE,
                                            !.capture = "none"],
                            !.r = Stop(@)]
         IN  /\ x \in Demos /\ Calm(w, x) /\ Orderly(x.r) /\ x.r.held = {}
             /\ x.r.failed = w.r.failed
             /\ x.v.exiting /\ x.v.exit = 1 /\ x.v.at = w.v.at
             /\ x.v.written = w.v.written /\ x.v.evidence = w.v.evidence
<1> DEFINE v == [w.v EXCEPT !.exiting = TRUE, !.exit = 1, !.handler = FALSE, !.capture = "none"]
           s == Stop(w.r)
           x == [w EXCEPT !.v = [@ EXCEPT !.exiting = TRUE, !.exit = 1, !.handler = FALSE,
                                          !.capture = "none"],
                          !.r = Stop(@)]
<1>1. Orderly(s) /\ SameRun(w.r, s) /\ s.held = {}
  BY OrderlyIsSound, StopEmpties
<1>2. x = [w EXCEPT !.v = v, !.r = s]
  BY DEF Demos
<1>3. w.v \in ViewType /\ w.skip \in BOOLEAN
  BY DEF Demos
<1>4. /\ v \in ViewType /\ v.pending = w.v.pending /\ v.restarted = w.v.restarted
      /\ v.settings = w.v.settings /\ v.options = w.v.options
      /\ v.failure = w.v.failure /\ v.at = w.v.at
      /\ v.written = w.v.written /\ v.evidence = w.v.evidence
      /\ v.exiting /\ v.exit = 1
  BY <1>3 DEF ViewType
<1> HIDE DEF v, s, x
<1>5. x \in Demos /\ x.v = v /\ x.r = s /\ x.skip = w.skip
  BY <1>1, <1>2, <1>3, <1>4 DEF Demos, Orderly
<1>6. Calm(w, x)
  BY <1>1, <1>4, <1>5 DEF Calm, SameRun
<1> QED
  BY <1>1, <1>4, <1>5, <1>6 DEF x, SameRun

(* An exit without an error is asked of the engine, and nothing else.      *)
LEMMA AskedIs ==
  ASSUME NEW w \in Demos
  PROVE  LET x == [w EXCEPT !.v = [@ EXCEPT !.exiting = TRUE]]
         IN  /\ x \in Demos /\ Calm(w, x) /\ x.r = w.r
             /\ x.v.exiting /\ x.v.exit = w.v.exit /\ x.v.at = w.v.at
             /\ x.v.written = w.v.written /\ x.v.evidence = w.v.evidence
             /\ x.v.captured = w.v.captured
<1> DEFINE v == [w.v EXCEPT !.exiting = TRUE]
           x == [w EXCEPT !.v = [@ EXCEPT !.exiting = TRUE]]
<1>1. x = [w EXCEPT !.v = v]
  BY DEF Demos
<1>2. w.v \in ViewType
  BY DEF Demos
<1>3. /\ v \in ViewType /\ v.pending = w.v.pending /\ v.restarted = w.v.restarted
      /\ v.settings = w.v.settings /\ v.options = w.v.options
      /\ v.failure = w.v.failure /\ v.at = w.v.at /\ v.captured = w.v.captured
      /\ v.written = w.v.written /\ v.evidence = w.v.evidence
      /\ v.exiting /\ v.exit = w.v.exit
  BY <1>2 DEF ViewType
<1> HIDE DEF v, x
<1>4. x \in Demos /\ x.v = v /\ x.r = w.r /\ x.skip = w.skip
  BY <1>1, <1>3 DEF Demos
<1>5. Calm(w, x)
  BY <1>3, <1>4 DEF Calm
<1> QED
  BY <1>3, <1>4, <1>5 DEF x

(* A demo in a callback: it plays, and its process has not ended. *)
Called(w) ==
  /\ w \in Demos /\ Orderly(w.r) /\ w.v.settings = w.r.options
  /\ w.v.exit = -1 /\ w.v.at = "playing"

(* What a smoke test has come to when it quits with a status. *)
MayQuit(w, status) ==
  w.v.options.smoke =>
    IF w.v.exiting THEN w.v.written /\ Proven(w.v, w.r)
    ELSE w.v.written =>
           IF status = 0 THEN Proven(w.v, w.r)
           ELSE ~ (w.v.evidence.success /\ w.v.evidence.saved)

(* Quit keeps the invariant: evidence is written before the exit (Quit in  *)
(* RollbackArenaView.cpp).                                                 *)
LEMMA QuitFits ==
  ASSUME NEW w, Called(w), w.r.failed => w.v.failure, NEW status \in {0, 1}, NEW disk \in BOOLEAN,
         MayQuit(w, status)
  PROVE  LET x == Quit(w, status, disk)
         IN  /\ x \in Demos /\ Calm(w, x) /\ Fits(x.v, x.r)
             /\ x.v.exiting /\ x.v.at = "playing"
<1> DEFINE early == w.v.options.smoke /\ ~ w.v.written
           evident == SaveEvidence(w, FALSE, disk)
           saved == IF early THEN evident ELSE w
           ended == [saved EXCEPT !.v = [@ EXCEPT !.exiting = TRUE, !.exit = 1, !.handler = FALSE,
                                                  !.capture = "none"],
                                  !.r = Stop(@)]
           asked == [saved EXCEPT !.v = [@ EXCEPT !.exiting = TRUE]]
           x == Quit(w, status, disk)
<1>1. x = IF w.v.exiting THEN w ELSE IF early \/ status # 0 THEN ended ELSE asked
  BY DEF Quit
<1>2. w \in Demos /\ Orderly(w.r) /\ w.v.exit = -1 /\ w.v.at = "playing" /\ w.v \in ViewType
  BY DEF Called, Demos
<1>3. CASE w.v.exiting
  <2>1. w.v.options.smoke => SmokeFits(w.v, w.r)
    BY <1>2, <1>3 DEF MayQuit, SmokeFits
  <2>2. Fits(w.v, w.r) /\ Calm(w, w)
    BY <1>2, <2>1 DEF Fits, Calm, Called
  <2>3. x = w
    BY <1>1, <1>3
  <2> HIDE DEF x
  <2> QED
    BY <1>2, <1>3, <2>2, <2>3 DEF x
<1>4. CASE ~ w.v.exiting
  <2>1. /\ evident \in Demos /\ evident.r = w.r /\ Calm(w, evident)
        /\ evident.v.written /\ ~ evident.v.evidence.success
        /\ evident.v.at = w.v.at /\ evident.v.exit = w.v.exit
    <3>1. Evident(w, FALSE, disk, evident)
      BY <1>2, SaveIs
    <3> HIDE DEF evident
    <3> QED
      BY <3>1 DEF Evident
  <2> HIDE DEF evident
  <2>2. /\ saved \in Demos /\ saved.r = w.r /\ Calm(w, saved)
        /\ saved.v.at = "playing" /\ saved.v.exit = -1
        /\ saved.v.options.smoke => saved.v.written
    <3>1. Calm(w, w)
      BY DEF Calm
    <3>2. evident.v.options = w.v.options
      BY <2>1 DEF Calm
    <3> QED
      BY <1>2, <2>1, <3>1, <3>2
  <2>3. early => ~ saved.v.evidence.success
    BY <2>1
  <2>4. ~ early => saved = w
    OBVIOUS
  <2> HIDE DEF saved
  <2>5. CASE early \/ status # 0
    <3>1. /\ ended \in Demos /\ Calm(saved, ended) /\ Orderly(ended.r) /\ ended.r.held = {}
          /\ ended.r.failed = saved.r.failed
          /\ ended.v.exiting /\ ended.v.exit = 1 /\ ended.v.at = saved.v.at
          /\ ended.v.written = saved.v.written /\ ended.v.evidence = saved.v.evidence
      BY <1>2, <2>2, EndedIs
    <3> HIDE DEF ended
    <3>2. Calm(w, ended)
      BY <2>2, <3>1, CalmTwice
    <3>3. ended.v.options.smoke => ~ (ended.v.evidence.success /\ ended.v.evidence.saved)
      BY <1>4, <2>2, <2>3, <2>4, <2>5, <3>1, <3>2 DEF Calm, MayQuit
    <3>4. ended.v.options.smoke => SmokeFits(ended.v, ended.r)
      BY <2>2, <3>1, <3>2, <3>3 DEF SmokeFits, Calm
    <3>5. ended.r.failed => ended.v.failure
      BY <2>2, <3>1, <3>2 DEF Calm
    <3>6. Fits(ended.v, ended.r)
      BY <2>2, <3>1, <3>2, <3>4, <3>5 DEF Fits, Demos, Calm, Called
    <3>7. x = ended
      BY <1>1, <1>4, <2>5
    <3> HIDE DEF x
    <3> QED
      BY <2>2, <3>1, <3>2, <3>6, <3>7 DEF x
  <2>6. CASE ~ (early \/ status # 0)
    <3>1. /\ asked \in Demos /\ Calm(saved, asked) /\ asked.r = saved.r
          /\ asked.v.exiting /\ asked.v.exit = saved.v.exit /\ asked.v.at = saved.v.at
          /\ asked.v.written = saved.v.written /\ asked.v.evidence = saved.v.evidence
          /\ asked.v.captured = saved.v.captured
      BY <2>2, AskedIs
    <3> HIDE DEF asked
    <3>2. Calm(w, asked)
      BY <2>2, <3>1, CalmTwice
    <3>3. asked.v.options.smoke => Proven(w.v, w.r) /\ asked.v.written
      BY <1>4, <2>2, <2>4, <2>6, <3>1, <3>2 DEF Calm, MayQuit
    <3>4. asked.v.options.smoke => SmokeFits(asked.v, asked.r)
      BY <2>2, <2>4, <2>6, <3>1, <3>3 DEF SmokeFits, Proven
    <3>5. Fits(asked.v, asked.r)
      BY <1>2, <2>2, <3>1, <3>2, <3>4 DEF Fits, Demos, Calm, Called
    <3>6. x = asked
      BY <1>1, <1>4, <2>6
    <3> HIDE DEF x
    <3> QED
      BY <2>2, <3>1, <3>2, <3>5, <3>6 DEF x
  <2> QED
    BY <2>5, <2>6
<1> QED
  BY <1>3, <1>4

(* The evidence of a failure is written, and the demo exits. *)
LEMMA FailedExits ==
  ASSUME NEW w, Called(w), ~ w.v.exiting, w.r.failed => w.v.failure, NEW disk \in BOOLEAN
  PROVE  LET x == Quit(SaveEvidence(w, FALSE, disk), 1, disk)
         IN  /\ x \in Demos /\ Calm(w, x) /\ Fits(x.v, x.r)
             /\ x.v.exiting /\ x.v.at = "playing"
<1> DEFINE saved == SaveEvidence(w, FALSE, disk)
           x == Quit(saved, 1, disk)
<1>1. /\ saved \in Demos /\ saved.r = w.r /\ Calm(w, saved)
      /\ ~ saved.v.evidence.success /\ saved.v.at = w.v.at
      /\ saved.v.exiting = w.v.exiting /\ saved.v.exit = w.v.exit
  <2>1. Evident(w, FALSE, disk, saved)
    BY SaveIs DEF Called
  <2> HIDE DEF saved
  <2> QED
    BY <2>1 DEF Evident
<1> HIDE DEF saved
<1>2. Called(saved) /\ (saved.r.failed => saved.v.failure)
  BY <1>1 DEF Called, Calm
<1>3. MayQuit(saved, 1)
  BY <1>1 DEF MayQuit
<1>4. /\ x \in Demos /\ Calm(saved, x) /\ Fits(x.v, x.r)
      /\ x.v.exiting /\ x.v.at = "playing"
  BY <1>2, <1>3, QuitFits
<1> HIDE DEF x
<1>5. Calm(w, x)
  BY <1>1, <1>4, CalmTwice
<1> QED
  BY <1>4, <1>5 DEF x, saved

(* A failure: the demo stays as it was, or its smoke test exits, or does   *)
(* so after a last capture.                                                *)
LEMMA FailFits ==
  ASSUME NEW w, Called(w), w.v.options.smoke => SmokeFits(w.v, w.r), NEW disk \in BOOLEAN
  PROVE  LET x == Fail(w, disk)
         IN  /\ x \in Demos /\ Calm(w, x) /\ Fits(x.v, x.r)
             /\ x.v.failure /\ x.v.at = "playing"
             /\ x.v.exiting \/ x.v.exit = -1
             /\ ~ w.v.options.smoke => x.v.exit = -1
<1> DEFINE v == [w.v EXCEPT !.failure = TRUE]
           failed == [w EXCEPT !.v = [@ EXCEPT !.failure = TRUE]]
           shown == [Projected(v, w.r) EXCEPT !.attempted = TRUE, !.failureCapture = TRUE]
           last == [failed EXCEPT !.v = [Projected(@, w.r) EXCEPT !.attempted = TRUE,
                                                                 !.failureCapture = TRUE]]
           captured == RequestCapture(last, "desync")
           ended == Quit(SaveEvidence(failed, FALSE, disk), 1, disk)
           x == Fail(w, disk)
<1>1. x = failed \/ (w.v.options.smoke /\ ~ w.v.written /\ (x = captured \/ x = ended))
  BY DEF Fail
<1>2. w \in Demos /\ w.v \in ViewType /\ w.r \in RuntimeType /\ Orderly(w.r)
  BY DEF Called, Demos
<1>3. /\ v \in ViewType /\ v.pending = w.v.pending /\ v.restarted = w.v.restarted
      /\ v.settings = w.v.settings /\ v.options = w.v.options
      /\ v.failure /\ v.at = w.v.at /\ v.captured = w.v.captured
      /\ v.written = w.v.written /\ v.evidence = w.v.evidence
      /\ v.exiting = w.v.exiting /\ v.exit = w.v.exit
  BY <1>2 DEF ViewType
<1>4. failed = [w EXCEPT !.v = v]
  BY DEF Demos
<1>5. /\ shown \in ViewType /\ shown.pending = v.pending /\ shown.restarted = v.restarted
      /\ shown.settings = v.settings /\ shown.options = v.options
      /\ shown.failure = v.failure /\ shown.at = v.at /\ shown.captured = v.captured
      /\ shown.written = v.written /\ shown.evidence = v.evidence
      /\ shown.exiting = v.exiting /\ shown.exit = v.exit
  <2> HIDE DEF v
  <2> QED
    BY <1>2, <1>3 DEF Projected, ViewType, RuntimeType
<1> HIDE DEF v, shown
<1>6. failed \in Demos /\ failed.v = v /\ failed.r = w.r /\ failed.skip = w.skip
  <2> HIDE DEF failed
  <2> QED
    BY <1>2, <1>3, <1>4 DEF Demos
<1>7. last = [failed EXCEPT !.v = shown]
  <2> HIDE DEF failed
  <2> QED
    BY <1>6 DEF shown
<1> HIDE DEF failed, last
<1>8. Calm(w, failed)
  BY <1>3, <1>6 DEF Calm
<1>9. Alike(failed, last)
  <2>1. last \in Demos /\ last.v = shown /\ last.r = failed.r /\ last.skip = failed.skip
    BY <1>5, <1>6, <1>7 DEF Demos
  <2> QED
    BY <1>5, <1>6, <2>1 DEF Alike, Calm
<1>10. Called(failed) /\ Fits(failed.v, failed.r)
  <2>1. Called(failed)
    BY <1>3, <1>6 DEF Called
  <2>2. failed.v.options.smoke => SmokeFits(failed.v, failed.r)
    BY <1>3, <1>6 DEF SmokeFits, Proven
  <2> QED
    BY <1>3, <1>6, <2>1, <2>2 DEF Called, Fits, Demos
<1>11. w.v.exit = -1 /\ w.v.at = "playing"
  BY DEF Called
<1> HIDE DEF captured, ended, x
<1>12. CASE x = failed
  BY <1>3, <1>6, <1>8, <1>10, <1>11, <1>12 DEF x
<1>13. CASE w.v.options.smoke /\ x = captured
  <2>1. last \in Demos /\ "desync" \in Names
    BY <1>9 DEF Alike, Names
  <2>2. Alike(last, captured)
    BY <2>1, CaptureAlike DEF captured
  <2>3. Alike(failed, captured)
    BY <1>9, <2>2, AlikeTwice
  <2>4. Fits(captured.v, captured.r)
    BY <1>10, <2>3, AlikeFits
  <2>5. captured \in Demos /\ Calm(w, captured)
    BY <1>8, <2>3, CalmTwice DEF Alike
  <2>6. captured.v.failure /\ captured.v.at = "playing" /\ captured.v.exit = -1
    BY <1>3, <1>6, <1>11, <2>3 DEF Alike
  <2> QED
    BY <1>13, <2>4, <2>5, <2>6 DEF x
<1>14. CASE w.v.options.smoke /\ ~ w.v.written /\ x = ended
  <2>1. ~ w.v.exiting
    BY <1>14 DEF SmokeFits
  <2>2. ~ failed.v.exiting /\ failed.v.failure
    BY <1>3, <1>6, <2>1
  <2>3. /\ ended \in Demos /\ Calm(failed, ended) /\ Fits(ended.v, ended.r)
        /\ ended.v.exiting /\ ended.v.at = "playing"
    BY <1>10, <2>2, FailedExits DEF ended
  <2>4. Calm(w, ended) /\ ended.v.failure
    BY <1>8, <2>2, <2>3, CalmTwice DEF Calm
  <2> QED
    BY <1>14, <2>3, <2>4 DEF x
<1> QED
  BY <1>1, <1>12, <1>13, <1>14

(* The end of a tick: a capture, or the verdict. *)
LEMMA ConcludedFits ==
  ASSUME NEW w, Called(w), Fits(w.v, w.r), ~ w.v.failure, ~ w.v.exiting, NEW disk \in BOOLEAN
  PROVE  LET x == Concluded(w, disk) IN Calm(w, x) /\ Fits(x.v, x.r)
<1> DEFINE shown == [w EXCEPT !.v = Projected(@, w.r)]
           saved == SaveEvidence(shown, TRUE, disk)
           status == IF saved.v.evidence.success /\ disk THEN 0 ELSE 1
           ended == Quit(saved, status, disk)
           x == Concluded(w, disk)
<1>1. \/ x = RequestCapture(shown, "correction")
      \/ x = RequestCapture(shown, "final")
      \/ w.v.options.smoke /\ ~ w.v.written /\ x = ended
      \/ x = shown
  BY DEF Concluded
<1>2. Alike(w, shown)
  BY ProjectedAlike DEF Called
<1> HIDE DEF shown
<1>3. shown \in Demos /\ shown.r = w.r /\ Calm(w, shown)
  BY <1>2 DEF Alike
<1>4. "correction" \in Names /\ "final" \in Names
  BY DEF Names
<1>5. \A name \in Names : Alike(w, RequestCapture(shown, name))
  <2> TAKE name \in Names
  <2>1. Alike(shown, RequestCapture(shown, name))
    BY <1>3, CaptureAlike
  <2> QED
    BY <1>2, <2>1, AlikeTwice
<1>6. CASE Alike(w, x)
  <2>1. Fits(x.v, x.r)
    BY <1>6, AlikeFits
  <2>2. Calm(w, x)
    BY <1>6 DEF Alike
  <2> QED
    BY <2>1, <2>2
<1>7. CASE w.v.options.smoke /\ ~ w.v.written /\ x = ended
  <2>1. /\ saved \in Demos /\ saved.r = shown.r /\ Calm(shown, saved)
        /\ saved.v.evidence.success <=> Complete(shown.v, shown.r)
        /\ saved.v.evidence.saved <=> disk
        /\ saved.v.at = shown.v.at /\ saved.v.captured = shown.v.captured
        /\ saved.v.exiting = shown.v.exiting /\ saved.v.exit = shown.v.exit
    <3>1. Evident(shown, TRUE, disk, saved)
      BY <1>3, SaveIs DEF saved
    <3> HIDE DEF saved
    <3> QED
      BY <3>1 DEF Evident
  <2> HIDE DEF saved
  <2>2. /\ Called(saved) /\ ~ saved.r.failed /\ ~ saved.v.exiting
    BY <1>2, <1>3, <2>1 DEF Called, Fits, Alike, Calm
  <2>3. Complete(shown.v, shown.r) =>
          /\ shown.r.result = "agreed" /\ {"start", "final"} \subseteq shown.v.captured
          /\ Rolled(shown.r) => "correction" \in shown.v.captured
    BY DEF Complete
  <2>4. saved.v.evidence.success /\ saved.v.evidence.saved => Proven(saved.v, saved.r)
    BY <2>1, <2>2, <2>3 DEF Proven
  <2>5. MayQuit(saved, status)
    BY <2>1, <2>2, <2>4 DEF MayQuit
  <2>6. status \in {0, 1}
    OBVIOUS
  <2> HIDE DEF status
  <2>7. Calm(saved, ended) /\ Fits(ended.v, ended.r)
    BY <2>2, <2>5, <2>6, QuitFits
  <2> HIDE DEF ended
  <2>8. Calm(w, ended)
    BY <1>3, <2>1, <2>7, CalmTwice
  <2> HIDE DEF x
  <2> QED
    BY <1>7, <2>7, <2>8 DEF x
<1> QED
  <2>1. Alike(w, RequestCapture(shown, "correction")) /\ Alike(w, RequestCapture(shown, "final"))
    BY <1>4, <1>5
  <2> HIDE DEF x, ended
  <2>2. Alike(w, x) \/ (w.v.options.smoke /\ ~ w.v.written /\ x = ended)
    BY <1>1, <1>2, <2>1
  <2> QED
    BY <1>6, <1>7, <2>2
-----------------------------------------------------------------------------
(* The ticks of the engine *)

(* What a step is given are buttons of the player. *)
LEMMA GivenType ==
  ASSUME NEW w \in Demos
  PROVE  Given(w.v) \in SUBSET Buttons
  BY DEF Given, Demos, ViewType

(* In a smoke test that runs nothing has been written. *)
LEMMA NothingWritten ==
  ASSUME NEW w, Called(w), Fits(w.v, w.r), ~ w.v.exiting, w.v.options.smoke
  PROVE  ~ w.v.written
  BY DEF Called, Fits, SmokeFits

(* The clock has been advanced: if a step has used what was pressed, it is *)
(* no longer pending.                                                      *)
LEMMA PlayedFits ==
  ASSUME NEW w, Called(w), Fits(w.v, w.r), ~ w.v.failure, ~ w.v.exiting, NEW disk \in BOOLEAN,
         NEW r, Moved(w.r, r, Given(w.v))
  PROVE  LET x == Played(w, r, disk)
         IN  /\ Fits(x.v, x.r)
             /\ x.v.options = w.v.options /\ x.v.settings = w.v.settings
             /\ x.v.failure \/ x.v.pending = w.v.pending \/ Uses(w.r, x.r, Given(w.v))
<1> DEFINE s == [r EXCEPT !.steps = 0]
           v == [w.v EXCEPT !.pending = IF r.steps > 0 THEN {} ELSE w.v.pending]
           played == [w EXCEPT !.r = [r EXCEPT !.steps = 0],
                               !.v = [@ EXCEPT !.pending = IF r.steps > 0 THEN {} ELSE w.v.pending]]
           x == Played(w, r, disk)
<1>1. x = IF r.failed THEN Fail(played, disk) ELSE Concluded(played, disk)
  BY DEF Played
<1>2. /\ w.v \in ViewType /\ w \in Demos /\ w.v.exit = -1 /\ w.v.at = "playing"
  BY DEF Called, Demos
<1>3. r \in RuntimeType /\ Orderly(r)
  BY DEF Moved, Orderly
<1>4. played = [w EXCEPT !.r = s, !.v = v]
  BY <1>2 DEF Demos
<1>5. /\ s \in RuntimeType /\ SameHandles(r, s) /\ s.failed = r.failed
      /\ s.used = r.used /\ s.frame = r.frame
  BY <1>3 DEF RuntimeType, SameHandles
<1>6. /\ v \in ViewType /\ v.pending = IF r.steps > 0 THEN {} ELSE w.v.pending
      /\ v.options = w.v.options /\ v.settings = w.v.settings /\ v.at = w.v.at
      /\ v.failure = w.v.failure /\ v.exiting = w.v.exiting /\ v.exit = w.v.exit
      /\ v.written = w.v.written
  BY <1>2 DEF ViewType
<1> HIDE DEF s, v, played, x
<1>7. played \in Demos /\ played.v = v /\ played.r = s
  BY <1>2, <1>4, <1>5, <1>6 DEF Demos
<1>8. Orderly(s)
  BY <1>3, <1>5, SameHandlesOrderly
<1>9. Called(played)
  <2>1. s.options = w.r.options
    BY <1>5 DEF Moved, SameHandles
  <2> QED
    BY <1>2, <1>6, <1>7, <1>8, <2>1 DEF Called
<1>10. played.v.options.smoke => SmokeFits(played.v, played.r)
  <2>1. w.v.options.smoke => ~ w.v.written
    BY NothingWritten
  <2> QED
    BY <1>2, <1>6, <1>7, <2>1 DEF SmokeFits
<1>11. CASE r.failed
  <2> DEFINE f == Fail(played, disk)
  <2>1. Fits(f.v, f.r) /\ f.v.failure /\ Calm(played, f)
    BY <1>9, <1>10, FailFits
  <2>2. x = f
    BY <1>1, <1>11
  <2> HIDE DEF f
  <2> QED
    BY <1>6, <1>7, <2>1, <2>2 DEF x, Calm
<1>12. CASE ~ r.failed
  <2> DEFINE c == Concluded(played, disk)
  <2>1. Fits(played.v, played.r)
    BY <1>2, <1>5, <1>6, <1>7, <1>8, <1>9, <1>10, <1>12 DEF Fits, Called
  <2>2. ~ played.v.failure /\ ~ played.v.exiting
    BY <1>6, <1>7
  <2>3. Calm(played, c) /\ Fits(c.v, c.r)
    BY <1>9, <2>1, <2>2, ConcludedFits
  <2>4. x = c
    BY <1>1, <1>12
  <2> HIDE DEF c
  <2>5. r.steps \in Nat /\ (r.steps = 0 \/ Uses(w.r, r, Given(w.v)))
    BY <1>3, <1>12 DEF Moved, RuntimeType
  <2>6. /\ c.v.options = w.v.options /\ c.v.settings = w.v.settings
        /\ c.v.pending = w.v.pending \/ Uses(w.r, c.r, Given(w.v))
    BY <1>5, <1>6, <1>7, <2>3, <2>5 DEF Calm, Uses
  <2> QED
    BY <2>3, <2>4, <2>6 DEF x
<1> QED
  BY <1>11, <1>12

(* Before the game only the warm-up and the first capture happen. *)
LEMMA WarmedUpFits ==
  ASSUME NEW w \in Demos, NEW presented \in BOOLEAN
  PROVE  Alike(w, WarmedUp(w, presented))
<1> DEFINE shown == [w EXCEPT !.v = Projected(@, w.r)]
           Warm(n) == [shown EXCEPT !.v = [@ EXCEPT !.warmup = n]]
<1>1. Alike(w, shown)
  BY ProjectedAlike
<1>2. WarmedUp(w, presented) \in
        {Warm(WarmupTicks), shown, RequestCapture(shown, "start")}
          \union (IF w.v.warmup > 0 THEN {Warm(w.v.warmup - 1)} ELSE {})
  BY DEF WarmedUp
<1> HIDE DEF shown
<1>3. shown \in Demos
  BY <1>1 DEF Alike
<1>4. ASSUME NEW n \in Nat
      PROVE  Alike(w, Warm(n))
  <2> DEFINE v == [shown.v EXCEPT !.warmup = n]
  <2>1. shown.v \in ViewType
    BY <1>3 DEF Demos
  <2>2. /\ v \in ViewType /\ v.pending = shown.v.pending /\ v.restarted = shown.v.restarted
        /\ v.settings = shown.v.settings /\ v.options = shown.v.options
        /\ v.failure = shown.v.failure /\ v.at = shown.v.at
        /\ v.captured = shown.v.captured /\ v.written = shown.v.written
        /\ v.evidence = shown.v.evidence /\ v.exiting = shown.v.exiting
        /\ v.exit = shown.v.exit
    BY <2>1 DEF ViewType
  <2>3. Warm(n) = [shown EXCEPT !.v = v]
    BY <1>3 DEF Demos
  <2> HIDE DEF v, Warm
  <2>4. /\ Warm(n) \in Demos /\ Warm(n).v = v /\ Warm(n).r = shown.r
        /\ Warm(n).skip = shown.skip
    BY <1>3, <2>2, <2>3 DEF Demos
  <2>5. Alike(shown, Warm(n))
    BY <2>2, <2>4 DEF Alike, Calm
  <2> QED
    BY <1>1, <2>5, AlikeTwice
<1>5. WarmupTicks \in Nat /\ (w.v.warmup > 0 => w.v.warmup - 1 \in Nat)
  BY ViewAssumption DEF Demos, ViewType
<1>6. Alike(w, RequestCapture(shown, "start"))
  <2>1. "start" \in Names
    BY DEF Names
  <2>2. Alike(shown, RequestCapture(shown, "start"))
    BY <1>3, <2>1, CaptureAlike
  <2> QED
    BY <1>1, <2>2, AlikeTwice
<1> HIDE DEF Warm
<1>7. Alike(w, Warm(WarmupTicks)) /\ (w.v.warmup > 0 => Alike(w, Warm(w.v.warmup - 1)))
  BY <1>4, <1>5
<1> QED
  BY <1>1, <1>2, <1>6, <1>7
(* What the keys have made of w: what was pressed is still pending, or a   *)
(* step has used it, or the run was started again, or something failed.    *)
Read(w, x) ==
  /\ x \in Demos /\ Fits(x.v, x.r)
  /\ x.v.options = w.v.options /\ x.v.at = "playing"
  /\ x.v.exiting \/ x.v.exit = -1
  /\ \/ x.v.pending = w.v.pending /\ x.v.settings = w.v.settings /\ x.r.frame = w.r.frame
     \/ x.skip /\ Uses(w.r, x.r, Given(w.v))
     \/ x.skip /\ x.v.restarted
     \/ x.v.failure

(* Keys that keep what was pressed. *)
LEMMA CalmIsRead ==
  ASSUME NEW w, NEW x \in Demos, Calm(w, x), Fits(x.v, x.r), x.v.at = "playing",
         x.v.exiting \/ x.v.exit = -1
  PROVE  Read(w, x)
  BY DEF Calm, Read

(* Escape fails or quits, and keeps what was pressed. *)
LEMMA EscapedIsRead ==
  ASSUME NEW w, Called(w), Fits(w.v, w.r), NEW disk \in BOOLEAN
  PROVE  Read(w, Escaped(w, disk))
<1> DEFINE f == Fail(w, disk)
           x == Escaped(w, disk)
<1>1. \/ x = f
      \/ ~ w.v.options.smoke /\ x = Quit(f, 1, disk)
      \/ ~ w.v.options.smoke /\ x = Quit(w, 0, disk)
  BY DEF Escaped
<1>2. /\ f \in Demos /\ Calm(w, f) /\ Fits(f.v, f.r)
      /\ f.v.failure /\ f.v.at = "playing"
      /\ f.v.exiting \/ f.v.exit = -1
      /\ ~ w.v.options.smoke => f.v.exit = -1
  BY FailFits DEF Fits
<1> HIDE DEF f, x
<1>3. CASE x = f
  BY <1>2, <1>3, CalmIsRead DEF x
<1>4. CASE ~ w.v.options.smoke /\ x = Quit(f, 1, disk)
  <2> DEFINE y == Quit(f, 1, disk)
  <2>1. Called(f) /\ MayQuit(f, 1)
    BY <1>2, <1>4 DEF Called, MayQuit, Calm, Fits
  <2>2. /\ y \in Demos /\ Calm(f, y) /\ Fits(y.v, y.r)
        /\ y.v.exiting /\ y.v.at = "playing"
    BY <1>2, <2>1, QuitFits
  <2>3. x = y
    BY <1>4
  <2> HIDE DEF y
  <2>4. Calm(w, y)
    BY <1>2, <2>2, CalmTwice
  <2> QED
    BY <2>2, <2>3, <2>4, CalmIsRead DEF x
<1>5. CASE ~ w.v.options.smoke /\ x = Quit(w, 0, disk)
  <2> DEFINE y == Quit(w, 0, disk)
  <2>1. MayQuit(w, 0) /\ (w.r.failed => w.v.failure)
    BY <1>5 DEF MayQuit, Fits
  <2>2. /\ y \in Demos /\ Calm(w, y) /\ Fits(y.v, y.r)
        /\ y.v.exiting /\ y.v.at = "playing"
    BY <2>1, QuitFits
  <2>3. x = y
    BY <1>5
  <2> HIDE DEF y
  <2> QED
    BY <2>2, <2>3, CalmIsRead DEF x
<1> QED
  BY <1>1, <1>3, <1>4, <1>5

(* The pause stops the clock, and that is all. *)
LEMMA PausedIsRead ==
  ASSUME NEW w, Called(w), Fits(w.v, w.r), ~ w.v.options.smoke
  PROVE  Read(w, [w EXCEPT !.r = [@ EXCEPT !.paused = ~ w.r.paused]])
<1> DEFINE b == ~ w.r.paused
           s == [w.r EXCEPT !.paused = b]
           x == [w EXCEPT !.r = [@ EXCEPT !.paused = ~ w.r.paused]]
<1>1. w \in Demos /\ w.r \in RuntimeType /\ Orderly(w.r) /\ w.v \in ViewType
  BY DEF Called, Demos
<1>2. x = [w EXCEPT !.r = s]
  BY <1>1 DEF Demos
<1>3. b \in BOOLEAN
  OBVIOUS
<1> HIDE DEF b
<1>4. /\ s \in RuntimeType /\ SameHandles(w.r, s) /\ s.failed = w.r.failed
      /\ s.frame = w.r.frame
  BY <1>1, <1>3 DEF RuntimeType, SameHandles
<1> HIDE DEF s, x
<1>5. x \in Demos /\ x.v = w.v /\ x.r = s
  BY <1>1, <1>2, <1>4 DEF Demos
<1>6. Orderly(s)
  BY <1>1, <1>4, SameHandlesOrderly
<1>7. Fits(x.v, x.r)
  BY <1>4, <1>5, <1>6 DEF Fits, SameHandles
<1> QED
  BY <1>4, <1>5, <1>7 DEF Read, Called, x

(* Another run is started, or fails to. *)
LEMMA RestartedIsRead ==
  ASSUME NEW w, Called(w), Fits(w.v, w.r), ~ w.v.options.smoke, NEW disk \in BOOLEAN,
         NEW key, ModeOf(key) \in Modes, NEW fault \in Faults
  PROVE  Read(w, Restarted(w, key, fault, disk))
<1> DEFINE r == Start(w.r, ModeOf(key), fault)
           v == [w.v EXCEPT !.settings = ModeOf(key), !.seen = {}, !.pending = {},
                            !.restarted = TRUE]
           empty == [w EXCEPT !.r = r]
           begun == [w EXCEPT !.r = r, !.skip = TRUE, !.v = v]
           x == Restarted(w, key, fault, disk)
<1>1. x = IF fault # "none" THEN Fail(empty, disk) ELSE begun
  BY DEF Restarted
<1>2. w \in Demos /\ w.r \in RuntimeType /\ Orderly(w.r) /\ w.v \in ViewType
  BY DEF Called, Demos
<1>3. /\ Orderly(r) /\ ~ r.failed
      /\ r.options = IF fault = "none" THEN ModeOf(key) ELSE w.r.options
  BY <1>2, StartFits
<1>4. r \in RuntimeType
  BY <1>3 DEF Orderly
<1>5. /\ v \in ViewType /\ v.settings = ModeOf(key) /\ v.restarted /\ v.options = w.v.options /\ v.at = w.v.at
      /\ v.exiting = w.v.exiting /\ v.exit = w.v.exit
  BY <1>2 DEF ViewType
<1> HIDE DEF r, v, x
<1>6. empty \in Demos /\ empty.v = w.v /\ empty.r = r
  BY <1>2, <1>4 DEF Demos
<1>7. begun \in Demos /\ begun.v = v /\ begun.r = r /\ begun.skip
  BY <1>2, <1>4, <1>5 DEF Demos
<1> HIDE DEF empty, begun
<1>8. CASE fault # "none"
  <2> DEFINE f == Fail(empty, disk)
  <2>1. Called(empty) /\ ~ empty.v.options.smoke
    BY <1>3, <1>6, <1>8 DEF Called
  <2>2. /\ f \in Demos /\ Calm(empty, f) /\ Fits(f.v, f.r)
        /\ f.v.failure /\ f.v.at = "playing" /\ (f.v.exiting \/ f.v.exit = -1)
    BY <2>1, FailFits
  <2>3. x = f
    BY <1>1, <1>8
  <2> HIDE DEF f
  <2>4. f.v.options = w.v.options
    BY <1>6, <2>2 DEF Calm
  <2> QED
    BY <2>2, <2>3, <2>4 DEF x, Read
<1>9. CASE fault = "none"
  <2>1. x = begun
    BY <1>1, <1>9
  <2>2. Fits(begun.v, begun.r)
    BY <1>3, <1>5, <1>7, <1>9 DEF Fits, Called
  <2> QED
    BY <1>5, <1>7, <2>1, <2>2 DEF x, Read, Called
<1> QED
  BY <1>8, <1>9

(* A single step has used what was pressed, or has failed. *)
LEMMA SteppedIsRead ==
  ASSUME NEW w, Called(w), Fits(w.v, w.r), ~ w.v.options.smoke, NEW disk \in BOOLEAN,
         Running(w.r), NEW r \in SingleStep(w.r, Given(w.v))
  PROVE  Read(w, SteppedByKey(w, r, disk))
<1> DEFINE s == [r EXCEPT !.steps = 0]
           v == [w.v EXCEPT !.pending = {}]
           stepped == [w EXCEPT !.r = s, !.skip = TRUE, !.v = v]
           x == SteppedByKey(w, r, disk)
<1>1. x = IF r.failed THEN Fail(stepped, disk) ELSE stepped
  BY DEF SteppedByKey
<1>2. w \in Demos /\ Orderly(w.r) /\ w.v \in ViewType
  BY DEF Called, Demos
<1>3. Orderly(r) /\ r.options = w.r.options /\ (r.failed \/ Uses(w.r, r, Given(w.v)))
  <2>1. Given(w.v) \in SUBSET Buttons
    BY <1>2, GivenType
  <2> QED
    BY <1>2, <2>1, SingleStepMoves
<1>4. r \in RuntimeType
  BY <1>3 DEF Orderly
<1>5. /\ s \in RuntimeType /\ SameHandles(r, s) /\ s.failed = r.failed
      /\ s.used = r.used /\ s.frame = r.frame
  BY <1>4 DEF RuntimeType, SameHandles
<1>6. /\ v \in ViewType /\ v.options = w.v.options /\ v.settings = w.v.settings
      /\ v.at = w.v.at /\ v.exiting = w.v.exiting /\ v.exit = w.v.exit
  BY <1>2 DEF ViewType
<1> HIDE DEF s, v, x
<1>7. stepped \in Demos /\ stepped.v = v /\ stepped.r = s /\ stepped.skip
  BY <1>2, <1>5, <1>6 DEF Demos
<1> HIDE DEF stepped
<1>8. Orderly(s)
  BY <1>3, <1>5, SameHandlesOrderly
<1>9. CASE r.failed
  <2> DEFINE f == Fail(stepped, disk)
  <2>1. Called(stepped) /\ ~ stepped.v.options.smoke
    BY <1>3, <1>5, <1>6, <1>7, <1>8 DEF Called, SameHandles
  <2>2. /\ f \in Demos /\ Calm(stepped, f) /\ Fits(f.v, f.r)
        /\ f.v.failure /\ f.v.at = "playing" /\ (f.v.exiting \/ f.v.exit = -1)
    BY <2>1, FailFits
  <2>3. x = f
    BY <1>1, <1>9
  <2> HIDE DEF f
  <2>4. f.v.options = w.v.options
    BY <1>6, <1>7, <2>2 DEF Calm
  <2> QED
    BY <2>2, <2>3, <2>4 DEF x, Read
<1>10. CASE ~ r.failed
  <2>1. x = stepped
    BY <1>1, <1>10
  <2>2. Fits(stepped.v, stepped.r)
    BY <1>3, <1>5, <1>6, <1>7, <1>8, <1>10 DEF Fits, Called, SameHandles
  <2>3. Uses(w.r, stepped.r, Given(w.v))
    BY <1>3, <1>5, <1>7, <1>10 DEF Uses
  <2> QED
    BY <1>6, <1>7, <1>10, <2>1, <2>2, <2>3 DEF x, Read, Called
<1> QED
  BY <1>9, <1>10

(* Whatever key is pressed. *)
LEMMA ControlledIsRead ==
  ASSUME NEW w, Called(w), Fits(w.v, w.r), NEW disk \in BOOLEAN, NEW key,
         ModeOf(key) \in Modes, NEW x \in Controlled(w, key, disk)
  PROVE  Read(w, x)
<1>1. \/ x = Escaped(w, disk)
      \/ x = w
      \/ ~ w.v.options.smoke /\ x = [w EXCEPT !.r = [@ EXCEPT !.paused = ~ w.r.paused]]
      \/ ~ w.v.options.smoke /\ \E fault \in StartFaults(ModeOf(key)) :
           x = Restarted(w, key, fault, disk)
      \/ ~ w.v.options.smoke /\ Running(w.r) /\ \E r \in SingleStep(w.r, Given(w.v)) :
           x = SteppedByKey(w, r, disk)
  BY DEF Controlled
<1>2. CASE x = w
  <2>1. w \in Demos /\ Calm(w, w) /\ w.v.at = "playing" /\ w.v.exit = -1
    BY DEF Called, Calm
  <2> QED
    BY <1>2, <2>1, CalmIsRead
<1>3. StartFaults(ModeOf(key)) \subseteq Faults
  BY DEF StartFaults, Faults
<1> QED
  BY <1>1, <1>2, <1>3, EscapedIsRead, PausedIsRead, RestartedIsRead, SteppedIsRead
(* What the rest of a tick makes of w: nothing of what was pressed, or it  *)
(* plays, and then a step has used it or it is still pending.              *)
Ticked(w, v, r) ==
  \/ /\ v.pending = w.v.pending /\ r.used = w.r.used /\ r.frame = w.r.frame
     /\ v.restarted = w.v.restarted /\ (w.v.failure => v.failure)
  \/ /\ ~ w.skip /\ ~ w.v.failure
     /\ v.failure \/ v.pending = w.v.pending \/ Uses(w.r, r, Given(w.v))

(* Ticks that take no step. *)
LEMMA CalmIsTicked ==
  ASSUME NEW w, NEW x, Calm(w, x), Fits(x.v, x.r), Becomes(x)
  PROVE  Fits(view', runtime') /\ Ticked(w, view', runtime')
<1>1. view' = x.v /\ runtime' = x.r
  BY DEF Becomes
<1>2. Ticked(w, x.v, x.r)
  BY DEF Calm, Ticked
<1> QED
  BY <1>1, <1>2

(* Every early return of Tick, and its end, keeps the invariant, and what  *)
(* was pressed until a step has used it.                                   *)
LEMMA TickFits ==
  ASSUME NEW w \in Demos, Fits(w.v, w.r), w.v.at = "playing", w.v.exiting \/ w.v.exit = -1,
         NEW disk \in BOOLEAN, Tick(w, disk)
  PROVE  Fits(view', runtime') /\ Ticked(w, view', runtime')
<1>1. Calm(w, w)
  BY DEF Calm
<1>2. CASE Becomes(w)
  BY <1>1, <1>2, CalmIsTicked
<1>3. ASSUME ~ w.v.exiting
      PROVE  Called(w) /\ (w.v.options.smoke => SmokeFits(w.v, w.r)) /\ (w.r.failed => w.v.failure)
  BY <1>3 DEF Called, Fits
<1>4. CASE ~ Leaving(w) /\ Becomes(Fail(w, disk))
  <2>1. Calm(w, Fail(w, disk)) /\ Fits(Fail(w, disk).v, Fail(w, disk).r)
    BY <1>3, <1>4, FailFits DEF Leaving
  <2> QED
    BY <1>4, <2>1, CalmIsTicked
<1>5. CASE /\ ~ Leaving(w)
           /\ Becomes(Quit(SaveEvidence([w EXCEPT !.v = [@ EXCEPT !.failureCapture = FALSE]],
                                         FALSE, disk), 1, disk))
  <2> DEFINE v == [w.v EXCEPT !.failureCapture = FALSE]
             y == [w EXCEPT !.v = [@ EXCEPT !.failureCapture = FALSE]]
             x == Quit(SaveEvidence(y, FALSE, disk), 1, disk)
  <2>1. w.v \in ViewType
    BY DEF Demos
  <2>2. y = [w EXCEPT !.v = v]
    BY DEF Demos
  <2>3. /\ v \in ViewType /\ v.pending = w.v.pending /\ v.restarted = w.v.restarted
        /\ v.settings = w.v.settings /\ v.options = w.v.options
        /\ v.failure = w.v.failure /\ v.at = w.v.at
        /\ v.captured = w.v.captured /\ v.written = w.v.written
        /\ v.evidence = w.v.evidence /\ v.exiting = w.v.exiting /\ v.exit = w.v.exit
    BY <2>1 DEF ViewType
  <2> HIDE DEF v, y
  <2>4. y \in Demos /\ y.v = v /\ y.r = w.r /\ y.skip = w.skip
    BY <2>2, <2>3 DEF Demos
  <2>5. Alike(w, y)
    BY <2>3, <2>4 DEF Alike, Calm
  <2>6. Called(y) /\ ~ y.v.exiting /\ (y.r.failed => y.v.failure)
    BY <1>3, <1>5, <2>3, <2>4 DEF Called, Leaving
  <2>7. Calm(y, x) /\ Fits(x.v, x.r)
    BY <2>6, FailedExits
  <2>8. Becomes(x)
    BY <1>5 DEF y
  <2> HIDE DEF x
  <2>9. Calm(w, x)
    BY <2>5, <2>7, CalmTwice DEF Alike
  <2> QED
    BY <2>7, <2>8, <2>9, CalmIsTicked
<1>6. CASE ~ Leaving(w) /\ Becomes(Quit(w, 0, disk))
  <2>1. MayQuit(w, 0)
    BY <1>3, <1>6, NothingWritten DEF Leaving, MayQuit
  <2>2. Calm(w, Quit(w, 0, disk)) /\ Fits(Quit(w, 0, disk).v, Quit(w, 0, disk).r)
    BY <1>3, <1>6, <2>1, QuitFits DEF Leaving
  <2> QED
    BY <1>6, <2>2, CalmIsTicked
<1>7. CASE \E presented \in BOOLEAN : Becomes(WarmedUp(w, presented))
  <2>1. PICK presented \in BOOLEAN : Becomes(WarmedUp(w, presented))
    BY <1>7
  <2> DEFINE x == WarmedUp(w, presented)
  <2>2. Alike(w, x)
    BY WarmedUpFits
  <2>3. Becomes(x)
    BY <2>1
  <2> HIDE DEF x
  <2>4. Fits(x.v, x.r) /\ Calm(w, x)
    BY <2>2, AlikeFits DEF Alike
  <2> QED
    BY <2>3, <2>4, CalmIsTicked
<1>8. CASE ~ Leaving(w) /\ ~ Idle(w) /\ Becomes(Concluded(w, disk))
  <2>1. Calm(w, Concluded(w, disk)) /\ Fits(Concluded(w, disk).v, Concluded(w, disk).r)
    BY <1>3, <1>8, ConcludedFits DEF Leaving, Idle
  <2> QED
    BY <1>8, <2>1, CalmIsTicked
<1>9. CASE /\ ~ Leaving(w) /\ ~ Idle(w) /\ ~ w.skip
           /\ \E delta \in Deltas : \E r \in TickWallClock(w.r, delta, Given(w.v)) :
                Becomes(Played(w, r, disk))
  <2>0. PICK delta \in Deltas :
          \E r \in TickWallClock(w.r, delta, Given(w.v)) : Becomes(Played(w, r, disk))
    BY <1>9
  <2>1. PICK r \in TickWallClock(w.r, delta, Given(w.v)) : Becomes(Played(w, r, disk))
    BY <2>0
  <2>2. delta \in Nat
    BY ViewAssumption
  <2>3. Given(w.v) \in SUBSET Buttons /\ Orderly(w.r)
    BY GivenType DEF Fits
  <2>4. Moved(w.r, r, Given(w.v))
    BY <2>2, <2>3, ClockMoves
  <2> DEFINE x == Played(w, r, disk)
  <2>5. /\ Fits(x.v, x.r)
        /\ x.v.failure \/ x.v.pending = w.v.pending \/ Uses(w.r, x.r, Given(w.v))
    BY <1>3, <1>9, <2>4, PlayedFits DEF Leaving, Idle
  <2>6. view' = x.v /\ runtime' = x.r
    BY <2>1 DEF Becomes
  <2> HIDE DEF x
  <2>7. Ticked(w, x.v, x.r)
    BY <1>9, <2>5 DEF Ticked, Idle
  <2> QED
    BY <2>5, <2>6, <2>7
<1> QED
  BY <1>2, <1>4, <1>5, <1>6, <1>7, <1>8, <1>9 DEF Tick

-----------------------------------------------------------------------------
(* Every callback keeps the invariant *)

(* A tick does, and no press is lost in it. *)
LEMMA EngineTickFits ==
  ASSUME DemoFits, NEW key, NEW pressed \in SUBSET Buttons, NEW disk,
         EngineTick(key, pressed, disk)
  PROVE  DemoFits' /\ ~ Lost(view.pending \union pressed)
<1> DEFINE v == [view EXCEPT !.pending = @ \union pressed, !.restarted = FALSE]
           r == [runtime EXCEPT !.steps = 0, !.used = {}]
           w == At(v, r)
<1>1. disk \in BOOLEAN /\ view.exit = -1 /\ view.at = "playing"
  BY DEF EngineTick, Disks, Playing
<1>2. PICK x \in Controlled(w, key, disk) : Tick(x, disk)
  BY DEF EngineTick
<1>3. /\ view \in ViewType /\ runtime \in RuntimeType /\ Orderly(runtime)
      /\ runtime.failed => view.failure
      /\ view.settings = runtime.options
  BY DEF DemoFits, Fits, Orderly
<1>4. /\ v \in ViewType /\ v.pending = view.pending \union pressed /\ v.settings = view.settings
      /\ v.options = view.options /\ v.failure = view.failure /\ v.at = view.at
      /\ v.captured = view.captured /\ v.written = view.written
      /\ v.evidence = view.evidence /\ v.exiting = view.exiting /\ v.exit = view.exit
  BY <1>3 DEF ViewType
<1>5. /\ r \in RuntimeType /\ SameHandles(runtime, r) /\ r.frame = runtime.frame
      /\ r.failed = runtime.failed /\ r.result = runtime.result /\ r.corrected = runtime.corrected
      /\ r.options = runtime.options
  BY <1>3 DEF RuntimeType, SameHandles
<1> HIDE DEF v, r
<1>6. w \in Demos /\ w.v = v /\ w.r = r /\ ~ w.skip
  BY <1>4, <1>5 DEF At, Demos
<1> HIDE DEF w
<1>7. Orderly(r)
  BY <1>3, <1>5, SameHandlesOrderly
<1>8. Called(w)
  BY <1>1, <1>3, <1>4, <1>5, <1>6, <1>7 DEF Called
<1>9. Fits(w.v, w.r)
  <2>1. view.options.smoke => SmokeFits(view, runtime)
    BY DEF DemoFits, Fits
  <2>2. v.options.smoke => SmokeFits(v, r)
    BY <1>4, <1>5, <2>1 DEF SmokeFits, Proven, Rolled
  <2> QED
    BY <1>1, <1>3, <1>4, <1>5, <1>6, <1>7, <2>2 DEF Fits
<1>10. ModeOf(key) \in Modes
  <2>1. ModeOf(key) = "auto" \/ ModeOf(key) = "interactive" \/ ModeOf(key) = "desync"
          \/ ModeOf(key) = view.settings
    BY DEF ModeOf
  <2>2. view.settings \in Modes
    BY <1>3 DEF ViewType
  <2> QED
    BY <2>1, <2>2 DEF Modes
<1>11. Read(w, x)
  BY <1>1, <1>2, <1>8, <1>9, <1>10, ControlledIsRead
<1>12. Fits(view', runtime') /\ Ticked(x, view', runtime')
  BY <1>1, <1>2, <1>11, TickFits DEF Read
<1>13. ASSUME view.settings = "interactive", runtime.frame < FrameCount
       PROVE  \/ w.v.pending \subseteq view'.pending
              \/ w.v.pending \subseteq runtime'.used /\ runtime'.frame > runtime.frame
              \/ view'.restarted
              \/ view'.failure
  <2>1. Given(w.v) = w.v.pending /\ w.v.settings = "interactive"
    BY <1>4, <1>6, <1>13 DEF Given
  <2>2. w.r.frame = runtime.frame /\ runtime.frame \in Nat /\ FrameCount \in Nat
    BY <1>3, <1>5, <1>6, RuntimeAssumption DEF RuntimeType
  <2>3. ASSUME NEW u, u.v.settings = "interactive", u.r.frame = runtime.frame, Fits(u.v, u.r)
        PROVE  ~ Over(u.r)
    <3>1. u.r.options = "interactive"
      BY <2>3 DEF Fits
    <3>2. u.r.frame # FrameCount
      BY <1>13, <2>2, <2>3
    <3> QED
      BY <3>1, <3>2 DEF Over
  <2>4. ~ Over(w.r)
    BY <1>9, <2>1, <2>2, <2>3
  <2>5. CASE x.v.pending = w.v.pending /\ x.v.settings = w.v.settings /\ x.r.frame = w.r.frame
    <3>1. Given(x.v) = w.v.pending
      BY <2>1, <2>5 DEF Given
    <3>2. ~ Over(x.r)
      BY <1>11, <2>1, <2>2, <2>3, <2>5 DEF Read
    <3> QED
      BY <1>12, <2>2, <2>5, <3>1, <3>2 DEF Ticked, Uses
  <2>6. CASE x.skip /\ Uses(w.r, x.r, Given(w.v))
    BY <1>12, <2>1, <2>2, <2>4, <2>6 DEF Ticked, Uses
  <2>7. CASE x.skip /\ x.v.restarted
    BY <1>12, <2>7 DEF Ticked
  <2>8. CASE x.v.failure
    BY <1>12, <2>8 DEF Ticked
  <2> QED
    BY <1>11, <2>5, <2>6, <2>7, <2>8 DEF Read
<1>14. w.v.pending = view.pending \union pressed
  BY <1>4, <1>6
<1> QED
  BY <1>12, <1>13, <1>14 DEF DemoFits, Lost
(* The start of the demo, with what can fail in it. *)
LEMMA BeginPlayFits ==
  ASSUME DemoFits, NEW fault, NEW disk \in BOOLEAN, BeginPlay(fault, disk)
  PROVE  DemoFits' /\ view'.pending = view.pending
<1> DEFINE mode == view.options.mode
           loaded == fault \notin {"settings", "visuals", "bridge"}
           started == fault \in {"none", "source", "ready"}
           r == IF ~ loaded THEN runtime
                ELSE Start(runtime, mode, IF started THEN "none" ELSE fault)
           begun == [view EXCEPT !.at = "playing"]
           v == [begun EXCEPT !.model = loaded, !.settings = IF started THEN mode ELSE @]
           w == At(v, r)
           first == [v EXCEPT !.handler = TRUE]
           failed == Fail(w, disk)
<1>1. view.at = "loading" /\ view.exit = -1 /\ fault \in BeginFaults
  BY DEF BeginPlay
<1>2. \/ fault = "none" /\ Becomes(At(Projected(first, r), r))
      \/ ~ w.v.options.smoke /\ Becomes(Quit(failed, 1, disk))
      \/ Becomes(failed)
  BY DEF BeginPlay, At
<1>3. /\ view \in ViewType /\ Orderly(runtime) /\ ~ view.exiting /\ ~ view.written
      /\ ~ runtime.failed /\ view.settings = runtime.options
  BY <1>1 DEF DemoFits, Fits
<1>4. mode \in Modes
  <2>1. view.options \in Options
    BY <1>3 DEF ViewType
  <2> QED
    BY <2>1 DEF Options, Modes
<1> HIDE DEF mode
<1>5. Orderly(r) /\ ~ r.failed /\ r.options = IF started THEN mode ELSE runtime.options
  <2> DEFINE f == IF started THEN "none" ELSE fault
  <2>1. /\ loaded => f \in Faults
        /\ f = "none" <=> started
        /\ started => loaded
    BY <1>1 DEF BeginFaults, StartFaults, Faults
  <2>2. r = IF ~ loaded THEN runtime ELSE Start(runtime, mode, f)
    OBVIOUS
  <2> HIDE DEF loaded, started, f, r
  <2>3. loaded => LET q == Start(runtime, mode, f)
                  IN  /\ Orderly(q) /\ ~ q.failed
                      /\ q.options = IF f = "none" THEN mode ELSE runtime.options
    BY <1>3, <1>4, <2>1, StartFits
  <2> QED
    BY <1>3, <2>1, <2>2, <2>3
<1> HIDE DEF r
<1>6. r \in RuntimeType
  BY <1>5 DEF Orderly
<1>7. /\ begun \in ViewType /\ begun.at = "playing" /\ begun.options = view.options
      /\ begun.failure = view.failure /\ begun.exiting = view.exiting
      /\ begun.exit = view.exit /\ begun.written = view.written
      /\ begun.pending = view.pending /\ begun.settings = view.settings
  BY <1>3 DEF ViewType
<1> HIDE DEF begun
<1>8. /\ v \in ViewType /\ v.at = "playing" /\ v.options = view.options
      /\ v.failure = view.failure /\ ~ v.exiting /\ v.exit = -1 /\ ~ v.written
      /\ v.pending = view.pending /\ v.settings = r.options
  <2> DEFINE s == IF started THEN mode ELSE begun.settings
  <2>1. loaded \in BOOLEAN
    OBVIOUS
  <2>2. s \in Modes
    BY <1>4, <1>7 DEF ViewType
  <2>3. v = [begun EXCEPT !.model = loaded, !.settings = s]
    OBVIOUS
  <2> HIDE DEF loaded, s, v
  <2>4. v \in ViewType
    BY <1>7, <2>1, <2>2, <2>3 DEF ViewType
  <2>5. /\ v.at = begun.at /\ v.options = begun.options /\ v.failure = begun.failure
        /\ v.exiting = begun.exiting /\ v.exit = begun.exit /\ v.written = begun.written
        /\ v.pending = begun.pending /\ v.settings = s
    BY <1>7, <2>3 DEF ViewType
  <2>6. s = r.options
    BY <1>3, <1>5, <1>7 DEF s
  <2> QED
    BY <1>1, <1>3, <1>7, <2>4, <2>5, <2>6
<1> HIDE DEF v, loaded, started
<1>9. w \in Demos /\ w.v = v /\ w.r = r
  BY <1>6, <1>8 DEF At, Demos
<1> HIDE DEF w
<1>10. Called(w) /\ SmokeFits(w.v, w.r)
  BY <1>5, <1>8, <1>9 DEF Called, SmokeFits
<1>11. CASE fault = "none" /\ Becomes(At(Projected(first, r), r))
  <2> DEFINE b == At(first, r)
             y == [b EXCEPT !.v = Projected(@, b.r)]
  <2>1. /\ first \in ViewType /\ first.at = "playing" /\ first.options = view.options
        /\ ~ first.exiting /\ first.exit = -1 /\ ~ first.written
        /\ first.pending = view.pending /\ first.settings = r.options
    BY <1>8 DEF ViewType
  <2> HIDE DEF first
  <2>2. b \in Demos /\ b.v = first /\ b.r = r
    BY <1>6, <2>1 DEF At, Demos
  <2>3. Fits(b.v, b.r)
    BY <1>5, <2>1, <2>2 DEF Fits, SmokeFits
  <2>4. y.v = Projected(first, r) /\ y.r = r
    BY <2>2 DEF Demos
  <2>5. Alike(b, y)
    BY <2>2, ProjectedAlike
  <2> HIDE DEF b, y
  <2>6. y.v.pending = view.pending
    BY <2>1, <2>2, <2>5 DEF Alike, Calm
  <2>7. Fits(y.v, y.r)
    BY <2>3, <2>5, AlikeFits
  <2>8. view' = y.v /\ runtime' = y.r
    BY <1>11, <2>4 DEF Becomes, At
  <2> QED
    BY <2>6, <2>7, <2>8 DEF DemoFits
<1>12. /\ failed \in Demos /\ Fits(failed.v, failed.r) /\ failed.v.at = "playing"
       /\ ~ w.v.options.smoke => failed.v.exit = -1
       /\ failed.v.failure /\ Calm(w, failed)
  BY <1>10, FailFits
<1> HIDE DEF failed
<1>13. CASE Becomes(failed)
  <2>1. failed.v.pending = view.pending
    BY <1>8, <1>9, <1>12 DEF Calm
  <2> QED
    BY <1>12, <1>13, <2>1 DEF Becomes, DemoFits
<1>14. CASE ~ w.v.options.smoke /\ Becomes(Quit(failed, 1, disk))
  <2>1. Called(failed) /\ MayQuit(failed, 1)
    BY <1>12, <1>14 DEF Called, MayQuit, Calm, Fits
  <2>2. LET x == Quit(failed, 1, disk) IN Fits(x.v, x.r) /\ Calm(failed, x)
    BY <1>12, <2>1, QuitFits
  <2>3. Quit(failed, 1, disk).v.pending = view.pending
    BY <1>8, <1>9, <1>12, <2>2 DEF Calm
  <2> QED
    BY <1>14, <2>2, <2>3 DEF Becomes, DemoFits
<1> QED
  BY <1>2, <1>11, <1>13, <1>14

(* A screenshot adds to what was captured, or fails. *)
LEMMA ScreenshotFits ==
  ASSUME DemoFits, NEW present \in BOOLEAN, NEW disk \in BOOLEAN, ScreenshotProcessed(present, disk)
  PROVE  /\ DemoFits'
         /\ view'.pending = view.pending
<1> DEFINE name == IF view.capture \in {"start", "correction"} THEN view.capture ELSE "final"
           taken == [view EXCEPT !.capture = "none"]
           more == [taken EXCEPT !.captured = @ \union {name}]
           w == At(taken, runtime)
           failed == Fail(w, disk)
<1>1. view.at = "playing" /\ view.exit = -1
  BY DEF ScreenshotProcessed, Playing
<1>2. Becomes(IF present THEN At(more, runtime) ELSE failed)
  BY DEF ScreenshotProcessed
<1>3. /\ view \in ViewType /\ runtime \in RuntimeType /\ Orderly(runtime)
      /\ runtime.failed => view.failure
      /\ view.options.smoke => SmokeFits(view, runtime)
      /\ view.settings = runtime.options
  BY DEF DemoFits, Fits, Orderly
<1>4. name \in Names
  BY DEF Names
<1> HIDE DEF name
<1>5. /\ taken \in ViewType /\ taken.settings = view.settings /\ taken.pending = view.pending /\ taken.captured = view.captured
      /\ taken.options = view.options /\ taken.failure = view.failure /\ taken.at = view.at
      /\ taken.written = view.written /\ taken.evidence = view.evidence
      /\ taken.exiting = view.exiting /\ taken.exit = view.exit
  BY <1>3 DEF ViewType
<1> HIDE DEF taken
<1>6. CASE present
  <2>1. /\ more \in ViewType /\ more.settings = view.settings /\ more.pending = view.pending
        /\ more.captured = view.captured \union {name}
        /\ more.options = view.options /\ more.failure = view.failure /\ more.at = view.at
        /\ more.written = view.written /\ more.evidence = view.evidence
        /\ more.exiting = view.exiting /\ more.exit = view.exit
    BY <1>4, <1>5 DEF ViewType
  <2> HIDE DEF more
  <2>2. more.options.smoke => SmokeFits(more, runtime)
    BY <1>3, <2>1 DEF SmokeFits, Proven
  <2>3. Fits(more, runtime)
    BY <1>1, <1>3, <2>1, <2>2 DEF Fits
  <2>4. view' = more /\ runtime' = runtime
    BY <1>2, <1>6 DEF Becomes, At
  <2> QED
    BY <2>1, <2>3, <2>4 DEF DemoFits
<1>7. CASE ~ present
  <2>1. w \in Demos /\ w.v = taken /\ w.r = runtime
    BY <1>3, <1>5 DEF At, Demos
  <2> HIDE DEF w
  <2>2. Called(w) /\ (w.v.options.smoke => SmokeFits(w.v, w.r))
    BY <1>1, <1>3, <1>5, <2>1 DEF Called, SmokeFits, Proven
  <2>3. Fits(failed.v, failed.r) /\ Calm(w, failed)
    BY <2>2, FailFits
  <2> HIDE DEF failed
  <2>4. view' = failed.v /\ runtime' = failed.r
    BY <1>2, <1>7 DEF Becomes
  <2> QED
    BY <1>5, <2>1, <2>3, <2>4 DEF DemoFits, Calm
<1> QED
  BY <1>6, <1>7
(* The engine stops every runtime before it exits. *)
LEMMA StopAllFits ==
  ASSUME DemoFits, StopAll
  PROVE  DemoFits' /\ view'.pending = view.pending
<1> DEFINE v == [view EXCEPT !.at = "closing"]
           r == Stop(runtime)
<1>1. view' = v /\ runtime' = r /\ view.at = "playing" /\ view.exit = -1
  BY DEF StopAll, Playing
<1>2. /\ view \in ViewType /\ Orderly(runtime) /\ (runtime.failed => view.failure)
      /\ view.settings = runtime.options
  BY DEF DemoFits, Fits
<1>3. Orderly(r) /\ SameRun(runtime, r) /\ r.held = {}
  BY <1>2, OrderlyIsSound, StopEmpties
<1>4. /\ v \in ViewType /\ v.settings = view.settings /\ v.at = "closing" /\ v.pending = view.pending
      /\ v.captured = view.captured
      /\ v.options = view.options /\ v.failure = view.failure
      /\ v.written = view.written /\ v.evidence = view.evidence
      /\ v.exiting = view.exiting /\ v.exit = view.exit
  BY <1>2 DEF ViewType
<1> HIDE DEF v, r
<1>5. v.options.smoke => SmokeFits(v, r)
  <2>1. view.options.smoke => SmokeFits(view, runtime)
    BY DEF DemoFits, Fits
  <2> QED
    BY <1>3, <1>4, <2>1 DEF SmokeFits, Proven, SameRun, Rolled
<1>6. Fits(v, r)
  BY <1>1, <1>2, <1>3, <1>4, <1>5 DEF Fits, SameRun
<1> QED
  BY <1>1, <1>4, <1>6 DEF DemoFits

(* The world ends, and with it a smoke test that is not complete. *)
LEMMA EndPlayFits ==
  ASSUME DemoFits, NEW disk \in BOOLEAN, EndPlay(disk)
  PROVE  DemoFits' /\ view'.pending = view.pending
<1> DEFINE incomplete == view.options.smoke /\ ~ view.written
           w == At(view, runtime)
           evident == SaveEvidence(w, FALSE, disk)
           saved == IF incomplete THEN evident ELSE w
           exit == IF incomplete THEN 1 ELSE view.exit
           v == [saved.v EXCEPT !.at = "ended", !.handler = FALSE, !.capture = "none",
                                !.model = FALSE, !.exit = exit]
           r == Stop(saved.r)
           x == [saved EXCEPT !.v = [@ EXCEPT !.at = "ended", !.handler = FALSE,
                                              !.capture = "none", !.model = FALSE,
                                              !.exit = IF incomplete THEN 1 ELSE view.exit],
                              !.r = Stop(@)]
<1>1. view' = x.v /\ runtime' = x.r /\ view.exit = -1 /\ view.at \in {"playing", "closing"}
  BY DEF EndPlay, Becomes
<1>2. /\ view \in ViewType /\ runtime \in RuntimeType /\ Orderly(runtime)
      /\ (runtime.failed => view.failure) /\ view.settings = runtime.options
  BY DEF DemoFits, Fits, Orderly
<1>3. w \in Demos /\ w.v = view /\ w.r = runtime
  BY <1>2 DEF At, Demos
<1> HIDE DEF w
<1>4. /\ evident \in Demos /\ evident.r = runtime /\ Calm(w, evident)
      /\ evident.v.written /\ ~ evident.v.evidence.success
      /\ evident.v.exiting = view.exiting
  <2>1. Evident(w, FALSE, disk, evident)
    BY <1>3, SaveIs
  <2> HIDE DEF evident
  <2> QED
    BY <1>3, <2>1 DEF Evident
<1> HIDE DEF evident
<1>5. /\ saved \in Demos /\ saved.r = runtime /\ Calm(w, saved)
      /\ incomplete => saved.v.written /\ ~ saved.v.evidence.success
      /\ ~ incomplete => saved.v = view
  <2>1. Calm(w, w)
    BY DEF Calm
  <2> QED
    BY <1>3, <1>4, <2>1
<1>6. exit = -1 \/ exit = 1
  BY <1>1
<1> HIDE DEF saved
<1>7. x = [saved EXCEPT !.v = v, !.r = r]
  BY <1>5 DEF Demos
<1>8. saved.v \in ViewType
  BY <1>5 DEF Demos
<1>9. exit = IF incomplete THEN 1 ELSE -1
  BY <1>1
<1> HIDE DEF exit, x
<1>10. /\ v \in ViewType /\ v.at = "ended" /\ v.pending = saved.v.pending
       /\ v.captured = saved.v.captured /\ v.settings = saved.v.settings
       /\ v.options = saved.v.options /\ v.failure = saved.v.failure
       /\ v.written = saved.v.written /\ v.evidence = saved.v.evidence
       /\ v.exiting = saved.v.exiting /\ v.exit = exit
  BY <1>6, <1>8 DEF ViewType
<1>11. Orderly(r) /\ SameRun(runtime, r) /\ r.held = {}
  BY <1>2, <1>5, OrderlyIsSound, StopEmpties
<1> HIDE DEF v, r
<1>12. x.v = v /\ x.r = r
  BY <1>5, <1>7 DEF Demos
<1>13. v.options.smoke => SmokeFits(v, r)
  <2>1. view.options.smoke => SmokeFits(view, runtime)
    BY DEF DemoFits, Fits
  <2>2. v.options = view.options
    BY <1>3, <1>5, <1>10 DEF Calm
  <2>3. CASE incomplete
    <3>1. /\ v.written /\ v.exit = 1
          /\ ~ (v.evidence.success /\ v.evidence.saved)
      BY <1>5, <1>9, <1>10, <2>3
    <3>2. view.exiting => view.written
      BY <2>1, <2>3 DEF SmokeFits
    <3> QED
      BY <3>1 DEF SmokeFits
  <2>4. CASE view.options.smoke /\ ~ incomplete
    <3>1. view.written /\ view.exiting /\ Proven(view, runtime)
      BY <1>1, <2>1, <2>4 DEF SmokeFits
    <3>2. Proven(v, r)
      BY <1>5, <1>10, <1>11, <2>4, <3>1 DEF Proven, SameRun, Rolled
    <3>3. v.exiting /\ v.written /\ v.exit = -1
      BY <1>5, <1>9, <1>10, <2>4, <3>1
    <3> QED
      BY <3>2, <3>3 DEF SmokeFits
  <2> QED
    BY <2>2, <2>3, <2>4
<1>14. Fits(v, r)
  <2>1. (r.failed => v.failure) /\ v.settings = r.options
    BY <1>2, <1>3, <1>5, <1>10, <1>11 DEF Calm, SameRun
  <2> QED
    BY <1>10, <1>11, <1>13, <2>1 DEF Fits
<1>15. v.pending = view.pending
  BY <1>3, <1>5, <1>10 DEF Calm
<1> QED
  BY <1>1, <1>12, <1>14, <1>15 DEF DemoFits

(* The process ends by itself: a smoke test then has its success. *)
LEMMA ProcessEndsFits ==
  ASSUME DemoFits, ProcessEnds
  PROVE  DemoFits' /\ view'.pending = view.pending
<1> DEFINE v == [view EXCEPT !.exit = 0]
<1>1. view' = v /\ runtime' = runtime /\ view.at = "ended" /\ view.exit = -1
  BY DEF ProcessEnds
<1>2. view \in ViewType /\ Fits(view, runtime)
  BY DEF DemoFits, Fits
<1>3. /\ v \in ViewType /\ v.settings = view.settings /\ v.at = view.at /\ v.pending = view.pending
      /\ v.captured = view.captured
      /\ v.options = view.options /\ v.failure = view.failure
      /\ v.written = view.written /\ v.evidence = view.evidence
      /\ v.exiting = view.exiting /\ v.exit = 0
  BY <1>2 DEF ViewType
<1> HIDE DEF v
<1>4. v.options.smoke => SmokeFits(v, runtime)
  BY <1>1, <1>2, <1>3 DEF Fits, SmokeFits, Proven
<1>5. Fits(v, runtime)
  BY <1>1, <1>2, <1>3, <1>4 DEF Fits
<1> QED
  BY <1>1, <1>3, <1>5 DEF DemoFits

(* A time that passes is only seen by the next tick. *)
LEMMA TimePassesFits ==
  ASSUME DemoFits, TimePasses
  PROVE  DemoFits' /\ view'.pending = view.pending
<1>1. view \in ViewType /\ Fits(view, runtime)
  BY DEF DemoFits, Fits
<1>2. \/ view' = [view EXCEPT !.late = TRUE]
      \/ view' = [view EXCEPT !.due = TRUE]
  BY DEF TimePasses
<1>3. /\ view' \in ViewType /\ view'.settings = view.settings /\ view'.at = view.at /\ view'.pending = view.pending
      /\ view'.captured = view.captured
      /\ view'.options = view.options /\ view'.failure = view.failure
      /\ view'.written = view.written /\ view'.evidence = view.evidence
      /\ view'.exiting = view.exiting /\ view'.exit = view.exit
  <2>1. CASE view' = [view EXCEPT !.late = TRUE]
    BY <1>1, <2>1 DEF ViewType
  <2>2. CASE view' = [view EXCEPT !.due = TRUE]
    BY <1>1, <2>2 DEF ViewType
  <2> QED
    BY <1>2, <2>1, <2>2
<1>4. runtime' = runtime
  BY DEF TimePasses
<1>5. SmokeFits(view, runtime) => SmokeFits(view', runtime')
  BY <1>3, <1>4 DEF SmokeFits, Proven
<1>6. Fits(view', runtime')
  BY <1>1, <1>3, <1>4, <1>5 DEF Fits
<1> QED
  BY <1>3, <1>6 DEF DemoFits

-----------------------------------------------------------------------------
(* Theorems *)

(* A demo that loads. *)
LEMMA InitFits ==
  ASSUME Init
  PROVE  DemoFits
<1>1. PICK o \in Options : view = NewView(o)
  BY DEF Init
<1>2. /\ view \in ViewType /\ view.at = "loading" /\ ~ view.exiting /\ ~ view.written
      /\ view.exit = -1 /\ view.settings = "none"
  BY <1>1, ViewAssumption DEF NewView, ViewType, NoEvidence, Names, Modes
<1>3. /\ runtime \in RuntimeType /\ runtime.held = {} /\ runtime.handles = {}
      /\ runtime.borrowed = {} /\ ~ runtime.refused /\ ~ runtime.failed
      /\ runtime.options = "none"
  BY DEF Init, NewRuntime, RuntimeType, Results, Modes
<1> QED
  BY <1>2, <1>3 DEF DemoFits, Fits, Orderly, SmokeFits

(* Every callback of the engine keeps the invariant. *)
LEMMA StepFits ==
  ASSUME DemoFits, [Next]_vars
  PROVE  DemoFits'
<1>1. CASE Begins
  BY <1>1, BeginPlayFits DEF Begins, Disks
<1>2. CASE Ticks
  BY <1>2, EngineTickFits DEF Ticks
<1>3. CASE \E present, disk \in BOOLEAN : ScreenshotProcessed(present, disk)
  BY <1>3, ScreenshotFits
<1>4. CASE Ends
  BY <1>4, EndPlayFits DEF Ends
<1>5. CASE UNCHANGED vars
  BY <1>5 DEF vars, DemoFits
<1> QED
  BY <1>1, <1>2, <1>3, <1>4, <1>5, StopAllFits, ProcessEndsFits, TimePassesFits DEF Next

(* The invariant holds, whatever the engine, the disk and the SDK do. *)
THEOREM DemoAlwaysFits == Spec => []DemoFits
<1>1. Init => DemoFits
  BY InitFits
<1>2. DemoFits /\ [Next]_vars => DemoFits'
  BY StepFits
<1> QED
  BY <1>1, <1>2, PTL DEF Spec

(* The exit status of a smoke test is that of its evidence (Quit, Fail,    *)
(* SaveEvidence and EndPlay in RollbackArenaView.cpp).                     *)
THEOREM ExitMatchesEvidenceAlways == Spec => []ExitMatchesEvidence
<1>1. DemoFits => ExitMatchesEvidence
  <2> SUFFICES ASSUME DemoFits, view.options.smoke, view.exit # -1
               PROVE  /\ view.written
                      /\ view.exit = 0 <=> view.evidence.success /\ view.evidence.saved
                      /\ view.exit = 0 =>
                           /\ runtime.result = "agreed" /\ ~ runtime.failed
                           /\ {"start", "final"} \subseteq view.captured
                           /\ Rolled(runtime) => "correction" \in view.captured
    BY DEF ExitMatchesEvidence
  <2>1. SmokeFits(view, runtime) /\ view.exit \in {-1, 0, 1}
    BY DEF DemoFits, Fits, ViewType
  <2>2. view.written
    BY <2>1 DEF SmokeFits
  <2>3. CASE view.exit = 1
    BY <2>1, <2>2, <2>3 DEF SmokeFits
  <2>4. CASE view.exit = 0
    <3>1. Proven(view, runtime)
      BY <2>1, <2>2, <2>4 DEF SmokeFits
    <3> QED
      BY <2>2, <2>4, <3>1 DEF Proven
  <2> QED
    BY <2>1, <2>3, <2>4
<1> QED
  BY <1>1, DemoAlwaysFits, PTL

(* The runtime holds a whole run or nothing (FRuntime::Start and Stop in   *)
(* RollbackLabRuntime.cpp).                                                *)
THEOREM RunsAreWholeAlways == Spec => []RunsAreWhole
<1>1. DemoFits => RunsAreWhole
  BY DEF DemoFits, Fits, Orderly, RunsAreWhole
<1> QED
  BY <1>1, DemoAlwaysFits, PTL

(* A press is kept until a frame of the game has used it, also one that is *)
(* read in the same tick (Tick, ReadControls and LocalButtons in           *)
(* RollbackArenaView.cpp, TickWallClock in RollbackLabRuntime.cpp).        *)
THEOREM PressesReachTheGameAlways == Spec => PressesReachTheGame
<1> DEFINE Kept == \A pressed \in SUBSET Buttons :
                     Lost(view.pending \union pressed) => ~ Reads(pressed)
<1>1. DemoFits /\ [Next]_vars => [Kept]_vars
  <2> SUFFICES ASSUME DemoFits, Next, NEW pressed \in SUBSET Buttons, Reads(pressed)
               PROVE  ~ Lost(view.pending \union pressed)
    OBVIOUS
  <2>1. CASE \E key \in Keys, disk \in BOOLEAN : EngineTick(key, pressed, disk)
    BY <2>1, EngineTickFits
  <2>2. CASE pressed = {}
    <3>1. view'.pending = view.pending => ~ Lost(view.pending \union pressed)
      BY <2>2 DEF Lost
    <3>2. CASE Ticks
      <4>1. PICK key \in Keys, more \in SUBSET Buttons, disk \in BOOLEAN :
              EngineTick(key, more, disk)
        BY <3>2 DEF Ticks
      <4>2. ~ Lost(view.pending \union more)
        BY <4>1, EngineTickFits
      <4> QED
        BY <2>2, <4>2 DEF Lost
    <3>3. CASE Begins
      BY <3>1, <3>3, BeginPlayFits DEF Begins, Disks
    <3>4. CASE \E present, disk \in BOOLEAN : ScreenshotProcessed(present, disk)
      BY <3>1, <3>4, ScreenshotFits
    <3>5. CASE Ends
      BY <3>1, <3>5, EndPlayFits DEF Ends
    <3> QED
      BY <3>1, <3>2, <3>3, <3>4, <3>5, StopAllFits, ProcessEndsFits, TimePassesFits DEF Next
  <2> QED
    BY <2>1, <2>2 DEF Reads
<1> QED
  BY <1>1, DemoAlwaysFits, PTL DEF Spec, PressesReachTheGame
====
