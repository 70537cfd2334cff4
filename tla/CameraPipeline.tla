--------------------------- MODULE CameraPipeline ---------------------------
(***************************************************************************)
(* One camera: video_feeder.py VideoFeeder, whose capture thread overwrites *)
(* the latest frame, and main.py CameraPipeline, which polls that frame on  *)
(* the event loop, detects, tracks and publishes an event for each new      *)
(* track.                                                                   *)
(*                                                                          *)
(* A frame is what the detection model finds in it (runtimes.py is          *)
(* external); a detection is its box and whether the gate passes it.        *)
(* OpenCV is external: opening and reading take as long as they like and    *)
(* may fail, and a capture may turn out closed after a failed read.  Waits, *)
(* frame rates, the video ring buffer and the heartbeats are left out: no   *)
(* caller reads the buffer, and heartbeats do not look at the feeder.       *)
(***************************************************************************)
EXTENDS Tracker, FiniteSets

CONSTANTS
  Scenes,      \* what a frame may show: sequences of detections
  FrameSkip,   \* one frame in FrameSkip is emitted
  MaxReads,    \* bound on the frames read
  MaxTracks    \* bound on the tracks made

ASSUME CameraAssumption ==
  /\ \A scene \in Scenes : scene \in Seq([box : [x : Int, y : Int, width : Nat, height : Nat],
                                         passed : BOOLEAN])
  /\ FrameSkip \in Nat \ {0}
  /\ MaxReads \in Nat
  /\ MaxTracks \in Nat

VARIABLES
  file,       \* _is_file_source(): a file, not a stream or a device
  running,    \* VideoFeeder._running
  cap,        \* VideoFeeder._cap: none, open, or an object that is not open
  connected,  \* health.connected
  thread,     \* where the capture thread is
  reads,      \* _frame_counter
  latest,     \* _latest_frame; its number is _emitted_counter
  loop,       \* where the event loop is in this camera's code
  frame,      \* the local frame of the last process_frame
  tracks,     \* Tracker._active_tracks
  made,       \* tracks made so far
  due,        \* the new tracks of this frame not yet published
  events,     \* history: the tracks of the events published
  lost,       \* history: tracks left unpublished by an exception
  gaveUp      \* history: stop() did not wait for the thread's end

feeder == <<file, running, cap, connected, thread, reads, latest, gaveUp>>
tracking == <<frame, tracks, made, due, events, lost>>
vars == <<file, running, cap, connected, thread, reads, latest, loop, frame,
          tracks, made, due, events, lost, gaveUp>>

NoFrame == [number |-> 0, shows |-> <<>>]

Frames == [number : Nat, shows : Scenes \cup {<<>>}]

TypeOK ==
  /\ file \in BOOLEAN
  /\ running \in BOOLEAN
  /\ cap \in {"none", "open", "shut"}
  /\ connected \in BOOLEAN
  /\ thread \in {"none", "test", "read", "release", "open"}
  /\ reads \in Nat
  /\ latest \in Frames
  /\ latest.number = reads \div FrameSkip
  /\ loop \in {"start", "run", "publish", "join", "release", "stopped"}
  /\ frame \in Frames
  /\ frame.number <= latest.number
  /\ made \in Nat
  /\ \A i \in 1..Len(tracks) : tracks[i].id \in 1..made /\ tracks[i].missed \in 0..MaxAge
  /\ \A i \in 1..Len(due) : due[i].new
  /\ (loop = "publish") = (due # <<>>)
  /\ lost \subseteq 1..made
  /\ gaveUp \in BOOLEAN

Init ==
  /\ file \in BOOLEAN
  /\ running = FALSE
  /\ cap = "none"
  /\ connected = FALSE
  /\ thread = "none"
  /\ reads = 0
  /\ latest = NoFrame
  /\ loop = "start"
  /\ frame = NoFrame
  /\ tracks = <<>>
  /\ made = 0
  /\ due = <<>>
  /\ events = <<>>
  /\ lost = {}
  /\ gaveUp = FALSE

-----------------------------------------------------------------------------
(* VideoFeeder.start and stop, on the event loop *)

Start ==
  /\ loop = "start"
  /\ loop' = "run"
  /\ cap' = "open"
  /\ connected' = TRUE
  /\ running' = TRUE
  /\ thread' = "test"
  /\ UNCHANGED <<file, reads, latest, gaveUp, tracking>>

\* The source cannot be opened: no thread, and nobody tries again; the pipeline
\* counts as running all the same.
StartFails ==
  /\ loop = "start"
  /\ loop' = "run"
  /\ cap' \in {"none", "shut"}
  /\ UNCHANGED <<file, running, connected, thread, reads, latest, gaveUp, tracking>>

\* The main loop has ended, between two frames.
Stop ==
  /\ loop = "run"
  /\ loop' = "join"
  /\ running' = FALSE
  /\ UNCHANGED <<file, cap, connected, thread, reads, latest, gaveUp, tracking>>

\* Mutant of Join: the thread is not waited for.
JoinNot ==
  /\ loop = "join"
  /\ loop' = "release"
  /\ UNCHANGED <<feeder, tracking>>

Join ==
  /\ loop = "join"
  /\ thread = "none"
  /\ loop' = "release"
  /\ UNCHANGED <<feeder, tracking>>

\* join(timeout=5.0) returns while the thread is in a call of OpenCV.
JoinTimesOut ==
  /\ loop = "join"
  /\ thread \in {"read", "open"}
  /\ loop' = "release"
  /\ gaveUp' = TRUE
  /\ UNCHANGED <<file, running, cap, connected, thread, reads, latest, tracking>>

Release ==
  /\ loop = "release"
  /\ loop' = "stopped"
  /\ cap' = "none"
  /\ connected' = FALSE
  /\ UNCHANGED <<file, running, thread, reads, latest, gaveUp, tracking>>

-----------------------------------------------------------------------------
(* _capture_loop and _attempt_reconnect, on the capture thread *)

\* while self._running, and whether the capture is open
TestRunning ==
  /\ thread = "test"
  /\ \/ /\ ~running
        /\ thread' = "none"
        /\ UNCHANGED connected
     \/ /\ running
        /\ cap # "open"
        /\ thread' = "release"
        /\ connected' = FALSE
     \/ /\ running
        /\ cap = "open"
        /\ thread' = "read"
        /\ UNCHANGED connected
  /\ UNCHANGED <<file, running, cap, reads, latest, loop, gaveUp, tracking>>

\* Every FrameSkip-th frame replaces the latest one.
ReadFrame(scene) ==
  /\ thread = "read"
  /\ thread' = "test"
  /\ reads < MaxReads
  /\ reads' = reads + 1
  /\ connected' = TRUE
  /\ latest' = IF reads' % FrameSkip = 0
               THEN [number |-> latest.number + 1, shows |-> scene]
               ELSE latest
  /\ UNCHANGED <<file, running, cap, loop, gaveUp, tracking>>

\* read() returns nothing: a file has ended, a live source is tried again.
ReadFails ==
  /\ thread = "read"
  /\ IF file
     THEN /\ running' = FALSE
          /\ thread' = "none"
          /\ UNCHANGED <<cap, connected>>
     ELSE /\ thread' = "test"
          /\ connected' = FALSE
          /\ cap' \in {cap, IF cap = "open" THEN "shut" ELSE cap}
          /\ UNCHANGED running
  /\ UNCHANGED <<file, reads, latest, loop, gaveUp, tracking>>

\* self._cap.release(), and a pause.
DropCapture ==
  /\ thread = "release"
  /\ thread' = "open"
  /\ cap' = "none"
  /\ UNCHANGED <<file, running, connected, reads, latest, loop, gaveUp, tracking>>

ReopenSucceeds ==
  /\ thread = "open"
  /\ thread' = "test"
  /\ cap' = "open"
  /\ connected' = TRUE
  /\ UNCHANGED <<file, running, reads, latest, loop, gaveUp, tracking>>

\* Mutant of ReopenFails: the thread ends.
ReopenGivesUp ==
  /\ thread = "open"
  /\ thread' = "none"
  /\ cap' \in {"none", "shut"}
  /\ UNCHANGED <<file, running, connected, reads, latest, loop, gaveUp, tracking>>

ReopenFails ==
  /\ thread = "open"
  /\ thread' = "test"
  /\ cap' \in {"none", "shut"}
  /\ UNCHANGED <<file, running, connected, reads, latest, loop, gaveUp, tracking>>

-----------------------------------------------------------------------------
(* CameraPipeline.process_frame, on the event loop *)

Gated(shows) == Select(shows, {i \in 1..Len(shows) : shows[i].passed})

\* Detect and update the tracks; the same frame may be processed many times.
ProcessFrame ==
  LET gated == Gated(latest.shows)
      updated == Update(tracks, gated, made)
      new == Select(updated, {i \in 1..Len(updated) : updated[i].new})
  IN /\ loop = "run"
     /\ latest # NoFrame
     /\ frame' = latest
     /\ tracks' = updated
     /\ made' = made + Len(new)
     /\ made' <= MaxTracks
     /\ due' = new
     /\ loop' = IF new = <<>> THEN "run" ELSE "publish"
     /\ UNCHANGED <<feeder, events, lost>>

\* encode_and_publish, of the track's box in the frame it was found in.
Publish ==
  /\ loop = "publish"
  /\ events' = Append(events, Head(due).id)
  /\ due' = Tail(due)
  /\ loop' = IF Tail(due) = <<>> THEN "run" ELSE "publish"
  /\ UNCHANGED <<feeder, frame, tracks, made, lost>>

\* publish raises: process_frame leaves the other new tracks of the frame too.
PublishRaises ==
  /\ loop = "publish"
  /\ lost' = lost \cup {due[i].id : i \in 1..Len(due)}
  /\ due' = <<>>
  /\ loop' = "run"
  /\ UNCHANGED <<feeder, frame, tracks, made, events>>

-----------------------------------------------------------------------------
Capture ==
  \/ TestRunning
  \/ \E scene \in Scenes : ReadFrame(scene)
  \/ ReadFails
  \/ DropCapture
  \/ ReopenSucceeds
  \/ ReopenFails

Loop ==
  \/ Start
  \/ StartFails
  \/ ProcessFrame
  \/ Publish
  \/ PublishRaises
  \/ Stop
  \/ Join
  \/ JoinTimesOut
  \/ Release

Next == Capture \/ Loop

Spec == Init /\ [][Next]_vars

\* Both threads run, and a source that keeps being opened opens in the end.
FairSpec == Spec /\ WF_vars(Capture) /\ SF_vars(ReopenSucceeds) /\ WF_vars(Join \/ JoinTimesOut \/ Release)

-----------------------------------------------------------------------------
(* Properties *)

\* A track is announced by one event, whatever happens to it while the same
\* frame is processed again and again: exactly one, due or published, or none
\* because publishing raised for it or for a track before it in its frame
\* (main.py:243: "if track.is_new").
AnnouncedOnce ==
  \A id \in 1..made :
    Cardinality({i \in 1..Len(events) : events[i] = id})
      + Cardinality({i \in 1..Len(due) : due[i].id = id})
      + (IF id \in lost THEN 1 ELSE 0) = 1

\* Processing a frame again, as the loop does until the thread has a new one,
\* finds nothing new in it.  Not so for a box whose width or height was rounded
\* to 0: it is not similar to itself, and is new in every poll.
SameFrameQuiet ==
  [][loop = "run" /\ latest = frame
       /\ (\A i \in 1..Len(latest.shows) : Area(latest.shows[i].box) > 0)
     => made' = made]_vars

\* "Persistent track IDs" (README.md:10): an object that has not moved keeps its
\* track when others come, go or pass close by.
StillKeepsTrack ==
  [][\A i \in 1..Len(tracks) :
       /\ \A j \in 1..Len(tracks) : tracks[j].box = tracks[i].box => i = j
       /\ \E d \in 1..Len(latest.shows) :
            latest.shows[d].passed /\ latest.shows[d].box = tracks[i].box
       /\ Area(tracks[i].box) > 0
       => \E k \in 1..Len(tracks') :
            tracks'[k].id = tracks[i].id /\ tracks'[k].box = tracks[i].box]_vars

\* "Stop the capture thread and release the video source" (video_feeder.py:213):
\* so it is, for good, if stop() could wait for the thread.  If it could not,
\* the thread may open the source after it was released.
StoppedClean ==
  loop = "stopped" /\ ~gaveUp => thread = "none" /\ cap = "none" /\ ~connected

\* "Attempting reconnect" (video_feeder.py:269): a capture found closed is open
\* again in the end, unless the feeder is stopped first.
FeedRecovers == thread = "release" ~> cap = "open" \/ ~running
=============================================================================
