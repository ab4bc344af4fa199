------------------------------ MODULE DesktopCall ------------------------------
(***************************************************************************)
(* The desktop client: the view model of its window, the socket to /calls, *)
(* the session of a call, the capture of audio and the archive that is     *)
(* uploaded after the call.                                                *)
(*                                                                         *)
(* The view model runs on the thread of the window and lets others run at  *)
(* every await.  What happens elsewhere reaches it through the queue of    *)
(* the window: events of the socket, states of the session, and what       *)
(* follows an await.  Answers of the server to start_call and end_call     *)
(* have no timeout: one whose connection is gone never comes.  The upload  *)
(* of an archive runs on its own and outlives the call.                    *)
(*                                                                         *)
(* Sources: MainWindowViewModel.cs, MainWindow.xaml.cs,                    *)
(* Services/CaptureSessionController.cs, Services/Realtime,                *)
(* Services/RecordingArchive.                                              *)
(***************************************************************************)
EXTENDS Naturals, Sequences

CONSTANTS
  MaxStarts,  \* bound: calls started
  MaxEnds,    \* bound: runs of EndCallAsync
  MaxLinks,   \* bound: connections asked for
  MaxTroubles,  \* bound: drops, transport errors and refusals of audio
  MaxFrames,  \* bound: frames written to one archive
  ByHand,     \* bound: the user starts capture by hand after so many calls
  Toggles     \* values the archive toggle may have

Starts == 1 .. MaxStarts
Ends == 1 .. MaxEnds

ASSUME DesktopBounds ==
  /\ MaxStarts \in Nat /\ MaxEnds \in Nat /\ MaxLinks \in Nat
  /\ MaxTroubles \in Nat /\ MaxFrames \in Nat /\ ByHand \subseteq Nat
ASSUME DesktopToggles == Toggles \subseteq BOOLEAN

VARIABLES
  sock,    \* CallsSocketClient._socket: null, connecting, connected, or dropped and kept
  conn,    \* ConnectionState; Failed is "off"
  login,   \* a login has not answered
  token,   \* _accessTokenMemoryOnly is set
  shown,   \* CallStateValue
  posts,   \* the queue of the window
  started, \* calls started so far
  cur,     \* _callSession, 0 when null
  active,  \* ActiveCallId, 0 when null
  arch,    \* _archiveSession, 0 when null
  sess,    \* each RealtimeCallSession
  file,    \* each RecordingArchiveSession with its local directory
  end,     \* each EndCallAsync, with the upload it starts
  task,    \* _endCallTask, 0 when it is over
  capture, \* "off", or who started it
  sinks,   \* _externalSinks: the archives among them
  pump,    \* archives to which a drained frame has still to be given
  leave,   \* DisconnectAsync: "no", or waiting for the end of the call
  upload,  \* _archiveUploadTask: the EndCallAsync that started it, 0 when it is over
  closing, \* the window: open, waiting in ShutdownAsync, closed
  links, troubles

link == <<sock, conn, login, token, links>>
call == <<shown, started, cur, active, sess>>
archive == <<arch, file, sinks>>
desktop == <<link, call, archive, posts, end, task, capture, pump, leave, upload, closing, troubles>>

CallStates == {"Idle", "Starting", "InCall", "Ending", "Ended"}

\* state: "on" from Starting to Ending.  start: the answer to start_call, that
\* gives the session the id of its call.  sub: the view model listens.
\* auto: the capture was started for the call.
Sessions == [state : {"Idle", "on", "Ended"}, start : {"no", "ack", "lost", "ok", "refused"},
             sub : BOOLEAN, auto : BOOLEAN]
Files == [local : {"none", "open", "left", "whole", "gone"}, sink : BOOLEAN, frames : 0 .. MaxFrames]
Uploading == {"local", "initiate", "put", "remote"}
Stages == {"none", "ack", "lost", "stopped", "over", "done", "broken"} \cup Uploading
EndRuns == [of : 0 .. MaxStarts, arch : 0 .. MaxStarts, id : 0 .. MaxStarts, token : BOOLEAN, at : Stages]
Posts == [kind : {"connected", "dropped", "broken", "refused"}]
           \cup [kind : {"state"}, state : CallStates]
           \cup [kind : {"started", "failed"}, of : Starts] \cup [kind : {"stopped"}, of : Ends]

DesktopTypeOK ==
  /\ sock \in {"none", "linking", "up", "dead"} /\ conn \in {"off", "connecting", "on"}
  /\ login \in BOOLEAN /\ token \in BOOLEAN /\ shown \in CallStates
  /\ posts \in Seq(Posts)
  /\ {started, cur, active, arch} \subseteq 0 .. MaxStarts
  /\ sess \in [Starts -> Sessions] /\ file \in [Starts -> Files] /\ end \in [Ends -> EndRuns]
  /\ task \in 0 .. MaxEnds /\ capture \in {"off", "user", "call"}
  /\ sinks \subseteq Starts /\ pump \subseteq Starts
  /\ leave \in {"no", "ending", "letgo"} /\ closing \in {"no", "ending", "uploading", "closed"}
  /\ upload \in 0 .. MaxEnds

NoSession == [state |-> "Idle", start |-> "no", sub |-> FALSE, auto |-> FALSE]
NoFile == [local |-> "none", sink |-> FALSE, frames |-> 0]
NoEnd == [of |-> 0, arch |-> 0, id |-> 0, token |-> FALSE, at |-> "none"]

DesktopInit ==
  /\ sock = "none" /\ conn = "off" /\ login = FALSE /\ token = FALSE /\ links = 0
  /\ shown = "Idle" /\ started = 0 /\ cur = 0 /\ active = 0
  /\ sess = [i \in Starts |-> NoSession]
  /\ arch = 0 /\ file = [i \in Starts |-> NoFile] /\ sinks = {} /\ pump = {}
  /\ posts = << >> /\ end = [e \in Ends |-> NoEnd] /\ task = 0
  /\ capture = "off" /\ leave = "no" /\ upload = 0 /\ closing = "no" /\ troubles = 0

Open == closing # "closed"

\* A task that is not over is shared by those who ask for it.
Pending == task # 0

\* The window takes input, and the ticks of its timer, when its queue is
\* empty: they have a lower priority than what is posted, and than
\* what goes on after an await.
Input ==
  /\ Open /\ posts = << >>
  /\ (leave = "ending" \/ closing = "ending") => Pending
  /\ closing = "uploading" => upload # 0

-----------------------------------------------------------------------------
(* The connection                                                          *)

\* LoginAndConnectAsync, to the answer of the login.
Connect ==
  /\ Input /\ conn = "off" /\ ~login /\ links < MaxLinks
  /\ links' = links + 1 /\ conn' = "connecting" /\ login' = TRUE
  /\ UNCHANGED <<sock, token, call, archive, posts, end, task, capture, pump, leave, upload, closing, troubles>>

LoginFails ==
  /\ Open /\ login
  /\ login' = FALSE /\ conn' = "off"
  /\ UNCHANGED <<sock, token, links, call, archive, posts, end, task, capture, pump, leave, upload, closing, troubles>>

\* ConnectAsync refuses while a socket is kept, a dropped one too.
LoggedIn ==
  /\ Open /\ login
  /\ login' = FALSE /\ token' = TRUE
  /\ IF sock = "none" THEN sock' = "linking" /\ UNCHANGED conn
                      ELSE conn' = "off" /\ UNCHANGED sock
  /\ UNCHANGED <<links, call, archive, posts, end, task, capture, pump, leave, upload, closing, troubles>>

Linked ==
  /\ Open /\ sock = "linking"
  /\ sock' = "up" /\ posts' = Append(posts, [kind |-> "connected"])
  /\ UNCHANGED <<conn, login, token, links, call, archive, end, task, capture, pump, leave, upload, closing, troubles>>

LinkFails ==
  /\ Open /\ sock = "linking"
  /\ sock' = "none" /\ conn' = "off"
  /\ UNCHANGED <<login, token, links, call, archive, posts, end, task, capture, pump, leave, upload, closing, troubles>>

\* Answers a lost connection owes never come.
Lost ==
  /\ sess' = [i \in Starts |-> IF sess[i].start = "ack" THEN [sess[i] EXCEPT !.start = "lost"] ELSE sess[i]]
  /\ end' = [e \in Ends |-> IF end[e].at = "ack" THEN [end[e] EXCEPT !.at = "lost"] ELSE end[e]]

\* The network or the server closes the connection: the socket is kept.
Drop ==
  /\ Open /\ sock = "up" /\ troubles < MaxTroubles
  /\ troubles' = troubles + 1 /\ sock' = "dead" /\ Lost
  /\ posts' = Append(posts, [kind |-> "dropped"])
  /\ UNCHANGED <<conn, login, token, links, shown, started, cur, active, archive, task, capture, pump, leave,
                 upload, closing>>

\* An event that cannot be read, or OnError, with the connection still up;
\* or the server refuses audio that was sent.
Trouble(kind) ==
  /\ Open /\ sock = "up" /\ troubles < MaxTroubles
  /\ kind = "refused" => \E i \in Starts : sess[i].start = "ok"
  /\ troubles' = troubles + 1
  /\ posts' = Append(posts, [kind |-> kind])
  /\ UNCHANGED <<link, call, archive, end, task, capture, pump, leave, upload,
                 closing>>

-----------------------------------------------------------------------------
(* Start of a call                                                         *)

\* CleanupCallSession: the session is let go of, whichever it is.
Released(s) == CASE s.start = "ack" -> [s EXCEPT !.sub = FALSE]
                 [] s.start = "ok" -> [NoSession EXCEPT !.start = "ok"]
                 [] OTHER -> NoSession
LettingGo(i) == IF i = 0 THEN sess ELSE [sess EXCEPT ![i] = Released(@)]

\* StopCapture empties the list of sinks of the controller.
StopCapture == capture' = "off" /\ sinks' = {}
KeepCapture == UNCHANGED <<capture, sinks>>

\* StartCallAsync, to the answer of start_call; an emit without a connection
\* throws at once, and what was begun for the call is undone.
StartCall ==
  /\ Input /\ started < MaxStarts
  /\ (conn = "on" /\ shown = "Idle") \/ shown = "Ended"
  /\ conn = "on"
  /\ started' = started + 1
  /\ IF sock = "up"
     THEN /\ shown' = "Starting" /\ cur' = started + 1
          /\ sess' = [sess EXCEPT ![started + 1] =
                        [NoSession EXCEPT !.state = "on", !.start = "ack", !.sub = TRUE, !.auto = capture = "off"]]
          /\ capture' = IF capture = "off" THEN "call" ELSE capture
     ELSE /\ shown' = "Idle" /\ cur' = 0
          /\ UNCHANGED <<sess, capture>>
  /\ UNCHANGED <<link, active, archive, posts, end, task, pump, leave, upload, closing, troubles>>

\* No device can be opened: the call is not started.
StartCallWithoutCapture ==
  /\ Input /\ conn = "on" /\ shown \in {"Idle", "Ended"} /\ capture = "off"
  /\ shown' = "Idle"
  /\ UNCHANGED <<link, started, cur, active, sess, archive, posts, end, task, capture, pump, leave, upload, closing, troubles>>

Told(i, state) == IF sess[i].sub THEN <<[kind |-> "state", state |-> state]>> ELSE << >>

\* The server has started the call: audio_start is sent, the sink is on.
StartAcked(i) ==
  /\ Open /\ sess[i].start = "ack" /\ sock = "up"
  /\ sess' = [sess EXCEPT ![i].start = "ok", ![i].state = "on", ![i].auto = FALSE]
  /\ posts' = posts \o Told(i, "InCall") \o <<[kind |-> "started", of |-> i]>>
  /\ UNCHANGED <<link, shown, started, cur, active, archive, end, task, capture, pump, leave, upload, closing, troubles>>

\* The server refuses the call, or the connection goes before audio_start.
StartRefused(i) ==
  /\ Open /\ sess[i].start = "ack" /\ sock = "up"
  /\ sess' = [sess EXCEPT ![i].start = "refused", ![i].state = "Idle"]
  /\ posts' = posts \o Told(i, "Idle") \o <<[kind |-> "failed", of |-> i]>>
  /\ UNCHANGED <<link, shown, started, cur, active, archive, end, task, capture, pump, leave, upload, closing, troubles>>

Post == Head(posts)
Posted(kind) == Open /\ posts # << >> /\ Post.kind = kind /\ posts' = Tail(posts)

\* A writer of scratch files, and the sink that feeds it.
Opened(i) == [file EXCEPT ![i].local = "open", ![i].sink = TRUE]

\* StartCallAsync goes on: the archive of the call takes the place of any
\* other, whose directory stays.
Started ==
  /\ Posted("started")
  /\ active' = Post.of
  /\ \E on \in Toggles :
       IF on THEN /\ arch' = Post.of /\ sinks' = sinks \cup {Post.of}
                  /\ file' = Opened(Post.of)
             ELSE UNCHANGED archive
  /\ UNCHANGED <<link, shown, started, cur, sess, end, task, capture, pump, leave, upload, closing, troubles>>

StartFailed ==
  /\ Posted("failed")
  /\ cur' = 0 /\ sess' = LettingGo(cur) /\ shown' = "Idle"
  /\ IF sess[Post.of].auto /\ capture # "off" THEN StopCapture ELSE KeepCapture
  /\ UNCHANGED <<link, started, active, arch, file, end, task, pump, leave, upload, closing, troubles>>

-----------------------------------------------------------------------------
(* Events of the socket and of the session                                 *)

ShowConnected ==
  /\ Posted("connected")
  /\ conn' = "on"
  /\ UNCHANGED <<sock, login, token, links, call, archive, end, task, capture, pump, leave, upload, closing, troubles>>

ShowState ==
  /\ Posted("state")
  /\ shown' = Post.state
  /\ UNCHANGED <<link, started, cur, active, sess, archive, end, task, capture, pump, leave, upload, closing, troubles>>

BugDropped ==
  /\ Posted("dropped")
  /\ conn' = "off" /\ active' = 0
  /\ UNCHANGED <<shown, cur, sess, capture, sinks>>
  /\ UNCHANGED <<sock, login, token, links, started, arch, file, end, task, pump, leave, upload, closing, troubles>>

\* OnSocketDisconnected.
Dropped ==
  /\ Posted("dropped")
  /\ conn' = "off" /\ shown' = "Idle" /\ active' = 0
  /\ cur' = 0 /\ sess' = LettingGo(cur)
  /\ IF cur # 0 /\ capture # "off" THEN StopCapture ELSE KeepCapture
  /\ UNCHANGED <<sock, login, token, links, started, arch, file, end, task, pump, leave, upload, closing, troubles>>

\* OnSocketTransportFailed.
Broken ==
  /\ Posted("broken")
  /\ conn' = "off"
  /\ cur' = 0 /\ sess' = LettingGo(cur)
  /\ shown' = IF cur = 0 THEN shown ELSE "Ended"
  /\ IF cur # 0 /\ capture # "off" THEN StopCapture ELSE KeepCapture
  /\ UNCHANGED <<sock, login, token, links, started, active, arch, file, end, task, pump, leave, upload, closing, troubles>>

\* OnSocketRuntimeError with an audio code: the session is kept.
Refused ==
  /\ Posted("refused")
  /\ sess' = IF cur = 0 THEN sess ELSE [sess EXCEPT ![cur].state = "Ended"]
  /\ shown' = "Ended"
  /\ IF capture # "off" THEN StopCapture ELSE KeepCapture
  /\ UNCHANGED <<link, started, cur, active, arch, file, end, task, pump, leave, upload, closing, troubles>>

-----------------------------------------------------------------------------
(* End of a call                                                           *)

\* IsCallLifecycleActive
Lifecycle == cur # 0 /\ shown \in {"Starting", "InCall", "Ending"}

\* What EndCallAsync takes before its await: the archive there is, the call
\* it is uploaded for, the token.
Captured == [of |-> cur, arch |-> arch, token |-> token, at |-> "ack",
             id |-> IF active # 0 THEN active ELSE IF sess[cur].start = "ok" THEN cur ELSE 0]

Deactivated == IF arch = 0 THEN file ELSE [file EXCEPT ![arch].sink = FALSE]

AfterStop(run) == IF run.arch # 0 /\ run.id # 0
                  THEN [run EXCEPT !.of = 0, !.at = "local"]
                  ELSE [NoEnd EXCEPT !.arch = run.arch, !.at = "over"]

\* EndCallAsync: the archive takes no more frames, then audio_end and
\* end_call are sent.  A session that is over, or a connection that is gone,
\* leaves nothing to wait for, and the rest follows at once.
EndCall(e) ==
  /\ end[e].at = "none" /\ \A d \in 1 .. e - 1 : end[d].at # "none"
  /\ Lifecycle
  /\ file' = Deactivated
  /\ IF sess[cur].state = "on" /\ sock = "up"
     THEN /\ shown' = "Ending"
          /\ end' = [end EXCEPT ![e] = Captured] /\ task' = e
          /\ sinks' = sinks \ {arch}
          /\ UNCHANGED <<cur, sess, capture, upload>>
     ELSE /\ shown' = IF sess[cur].state = "on" THEN "Ended" ELSE "Ending"
          /\ cur' = 0 /\ sess' = LettingGo(cur) /\ task' = 0
          /\ end' = [end EXCEPT ![e] = AfterStop(Captured)]
          /\ upload' = IF AfterStop(Captured).at = "local" THEN e ELSE upload
          /\ IF capture # "off" THEN StopCapture ELSE sinks' = sinks \ {arch} /\ UNCHANGED capture
  /\ UNCHANGED <<link, started, active, arch, posts, pump, troubles>>

EndPressed(e) ==
  /\ Input /\ shown = "InCall"
  /\ EndCall(e)
  /\ UNCHANGED <<leave, closing>>

\* end_call is acknowledged.
StopAcked(e) ==
  /\ Open /\ end[e].at = "ack" /\ sock = "up"
  /\ end' = [end EXCEPT ![e].at = "stopped"]
  /\ sess' = [sess EXCEPT ![end[e].of].state = "Ended"]
  /\ posts' = posts \o (IF sess[end[e].of].state = "on" THEN Told(end[e].of, "Ended") ELSE << >>) \o <<[kind |-> "stopped", of |-> e]>>
  /\ UNCHANGED <<link, shown, started, cur, active, archive, task, capture, pump, leave, upload, closing, troubles>>

BugStopped ==
  /\ Posted("stopped")
  /\ cur' = 0 /\ sess' = LettingGo(cur)
  /\ task' = IF task = Post.of THEN 0 ELSE task
  /\ end' = [end EXCEPT ![Post.of] = AfterStop([@ EXCEPT !.arch = arch])]
  /\ upload' = IF AfterStop(end[Post.of]).at = "local" THEN Post.of ELSE upload
  /\ UNCHANGED <<capture, sinks>>
  /\ UNCHANGED <<link, shown, started, active, arch, file, pump, leave, closing, troubles>>

\* EndCallAsync goes on: the session there is now is let go of, the capture
\* is stopped, and the upload begins on its own.
Stopped ==
  /\ Posted("stopped")
  /\ cur' = 0 /\ sess' = LettingGo(cur)
  /\ task' = IF task = Post.of THEN 0 ELSE task
  /\ end' = [end EXCEPT ![Post.of] = AfterStop(@)]
  /\ upload' = IF AfterStop(end[Post.of]).at = "local" THEN Post.of ELSE upload
  /\ IF capture # "off" THEN StopCapture ELSE KeepCapture
  /\ UNCHANGED <<link, shown, started, active, arch, file, pump, leave, closing, troubles>>

EnsureEnd ==
  IF Lifecycle /\ ~Pending
  THEN \E e \in Ends : EndCall(e)
  ELSE UNCHANGED <<link, call, archive, posts, end, task, capture, pump, upload, troubles>>

-----------------------------------------------------------------------------
(* Leaving                                                                 *)

Disconnect ==
  /\ Input /\ leave = "no" /\ conn \in {"on", "connecting"}
  /\ leave' = "ending"
  /\ EnsureEnd
  /\ UNCHANGED closing

\* The call is over: the socket is let go of.
LetGo ==
  /\ Open /\ leave = "ending" /\ ~Pending
  /\ leave' = "letgo" /\ sock' = "none"
  /\ Lost
  /\ posts' = IF sock = "up" THEN Append(posts, [kind |-> "dropped"]) ELSE posts
  /\ UNCHANGED <<conn, login, token, links, shown, started, cur, active, archive, task, capture, pump, upload, closing,
                 troubles>>

Disconnected ==
  /\ Open /\ leave = "letgo"
  /\ leave' = "no" /\ conn' = "off" /\ token' = FALSE
  /\ UNCHANGED <<sock, login, links, call, archive, posts, end, task, capture, pump, upload, closing, troubles>>

\* OnClosing and ShutdownAsync.
RequiresShutdownWait == Lifecycle \/ arch # 0 \/ upload # 0

\* The process is gone, with all it knew; directories stay.
Exit ==
  /\ closing' = "closed"
  /\ sock' = "none" /\ conn' = "off" /\ login' = FALSE /\ token' = FALSE
  /\ shown' = "Idle" /\ cur' = 0 /\ active' = 0 /\ sess' = [i \in Starts |-> NoSession]
  /\ arch' = 0 /\ sinks' = {} /\ pump' = {} /\ file' = [i \in Starts |-> [file[i] EXCEPT !.sink = FALSE, !.frames = 0]]
  /\ posts' = << >> /\ end' = [e \in Ends |-> NoEnd] /\ task' = 0
  /\ capture' = "off" /\ leave' = "no" /\ upload' = 0
  /\ UNCHANGED <<links, started, troubles>>

CloseAsked ==
  /\ Input /\ closing = "no"
  /\ IF RequiresShutdownWait
     THEN closing' = "ending" /\ EnsureEnd /\ UNCHANGED leave
     ELSE Exit

\* ShutdownAsync goes on.
CallOver ==
  /\ closing = "ending" /\ ~Pending
  /\ closing' = "uploading"
  /\ UNCHANGED <<link, call, archive, posts, end, task, capture, pump, leave, upload, troubles>>

\* The upload is waited for, at most 30 seconds.
Close == closing = "uploading" /\ Exit

-----------------------------------------------------------------------------
(* Capture                                                                 *)

UserStartsCapture ==
  /\ Input /\ capture = "off" /\ started \in ByHand
  /\ capture' = "user"
  /\ UNCHANGED <<link, call, archive, posts, end, task, pump, leave, upload, closing, troubles>>

UserStopsCapture ==
  /\ Input /\ capture # "off"
  /\ StopCapture
  /\ UNCHANGED <<link, call, arch, file, posts, end, task, pump, leave, upload, closing, troubles>>

\* PumpAsync drains a frame and copies the list of sinks under the lock.
Drain ==
  /\ Input /\ capture # "off" /\ pump = {} /\ \E i \in sinks : file[i].frames < MaxFrames
  /\ pump' = sinks
  /\ UNCHANGED <<link, call, archive, posts, end, task, capture, leave, upload, closing, troubles>>

BugTakes(i) == file[i].local = "open" /\ file[i].frames < MaxFrames

\* OnFrameAsync of the sink, then Write.
Takes(i) == file[i].sink /\ file[i].local = "open" /\ file[i].frames < MaxFrames

Give(i) ==
  /\ Open /\ i \in pump
  /\ pump' = pump \ {i}
  /\ file' = IF Takes(i) THEN [file EXCEPT ![i].frames = @ + 1] ELSE file
  /\ UNCHANGED <<link, call, arch, sinks, posts, end, task, capture, leave, upload, closing, troubles>>

-----------------------------------------------------------------------------
(* Upload of the archive                                                   *)

Of(e) == end[e].arch

\* The directory goes, unless another upload has the file open.
Deleted(e) ==
  IF \E d \in Ends \ {e} : end[d].arch = Of(e) /\ end[d].at = "put"
  THEN [file EXCEPT ![Of(e)].sink = FALSE]
  ELSE [file EXCEPT ![Of(e)] = [NoFile EXCEPT !.local = "gone"]]

\* Disposed only: an open writer is closed, what it wrote stays.
Disposed(e) == [file EXCEPT ![Of(e)].local = IF @ = "open" THEN "left" ELSE @]

\* How a run of RunArchiveUploadAsync ends.
Finish(e, at, files) ==
  /\ end' = [end EXCEPT ![e] = [NoEnd EXCEPT !.arch = Of(e), !.at = at]]
  /\ upload' = IF upload = e THEN 0 ELSE upload
  /\ file' = files
  /\ arch' = IF arch = Of(e) THEN 0 ELSE arch
  /\ sinks' = sinks \ {Of(e)}
  /\ UNCHANGED <<link, call, posts, task, capture, pump, leave, closing, troubles>>

Moves(e, at) ==
  /\ end' = [end EXCEPT ![e].at = at]
  /\ UNCHANGED <<link, call, arch, sinks, posts, task, capture, pump, leave, upload, closing, troubles>>

Uploads(e, at) == Open /\ end[e].at = at

\* No token: marked failed, nothing is deleted.
NoToken(e) ==
  /\ Uploads(e, "local") /\ ~end[e].token
  /\ Finish(e, "broken", Disposed(e))

\* CompleteAsync: the two scratch files become one, nothing is written after.
Completed(e) == [file EXCEPT ![Of(e)].local = "whole", ![Of(e)].sink = FALSE]

\* FinalizeLocalAsync.  An archive that was completed before, or has no
\* audio, goes no further.
LocalDone(e) ==
  /\ Uploads(e, "local") /\ end[e].token
  /\ IF file[Of(e)].local = "open" /\ file[Of(e)].frames > 0
     THEN Moves(e, "initiate") /\ file' = Completed(e)
     ELSE Finish(e, "done", Deleted(e))

\* The server has a row; the file is opened, which may be gone meanwhile.
Initiated(e) ==
  /\ Uploads(e, "initiate")
  /\ IF file[Of(e)].local = "whole"
     THEN Moves(e, "put") /\ UNCHANGED file
     ELSE Finish(e, "done", Deleted(e))

InitiateRefused(e) == Uploads(e, "initiate") /\ Finish(e, "done", Deleted(e))

PutDone(e) == Uploads(e, "put") /\ Moves(e, "remote") /\ UNCHANGED file

BugPutFails(e) ==
  /\ Uploads(e, "put")
  /\ Finish(e, "done", Disposed(e))

\* Whatever it fails with: the row is asked to be deleted, as best it can.
PutFails(e) ==
  /\ Uploads(e, "put")
  /\ Finish(e, "done", Deleted(e))

Finalized(e) == Uploads(e, "remote") /\ Finish(e, "done", Deleted(e))

FinalizeRefused(e) ==
  /\ Uploads(e, "remote")
  /\ Finish(e, "done", Deleted(e))

\* An answer that never comes is not an HTTP error: the last catch marks the
\* archive failed, and neither the row nor the directory is deleted.
Unexpected(e) ==
  /\ Open /\ end[e].at \in {"initiate", "remote"}
  /\ Finish(e, "broken", Disposed(e))

UploadStep(e) ==
  \/ NoToken(e)
  \/ LocalDone(e)
  \/ Initiated(e)
  \/ InitiateRefused(e)
  \/ PutDone(e)
  \/ PutFails(e)
  \/ Finalized(e)
  \/ FinalizeRefused(e)
  \/ Unexpected(e)

Window ==
  \/ Started
  \/ StartFailed
  \/ ShowConnected
  \/ ShowState
  \/ Dropped
  \/ Broken
  \/ Refused
  \/ Stopped

DesktopNext ==
  \/ Connect
  \/ LoginFails
  \/ LoggedIn
  \/ Linked
  \/ LinkFails
  \/ Drop
  \/ \E kind \in {"broken", "refused"} : Trouble(kind)
  \/ StartCall
  \/ StartCallWithoutCapture
  \/ \E i \in Starts : StartAcked(i)
  \/ \E i \in Starts : StartRefused(i)
  \/ Window
  \/ \E e \in Ends : EndPressed(e)
  \/ \E e \in Ends : StopAcked(e)
  \/ Disconnect
  \/ LetGo
  \/ Disconnected
  \/ CloseAsked
  \/ CallOver
  \/ Close
  \/ UserStartsCapture
  \/ UserStopsCapture
  \/ Drain
  \/ \E i \in Starts : Give(i)
  \/ \E e \in Ends : UploadStep(e)

\* The window handles its queue, the server answers over a connection that
\* is up.
DesktopFairness ==
  /\ WF_desktop(Window)
  /\ WF_desktop(\E i \in Starts : StartAcked(i) \/ StartRefused(i))
  /\ \A e \in Ends : WF_desktop(StopAcked(e))
  /\ WF_desktop(LetGo) /\ WF_desktop(Disconnected)
  /\ WF_desktop(CallOver) /\ WF_desktop(Close)

DesktopSpec == DesktopInit /\ [][DesktopNext]_desktop /\ DesktopFairness

-----------------------------------------------------------------------------
(* Properties                                                              *)

\* What is uploaded for a call is the recording of that call.  It holds as long
\* as the archive is not switched off between two calls.
ArchivedUnderItsCall == \A e \in Ends : end[e].at \in Uploading => end[e].arch = end[e].id

\* What is uploaded for a call is the recording of that call, unless the call
\* itself was not archived: no recording takes the place of another.
ArchivedInItsPlace ==
  \A e \in Ends : (end[e].at \in Uploading /\ end[e].arch # end[e].id) => file[end[e].id].local = "none"

\* A frame on its way when the user ends the call is not recorded.
NoFrameAfterEnd ==
  [][\A i \in Starts : file'[i].frames > file[i].frames => \A e \in Ends : end[e].arch # i]_desktop

\* Capture that was started for a call is stopped with it, however it ends,
\* while the window is not being closed.
CaptureStopsWithCall == (capture = "call" /\ closing = "no") => cur # 0 \/ posts # << >>

\* An upload that was answered leaves no audio on the disk, although a
\* second upload of the same archive may have got in its way.
AudioDoesNotStay ==
  \A e \in Ends : end[e].at = "done" =>
    \/ file[Of(e)].local = "gone"
    \/ \E d \in Ends \ {e} : Of(d) = Of(e) /\ end[d].at # "done"

\* Neither the microphone of the agent nor the file on the disk outlives what
\* it was there for.
NothingLingers == CaptureStopsWithCall /\ AudioDoesNotStay

\* What belongs to a call stays with it: no other recording is uploaded in the
\* place of its own, and neither its capture nor its audio outlives it.
CallsStayApart == ArchivedInItsPlace /\ NothingLingers

\* The end of the present call is the only one that waits for the server.
EndsAlone == Pending /\ end[task].of = cur /\ \A e \in Ends \ {task} : end[e].at \notin {"ack", "stopped"}

\* A call whose end waits for the server is shown as over some time: the
\* server answers, or the connection is seen to be gone.
EndingEnds == (shown = "Ending" /\ EndsAlone) ~> (shown # "Ending" \/ ~Open)

\* A call that is ended is over: what is captured after it is not in its
\* recording, and the window does not show it as ending for ever.
EndIsAnEnd == NoFrameAfterEnd /\ EndingEnds

\* Plan of step 7: a window that is asked to close waits for the end of the
\* call, or gives up after a time.
ClosingCloses == (closing \in {"ending", "uploading"}) ~> ~Open

\* Findings of step 5: after a lost connection the user connects again.
NoSocketKept == (conn = "off" /\ posts = << >>) => sock \in {"none", "linking"}

=============================================================================
