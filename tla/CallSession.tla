---------------------------- MODULE CallSession ----------------------------
(***************************************************************************)
(* The calls of one organization as the /calls WebSocket namespace runs    *)
(* them: the call rows, the context each socket keeps in memory, the audio *)
(* session of a call, and the heartbeat sweep that drops silent calls.     *)
(*                                                                         *)
(* A handler runs without interruption up to its next await.  A handler    *)
(* that awaits occupies a task, and other events of the same socket, other *)
(* sockets, REST requests and the sweep run before it resumes.  A database *)
(* transaction and the code that runs when its promise settles are one     *)
(* step; a failed transaction is the other outcome of that step.           *)
(*                                                                         *)
(* A CallContext object is created once per call row, so its fields are    *)
(* functions of the call: 'phase', 'todo' and 'heard' are its audio field. *)
(* They survive in a handler that holds the object after the socket's map  *)
(* entry is gone.                                                          *)
(***************************************************************************)
EXTENDS Integers, FiniteSets

CONSTANTS
    Calls,      \* ids of the rows that may be created
    Sockets,    \* client connections
    Sources,    \* audio sources, agent_mic and system_loopback
    Tasks,      \* bound of the model: handlers awaiting at one time
    NoCall,     \* no entry in the map of contexts
    Cutoff,     \* KLOSER_HEARTBEAT_CUTOFF_SEC, in clock units
    MaxLag,     \* bound of the model: how long the job of one sweep lasts
    MaxAudio    \* bound of the model: audio sessions of a call

ASSUME SetsAssumption ==
    /\ IsFiniteSet(Sources) /\ IsFiniteSet(Tasks)
    /\ NoCall \notin Calls
ASSUME NumbersAssumption == Cutoff \in Nat /\ MaxLag \in Nat /\ MaxAudio \in Nat

VARIABLES
    status,     \* status[c]: the status column, "absent" before the row exists
    reason,     \* reason[c]: the dropped_reason column
    seen,       \* seen[c]: age of last_seen_at, capped, or Never
    online,     \* the sockets that are connected
    context,    \* context[s]: the call of the socket's CallContext
    phase,      \* phase[c]: is there an audio session, is it flushed
    todo,       \* todo[c]: STT sessions in the session map, not flushed yet
    heard,      \* heard[c]: sources of the audio session that sent a chunk
    task,       \* task[t]: where a handler awaits, and what it closed over
    sweep,      \* the heartbeat sweep: none, or the age of its cutoff
    begun,      \* history: begun[c], audio sessions so far
    said,       \* history: said[c], sources heard, summed over the sessions
    finals,     \* history: finals[c], final transcripts stored
    lost,       \* history: lost[c], sources heard and given up for a cause
    usage,      \* history: usage[c], usage rows of audio sessions
    torn,       \* history: calls whose end_call cut a flush short
    acked,      \* history: calls whose end_call was acknowledged ok
    promised    \* history: promised[s], last call acknowledged to the client

rows  == <<status, reason, seen>>
audio == <<phase, todo, heard>>
books == <<begun, said, finals, lost, usage>>
vars  == <<rows, online, context, audio, task, sweep, books, torn, acked,
           promised>>

Final    == {"ended", "missed", "dropped"}
Statuses == {"absent", "in_progress"} \cup Final
Reasons  == {"none", "server_timeout"}
Phases   == {"none", "open", "flushing"}

\* Ages are exact up to the cap, which no comparison of the sweep can tell
\* from anything older.
AgeCap == Cutoff + MaxLag + 1
Ages   == 0..AgeCap
Never  == -1
NoSweep == -1
Older(n) == IF n < AgeCap THEN n + 1 ELSE n

Idle == [at |-> "idle"]
Creating(s)                 == [at |-> "creating", sock |-> s]
Touching(c, age)            == [at |-> "touching", call |-> c, age |-> age]
Closing(s, c)               == [at |-> "closing", sock |-> s, call |-> c]
Enqueuing(s, c)             == [at |-> "enqueuing", sock |-> s, call |-> c]
Appending(op, s, c, src, e) == [at |-> "appending", op |-> op, sock |-> s,
                                call |-> c, src |-> src, err |-> e]
Accounting(op, s, c, e)     == [at |-> "accounting", op |-> op, sock |-> s,
                                call |-> c, err |-> e]

Flushers == {"audio_end", "end_call"}
Awaits ==
    {Idle}
        \cup [at: {"creating"}, sock: Sockets]
        \cup [at: {"touching"}, call: Calls, age: Ages]
        \cup [at: {"closing", "enqueuing"}, sock: Sockets, call: Calls]
        \cup [at: {"appending"}, op: Flushers, sock: Sockets, call: Calls,
              src: Sources, err: BOOLEAN]
        \cup [at: {"accounting"}, op: Flushers, sock: Sockets, call: Calls,
              err: BOOLEAN]

\* Sources whose speech is still to be flushed.
Pending(c) == heard[c] \cap todo[c]

\* Handlers that append a final transcript of the call.
InFlight(c) == {t \in Tasks : task[t].at = "appending" /\ task[t].call = c}

Init ==
    /\ status = [c \in Calls |-> "absent"]
    /\ reason = [c \in Calls |-> "none"]
    /\ seen = [c \in Calls |-> Never]
    /\ online = Sockets
    /\ context = [s \in Sockets |-> NoCall]
    /\ phase = [c \in Calls |-> "none"]
    /\ todo = [c \in Calls |-> {}]
    /\ heard = [c \in Calls |-> {}]
    /\ task = [t \in Tasks |-> Idle]
    /\ sweep = NoSweep
    /\ begun = [c \in Calls |-> 0]
    /\ said = [c \in Calls |-> 0]
    /\ finals = [c \in Calls |-> 0]
    /\ lost = [c \in Calls |-> 0]
    /\ usage = [c \in Calls |-> 0]
    /\ torn = {}
    /\ acked = {}
    /\ promised = [s \in Sockets |-> NoCall]

----------------------------------------------------------------------------
(* The context of a socket.                                                *)

\* The audio sessions of the calls of S end.
CloseAudio(S) ==
    /\ phase' = [c \in Calls |-> IF c \in S THEN "none" ELSE phase[c]]
    /\ todo' = [c \in Calls |-> IF c \in S THEN {} ELSE todo[c]]
    /\ heard' = [c \in Calls |-> IF c \in S THEN {} ELSE heard[c]]

\* What a call has not flushed yet is given up.
GiveUp(c) ==
    lost' = IF c \in Calls
              THEN [lost EXCEPT ![c] = @ + Cardinality(Pending(c))]
              ELSE lost

\* clearCall: the context goes, and its audio session is discarded with it.
ClearCall(s) ==
    /\ context' = [context EXCEPT ![s] = NoCall]
    /\ CloseAudio({context[s]})
    /\ GiveUp(context[s])

\* start_call: drop what the socket had, then create the row.
StartCall(t, s) ==
    /\ s \in online
    /\ task[t] = Idle
    /\ ClearCall(s)
    /\ promised' = [promised EXCEPT ![s] = NoCall]
    /\ task' = [task EXCEPT ![t] = Creating(s)]
    /\ UNCHANGED <<rows, online, sweep, begun, said, finals, usage, torn, acked>>

\* The row is created: a new context, whatever the socket has now.
CallCreated(t, c) ==
    /\ task[t].at = "creating"
    /\ status[c] = "absent"
    /\ LET s == task[t].sock IN
         /\ context' = [context EXCEPT ![s] = c]
         /\ promised' = [promised EXCEPT ![s] = c]
    /\ status' = [status EXCEPT ![c] = "in_progress"]
    /\ task' = [task EXCEPT ![t] = Idle]
    /\ UNCHANGED <<reason, seen, online, audio, sweep, books, torn, acked>>

\* The monthly cap, or an error of the database.
CallRefused(t) ==
    /\ task[t].at = "creating"
    /\ task' = [task EXCEPT ![t] = Idle]
    /\ UNCHANGED <<rows, online, context, audio, sweep, books, torn, acked, promised>>

Disconnect(s) ==
    /\ s \in online
    /\ online' = online \ {s}
    /\ ClearCall(s)
    /\ promised' = [promised EXCEPT ![s] = NoCall]
    /\ UNCHANGED <<rows, task, sweep, begun, said, finals, usage, torn, acked>>

\* A new connection is a new socket object: an identifier is used again once
\* no handler of the old one awaits, and the old map entry is gone with it.
Connect(s) ==
    /\ s \notin online
    /\ ~ \E t \in Tasks : /\ task[t].at \notin {"idle", "touching"}
                          /\ task[t].sock = s
    /\ online' = online \cup {s}
    /\ ClearCall(s)
    /\ promised' = [promised EXCEPT ![s] = NoCall]
    /\ UNCHANGED <<rows, task, sweep, begun, said, finals, usage, torn, acked>>

----------------------------------------------------------------------------
(* The audio session of a call.                                            *)

AudioStart(s, declared) ==
    /\ s \in online
    /\ declared # {}
    /\ LET c == context[s] IN
         /\ c # NoCall
         /\ phase[c] = "none"
         /\ begun[c] < MaxAudio
         /\ phase' = [phase EXCEPT ![c] = "open"]
         /\ todo' = [todo EXCEPT ![c] = declared]
         /\ heard' = [heard EXCEPT ![c] = {}]
         /\ begun' = [begun EXCEPT ![c] = @ + 1]
    /\ UNCHANGED <<rows, online, context, task, sweep, said, finals, lost, usage,
                   torn, acked, promised>>

\* The first chunk of a source.  A chunk is accepted as long as the audio
\* session exists: one that comes during the flush, after the session of its
\* source was flushed, is accepted and goes nowhere.
AudioChunk(s, src) ==
    /\ s \in online
    /\ LET c == context[s] IN
         /\ c # NoCall
         /\ phase[c] # "none"
         /\ phase[c] = "open" => src \in todo[c]
         /\ src \notin heard[c]
         /\ heard' = [heard EXCEPT ![c] = @ \cup {src}]
         /\ said' = [said EXCEPT ![c] = @ + 1]
         /\ lost' = [lost EXCEPT ![c] = @ + IF src \in todo[c] THEN 0 ELSE 1]
    /\ UNCHANGED <<rows, online, context, phase, todo, task, sweep, begun, finals,
                   usage, torn, acked, promised>>

\* flushAudioSession up to its next await: the session map is walked to a
\* source that has a final transcript, past sources that have none.
AdvanceFlush(t, op, s, c, e) ==
    \/ \E src \in Pending(c), skipped \in SUBSET (todo[c] \ heard[c]) :
         /\ todo' = [todo EXCEPT ![c] = @ \ ({src} \cup skipped)]
         /\ task' = [task EXCEPT ![t] = Appending(op, s, c, src, e)]
    \/ /\ Pending(c) = {}
       /\ todo' = [todo EXCEPT ![c] = {}]
       /\ task' = [task EXCEPT ![t] = Accounting(op, s, c, e)]

\* Mistake: The flushed flag is not looked at.
BugFlushAgain(c) == phase[c] # "none"

\* !audio || audio.flushed: nothing to do for this caller.
NeedsFlush(c) == phase[c] = "open"

BeginFlush(t, op, s) ==
    /\ NeedsFlush(context[s])
    /\ phase' = [phase EXCEPT ![context[s]] = "flushing"]
    /\ AdvanceFlush(t, op, s, context[s], FALSE)

AudioEnd(t, s) ==
    /\ s \in online
    /\ task[t] = Idle
    /\ context[s] # NoCall
    /\ BeginFlush(t, "audio_end", s)
    /\ UNCHANGED <<rows, online, context, heard, sweep, books, torn, acked, promised>>

\* The append of a final transcript succeeds or fails, and the walk goes on.
AppendFinal(t) ==
    /\ task[t].at = "appending"
    /\ LET k == task[t] IN
         \/ /\ finals' = [finals EXCEPT ![k.call] = @ + 1]
            /\ AdvanceFlush(t, k.op, k.sock, k.call, k.err)
            /\ UNCHANGED lost
         \/ /\ lost' = [lost EXCEPT ![k.call] = @ + 1]
            /\ AdvanceFlush(t, k.op, k.sock, k.call, TRUE)
            /\ UNCHANGED finals
    /\ UNCHANGED <<rows, online, context, phase, heard, sweep, begun, said, usage,
                   torn, acked, promised>>

\* The usage row of the flush, whose failure is swallowed.
RecordUsage(c) == usage' \in {usage, [usage EXCEPT ![c] = @ + 1]}

\* The flush is over.  audio_end has nothing more to do, end_call goes on to
\* end the row.
AudioFlushed(t) ==
    /\ task[t].at = "accounting"
    /\ task[t].op = "audio_end" \/ ~task[t].err
    /\ LET k == task[t] IN
         /\ RecordUsage(k.call)
         /\ CloseAudio({k.call})
         /\ task' = [task EXCEPT ![t] =
                IF k.op = "end_call" THEN Closing(k.sock, k.call) ELSE Idle]
    /\ UNCHANGED <<rows, online, context, sweep, begun, said, finals, lost, torn,
                   acked, promised>>

\* end_call gives up after a flush that failed: the row stays as it is.
EndFlushFailed(t) ==
    /\ task[t].at = "accounting"
    /\ task[t].op = "end_call" /\ task[t].err
    /\ LET k == task[t] IN
         /\ RecordUsage(k.call)
         /\ context' = [context EXCEPT ![k.sock] = NoCall]
         /\ CloseAudio({k.call, context[k.sock]})
         /\ GiveUp(context[k.sock])
    /\ task' = [task EXCEPT ![t] = Idle]
    /\ UNCHANGED <<rows, online, sweep, begun, said, finals, torn, acked, promised>>

----------------------------------------------------------------------------
(* The end of a call.                                                      *)

\* An audio session that another handler is flushing does not hold this
\* caller up.
EndCall(t, s) ==
    /\ s \in online
    /\ task[t] = Idle
    /\ context[s] # NoCall
    /\ \/ BeginFlush(t, "end_call", s)
       \/ /\ ~NeedsFlush(context[s])
          /\ task' = [task EXCEPT ![t] = Closing(s, context[s])]
          /\ UNCHANGED <<phase, todo>>
    /\ promised' = [promised EXCEPT ![s] = NoCall]
    /\ UNCHANGED <<rows, online, context, heard, sweep, books, torn, acked>>

\* endByIdInCurrentOrg: any row that exists, whatever its status.
Endable(c) == status[c] # "absent"

\* The transaction of endCall; the job of the summary is enqueued next.
RowEnded(t) ==
    /\ task[t].at = "closing"
    /\ LET k == task[t] IN
         /\ Endable(k.call)
         /\ status' = [status EXCEPT ![k.call] = "ended"]
         /\ task' = [task EXCEPT ![t] = Enqueuing(k.sock, k.call)]
    /\ UNCHANGED <<reason, seen, online, context, audio, sweep, books, torn, acked,
                   promised>>

\* Mistake: A failed endCall is acknowledged like a successful one.
BugEndFailsAcked(t) ==
    /\ task[t].at = "closing"
    /\ ClearCall(task[t].sock)
    /\ acked' = acked \cup {task[t].call}
    /\ task' = [task EXCEPT ![t] = Idle]
    /\ UNCHANGED <<rows, online, sweep, begun, said, finals, usage, torn, promised>>

\* Mistake: A failed endCall leaves the context.
BugEndFailsKeeps(t) ==
    /\ task[t].at = "closing"
    /\ task' = [task EXCEPT ![t] = Idle]
    /\ UNCHANGED <<rows, online, context, audio, sweep, books, torn, acked, promised>>

EndFails(t) ==
    /\ task[t].at = "closing"
    /\ ClearCall(task[t].sock)
    /\ task' = [task EXCEPT ![t] = Idle]
    /\ UNCHANGED <<rows, online, sweep, begun, said, finals, usage, torn, acked,
                   promised>>

\* The enqueuing is over, well or badly: the context is cleared and the
\* client told ok.  The socket may have another context by now.
EndAcked(t) ==
    /\ task[t].at = "enqueuing"
    /\ LET k == task[t] IN
         /\ ClearCall(k.sock)
         /\ acked' = acked \cup {k.call}
         /\ torn' = IF /\ context[k.sock] = k.call
                       /\ phase[k.call] = "flushing" /\ Pending(k.call) # {}
                      THEN torn \cup {k.call}
                      ELSE torn
    /\ task' = [task EXCEPT ![t] = Idle]
    /\ UNCHANGED <<rows, online, sweep, begun, said, finals, usage, promised>>

\* POST /calls/:id/end.
RestEnd(c, final) ==
    /\ Endable(c)
    /\ status' = [status EXCEPT ![c] = final]
    /\ UNCHANGED <<reason, seen, online, context, audio, task, sweep, books, torn,
                   acked, promised>>

----------------------------------------------------------------------------
(* Heartbeats and the sweep.                                               *)

\* The clock is read before the transaction is awaited.  The REST fallback
\* takes any call; the socket's handler takes its own.
Heartbeat(t, c) ==
    /\ task[t] = Idle
    /\ status[c] # "absent"
    /\ task' = [task EXCEPT ![t] = Touching(c, 0)]
    /\ UNCHANGED <<rows, online, context, audio, sweep, books, torn, acked, promised>>

HeartbeatTouches(t) ==
    /\ task[t].at = "touching"
    /\ LET k == task[t] IN
         seen' = IF status[k.call] = "in_progress"
                   THEN [seen EXCEPT ![k.call] = k.age]
                   ELSE seen
    /\ task' = [task EXCEPT ![t] = Idle]
    /\ UNCHANGED <<status, reason, online, context, audio, sweep, books, torn, acked,
                   promised>>

HeartbeatFails(t) ==
    /\ task[t].at = "touching"
    /\ task' = [task EXCEPT ![t] = Idle]
    /\ UNCHANGED <<rows, online, context, audio, sweep, books, torn, acked, promised>>

\* The job reads the clock, then runs one statement per organization.
SweepStart ==
    /\ sweep = NoSweep
    /\ sweep' = 0
    /\ UNCHANGED <<rows, online, context, audio, task, books, torn, acked, promised>>

\* Mistake: The sweep does not look at the status.
BugSweepAnyStatus(c, lag) ==
    /\ status[c] # "absent"
    /\ seen[c] # Never
    /\ seen[c] - lag > Cutoff

\* Mistake: The cutoff is taken from the wrong clock.
BugCutoffAhead(c, lag) ==
    /\ status[c] = "in_progress"
    /\ seen[c] # Never
    /\ seen[c] + lag > Cutoff

\* Mistake: The test of last_seen_at for NULL is inverted.
BugDropsUnseen(c, lag) == status[c] = "in_progress" /\ seen[c] = Never

\* last_seen_at before the cutoff, which was computed 'lag' ago.
Overdue(c, lag) ==
    /\ status[c] = "in_progress"
    /\ seen[c] # Never
    /\ seen[c] - lag > Cutoff

\* Mistake: the values of the two columns are swapped.
SweepDrops ==
    /\ sweep # NoSweep
    /\ status' = [c \in Calls |-> IF Overdue(c, sweep) THEN "dropped" ELSE status[c]]
    /\ reason' = [c \in Calls |-> IF Overdue(c, sweep) THEN "server_timeout"
                                  ELSE reason[c]]
    /\ sweep' = NoSweep
    /\ UNCHANGED <<seen, online, context, audio, task, books, torn, acked, promised>>

SweepFails ==
    /\ sweep # NoSweep
    /\ sweep' = NoSweep
    /\ UNCHANGED <<rows, online, context, audio, task, books, torn, acked, promised>>

\* The server process dies: rows stay, contexts and handlers are gone.
Crash ==
    /\ online' = {}
    /\ context' = [s \in Sockets |-> NoCall]
    /\ CloseAudio(Calls)
    /\ task' = [t \in Tasks |-> Idle]
    /\ promised' = [s \in Sockets |-> NoCall]
    /\ lost' = [c \in Calls |-> lost[c] + Cardinality(Pending(c))
                                       + Cardinality(InFlight(c))]
    /\ UNCHANGED <<rows, sweep, begun, said, finals, usage, torn, acked>>

Tick ==
    /\ sweep < MaxLag
    /\ seen' = [c \in Calls |-> IF seen[c] = Never THEN Never ELSE Older(seen[c])]
    /\ task' = [t \in Tasks |-> IF task[t].at = "touching"
                                  THEN Touching(task[t].call, Older(task[t].age))
                                  ELSE task[t]]
    /\ sweep' = IF sweep = NoSweep THEN NoSweep ELSE sweep + 1
    /\ UNCHANGED <<status, reason, online, context, audio, books, torn, acked,
                   promised>>

----------------------------------------------------------------------------
\* A handler resumes.
TaskStep(t) ==
    \/ \E c \in Calls : CallCreated(t, c)
    \/ CallRefused(t)
    \/ AppendFinal(t)
    \/ AudioFlushed(t)
    \/ EndFlushFailed(t)
    \/ RowEnded(t)
    \/ EndFails(t)
    \/ EndAcked(t)
    \/ HeartbeatTouches(t)
    \/ HeartbeatFails(t)

SocketEvent(s) ==
    \/ Connect(s)
    \/ Disconnect(s)
    \/ \E declared \in SUBSET Sources : AudioStart(s, declared)
    \/ \E src \in Sources : AudioChunk(s, src)
    \/ \E t \in Tasks : StartCall(t, s) \/ AudioEnd(t, s) \/ EndCall(t, s)

Next ==
    \/ \E t \in Tasks : TaskStep(t)
    \/ \E s \in Sockets : SocketEvent(s)
    \/ \E c \in Calls, final \in Final : RestEnd(c, final)
    \/ \E t \in Tasks, c \in Calls : Heartbeat(t, c)
    \/ SweepStart
    \/ SweepDrops
    \/ SweepFails
    \/ Crash
    \/ Tick

Spec == Init /\ [][Next]_vars

\* The handlers of the server resume, time passes, and the sweep is a
\* repeatable job whose statement does not fail every time.  Nothing obliges
\* a client to send anything.
FairSpec ==
    /\ Spec
    /\ \A t \in Tasks : WF_vars(TaskStep(t))
    /\ WF_vars(Tick)
    /\ WF_vars(SweepStart)
    /\ SF_vars(SweepDrops)

----------------------------------------------------------------------------
(* Properties.                                                             *)

TypeOK ==
    /\ status \in [Calls -> Statuses]
    /\ reason \in [Calls -> Reasons]
    /\ seen \in [Calls -> Ages \cup {Never}]
    /\ online \subseteq Sockets
    /\ context \in [Sockets -> Calls \cup {NoCall}]
    /\ phase \in [Calls -> Phases]
    /\ todo \in [Calls -> SUBSET Sources]
    /\ heard \in [Calls -> SUBSET Sources]
    /\ task \in [Tasks -> Awaits]
    /\ sweep \in 0..MaxLag \cup {NoSweep}
    /\ begun \in [Calls -> Nat]
    /\ said \in [Calls -> Nat]
    /\ finals \in [Calls -> Nat]
    /\ lost \in [Calls -> Nat]
    /\ usage \in [Calls -> Nat]
    /\ torn \subseteq Calls
    /\ acked \subseteq Calls
    /\ promised \in [Sockets -> Calls \cup {NoCall}]

\* Each source heard in an audio session leads to one final transcript, or is
\* given up for a cause (a failed append, a cleared context, a chunk that came
\* too late, a crash), or is still to be flushed; and a session writes at most
\* one usage row.  audio_end, end_call, start_call and disconnect may overlap
\* in any way.
AudioLedger ==
    \A c \in Calls :
        /\ said[c] = finals[c] + lost[c] + Cardinality(Pending(c))
                               + Cardinality(InFlight(c))
        /\ usage[c] <= begun[c]

\* A client told ok by end_call has a call whose row is closed, now and later,
\* whatever heartbeats and sweeps were under way.
EndAcksTruthful == \A c \in acked : status[c] \in Final

\* A call that is over, ended by the user in particular, is never marked as
\* timed out by a sweep that started before.
EndedNeverTimedOut ==
    [][\A c \in Calls : status[c] \in Final => reason'[c] = reason[c]]_vars

\* A call is dropped only when its last heartbeat is older than the cutoff at
\* that moment: a sweep that was slow to run its statement errs on the side of
\* the call.
DroppedIsStale ==
    [][\A c \in Calls : reason'[c] # reason[c] => seen[c] > Cutoff]_vars

\* The sweep leaves alone what is over and what is alive, however long it
\* waited between its clock and its statement.
SweepIsJust == EndedNeverTimedOut /\ DroppedIsStale

\* A call that had heartbeats and gets none any more does not stay in progress.
Silent(c) ==
    /\ status[c] = "in_progress" /\ seen[c] # Never
    /\ \A t \in Tasks : task[t].at # "touching" \/ task[t].call # c
SilentCallsAreDropped == \A c \in Calls : []<>~Silent(c)

\* end_call, whatever fails in it, leaves no context of the call on the socket:
\* the socket is not stuck thinking a call is active.
Ending(t, s, c) ==
    \/ /\ task[t].at \in {"appending", "accounting"}
       /\ task[t].op = "end_call" /\ task[t].sock = s /\ task[t].call = c
    \/ /\ task[t].at \in {"closing", "enqueuing"}
       /\ task[t].sock = s /\ task[t].call = c
SocketNotStuck ==
    \A s \in Sockets, c \in Calls : (\E t \in Tasks : Ending(t, s, c)) ~> context[s] # c

\* Neither a call nor a socket hangs: a call without heartbeats ends, and so
\* does the hold of an ended call on its socket.
CallsComeToRest == SilentCallsAreDropped /\ SocketNotStuck

\* The final transcripts of a flush that audio_end began are written before
\* end_call discards the audio session.
FlushBeforeTeardown == torn = {}

\* Presence in the map is the callStarted invariant: the call the client was
\* told of, and has not ended, is the call of its socket.
PresenceIsStarted ==
    \A s \in Sockets : promised[s] # NoCall => context[s] = promised[s]

=============================================================================
