------------------------- MODULE CallSession_proofs -------------------------
(***************************************************************************)
(* Proofs about CallSession, for every number of calls, sockets, sources   *)
(* and handlers awaiting at a time, and every cutoff.                      *)
(***************************************************************************)
EXTENDS CallSession, FiniteSetTheorems, TLAPS

LEMMA Domains ==
    /\ \A st \in {"absent", "in_progress", "ended", "missed", "dropped"} : st \in Statuses
    /\ "none" \in Reasons /\ "server_timeout" \in Reasons
    /\ \A p \in {"none", "open", "flushing"} : p \in Phases
    /\ 0 \in Ages /\ \A n \in Ages : Older(n) \in Ages
    /\ Never \notin Ages
    /\ 0 \in 0..MaxLag
    /\ NoSweep \notin 0..MaxLag
BY NumbersAssumption
   DEF Statuses, Final, Reasons, Phases, Ages, AgeCap, Older, Never, NoSweep

\* Handlers that await are made of sockets, calls and sources.
LEMMA NewAwaits ==
    ASSUME NEW s \in Sockets
    PROVE  /\ Idle \in Awaits
           /\ Creating(s) \in Awaits
           /\ \A c \in Calls : /\ \A n \in Ages : Touching(c, n) \in Awaits
                               /\ Closing(s, c) \in Awaits
                               /\ Enqueuing(s, c) \in Awaits
           /\ \A op \in Flushers, c \in Calls, e \in BOOLEAN :
                 /\ Accounting(op, s, c, e) \in Awaits
                 /\ \A src \in Sources : Appending(op, s, c, src, e) \in Awaits
BY DEF Awaits, Idle, Creating, Touching, Closing, Enqueuing, Accounting, Appending

LEMMA NewTouching ==
    ASSUME NEW c \in Calls, NEW n \in Ages
    PROVE  Touching(c, n) \in Awaits /\ Idle \in Awaits
BY DEF Awaits, Touching, Idle

LEMMA AwaitFields ==
    ASSUME NEW k \in Awaits
    PROVE  /\ k.at \in {"creating", "closing", "enqueuing", "appending", "accounting"}
                 => k.sock \in Sockets
           /\ k.at \in {"touching", "closing", "enqueuing", "appending", "accounting"}
                 => k.call \in Calls
           /\ k.at = "touching" => k.age \in Ages
           /\ k.at \in {"appending", "accounting"}
                 => k.op \in Flushers /\ k.err \in BOOLEAN
BY DEF Awaits, Idle

LEMMA PendingSize ==
    ASSUME TypeOK, NEW c \in Calls
    PROVE  IsFiniteSet(Pending(c)) /\ Cardinality(Pending(c)) \in Nat
<1>1. Pending(c) \subseteq Sources
  BY DEF Pending, TypeOK
<1>. QED BY <1>1, SetsAssumption, FS_Subset, FS_CardinalityType

LEMMA InFlightSize ==
    ASSUME NEW c \in Calls
    PROVE  IsFiniteSet(InFlight(c)) /\ Cardinality(InFlight(c)) \in Nat
<1>1. InFlight(c) \subseteq Tasks
  BY DEF InFlight
<1>. QED BY <1>1, SetsAssumption, FS_Subset, FS_CardinalityType

\* The helpers of the actions keep the types of what they assign.
AudioTypes ==
    /\ phase \in [Calls -> Phases]
    /\ todo \in [Calls -> SUBSET Sources]
    /\ heard \in [Calls -> SUBSET Sources]

LEMMA CloseAudioTypes ==
    ASSUME TypeOK, NEW S, CloseAudio(S)
    PROVE  AudioTypes'
BY Domains DEF CloseAudio, AudioTypes, TypeOK

LEMMA GiveUpTypes ==
    ASSUME TypeOK, NEW c, GiveUp(c)
    PROVE  lost' \in [Calls -> Nat]
<1>1. CASE c \in Calls
  BY <1>1, PendingSize DEF GiveUp, TypeOK
<1>2. CASE c \notin Calls
  BY <1>2 DEF GiveUp, TypeOK
<1>. QED BY <1>1, <1>2

LEMMA ClearCallTypes ==
    ASSUME TypeOK, NEW s, ClearCall(s)
    PROVE  /\ AudioTypes'
           /\ lost' \in [Calls -> Nat]
           /\ context' \in [Sockets -> Calls \cup {NoCall}]
BY CloseAudioTypes, GiveUpTypes DEF ClearCall, TypeOK

LEMMA AdvanceTypes ==
    ASSUME TypeOK, NEW t \in Tasks, NEW op \in Flushers, NEW s \in Sockets,
           NEW c \in Calls, NEW e \in BOOLEAN, AdvanceFlush(t, op, s, c, e)
    PROVE  todo' \in [Calls -> SUBSET Sources] /\ task' \in [Tasks -> Awaits]
<1>1. ASSUME NEW src \in Pending(c), NEW skipped \in SUBSET (todo[c] \ heard[c]),
             todo' = [todo EXCEPT ![c] = @ \ ({src} \cup skipped)],
             task' = [task EXCEPT ![t] = Appending(op, s, c, src, e)]
      PROVE  todo' \in [Calls -> SUBSET Sources] /\ task' \in [Tasks -> Awaits]
  <2>1. src \in Sources
    BY DEF Pending, TypeOK
  <2>2. Appending(op, s, c, src, e) \in Awaits
    BY <2>1, NewAwaits
  <2>. QED BY <1>1, <2>2 DEF TypeOK
<1>2. CASE todo' = [todo EXCEPT ![c] = {}] /\ task' = [task EXCEPT ![t] = Accounting(op, s, c, e)]
  BY <1>2, NewAwaits DEF TypeOK
<1>. QED BY <1>1, <1>2 DEF AdvanceFlush

LEMMA BeginTypes ==
    ASSUME TypeOK, NEW t \in Tasks, NEW op \in Flushers, NEW s \in Sockets,
           context[s] # NoCall, BeginFlush(t, op, s)
    PROVE  /\ phase' \in [Calls -> Phases]
           /\ todo' \in [Calls -> SUBSET Sources] /\ task' \in [Tasks -> Awaits]
<1>1. context[s] \in Calls
  BY DEF TypeOK
<1>2. phase' \in [Calls -> Phases]
  BY Domains DEF BeginFlush, TypeOK
<1>. QED BY <1>1, <1>2, AdvanceTypes DEF BeginFlush

LEMMA SocketTypes ==
    ASSUME TypeOK, NEW s \in Sockets, SocketEvent(s)
    PROVE  TypeOK'
<1>0. context[s] # NoCall => context[s] \in Calls
  BY DEF TypeOK
<1>00. "audio_end" \in Flushers /\ "end_call" \in Flushers
  BY DEF Flushers
<1>1. CASE Connect(s)
  BY <1>1, ClearCallTypes, SetsAssumption DEF Connect, TypeOK, AudioTypes, rows
<1>2. CASE Disconnect(s)
  BY <1>2, ClearCallTypes, SetsAssumption DEF Disconnect, TypeOK, AudioTypes, rows
<1>3. ASSUME NEW declared \in SUBSET Sources, AudioStart(s, declared) PROVE TypeOK'
  BY <1>0, <1>3, Domains DEF AudioStart, TypeOK, rows
<1>4. ASSUME NEW src \in Sources, AudioChunk(s, src) PROVE TypeOK'
  BY <1>0, <1>4 DEF AudioChunk, TypeOK, rows
<1>5. ASSUME NEW t \in Tasks, StartCall(t, s) PROVE TypeOK'
  BY <1>5, ClearCallTypes, NewAwaits DEF StartCall, TypeOK, AudioTypes, rows
<1>6. ASSUME NEW t \in Tasks, AudioEnd(t, s) PROVE TypeOK'
  BY <1>00, <1>6, BeginTypes DEF AudioEnd, TypeOK, rows, books
<1>7. ASSUME NEW t \in Tasks, EndCall(t, s) PROVE TypeOK'
  <2>1. CASE BeginFlush(t, "end_call", s)
    <3>1. UNCHANGED <<rows, online, context, heard, sweep, books, torn, acked>>
      BY <1>7 DEF EndCall
    <3>2. promised' \in [Sockets -> Calls \cup {NoCall}]
      BY <1>7 DEF EndCall, TypeOK
    <3>3. context[s] # NoCall
      BY <1>7 DEF EndCall
    <3>. QED BY <1>00, <2>1, <3>1, <3>2, <3>3, BeginTypes DEF TypeOK, rows, books
  <2>2. CASE ~BeginFlush(t, "end_call", s)
    <3>1. task' = [task EXCEPT ![t] = Closing(s, context[s])]
      BY <1>7, <2>2 DEF EndCall
    <3>2. task' \in [Tasks -> Awaits]
      BY <1>0, <1>7, <3>1, NewAwaits DEF EndCall, TypeOK
    <3>3. UNCHANGED <<phase, todo>>
      BY <1>7, <2>2 DEF EndCall
    <3>. QED BY <1>7, <3>2, <3>3 DEF EndCall, TypeOK, rows, books
  <2>. QED BY <2>1, <2>2
<1>. QED BY <1>1, <1>2, <1>3, <1>4, <1>5, <1>6, <1>7 DEF SocketEvent

LEMMA TaskTypes ==
    ASSUME TypeOK, NEW t \in Tasks, TaskStep(t)
    PROVE  TypeOK'
<1>. DEFINE k == task[t]
<1>0. k \in Awaits /\ Idle \in Awaits
  BY DEF TypeOK, Awaits
<1>1. ASSUME NEW c \in Calls, CallCreated(t, c) PROVE TypeOK'
  BY <1>0, <1>1, AwaitFields, Domains DEF CallCreated, TypeOK, audio, books
<1>2. CASE CallRefused(t)
  BY <1>0, <1>2 DEF CallRefused, TypeOK, rows, audio, books
<1>3. CASE AppendFinal(t)
  <2>1. k.op \in Flushers /\ k.sock \in Sockets /\ k.call \in Calls /\ k.err \in BOOLEAN
    BY <1>0, <1>3, AwaitFields DEF AppendFinal
  <2>2. todo' \in [Calls -> SUBSET Sources] /\ task' \in [Tasks -> Awaits]
    <3>1. AdvanceFlush(t, k.op, k.sock, k.call, k.err) \/ AdvanceFlush(t, k.op, k.sock, k.call, TRUE)
      BY <1>3 DEF AppendFinal
    <3>. QED BY <2>1, <3>1, AdvanceTypes
  <2>3. finals' \in [Calls -> Nat] /\ lost' \in [Calls -> Nat]
    <3>1. CASE finals' = [finals EXCEPT ![k.call] = @ + 1] /\ lost' = lost
      BY <2>1, <3>1 DEF TypeOK
    <3>2. CASE lost' = [lost EXCEPT ![k.call] = @ + 1] /\ finals' = finals
      BY <2>1, <3>2 DEF TypeOK
    <3>. QED BY <1>3, <3>1, <3>2 DEF AppendFinal
  <2>4. UNCHANGED <<rows, online, context, phase, heard, sweep, begun, said, usage,
                    torn, acked, promised>>
    BY <1>3 DEF AppendFinal
  <2>. QED BY <2>2, <2>3, <2>4 DEF TypeOK, rows
<1>4. CASE AudioFlushed(t)
  <2>1. k.op \in Flushers /\ k.sock \in Sockets /\ k.call \in Calls
    BY <1>0, <1>4, AwaitFields DEF AudioFlushed
  <2>2. usage' \in [Calls -> Nat] /\ AudioTypes'
    BY <1>4, <2>1, CloseAudioTypes DEF AudioFlushed, RecordUsage, TypeOK
  <2>3. task' \in [Tasks -> Awaits]
    BY <1>0, <1>4, <2>1, NewAwaits DEF AudioFlushed, TypeOK
  <2>. QED BY <1>4, <2>2, <2>3 DEF AudioFlushed, TypeOK, AudioTypes, rows
<1>5. CASE EndFlushFailed(t)
  <2>1. k.sock \in Sockets /\ k.call \in Calls
    BY <1>0, <1>5, AwaitFields DEF EndFlushFailed
  <2>2. usage' \in [Calls -> Nat] /\ AudioTypes' /\ lost' \in [Calls -> Nat]
    BY <1>5, <2>1, CloseAudioTypes, GiveUpTypes DEF EndFlushFailed, RecordUsage, TypeOK
  <2>. QED BY <1>0, <1>5, <2>1, <2>2 DEF EndFlushFailed, TypeOK, AudioTypes, rows
<1>6. CASE RowEnded(t)
  <2>1. k.sock \in Sockets /\ k.call \in Calls
    BY <1>0, <1>6, AwaitFields DEF RowEnded
  <2>. QED BY <1>6, <2>1, NewAwaits, Domains DEF RowEnded, TypeOK, audio, books
<1>7. CASE EndFails(t)
  BY <1>0, <1>7, ClearCallTypes DEF EndFails, TypeOK, AudioTypes, rows
<1>8. CASE EndAcked(t)
  <2>1. k.sock \in Sockets /\ k.call \in Calls
    BY <1>0, <1>8, AwaitFields DEF EndAcked
  <2>2. torn' \subseteq Calls /\ acked' \subseteq Calls
    BY <1>8, <2>1 DEF EndAcked, TypeOK
  <2>. QED BY <1>0, <1>8, <2>2, ClearCallTypes DEF EndAcked, TypeOK, AudioTypes, rows
<1>9. CASE HeartbeatTouches(t)
  BY <1>0, <1>9, AwaitFields DEF HeartbeatTouches, TypeOK, audio, books
<1>10. CASE HeartbeatFails(t)
  BY <1>0, <1>10 DEF HeartbeatFails, TypeOK, rows, audio, books
<1>. QED BY <1>1, <1>2, <1>3, <1>4, <1>5, <1>6, <1>7, <1>8, <1>9, <1>10 DEF TaskStep

LEMMA CrashTypes ==
    ASSUME TypeOK, Crash
    PROVE  TypeOK'
<1>1. lost' \in [Calls -> Nat]
  <2>1. \A c \in Calls : lost[c] + Cardinality(Pending(c)) + Cardinality(InFlight(c)) \in Nat
    <3>. SUFFICES ASSUME NEW c \in Calls
                  PROVE  lost[c] + Cardinality(Pending(c)) + Cardinality(InFlight(c)) \in Nat
      OBVIOUS
    <3>1. lost[c] \in Nat /\ Cardinality(Pending(c)) \in Nat /\ Cardinality(InFlight(c)) \in Nat
      BY PendingSize, InFlightSize DEF TypeOK
    <3>. QED BY <3>1
  <2>. QED BY <2>1 DEF Crash
<1>2. AudioTypes'
  BY CloseAudioTypes DEF Crash
<1>3. task' \in [Tasks -> Awaits]
  BY DEF Crash, Awaits
<1>. QED BY <1>1, <1>2, <1>3 DEF Crash, TypeOK, AudioTypes, rows

\* Every column, every piece of process memory and every tally keeps its type.
THEOREM Typing == Spec => []TypeOK
<1>1. Init => TypeOK
  BY Domains, SetsAssumption DEF Init, TypeOK, Awaits
<1>2. TypeOK /\ [Next]_vars => TypeOK'
  <2>. SUFFICES ASSUME TypeOK, [Next]_vars PROVE TypeOK'
    OBVIOUS
  <2>1. ASSUME NEW c \in Calls, NEW final \in Final, RestEnd(c, final) PROVE TypeOK'
    BY <2>1 DEF RestEnd, TypeOK, Statuses, audio, books
  <2>2. ASSUME NEW t \in Tasks, NEW c \in Calls, Heartbeat(t, c) PROVE TypeOK'
    BY <2>2, NewTouching, Domains DEF Heartbeat, TypeOK, rows, audio, books
  <2>3. CASE SweepStart
    BY <2>3, Domains DEF SweepStart, TypeOK, rows, audio, books
  <2>4. CASE SweepDrops
    BY <2>4, Domains DEF SweepDrops, TypeOK, audio, books
  <2>5. CASE SweepFails
    BY <2>5 DEF SweepFails, TypeOK, rows, audio, books
  <2>6. CASE Tick
    <3>1. seen' \in [Calls -> Ages \cup {Never}]
      BY <2>6, Domains DEF Tick, TypeOK
    <3>2. task' \in [Tasks -> Awaits]
      BY <2>6, Domains, AwaitFields, NewTouching DEF Tick, TypeOK
    <3>3. sweep' \in 0..MaxLag \cup {NoSweep}
      BY <2>6, NumbersAssumption DEF Tick, TypeOK, NoSweep
    <3>. QED BY <2>6, <3>1, <3>2, <3>3 DEF Tick, TypeOK, audio, books
  <2>7. CASE UNCHANGED vars
    BY <2>7 DEF vars, rows, audio, books, TypeOK
  <2>. QED BY <2>1, <2>2, <2>3, <2>4, <2>5, <2>6, <2>7, SocketTypes, TaskTypes, CrashTypes
       DEF Next
<1>. QED BY <1>1, <1>2, PTL DEF Spec

----------------------------------------------------------------------------
(* The columns of a call row.                                              *)

\* What every step leaves true of the rows: a call that is over stays over, a
\* handler gets to enqueue the summary only behind a row that is over, and
\* acknowledges only what it enqueued.
RowFacts ==
    /\ \A c \in Calls : status[c] \in Final => status'[c] \in Final
    /\ \A t \in Tasks : task'[t].at = "enqueuing"
                         => task'[t] = task[t] \/ status'[task'[t].call] \in Final
    /\ \A c \in acked' : c \in acked \/ \E t \in Tasks : /\ task[t].at = "enqueuing"
                                                       /\ task[t].call = c

LEMMA Labels ==
    /\ Idle.at = "idle"
    /\ \A s : Creating(s).at = "creating"
    /\ \A c, n : Touching(c, n).at = "touching" /\ Touching(c, n).call = c
    /\ \A s, c : Closing(s, c).at = "closing" /\ Closing(s, c).call = c
    /\ \A s, c : /\ Enqueuing(s, c).at = "enqueuing" /\ Enqueuing(s, c).call = c
                 /\ Enqueuing(s, c).sock = s
    /\ \A op, s, c, src, e : /\ Appending(op, s, c, src, e).at = "appending"
                             /\ Appending(op, s, c, src, e).call = c
    /\ \A op, s, c, e : /\ Accounting(op, s, c, e).at = "accounting"
                        /\ Accounting(op, s, c, e).call = c
BY DEF Idle, Creating, Touching, Closing, Enqueuing, Appending, Accounting

\* A step that keeps rows and acknowledgements, and makes one handler await
\* something else than the enqueuing.
LEMMA Elsewhere ==
    ASSUME TypeOK, NEW t \in Tasks, NEW k, k.at # "enqueuing",
           task' = [task EXCEPT ![t] = k], UNCHANGED <<status, acked>>
    PROVE  RowFacts
BY DEF RowFacts, TypeOK

LEMMA Nowhere ==
    ASSUME TypeOK, UNCHANGED <<status, acked, task>>
    PROVE  RowFacts
BY DEF RowFacts, TypeOK

LEMMA AdvanceElsewhere ==
    ASSUME TypeOK, NEW t \in Tasks, NEW op, NEW s, NEW c, NEW e,
           AdvanceFlush(t, op, s, c, e), UNCHANGED <<status, acked>>
    PROVE  RowFacts
BY Elsewhere, Labels DEF AdvanceFlush

LEMMA RowSteps ==
    ASSUME TypeOK, [Next]_vars
    PROVE  RowFacts
<1>1. ASSUME NEW s \in Sockets, SocketEvent(s) PROVE RowFacts
  <2>1. CASE Connect(s) \/ Disconnect(s)
    BY <2>1, Nowhere DEF Connect, Disconnect, rows
  <2>2. ASSUME NEW declared \in SUBSET Sources, AudioStart(s, declared) PROVE RowFacts
    BY <2>2, Nowhere DEF AudioStart, rows
  <2>3. ASSUME NEW src \in Sources, AudioChunk(s, src) PROVE RowFacts
    BY <2>3, Nowhere DEF AudioChunk, rows
  <2>4. ASSUME NEW t \in Tasks, StartCall(t, s) PROVE RowFacts
    BY <2>4, Elsewhere, Labels DEF StartCall, rows
  <2>5. ASSUME NEW t \in Tasks, AudioEnd(t, s) PROVE RowFacts
    BY <2>5, AdvanceElsewhere DEF AudioEnd, BeginFlush, rows
  <2>6. ASSUME NEW t \in Tasks, EndCall(t, s) PROVE RowFacts
    <3>1. UNCHANGED <<status, acked>>
      BY <2>6 DEF EndCall, rows
    <3>2. CASE BeginFlush(t, "end_call", s)
      BY <3>1, <3>2, AdvanceElsewhere DEF BeginFlush
    <3>3. CASE task' = [task EXCEPT ![t] = Closing(s, context[s])]
      BY <3>1, <3>3, Elsewhere, Labels
    <3>. QED BY <2>6, <3>2, <3>3 DEF EndCall
  <2>. QED BY <1>1, <2>1, <2>2, <2>3, <2>4, <2>5, <2>6 DEF SocketEvent
<1>2. ASSUME NEW t \in Tasks, TaskStep(t) PROVE RowFacts
  <2>1. ASSUME NEW c \in Calls, CallCreated(t, c) PROVE RowFacts
    BY <2>1, Labels DEF CallCreated, RowFacts, TypeOK, Final
  <2>2. CASE CallRefused(t) \/ HeartbeatFails(t) \/ EndFails(t)
    BY <2>2, Elsewhere, Labels DEF CallRefused, HeartbeatFails, EndFails, rows
  <2>3. CASE HeartbeatTouches(t)
    BY <2>3, Elsewhere, Labels DEF HeartbeatTouches
  <2>4. CASE AppendFinal(t)
    BY <2>4, AdvanceElsewhere DEF AppendFinal, rows
  <2>5. CASE AudioFlushed(t)
    BY <2>5, Elsewhere, Labels DEF AudioFlushed, rows
  <2>6. CASE EndFlushFailed(t)
    BY <2>6, Elsewhere, Labels DEF EndFlushFailed, rows
  <2>7. CASE RowEnded(t)
    <3>1. task[t].call \in Calls
      BY <2>7, AwaitFields DEF RowEnded, TypeOK
    <3>. QED BY <2>7, <3>1, Labels DEF RowEnded, RowFacts, TypeOK, Final
  <2>8. CASE EndAcked(t)
    BY <2>8, Labels DEF EndAcked, RowFacts, TypeOK, rows
  <2>. QED BY <1>2, <2>1, <2>2, <2>3, <2>4, <2>5, <2>6, <2>7, <2>8 DEF TaskStep
<1>3. ASSUME NEW c \in Calls, NEW final \in Final, RestEnd(c, final) PROVE RowFacts
  BY <1>3 DEF RestEnd, RowFacts, TypeOK
<1>4. ASSUME NEW t \in Tasks, NEW c \in Calls, Heartbeat(t, c) PROVE RowFacts
  BY <1>4, Elsewhere, Labels DEF Heartbeat, rows
<1>5. CASE SweepStart \/ SweepFails \/ UNCHANGED vars
  BY <1>5, Nowhere DEF SweepStart, SweepFails, vars, rows
<1>6. CASE SweepDrops
  BY <1>6 DEF SweepDrops, Overdue, RowFacts, TypeOK, Final
<1>7. CASE Crash
  BY <1>7, Labels DEF Crash, RowFacts, TypeOK, rows
<1>8. CASE Tick
  BY <1>8, Labels DEF Tick, RowFacts, TypeOK
<1>. QED BY <1>1, <1>2, <1>3, <1>4, <1>5, <1>6, <1>7, <1>8 DEF Next

\* A handler that enqueues the summary has closed the row.
Closed == \A t \in Tasks : task[t].at = "enqueuing" => status[task[t].call] \in Final

LEMMA EndsInductive ==
    ASSUME TypeOK, Closed, EndAcksTruthful, [Next]_vars
    PROVE  Closed' /\ EndAcksTruthful'
<1>1. RowFacts
  BY RowSteps
<1>2. Closed'
  <2>. SUFFICES ASSUME NEW t \in Tasks, task'[t].at = "enqueuing"
                PROVE  status'[task'[t].call] \in Final
    BY DEF Closed
  <2>1. CASE task'[t] = task[t]
    <3>1. task[t].call \in Calls
      BY <2>1, AwaitFields DEF TypeOK
    <3>. QED BY <1>1, <2>1, <3>1 DEF RowFacts, Closed
  <2>. QED BY <1>1, <2>1 DEF RowFacts
<1>3. EndAcksTruthful'
  <2>. SUFFICES ASSUME NEW c \in acked' PROVE status'[c] \in Final
    BY DEF EndAcksTruthful
  <2>1. CASE c \in acked
    BY <1>1, <2>1 DEF RowFacts, EndAcksTruthful, TypeOK
  <2>2. ASSUME NEW t \in Tasks, task[t].at = "enqueuing", task[t].call = c
        PROVE  status'[c] \in Final
    <3>1. c \in Calls
      BY <2>2, AwaitFields DEF TypeOK
    <3>. QED BY <1>1, <2>2, <3>1 DEF RowFacts, Closed
  <2>. QED BY <1>1, <2>1, <2>2 DEF RowFacts
<1>. QED BY <1>2, <1>3

\* A client told ok by end_call has a call whose row is over, for good.
THEOREM AcksTruthful == Spec => []EndAcksTruthful
<1>1. Init => Closed /\ EndAcksTruthful
  BY Labels DEF Init, Closed, EndAcksTruthful
<1>2. TypeOK /\ Closed /\ EndAcksTruthful /\ [Next]_vars
        => (Closed /\ EndAcksTruthful)'
  BY EndsInductive
<1>. QED BY <1>1, <1>2, Typing, PTL DEF Spec

\* Only the sweep marks a call as timed out, and only one that is overdue.
LEMMA ReasonSteps ==
    ASSUME TypeOK, [Next]_vars, NEW c \in Calls, reason'[c] # reason[c]
    PROVE  sweep \in 0..MaxLag /\ Overdue(c, sweep)
<1>1. CASE SweepDrops
  BY <1>1 DEF SweepDrops, TypeOK
<1>2. CASE UNCHANGED reason
  BY <1>2
<1>3. ASSUME NEW s \in Sockets, SocketEvent(s) PROVE UNCHANGED reason
  BY <1>3 DEF SocketEvent, Connect, Disconnect, AudioStart, AudioChunk, StartCall,
     AudioEnd, EndCall, rows
<1>4. ASSUME NEW t \in Tasks, TaskStep(t) PROVE UNCHANGED reason
  BY <1>4 DEF TaskStep, CallCreated, CallRefused, AppendFinal, AudioFlushed,
     EndFlushFailed, RowEnded, EndFails, EndAcked, HeartbeatTouches, HeartbeatFails, rows
<1>. QED BY <1>1, <1>2, <1>3, <1>4
     DEF Next, vars, rows, RestEnd, Heartbeat, SweepStart, SweepFails, Crash, Tick

\* A call that is over is never marked as timed out.
THEOREM EndedStaysEnded == Spec => EndedNeverTimedOut
<1>1. TypeOK /\ [Next]_vars
        => [\A c \in Calls : status[c] \in Final => reason'[c] = reason[c]]_vars
  BY ReasonSteps DEF Overdue, Final
<1>. QED BY <1>1, Typing, PTL DEF Spec, EndedNeverTimedOut

\* A call is dropped only when its last heartbeat is older than the cutoff.
THEOREM DropsAreDue == Spec => DroppedIsStale
<1>1. TypeOK /\ [Next]_vars
        => [\A c \in Calls : reason'[c] # reason[c] => seen[c] > Cutoff]_vars
  <2>. SUFFICES ASSUME TypeOK, [Next]_vars, NEW c \in Calls, reason'[c] # reason[c]
                PROVE  seen[c] > Cutoff
    OBVIOUS
  <2>1. sweep \in Nat /\ seen[c] \in Int /\ seen[c] - sweep > Cutoff
    BY ReasonSteps DEF Overdue, TypeOK, Ages, Never
  <2>. QED BY <2>1, NumbersAssumption
<1>. QED BY <1>1, Typing, PTL DEF Spec, DroppedIsStale

----------------------------------------------------------------------------
(* The audio ledger.                                                       *)

\* A handler that walks or has walked the session map of a call.
Flushes(t, c) == task[t].at \in {"appending", "accounting"} /\ task[t].call = c

\* A context belongs to a row, and to one socket.
Held  == \A s \in Sockets : context[s] \in Calls => status[context[s]] # "absent"
Apart == \A s1, s2 \in Sockets :
            context[s1] \in Calls /\ context[s1] = context[s2] => s1 = s2

\* While a handler flushes a call nobody can begin another flush of it: its
\* audio session is marked, or no socket has its context any more.
Guarded ==
    \A t \in Tasks, c \in Calls : Flushes(t, c) =>
        /\ status[c] # "absent"
        /\ phase[c] # "open"
        /\ phase[c] = "none" => \A s \in Sockets : context[s] # c
        /\ task[t].at = "accounting" => todo[c] = {}
Sole == \A t1, t2 \in Tasks, c \in Calls : Flushes(t1, c) /\ Flushes(t2, c) => t1 = t2

\* Without an audio session there is nothing to flush, nor has an absent row one.
Quiet ==
    \A c \in Calls : /\ phase[c] = "none" => todo[c] = {} /\ heard[c] = {}
                     /\ status[c] = "absent" => phase[c] = "none"

\* An audio session that is open, or being flushed, has its usage row to come.
Budget ==
    \A c \in Calls :
        /\ usage[c] <= begun[c]
        /\ phase[c] = "open" \/ (\E t \in Tasks : Flushes(t, c)) => usage[c] < begun[c]

Balance ==
    \A c \in Calls : said[c] = finals[c] + lost[c] + Cardinality(Pending(c))
                                          + Cardinality(InFlight(c))

AudioInv == Held /\ Apart /\ Guarded /\ Sole /\ Quiet /\ Budget /\ Balance

\* The handlers that flush stay where they are.
SameFlushes ==
    \A t \in Tasks : \/ task'[t] = task[t]
                     \/ /\ task[t].at \notin {"appending", "accounting"}
                        /\ task'[t].at \notin {"appending", "accounting"}
RowsStay == \A c \in Calls : status[c] # "absent" => status'[c] # "absent"

LEMMA SameInFlight ==
    ASSUME SameFlushes, NEW c \in Calls
    PROVE  /\ InFlight(c)' = InFlight(c)
           /\ \A t \in Tasks : /\ Flushes(t, c)' <=> Flushes(t, c)
                               /\ Flushes(t, c) => task'[t].at = task[t].at
BY DEF SameFlushes, InFlight, Flushes

\* A step that concerns neither contexts nor audio.
LEMMA Undisturbed ==
    ASSUME TypeOK, AudioInv, SameFlushes, RowsStay,
           \A c \in Calls : status'[c] = "absent" => status[c] = "absent",
           UNCHANGED <<context, audio, books>>
    PROVE  AudioInv'
<1>1. Held' /\ Apart'
  BY DEF AudioInv, Held, Apart, RowsStay
<1>2. Guarded' /\ Sole'
  BY SameInFlight DEF AudioInv, Guarded, Sole, RowsStay, audio
<1>3. Quiet'
  BY DEF AudioInv, Quiet, audio
<1>4. Budget'
  BY SameInFlight DEF AudioInv, Budget, audio, books
<1>5. Balance'
  <2>. SUFFICES ASSUME NEW c \in Calls
                PROVE  said'[c] = finals'[c] + lost'[c] + Cardinality(Pending(c)')
                                            + Cardinality(InFlight(c)')
    BY DEF Balance
  <2>1. Pending(c)' = Pending(c)
    BY DEF Pending, audio
  <2>. QED BY <2>1, SameInFlight DEF AudioInv, Balance, books
<1>. QED BY <1>1, <1>2, <1>3, <1>4, <1>5 DEF AudioInv

\* A context is cleared, and its audio session with it.
LEMMA Cleared ==
    ASSUME TypeOK, AudioInv, NEW s \in Sockets, ClearCall(s), SameFlushes,
           UNCHANGED <<status, begun, said, finals, usage>>
    PROVE  AudioInv'
<1>1. Held' /\ Apart'
  BY SetsAssumption DEF AudioInv, Held, Apart, ClearCall, TypeOK
<1>2. Sole'
  BY SameInFlight DEF AudioInv, Sole
<1>3. Quiet'
  BY DEF AudioInv, Quiet, ClearCall, CloseAudio
<1>4. Guarded'
  <2>. SUFFICES ASSUME NEW t \in Tasks, NEW c \in Calls, Flushes(t, c)'
                PROVE  /\ status'[c] # "absent"
                       /\ phase'[c] # "open"
                       /\ phase'[c] = "none" => \A s1 \in Sockets : context'[s1] # c
                       /\ task'[t].at = "accounting" => todo'[c] = {}
    BY DEF Guarded
  <2>1. Flushes(t, c) /\ task'[t].at = task[t].at
    BY SameInFlight
  <2>2. CASE c = context[s]
    BY <2>1, <2>2, SetsAssumption
       DEF AudioInv, Guarded, Apart, ClearCall, CloseAudio, TypeOK
  <2>3. CASE c # context[s]
    BY <2>1, <2>3, SetsAssumption DEF AudioInv, Guarded, ClearCall, CloseAudio, TypeOK
  <2>. QED BY <2>2, <2>3
<1>5. Budget'
  BY SameInFlight DEF AudioInv, Budget, ClearCall, CloseAudio
<1>6. Balance'
  <2>. SUFFICES ASSUME NEW c \in Calls
                PROVE  said'[c] = finals'[c] + lost'[c] + Cardinality(Pending(c)')
                                            + Cardinality(InFlight(c)')
    BY DEF Balance
  <2>0. InFlight(c)' = InFlight(c)
    BY SameInFlight
  <2>n. /\ finals[c] \in Nat /\ lost[c] \in Nat /\ Cardinality(Pending(c)) \in Nat
        /\ Cardinality(InFlight(c)) \in Nat
    BY PendingSize, InFlightSize DEF TypeOK
  <2>1. CASE c = context[s]
    <3>1. Cardinality(Pending(c)') = 0
      <4>1. Pending(c)' = {}
        BY <2>1 DEF Pending, ClearCall, CloseAudio
      <4>. QED BY <4>1, FS_EmptySet
    <3>2. lost'[c] = lost[c] + Cardinality(Pending(c))
      BY <2>1 DEF ClearCall, GiveUp, TypeOK
    <3>. QED BY <2>0, <2>n, <3>1, <3>2 DEF AudioInv, Balance
  <2>2. CASE c # context[s]
    <3>1. Pending(c)' = Pending(c)
      BY <2>2 DEF Pending, ClearCall, CloseAudio
    <3>2. lost'[c] = lost[c]
      BY <2>2 DEF ClearCall, GiveUp, TypeOK
    <3>. QED BY <2>0, <3>1, <3>2 DEF AudioInv, Balance
  <2>. QED BY <2>1, <2>2
<1>. QED BY <1>1, <1>2, <1>3, <1>4, <1>5, <1>6 DEF AudioInv

\* A row is created and its context put in the map.
LEMMA Created ==
    ASSUME TypeOK, AudioInv, NEW t \in Tasks, NEW c \in Calls, CallCreated(t, c)
    PROVE  AudioInv'
<1>. DEFINE s == task[t].sock
<1>0. s \in Sockets
  BY AwaitFields DEF CallCreated, TypeOK
<1>1. SameFlushes
  BY Labels DEF CallCreated, SameFlushes, TypeOK
<1>2. Held' /\ Apart'
  BY <1>0 DEF AudioInv, Held, Apart, CallCreated, TypeOK
<1>3. Guarded' /\ Sole'
  <2>1. Sole'
    BY <1>1, SameInFlight DEF AudioInv, Sole
  <2>2. Guarded'
    <3>. SUFFICES ASSUME NEW u \in Tasks, NEW d \in Calls, Flushes(u, d)'
                  PROVE  /\ status'[d] # "absent"
                         /\ phase'[d] # "open"
                         /\ phase'[d] = "none" => \A x \in Sockets : context'[x] # d
                         /\ task'[u].at = "accounting" => todo'[d] = {}
      BY DEF Guarded
    <3>1. Flushes(u, d) /\ task'[u].at = task[u].at
      BY <1>1, SameInFlight
    <3>2. d # c
      BY <3>1 DEF AudioInv, Guarded, CallCreated
    <3>. QED BY <1>0, <3>1, <3>2 DEF AudioInv, Guarded, CallCreated, TypeOK, audio
  <2>. QED BY <2>1, <2>2
<1>4. Quiet'
  BY DEF AudioInv, Quiet, CallCreated, TypeOK, audio
<1>5. Budget'
  BY <1>1, SameInFlight DEF AudioInv, Budget, CallCreated, audio, books
<1>6. Balance'
  BY <1>1, SameInFlight DEF AudioInv, Balance, Pending, CallCreated, audio, books
<1>. QED BY <1>2, <1>3, <1>4, <1>5, <1>6 DEF AudioInv

\* An audio session begins on a call nobody flushes.
LEMMA Started ==
    ASSUME TypeOK, AudioInv, NEW s \in Sockets, NEW declared \in SUBSET Sources,
           AudioStart(s, declared)
    PROVE  AudioInv'
<1>. DEFINE c == context[s]
<1>0. c \in Calls /\ phase[c] = "none" /\ status[c] # "absent"
  BY DEF AudioStart, TypeOK, AudioInv, Held
<1>1. SameFlushes
  BY DEF AudioStart, SameFlushes
<1>2. \A t \in Tasks : ~Flushes(t, c)
  BY <1>0 DEF AudioInv, Guarded
<1>3. Held' /\ Apart'
  BY DEF AudioInv, Held, Apart, AudioStart, rows
<1>4. Guarded' /\ Sole'
  BY <1>0, <1>1, <1>2, SameInFlight DEF AudioInv, Guarded, Sole, AudioStart, TypeOK, rows
<1>5. Quiet'
  BY <1>0 DEF AudioInv, Quiet, AudioStart, TypeOK, rows
<1>6. Budget'
  BY <1>0, <1>1, <1>2, SameInFlight DEF AudioInv, Budget, AudioStart, TypeOK
<1>7. Balance'
  <2>. SUFFICES ASSUME NEW d \in Calls PROVE Pending(d)' = Pending(d)
    BY <1>1, SameInFlight DEF AudioInv, Balance, AudioStart
  <2>1. CASE d = c
    BY <1>0, <2>1 DEF AudioInv, Quiet, Pending, AudioStart, TypeOK
  <2>2. CASE d # c
    BY <1>0, <2>2 DEF Pending, AudioStart, TypeOK
  <2>. QED BY <2>1, <2>2
<1>. QED BY <1>3, <1>4, <1>5, <1>6, <1>7 DEF AudioInv

\* A source is heard: still to be flushed, or too late.
LEMMA Chunked ==
    ASSUME TypeOK, AudioInv, NEW s \in Sockets, NEW src \in Sources, AudioChunk(s, src)
    PROVE  AudioInv'
<1>. DEFINE c == context[s]
<1>0. c \in Calls /\ phase[c] # "none"
  BY DEF AudioChunk, TypeOK
<1>1. SameFlushes
  BY DEF AudioChunk, SameFlushes
<1>3. Held' /\ Apart'
  BY DEF AudioInv, Held, Apart, AudioChunk, rows
<1>4. Guarded' /\ Sole'
  BY <1>1, SameInFlight DEF AudioInv, Guarded, Sole, AudioChunk, rows
<1>5. Quiet'
  BY <1>0 DEF AudioInv, Quiet, AudioChunk, TypeOK, rows
<1>6. Budget'
  BY <1>1, SameInFlight DEF AudioInv, Budget, AudioChunk
<1>7. Balance'
  <2>. SUFFICES ASSUME NEW d \in Calls
                PROVE  said'[d] = finals'[d] + lost'[d] + Cardinality(Pending(d)')
                                            + Cardinality(InFlight(d)')
    BY DEF Balance
  <2>0. InFlight(d)' = InFlight(d)
    BY <1>1, SameInFlight
  <2>n. /\ finals[d] \in Nat /\ lost[d] \in Nat /\ Cardinality(Pending(d)) \in Nat
        /\ Cardinality(InFlight(d)) \in Nat /\ IsFiniteSet(Pending(d))
        /\ said[d] = finals[d] + lost[d] + Cardinality(Pending(d)) + Cardinality(InFlight(d))
    BY PendingSize, InFlightSize DEF TypeOK, AudioInv, Balance
  <2>1. CASE d # c
    <3>1. /\ Pending(d)' = Pending(d) /\ said'[d] = said[d] /\ lost'[d] = lost[d]
          /\ finals'[d] = finals[d]
      BY <1>0, <2>1 DEF Pending, AudioChunk, TypeOK
    <3>. QED BY <2>0, <2>n, <3>1
  <2>2. CASE d = c
    <3>1. /\ heard'[d] = heard[d] \cup {src} /\ src \notin heard[d] /\ todo'[d] = todo[d]
          /\ said'[d] = said[d] + 1 /\ finals'[d] = finals[d]
          /\ lost'[d] = lost[d] + IF src \in todo[d] THEN 0 ELSE 1
      BY <1>0, <2>2 DEF AudioChunk, TypeOK
    <3>2. CASE src \in todo[d]
      <4>1. Pending(d)' = Pending(d) \cup {src} /\ src \notin Pending(d)
        BY <3>1, <3>2 DEF Pending
      <4>2. Cardinality(Pending(d)') = Cardinality(Pending(d)) + 1
        BY <2>n, <4>1, FS_AddElement
      <4>. QED BY <2>0, <2>n, <3>1, <3>2, <4>2
    <3>3. CASE src \notin todo[d]
      <4>1. Pending(d)' = Pending(d)
        BY <3>1, <3>3 DEF Pending
      <4>. QED BY <2>0, <2>n, <3>1, <3>3, <4>1
    <3>. QED BY <3>2, <3>3
  <2>. QED BY <2>1, <2>2
<1>. QED BY <1>3, <1>4, <1>5, <1>6, <1>7 DEF AudioInv

----------------------------------------------------------------------------
(* The walk of the session map.                                            *)

\* One advance of the walk takes one source off, or finds none left.
LEMMA Advanced ==
    ASSUME TypeOK, NEW t \in Tasks, NEW op, NEW s, NEW c \in Calls, NEW e,
           AdvanceFlush(t, op, s, c, e), UNCHANGED heard,
           \A d \in Calls : Flushes(t, d) => d = c
    PROVE  /\ \A u \in Tasks : u # t => task'[u] = task[u]
           /\ Flushes(t, c)'
           /\ \A d \in Calls : d # c =>
                 /\ ~Flushes(t, d)' /\ ~Flushes(t, d)
                 /\ todo'[d] = todo[d] /\ Pending(d)' = Pending(d)
                 /\ InFlight(d)' = InFlight(d)
           /\ \/ /\ task'[t].at = "appending"
                 /\ Cardinality(Pending(c)') = Cardinality(Pending(c)) - 1
                 /\ InFlight(c)' = InFlight(c) \cup {t}
              \/ /\ task'[t].at = "accounting"
                 /\ todo'[c] = {}
                 /\ Pending(c) = {} /\ Pending(c)' = {}
                 /\ InFlight(c)' = InFlight(c) \ {t}
<1>1. ASSUME NEW src \in Pending(c), NEW skipped \in SUBSET (todo[c] \ heard[c]),
             todo' = [todo EXCEPT ![c] = @ \ ({src} \cup skipped)],
             task' = [task EXCEPT ![t] = Appending(op, s, c, src, e)]
      PROVE  /\ task'[t].at = "appending" /\ task'[t].call = c
             /\ \A u \in Tasks : u # t => task'[u] = task[u]
             /\ \A d \in Calls : d # c => todo'[d] = todo[d]
             /\ Cardinality(Pending(c)') = Cardinality(Pending(c)) - 1
  <2>1. Pending(c)' = Pending(c) \ {src}
    BY <1>1 DEF Pending, TypeOK
  <2>2. Cardinality(Pending(c)') = Cardinality(Pending(c)) - 1
    BY <1>1, <2>1, PendingSize, FS_RemoveElement
  <2>. QED BY <1>1, <2>2, Labels DEF TypeOK
<1>2. ASSUME Pending(c) = {}, todo' = [todo EXCEPT ![c] = {}],
             task' = [task EXCEPT ![t] = Accounting(op, s, c, e)]
      PROVE  /\ task'[t].at = "accounting" /\ task'[t].call = c
             /\ \A u \in Tasks : u # t => task'[u] = task[u]
             /\ \A d \in Calls : d # c => todo'[d] = todo[d]
             /\ todo'[c] = {} /\ Pending(c)' = {}
  BY <1>2, Labels DEF Pending, TypeOK
<1>3. /\ task'[t].at \in {"appending", "accounting"} /\ task'[t].call = c
      /\ \A u \in Tasks : u # t => task'[u] = task[u]
      /\ \A d \in Calls : d # c => todo'[d] = todo[d]
  BY <1>1, <1>2 DEF AdvanceFlush
<1>4. ASSUME NEW d \in Calls, d # c
      PROVE  ~Flushes(t, d)' /\ ~Flushes(t, d) /\ Pending(d)' = Pending(d)
             /\ InFlight(d)' = InFlight(d)
  BY <1>3, <1>4 DEF Flushes, InFlight, Pending
<1>5. CASE task'[t].at = "appending"
  <2>1. Cardinality(Pending(c)') = Cardinality(Pending(c)) - 1
    BY <1>1, <1>2, <1>5 DEF AdvanceFlush
  <2>2. InFlight(c)' = InFlight(c) \cup {t}
    BY <1>3, <1>5 DEF InFlight
  <2>. QED BY <1>3, <1>4, <1>5, <2>1, <2>2 DEF Flushes
<1>6. CASE task'[t].at = "accounting"
  <2>1. todo'[c] = {} /\ Pending(c) = {} /\ Pending(c)' = {}
    BY <1>1, <1>2, <1>6 DEF AdvanceFlush
  <2>2. InFlight(c)' = InFlight(c) \ {t}
    BY <1>3, <1>6 DEF InFlight
  <2>. QED BY <1>3, <1>4, <1>6, <2>1, <2>2 DEF Flushes
<1>. QED BY <1>3, <1>5, <1>6

\* The invariant but for the tally, after an advance of the walk of call c.
LEMMA WalkShape ==
    ASSUME TypeOK, AudioInv, NEW t \in Tasks, NEW op, NEW s, NEW c \in Calls, NEW e,
           AdvanceFlush(t, op, s, c, e),
           \A d \in Calls : Flushes(t, d) => d = c,
           \A u \in Tasks : Flushes(u, c) => u = t,
           status[c] # "absent", usage[c] < begun[c],
           phase'[c] # "open", phase'[c] = "none" => \A x \in Sockets : context[x] # c,
           \A d \in Calls : d # c => phase'[d] = phase[d],
           phase'[c] = "none" => phase[c] = "none",
           UNCHANGED <<status, context, heard, usage, begun>>
    PROVE  (Held /\ Apart /\ Guarded /\ Sole /\ Quiet /\ Budget)'
<1>0. /\ \A u \in Tasks : u # t => task'[u] = task[u]
      /\ Flushes(t, c)'
      /\ \A d \in Calls : d # c => ~Flushes(t, d)' /\ ~Flushes(t, d) /\ todo'[d] = todo[d]
      /\ task'[t].at = "accounting" => todo'[c] = {}
  BY Advanced
<1>1. \A u \in Tasks, d \in Calls : u # t => (Flushes(u, d)' <=> Flushes(u, d))
  BY <1>0 DEF Flushes
<1>2. Held' /\ Apart'
  BY DEF AudioInv, Held, Apart
<1>3. Sole'
  BY <1>0, <1>1 DEF AudioInv, Sole
<1>4. Guarded'
  <2>. SUFFICES ASSUME NEW u \in Tasks, NEW d \in Calls, Flushes(u, d)'
                PROVE  /\ status'[d] # "absent"
                       /\ phase'[d] # "open"
                       /\ phase'[d] = "none" => \A x \in Sockets : context'[x] # d
                       /\ task'[u].at = "accounting" => todo'[d] = {}
    BY DEF Guarded
  <2>1. CASE u = t
    BY <1>0, <2>1
  <2>2. CASE u # t
    <3>1. Flushes(u, d) /\ d # c
      BY <1>1, <2>2
    <3>. QED BY <1>0, <2>2, <3>1 DEF AudioInv, Guarded
  <2>. QED BY <2>1, <2>2
<1>5. Quiet'
  <2>. SUFFICES ASSUME NEW d \in Calls
                PROVE  /\ phase'[d] = "none" => todo'[d] = {} /\ heard'[d] = {}
                       /\ status'[d] = "absent" => phase'[d] = "none"
    BY DEF Quiet
  <2>1. CASE d # c
    BY <1>0, <2>1 DEF AudioInv, Quiet
  <2>2. CASE d = c
    <3>1. ASSUME phase'[c] = "none" PROVE todo'[c] = {} /\ heard'[c] = {}
      <4>1. todo[c] = {} /\ heard[c] = {}
        BY <3>1 DEF AudioInv, Quiet
      <4>2. todo'[c] \subseteq todo[c]
        BY <4>1 DEF AdvanceFlush, TypeOK
      <4>. QED BY <4>1, <4>2
    <3>. QED BY <2>2, <3>1
  <2>. QED BY <2>1, <2>2
<1>6. Budget'
  <2>. SUFFICES ASSUME NEW d \in Calls
                PROVE  /\ usage'[d] <= begun'[d]
                       /\ phase'[d] = "open" \/ (\E u \in Tasks : Flushes(u, d)')
                            => usage'[d] < begun'[d]
    BY DEF Budget
  <2>1. CASE d # c
    BY <1>0, <1>1, <2>1 DEF AudioInv, Budget
  <2>2. CASE d = c
    BY <2>2 DEF AudioInv, Budget
  <2>. QED BY <2>1, <2>2
<1>. QED BY <1>2, <1>3, <1>4, <1>5, <1>6

\* A flush begins.
LEMMA Begun ==
    ASSUME TypeOK, AudioInv, NEW t \in Tasks, NEW op, NEW s \in Sockets,
           task[t] = Idle, context[s] # NoCall, BeginFlush(t, op, s),
           UNCHANGED <<status, context, heard, books>>
    PROVE  AudioInv'
<1>c. PICK c \in Calls : c = context[s]
  BY DEF TypeOK
<1>0. phase[c] = "open" /\ AdvanceFlush(t, op, s, c, FALSE)
  BY <1>c DEF BeginFlush, NeedsFlush
<1>1. /\ \A d \in Calls : ~Flushes(t, d)
      /\ \A u \in Tasks : ~Flushes(u, c)
      /\ status[c] # "absent" /\ usage[c] < begun[c]
  BY <1>0, Labels DEF AudioInv, Guarded, Budget, Quiet, Flushes
<1>2. phase'[c] = "flushing" /\ \A d \in Calls : d # c => phase'[d] = phase[d]
  BY <1>c, <1>0 DEF BeginFlush, TypeOK
<1>a. UNCHANGED heard
  OBVIOUS
<1>3. (Held /\ Apart /\ Guarded /\ Sole /\ Quiet /\ Budget)'
  BY <1>0, <1>1, <1>2, WalkShape DEF books
<1>4. Balance'
  <2>. SUFFICES ASSUME NEW d \in Calls
                PROVE  said'[d] = finals'[d] + lost'[d] + Cardinality(Pending(d)')
                                            + Cardinality(InFlight(d)')
    BY DEF Balance
  <2>n. /\ finals[d] \in Nat /\ lost[d] \in Nat /\ Cardinality(Pending(d)) \in Nat
        /\ Cardinality(InFlight(d)) \in Nat /\ IsFiniteSet(InFlight(d))
        /\ said[d] = finals[d] + lost[d] + Cardinality(Pending(d)) + Cardinality(InFlight(d))
    BY PendingSize, InFlightSize DEF TypeOK, AudioInv, Balance
  <2>b. finals'[d] = finals[d] /\ lost'[d] = lost[d] /\ said'[d] = said[d]
    BY DEF books
  <2>1. CASE d # c
    <3>1. Pending(d)' = Pending(d) /\ InFlight(d)' = InFlight(d)
      BY <1>0, <1>1, <1>a, <2>1, Advanced
    <3>. QED BY <2>n, <2>b, <3>1
  <2>2. CASE d = c
    <3>0. t \notin InFlight(c)
      BY Labels DEF InFlight
    <3>1. \/ /\ Cardinality(Pending(c)') = Cardinality(Pending(c)) - 1
             /\ InFlight(c)' = InFlight(c) \cup {t}
          \/ /\ Pending(c) = {} /\ Pending(c)' = {}
             /\ InFlight(c)' = InFlight(c) \ {t}
      BY <1>0, <1>1, <1>a, Advanced
    <3>2. CASE /\ Cardinality(Pending(c)') = Cardinality(Pending(c)) - 1
               /\ InFlight(c)' = InFlight(c) \cup {t}
      <4>1. Cardinality(InFlight(c)') = Cardinality(InFlight(c)) + 1
        BY <2>n, <2>2, <3>0, <3>2, FS_AddElement
      <4>. QED BY <2>n, <2>b, <2>2, <3>2, <4>1
    <3>3. CASE Pending(c) = {} /\ Pending(c)' = {} /\ InFlight(c)' = InFlight(c) \ {t}
      <4>1. InFlight(c)' = InFlight(c)
        BY <3>0, <3>3
      <4>. QED BY <2>n, <2>b, <2>2, <3>3, <4>1
    <3>. QED BY <3>1, <3>2, <3>3
  <2>. QED BY <2>1, <2>2
<1>. QED BY <1>3, <1>4 DEF AudioInv

\* A final transcript is stored or given up, and the walk goes on.
LEMMA Appended ==
    ASSUME TypeOK, AudioInv, NEW t \in Tasks, AppendFinal(t)
    PROVE  AudioInv'
<1>c. PICK c \in Calls : c = task[t].call
  BY AwaitFields DEF AppendFinal, TypeOK
<1>0. Flushes(t, c) /\ t \in InFlight(c)
  BY <1>c DEF AppendFinal, Flushes, InFlight
<1>1. PICK op, s, e : AdvanceFlush(t, op, s, c, e)
  BY <1>c DEF AppendFinal
<1>2. UNCHANGED <<status, context, heard, phase, said, usage, begun>>
  BY DEF AppendFinal, rows
<1>3. /\ \A d \in Calls : Flushes(t, d) => d = c
      /\ \A u \in Tasks : Flushes(u, c) => u = t
      /\ status[c] # "absent" /\ usage[c] < begun[c] /\ phase[c] # "open"
      /\ phase[c] = "none" => \A x \in Sockets : context[x] # c
  BY <1>0 DEF AudioInv, Guarded, Budget, Sole, Flushes
<1>4. (Held /\ Apart /\ Guarded /\ Sole /\ Quiet /\ Budget)'
  BY <1>0, <1>1, <1>2, <1>3, WalkShape
<1>5. Balance'
  <2>. SUFFICES ASSUME NEW d \in Calls
                PROVE  said'[d] = finals'[d] + lost'[d] + Cardinality(Pending(d)')
                                            + Cardinality(InFlight(d)')
    BY DEF Balance
  <2>n. /\ finals[d] \in Nat /\ lost[d] \in Nat /\ Cardinality(Pending(d)) \in Nat
        /\ Cardinality(InFlight(d)) \in Nat /\ IsFiniteSet(InFlight(d))
        /\ said[d] = finals[d] + lost[d] + Cardinality(Pending(d)) + Cardinality(InFlight(d))
    BY PendingSize, InFlightSize DEF TypeOK, AudioInv, Balance
  <2>b. said'[d] = said[d]
    BY <1>2
  <2>e. \/ finals' = [finals EXCEPT ![c] = @ + 1] /\ lost' = lost
        \/ lost' = [lost EXCEPT ![c] = @ + 1] /\ finals' = finals
    BY <1>c DEF AppendFinal
  <2>1. CASE d # c
    <3>1. Pending(d)' = Pending(d) /\ InFlight(d)' = InFlight(d)
      BY <1>0, <1>1, <1>2, <1>3, <2>1, Advanced
    <3>2. finals'[d] = finals[d] /\ lost'[d] = lost[d]
      BY <2>1, <2>e DEF TypeOK
    <3>. QED BY <2>n, <2>b, <3>1, <3>2
  <2>2. CASE d = c
    <3>1. \/ /\ Cardinality(Pending(c)') = Cardinality(Pending(c)) - 1
             /\ InFlight(c)' = InFlight(c) \cup {t}
          \/ /\ Pending(c) = {} /\ Pending(c)' = {}
             /\ InFlight(c)' = InFlight(c) \ {t}
      BY <1>0, <1>1, <1>2, <1>3, Advanced
    <3>2. finals'[d] + lost'[d] = finals[d] + lost[d] + 1
      <4>1. CASE finals' = [finals EXCEPT ![c] = @ + 1] /\ lost' = lost
        BY <1>0, <2>n, <2>2, <4>1 DEF TypeOK
      <4>2. CASE lost' = [lost EXCEPT ![c] = @ + 1] /\ finals' = finals
        BY <1>0, <2>n, <2>2, <4>2 DEF TypeOK
      <4>. QED BY <2>e, <4>1, <4>2
    <3>3. finals'[d] \in Nat /\ lost'[d] \in Nat
      <4>1. CASE finals' = [finals EXCEPT ![c] = @ + 1] /\ lost' = lost
        BY <1>0, <2>n, <2>2, <4>1 DEF TypeOK
      <4>2. CASE lost' = [lost EXCEPT ![c] = @ + 1] /\ finals' = finals
        BY <1>0, <2>n, <2>2, <4>2 DEF TypeOK
      <4>. QED BY <2>e, <4>1, <4>2
    <3>4. CASE /\ Cardinality(Pending(c)') = Cardinality(Pending(c)) - 1
               /\ InFlight(c)' = InFlight(c) \cup {t}
      <4>1. InFlight(c)' = InFlight(c)
        BY <1>0, <3>4
      <4>2. Cardinality(InFlight(d)') = Cardinality(InFlight(d))
        BY <2>2, <4>1
      <4>3. Cardinality(Pending(d)') = Cardinality(Pending(d)) - 1
        BY <2>2, <3>4
      <4>. QED BY <2>n, <2>b, <3>2, <3>3, <4>2, <4>3
    <3>5. CASE Pending(c) = {} /\ Pending(c)' = {} /\ InFlight(c)' = InFlight(c) \ {t}
      <4>1. Cardinality(InFlight(c)') = Cardinality(InFlight(c)) - 1
        BY <1>0, <2>n, <2>2, <3>5, FS_RemoveElement
      <4>2. Cardinality(Pending(d)') = Cardinality(Pending(d))
        BY <2>2, <3>5
      <4>3. Cardinality(InFlight(d)') = Cardinality(InFlight(d)) - 1
        BY <2>2, <4>1
      <4>. QED BY <2>n, <2>b, <3>2, <3>3, <4>2, <4>3
    <3>. QED BY <3>1, <3>4, <3>5
  <2>. QED BY <2>1, <2>2
<1>. QED BY <1>4, <1>5 DEF AudioInv

\* A flush is over: the audio session of its call goes, and with it, when the
\* flush failed in end_call, the context the socket has by now.
LEMMA Accounted ==
    ASSUME TypeOK, AudioInv, NEW t \in Tasks, AudioFlushed(t) \/ EndFlushFailed(t)
    PROVE  AudioInv'
<1>c. PICK c \in Calls : c = task[t].call
  BY AwaitFields DEF AudioFlushed, EndFlushFailed, TypeOK
<1>d. PICK d : d = IF AudioFlushed(t) THEN c ELSE context[task[t].sock]
  OBVIOUS
<1>0. Flushes(t, c) /\ task[t].at = "accounting"
  BY <1>c DEF AudioFlushed, EndFlushFailed, Flushes
<1>1. /\ \A u \in Tasks : u # t => task'[u] = task[u]
      /\ task'[t].at \notin {"appending", "accounting"}
  BY Labels DEF AudioFlushed, EndFlushFailed, TypeOK
<1>2. /\ UNCHANGED <<status, begun, said, finals>>
      /\ usage' \in {usage, [usage EXCEPT ![c] = @ + 1]}
      /\ CloseAudio({c, d})
      /\ \A x \in Sockets : context'[x] \in {context[x], NoCall}
      /\ d # c => \A x \in Sockets : context'[x] # d \/ d \notin Calls
  <2>1. CASE AudioFlushed(t)
    BY <1>c, <1>d, <2>1 DEF AudioFlushed, RecordUsage, rows
  <2>2. CASE EndFlushFailed(t) /\ ~AudioFlushed(t)
    <3>1. task[t].sock \in Sockets
      BY AwaitFields, <1>0 DEF TypeOK
    <3>2. context' = [context EXCEPT ![task[t].sock] = NoCall] /\ d = context[task[t].sock]
      BY <1>d, <2>2 DEF EndFlushFailed
    <3>3. \A x \in Sockets : context'[x] \in {context[x], NoCall}
      BY <3>1, <3>2 DEF TypeOK
    <3>4. \A x \in Sockets : context'[x] # d \/ d \notin Calls
      BY <3>1, <3>2, SetsAssumption DEF TypeOK, AudioInv, Apart
    <3>. QED BY <1>c, <2>2, <3>2, <3>3, <3>4 DEF EndFlushFailed, RecordUsage, rows
  <2>. QED BY <2>1, <2>2
<1>3. \A b \in Calls : /\ b \in {c, d} => phase'[b] = "none" /\ todo'[b] = {} /\ heard'[b] = {}
                       /\ b \notin {c, d} => /\ phase'[b] = phase[b] /\ todo'[b] = todo[b]
                                             /\ heard'[b] = heard[b]
  BY <1>2 DEF CloseAudio
<1>4. \A u \in Tasks, b \in Calls : Flushes(u, b)' <=> Flushes(u, b) /\ u # t
  BY <1>1 DEF Flushes
<1>5. \A u \in Tasks : ~Flushes(u, c)'
  BY <1>0, <1>4 DEF AudioInv, Sole
<1>6. Held' /\ Apart'
  <2>1. \A x \in Sockets : context'[x] \in Calls => context'[x] = context[x]
    BY <1>2, SetsAssumption
  <2>. QED BY <1>2, <2>1 DEF AudioInv, Held, Apart
<1>7. Sole'
  BY <1>4 DEF AudioInv, Sole
<1>8. Guarded'
  <2>. SUFFICES ASSUME NEW u \in Tasks, NEW b \in Calls, Flushes(u, b)'
                PROVE  /\ status'[b] # "absent"
                       /\ phase'[b] # "open"
                       /\ phase'[b] = "none" => \A x \in Sockets : context'[x] # b
                       /\ task'[u].at = "accounting" => todo'[b] = {}
    BY DEF Guarded
  <2>1. Flushes(u, b) /\ u # t /\ b # c /\ task'[u] = task[u]
    BY <1>1, <1>4, <1>5
  <2>2. CASE b = d
    BY <1>2, <1>3, <2>1, <2>2 DEF AudioInv, Guarded
  <2>3. CASE b # d
    <3>1. phase'[b] = phase[b] /\ todo'[b] = todo[b]
      BY <1>3, <2>1, <2>3
    <3>2. \A x \in Sockets : context'[x] = b => context[x] = b
      BY <1>2, SetsAssumption
    <3>. QED BY <1>2, <2>1, <3>1, <3>2 DEF AudioInv, Guarded
  <2>. QED BY <2>2, <2>3
<1>9. Quiet'
  BY <1>2, <1>3 DEF AudioInv, Quiet
<1>10. Budget'
  <2>. SUFFICES ASSUME NEW b \in Calls
                PROVE  /\ usage'[b] <= begun'[b]
                       /\ phase'[b] = "open" \/ (\E u \in Tasks : Flushes(u, b)')
                            => usage'[b] < begun'[b]
    BY DEF Budget
  <2>1. CASE b = c
    <3>1. usage[c] \in Nat /\ begun[c] \in Nat /\ usage[c] < begun[c]
      BY <1>0 DEF TypeOK, AudioInv, Budget
    <3>2. usage'[c] \in {usage[c], usage[c] + 1} /\ begun'[c] = begun[c]
      BY <1>2 DEF TypeOK
    <3>3. phase'[c] = "none"
      BY <1>3
    <3>. QED BY <1>5, <2>1, <3>1, <3>2, <3>3
  <2>2. CASE b # c
    <3>1. usage'[b] = usage[b] /\ begun'[b] = begun[b]
      BY <1>2, <2>2 DEF TypeOK
    <3>2. phase'[b] = "open" => phase[b] = "open"
      BY <1>3
    <3>. QED BY <1>4, <3>1, <3>2 DEF AudioInv, Budget
  <2>. QED BY <2>1, <2>2
<1>11. Balance'
  <2>. SUFFICES ASSUME NEW b \in Calls
                PROVE  said'[b] = finals'[b] + lost'[b] + Cardinality(Pending(b)')
                                            + Cardinality(InFlight(b)')
    BY DEF Balance
  <2>n. /\ finals[b] \in Nat /\ lost[b] \in Nat /\ Cardinality(Pending(b)) \in Nat
        /\ Cardinality(InFlight(b)) \in Nat
        /\ said[b] = finals[b] + lost[b] + Cardinality(Pending(b)) + Cardinality(InFlight(b))
    BY PendingSize, InFlightSize DEF TypeOK, AudioInv, Balance
  <2>0. finals'[b] = finals[b] /\ said'[b] = said[b]
    BY <1>2
  <2>1. InFlight(b)' = InFlight(b)
    BY <1>0, <1>1 DEF InFlight
  <2>2. /\ lost'[b] + Cardinality(Pending(b)') = lost[b] + Cardinality(Pending(b))
        /\ lost'[b] \in Nat /\ Cardinality(Pending(b)') \in Nat
    <3>1. Pending(c) = {}
      BY <1>0 DEF AudioInv, Guarded, Pending
    <3>2. b \in {c, d} => Pending(b)' = {}
      BY <1>3 DEF Pending
    <3>3. b \notin {c, d} => Pending(b)' = Pending(b)
      BY <1>3 DEF Pending
    <3>4. lost'[b] = IF b = d THEN lost[b] + Cardinality(Pending(b)) ELSE lost[b]
      <4>1. CASE AudioFlushed(t)
        <5>1. d = c /\ lost' = lost
          BY <1>d, <4>1 DEF AudioFlushed
        <5>2. Cardinality(Pending(c)) = 0
          BY <3>1, FS_EmptySet
        <5>. QED BY <2>n, <5>1, <5>2
      <4>2. CASE EndFlushFailed(t) /\ ~AudioFlushed(t)
        BY <1>d, <4>2 DEF EndFlushFailed, GiveUp, TypeOK
      <4>. QED BY <4>1, <4>2
    <3>5. CASE b = d
      <4>1. Cardinality(Pending(b)') = 0
        BY <3>2, <3>5, FS_EmptySet
      <4>. QED BY <2>n, <3>4, <3>5, <4>1
    <3>6. CASE b # d /\ b = c
      <4>1. Cardinality(Pending(b)') = Cardinality(Pending(b))
        BY <3>1, <3>2, <3>6
      <4>. QED BY <2>n, <3>4, <3>6, <4>1
    <3>7. CASE b \notin {c, d}
      <4>1. Cardinality(Pending(b)') = Cardinality(Pending(b))
        BY <3>3, <3>7
      <4>. QED BY <2>n, <3>4, <3>7, <4>1
    <3>. QED BY <3>5, <3>6, <3>7
  <2>3. Cardinality(InFlight(b)') = Cardinality(InFlight(b))
    BY <2>1
  <2>. QED BY <2>n, <2>0, <2>2, <2>3
<1>. QED BY <1>6, <1>7, <1>8, <1>9, <1>10, <1>11 DEF AudioInv

\* The server dies: what was not flushed, or was being stored, is given up.
LEMMA Crashed ==
    ASSUME TypeOK, AudioInv, Crash
    PROVE  AudioInv'
<1>1. \A c \in Calls : /\ phase'[c] = "none" /\ todo'[c] = {} /\ heard'[c] = {}
                       /\ InFlight(c)' = {} /\ \A t \in Tasks : ~Flushes(t, c)'
  BY Labels DEF Crash, CloseAudio, InFlight, Flushes
<1>2. Held' /\ Apart'
  BY SetsAssumption DEF Crash, Held, Apart
<1>3. Guarded' /\ Sole' /\ Quiet'
  BY <1>1 DEF Guarded, Sole, Quiet
<1>4. Budget'
  BY <1>1 DEF AudioInv, Budget, Crash
<1>5. Balance'
  <2>. SUFFICES ASSUME NEW c \in Calls
                PROVE  said'[c] = finals'[c] + lost'[c] + Cardinality(Pending(c)')
                                            + Cardinality(InFlight(c)')
    BY DEF Balance
  <2>1. /\ finals[c] \in Nat /\ lost[c] \in Nat /\ Cardinality(Pending(c)) \in Nat
        /\ Cardinality(InFlight(c)) \in Nat
        /\ said[c] = finals[c] + lost[c] + Cardinality(Pending(c)) + Cardinality(InFlight(c))
    BY PendingSize, InFlightSize DEF TypeOK, AudioInv, Balance
  <2>2. /\ finals'[c] = finals[c] /\ said'[c] = said[c]
        /\ lost'[c] = lost[c] + Cardinality(Pending(c)) + Cardinality(InFlight(c))
    BY DEF Crash
  <2>3. Pending(c)' = {}
    BY <1>1 DEF Pending
  <2>4. Cardinality(Pending(c)') = 0 /\ Cardinality(InFlight(c)') = 0
    BY <1>1, <2>3, FS_EmptySet
  <2>. QED BY <2>1, <2>2, <2>4
<1>. QED BY <1>2, <1>3, <1>4, <1>5 DEF AudioInv

\* The ledger's invariant is inductive: one step per action, and most of them
\* leave the audio alone.
LEMMA AudioInductive ==
    ASSUME TypeOK, AudioInv, [Next]_vars
    PROVE  AudioInv'
<1>1. ASSUME NEW t \in Tasks, TaskStep(t) PROVE AudioInv'
  <2>1. CASE \E c \in Calls : CallCreated(t, c)
    BY <2>1, Created
  <2>2. CASE CallRefused(t)
    BY <2>2, Undisturbed, Labels DEF CallRefused, SameFlushes, RowsStay, TypeOK, rows
  <2>3. CASE AppendFinal(t)
    BY <2>3, Appended
  <2>4. CASE AudioFlushed(t) \/ EndFlushFailed(t)
    BY <2>4, Accounted
  <2>5. CASE RowEnded(t)
    <3>1. SameFlushes
      BY <2>5, Labels DEF RowEnded, SameFlushes, TypeOK
    <3>2. RowsStay /\ \A c \in Calls : status'[c] = "absent" => status[c] = "absent"
      BY <2>5 DEF RowEnded, RowsStay, Endable, TypeOK
    <3>. QED BY <2>5, <3>1, <3>2, Undisturbed DEF RowEnded
  <2>6. CASE EndFails(t)
    <3>1. SameFlushes /\ task[t].sock \in Sockets
      BY <2>6, Labels, AwaitFields DEF EndFails, SameFlushes, TypeOK
    <3>. QED BY <2>6, <3>1, Cleared DEF EndFails, rows
  <2>7. CASE EndAcked(t)
    <3>1. SameFlushes /\ task[t].sock \in Sockets
      BY <2>7, Labels, AwaitFields DEF EndAcked, SameFlushes, TypeOK
    <3>. QED BY <2>7, <3>1, Cleared DEF EndAcked, rows
  <2>8. CASE HeartbeatTouches(t)
    <3>1. SameFlushes /\ RowsStay
      BY <2>8, Labels DEF HeartbeatTouches, SameFlushes, RowsStay, TypeOK
    <3>. QED BY <2>8, <3>1, Undisturbed DEF HeartbeatTouches
  <2>9. CASE HeartbeatFails(t)
    <3>1. SameFlushes /\ RowsStay
      BY <2>9, Labels DEF HeartbeatFails, SameFlushes, RowsStay, TypeOK, rows
    <3>. QED BY <2>9, <3>1, Undisturbed DEF HeartbeatFails, rows
  <2>. QED BY <1>1, <2>1, <2>2, <2>3, <2>4, <2>5, <2>6, <2>7, <2>8, <2>9 DEF TaskStep
<1>2. ASSUME NEW s \in Sockets, SocketEvent(s) PROVE AudioInv'
  <2>1. CASE Connect(s)
    BY <2>1, Cleared DEF Connect, SameFlushes, rows
  <2>2. CASE Disconnect(s)
    BY <2>2, Cleared DEF Disconnect, SameFlushes, rows
  <2>3. CASE \E declared \in SUBSET Sources : AudioStart(s, declared)
    BY <2>3, Started
  <2>4. CASE \E src \in Sources : AudioChunk(s, src)
    BY <2>4, Chunked
  <2>5. ASSUME NEW t \in Tasks, StartCall(t, s) PROVE AudioInv'
    <3>1. SameFlushes
      BY <2>5, Labels DEF StartCall, SameFlushes, TypeOK
    <3>. QED BY <2>5, <3>1, Cleared DEF StartCall, rows
  <2>6. ASSUME NEW t \in Tasks, AudioEnd(t, s) PROVE AudioInv'
    BY <2>6, Begun DEF AudioEnd, rows
  <2>7. ASSUME NEW t \in Tasks, EndCall(t, s) PROVE AudioInv'
    <3>1. CASE BeginFlush(t, "end_call", s)
      BY <2>7, <3>1, Begun DEF EndCall, rows
    <3>2. CASE /\ task' = [task EXCEPT ![t] = Closing(s, context[s])]
               /\ UNCHANGED <<phase, todo>>
      <4>1. SameFlushes /\ RowsStay
        BY <2>7, <3>2, Labels DEF EndCall, SameFlushes, RowsStay, TypeOK, rows
      <4>. QED BY <2>7, <3>2, <4>1, Undisturbed DEF EndCall, rows, audio
    <3>. QED BY <2>7, <3>1, <3>2 DEF EndCall
  <2>. QED BY <1>2, <2>1, <2>2, <2>3, <2>4, <2>5, <2>6, <2>7 DEF SocketEvent
<1>3. ASSUME NEW c \in Calls, NEW final \in Final, RestEnd(c, final) PROVE AudioInv'
  <2>1. SameFlushes /\ RowsStay
    BY <1>3 DEF RestEnd, SameFlushes, RowsStay, Endable, Final, TypeOK
  <2>2. \A d \in Calls : status'[d] = "absent" => status[d] = "absent"
    BY <1>3 DEF RestEnd, Final, TypeOK
  <2>. QED BY <1>3, <2>1, <2>2, Undisturbed DEF RestEnd
<1>4. ASSUME NEW t \in Tasks, NEW c \in Calls, Heartbeat(t, c) PROVE AudioInv'
  <2>1. SameFlushes /\ RowsStay
    BY <1>4, Labels DEF Heartbeat, SameFlushes, RowsStay, TypeOK, rows
  <2>. QED BY <1>4, <2>1, Undisturbed DEF Heartbeat, rows
<1>5. CASE SweepStart \/ SweepFails
  BY <1>5, Undisturbed DEF SweepStart, SweepFails, SameFlushes, RowsStay, rows
<1>6. CASE SweepDrops
  <2>1. SameFlushes /\ RowsStay
    BY <1>6 DEF SweepDrops, SameFlushes, RowsStay
  <2>2. \A c \in Calls : status'[c] = "absent" => status[c] = "absent"
    BY <1>6 DEF SweepDrops
  <2>. QED BY <1>6, <2>1, <2>2, Undisturbed DEF SweepDrops
<1>7. CASE Crash
  BY <1>7, Crashed
<1>8. CASE Tick
  <2>1. SameFlushes /\ RowsStay
    BY <1>8, Labels DEF Tick, SameFlushes, RowsStay
  <2>. QED BY <1>8, <2>1, Undisturbed DEF Tick
<1>9. CASE UNCHANGED vars
  BY <1>9, Undisturbed DEF vars, rows, SameFlushes, RowsStay
<1>. QED BY <1>1, <1>2, <1>3, <1>4, <1>5, <1>6, <1>7, <1>8, <1>9 DEF Next

\* Each source heard leads to one final transcript, is given up for a cause, or
\* is still to be flushed, and a session writes at most one usage row, however
\* audio_end, end_call, start_call, disconnect and a crash overlap.
THEOREM LedgerBalances == Spec => []AudioLedger
<1>1. Init => AudioInv
  <2>. SUFFICES ASSUME Init PROVE AudioInv
    OBVIOUS
  <2>1. \A c \in Calls : Pending(c) = {} /\ InFlight(c) = {} /\ \A t \in Tasks : ~Flushes(t, c)
    BY Labels DEF Init, Pending, InFlight, Flushes
  <2>2. Held /\ Apart /\ Guarded /\ Sole /\ Quiet
    BY <2>1, SetsAssumption DEF Init, Held, Apart, Guarded, Sole, Quiet
  <2>3. Budget
    BY <2>1 DEF Init, Budget
  <2>4. Balance
    <3>. SUFFICES ASSUME NEW c \in Calls
                  PROVE  said[c] = finals[c] + lost[c] + Cardinality(Pending(c))
                                              + Cardinality(InFlight(c))
      BY DEF Balance
    <3>1. said[c] = 0 /\ finals[c] = 0 /\ lost[c] = 0
      BY DEF Init
    <3>2. Cardinality({}) = 0
      BY FS_EmptySet
    <3>3. Pending(c) = {} /\ InFlight(c) = {}
      BY <2>1
    <3>4. Cardinality(Pending(c)) = 0 /\ Cardinality(InFlight(c)) = 0
      BY <3>2, <3>3
    <3>. QED BY <3>1, <3>4
  <2>. QED BY <2>2, <2>3, <2>4 DEF AudioInv
<1>2. AudioInv => AudioLedger
  BY DEF AudioInv, AudioLedger, Balance, Budget
<1>. QED BY <1>1, <1>2, AudioInductive, Typing, PTL DEF Spec

\* The sweep takes no call that is over and none that is alive.
THEOREM SweepsAreJust == Spec => SweepIsJust
BY EndedStaysEnded, DropsAreDue, PTL DEF SweepIsJust
=============================================================================
