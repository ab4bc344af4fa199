------------------------------ MODULE CallAssist ------------------------------
(***************************************************************************)
(* Live suggestions on one socket of the /calls namespace: a text chunk is *)
(* stored, joins the window of its call and arms a one-shot timer; the     *)
(* timer asks the LLM and stores what it answers as a group of the call.   *)
(* Handlers run one at a time, and others run at every await: a call may   *)
(* end, and the next one start, between the two halves of a chunk and      *)
(* between the question and the answer.                                    *)
(*                                                                         *)
(* Sources: ws/calls.ts (text_chunk, fireSuggestion, clearCall),           *)
(* services/callSuggestions.ts, repositories/callSuggestions.ts.           *)
(***************************************************************************)
EXTENDS Naturals

CONSTANTS
  MaxCalls,  \* bound: calls started on the socket
  MaxTexts,  \* bound: text chunks of each call
  MaxFires,  \* bound: questions to the LLM
  MaxStray,  \* bound: pending timers no context knows of
  Types,     \* types of a suggestion
  NoFire

Calls == 1 .. MaxCalls
Fires == 1 .. MaxFires

ASSUME AssistBounds == MaxCalls \in Nat /\ MaxTexts \in Nat /\ MaxStray \in Nat /\ MaxFires \in Nat
ASSUME AssistTypes == Types # {}

VARIABLES
  current, \* calls.get(socket): 0 when there is no call
  started, \* calls started so far
  starting, \* start_calls that await createCall
  ctx,     \* the CallContext of each call
  storing, \* text chunks of each call whose insert has not answered
  stray,   \* pending timers whose slot belongs to no call or was cleared
  fire,    \* each run of fireSuggestion
  rows,    \* call_suggestions
  usage    \* llm_usage_log: the fires that have a row or failed to get one

assistVars == <<current, started, starting, ctx, storing, stray, fire, rows, usage>>

\* slot: idle, or armed with a pending timer, or left set by a timer that
\* has run.  window and heard: texts pushed, and those a fire has read.
Contexts == [slot : {"idle", "armed", "left"}, group : 0 .. MaxFires,
             window : 0 .. MaxTexts, heard : 0 .. MaxTexts]
Questions == [call : Calls, of : Calls, group : 0 .. MaxFires, at : {"llm", "usage", "persist", "done", "failed"},
         types : SUBSET Types]
ASSUME AssistNone == NoFire \notin Questions

Suggestions == [call : Calls, group : 0 .. MaxFires, type : Types, of : Calls]

AssistTypeOK ==
  /\ current \in 0 .. MaxCalls /\ started \in 0 .. MaxCalls
  /\ ctx \in [Calls -> Contexts]
  /\ starting \in 0 .. MaxCalls
  /\ storing \in [Calls -> 0 .. MaxTexts]
  /\ stray \in 0 .. MaxStray
  /\ fire \in [Fires -> Questions \cup {NoFire}]
  /\ rows \subseteq Suggestions
  /\ usage \subseteq Fires

NewContext == [slot |-> "idle", group |-> 0, window |-> 0, heard |-> 0]

AssistInit ==
  /\ current = 0 /\ started = 0 /\ starting = 0 /\ stray = 0
  /\ ctx = [c \in Calls |-> NewContext]
  /\ storing = [c \in Calls |-> 0]
  /\ fire = [f \in Fires |-> NoFire]
  /\ rows = {} /\ usage = {}

-----------------------------------------------------------------------------
(* start_call, end_call and disconnect                                     *)

\* clearCall: a timer in the slot is cleared; one that is not stays pending.
Cleared == IF current = 0 THEN ctx ELSE [ctx EXCEPT ![current].slot = "idle"]

\* start_call leaves the call there is at once, and awaits createCall.
StartCall ==
  /\ started + starting < MaxCalls
  /\ starting' = starting + 1 /\ current' = 0
  /\ ctx' = Cleared
  /\ UNCHANGED <<started, storing, stray, fire, rows, usage>>

\* The new context takes the place of one that an overlapping start_call has
\* put there meanwhile, whose pending timer nobody clears.
CallCreated ==
  /\ starting > 0
  /\ LET abandoned == current # 0 /\ ctx[current].slot = "armed" IN
       /\ abandoned => stray < MaxStray
       /\ stray' = IF abandoned THEN stray + 1 ELSE stray
       /\ ctx' = IF abandoned THEN [ctx EXCEPT ![current].slot = "left"] ELSE ctx
  /\ starting' = starting - 1 /\ started' = started + 1 /\ current' = started + 1
  /\ UNCHANGED <<storing, fire, rows, usage>>

\* createCall throws, at the cap of the plan or at the database.
CallRefused ==
  /\ starting > 0
  /\ starting' = starting - 1
  /\ UNCHANGED <<current, started, ctx, storing, stray, fire, rows, usage>>

CallEnded ==
  /\ current # 0
  /\ current' = 0
  /\ ctx' = Cleared
  /\ UNCHANGED <<started, starting, storing, stray, fire, rows, usage>>

-----------------------------------------------------------------------------
(* text_chunk                                                              *)

\* The handler has the context of the call and awaits the insert.
TextChunk ==
  /\ current # 0
  /\ ctx[current].window + storing[current] < MaxTexts
  /\ storing' = [storing EXCEPT ![current] = @ + 1]
  /\ UNCHANGED <<current, started, starting, ctx, stray, fire, rows, usage>>

Armed(c) == ctx[c].slot = "idle"

\* Stored: the text joins the window of that context, which may have ended,
\* and arms its timer if its slot is empty.
Stored(c) ==
  /\ storing[c] > 0
  /\ storing' = [storing EXCEPT ![c] = @ - 1]
  /\ c # current /\ Armed(c) => stray < MaxStray
  /\ stray' = IF c # current /\ Armed(c) THEN stray + 1 ELSE stray
  /\ ctx' = [ctx EXCEPT ![c].window = @ + 1, ![c].slot = IF Armed(c) THEN "armed" ELSE @]
  /\ UNCHANGED <<current, started, starting, fire, rows, usage>>

\* The insert fails, or the call is gone: the client gets an error.
NotStored(c) ==
  /\ storing[c] > 0
  /\ storing' = [storing EXCEPT ![c] = @ - 1]
  /\ UNCHANGED <<current, started, starting, ctx, stray, fire, rows, usage>>

-----------------------------------------------------------------------------
(* fireSuggestion                                                          *)

BugReleased(c) == [ctx EXCEPT ![c].heard = ctx[c].window, ![c].slot = "left"]

\* The slot is cleared first, so that a text that comes during the question
\* arms the next timer.
Released(c) == [ctx EXCEPT ![c].heard = ctx[c].window, ![c].slot = "idle"]

\* A timer only knows the socket: it runs for the call that is current.
Asks(f) ==
  /\ fire[f] = NoFire /\ \A g \in 1 .. f - 1 : fire[g] # NoFire
  /\ fire' = IF ctx[current].window = 0 THEN fire
             ELSE [fire EXCEPT ![f] = [call |-> current, of |-> current, group |-> ctx[current].group,
                                       at |-> "llm", types |-> {}]]
  /\ ctx' = Released(current)
  /\ UNCHANGED <<current, started, starting, storing, rows, usage>>

Timer(f) ==
  /\ current # 0 /\ ctx[current].slot = "armed"
  /\ Asks(f)
  /\ UNCHANGED stray

\* Armed by a chunk of a call that had ended.  It empties the slot of the
\* current call, whose own timer is then in no slot.
StrayTimer(f) ==
  /\ stray > 0 /\ current # 0
  /\ Asks(f)
  /\ stray' = IF ctx[current].slot = "armed" THEN stray ELSE stray - 1

\* No call is current: nothing happens.
StrayTimerIdle ==
  /\ stray > 0 /\ current = 0
  /\ stray' = stray - 1
  /\ UNCHANGED <<current, started, starting, ctx, storing, fire, rows, usage>>

At(f, at) == fire[f] # NoFire /\ fire[f].at = at

Answers(f, types) ==
  /\ At(f, "llm")
  /\ fire' = [fire EXCEPT ![f].at = "usage", ![f].types = types]
  /\ UNCHANGED <<current, started, starting, ctx, storing, stray, rows, usage>>

\* The provider throws: logged, nothing else.
AnswerFails(f) ==
  /\ At(f, "llm")
  /\ fire' = [fire EXCEPT ![f].at = "failed"]
  /\ UNCHANGED <<current, started, starting, ctx, storing, stray, rows, usage>>

BugRecordUsage(f) ==
  /\ At(f, "usage")
  /\ usage' = IF fire[f].types = {} THEN usage ELSE usage \cup {f}
  /\ fire' = [fire EXCEPT ![f].at = IF fire[f].types = {} THEN "done" ELSE "persist"]
  /\ UNCHANGED <<current, started, starting, ctx, storing, stray, rows>>

\* recordProviderUsage, whatever was answered; then nothing to store ends it.
RecordUsage(f) ==
  /\ At(f, "usage")
  /\ usage' = usage \cup {f}
  /\ fire' = [fire EXCEPT ![f].at = IF fire[f].types = {} THEN "done" ELSE "persist"]
  /\ UNCHANGED <<current, started, starting, ctx, storing, stray, rows>>

BugGroupOf(f) == {[call |-> IF current = 0 THEN fire[f].call ELSE current, group |-> fire[f].group,
                   type |-> t, of |-> fire[f].of] : t \in fire[f].types}

\* The context was taken before the question was asked.
GroupOf(f) == {[call |-> fire[f].call, group |-> fire[f].group, type |-> t, of |-> fire[f].of] :
                 t \in fire[f].types}

\* UNIQUE (call_id, group_seq, type)
Taken(f) == \E r \in rows, s \in GroupOf(f) : r.call = s.call /\ r.group = s.group /\ r.type = s.type

\* persistSuggestionGroup in one transaction; then the counter is set from
\* the number this run had read, and the group is sent to the socket.
Persist(f) ==
  /\ At(f, "persist")
  /\ fire' = [fire EXCEPT ![f].at = "done"]
  /\ IF Taken(f) THEN UNCHANGED <<rows, ctx>>
     ELSE /\ rows' = rows \cup GroupOf(f)
          /\ ctx' = [ctx EXCEPT ![fire[f].call].group = fire[f].group + 1]
  /\ UNCHANGED <<current, started, starting, storing, stray, usage>>

PersistFails(f) ==
  /\ At(f, "persist")
  /\ fire' = [fire EXCEPT ![f].at = "done"]
  /\ UNCHANGED <<current, started, starting, ctx, storing, stray, rows, usage>>

AssistNext ==
  \/ StartCall
  \/ CallCreated
  \/ CallRefused
  \/ CallEnded
  \/ TextChunk
  \/ \E c \in Calls : Stored(c)
  \/ \E c \in Calls : NotStored(c)
  \/ \E f \in Fires : Timer(f)
  \/ \E f \in Fires : StrayTimer(f)
  \/ StrayTimerIdle
  \/ \E f \in Fires, types \in SUBSET Types : Answers(f, types)
  \/ \E f \in Fires : AnswerFails(f)
  \/ \E f \in Fires : RecordUsage(f)
  \/ \E f \in Fires : Persist(f)
  \/ \E f \in Fires : PersistFails(f)

\* A timer that is due runs, while the bound on fires is not reached.
AssistFairness == WF_assistVars(\E f \in Fires : Timer(f))

AssistSpec == AssistInit /\ [][AssistNext]_assistVars /\ AssistFairness

-----------------------------------------------------------------------------
(* Properties                                                              *)

\* A suggestion is stored for the call whose texts it was made from, although
\* the next call may have started before the answer came.
SuggestedForItsCall == \A r \in rows : r.call = r.of

\* What the provider answered is counted, also when the group is empty, is
\* refused by the unique index, or comes after the call.
AnswersAreCounted ==
  \A f \in Fires : fire[f] # NoFire /\ fire[f].at \in {"persist", "done"} => f \in usage

\* A suggestion belongs to its call and its cost to the bill.
SuggestionsAreTrue == SuggestedForItsCall /\ AnswersAreCounted

Exhausted == \A f \in Fires : fire[f] # NoFire

\* A text that was stored in a live call is read by a later question, unless
\* the call ends: no text waits in the window with no timer to come for it.
TextIsHeard ==
  \A c \in Calls :
    (current = c /\ ctx[c].heard < ctx[c].window)
      ~> (current # c \/ ctx[c].heard = ctx[c].window \/ Exhausted)

=============================================================================
