---------------------------- MODULE CallData_proofs ----------------------------
(***************************************************************************)
(* Proofs about what is kept of calls, for every number of calls, requests *)
(* and rows: CallAssist (suggestions), CallRecord (the record of a call    *)
(* and its summary) and Retention (what is deleted after its term).        *)
(***************************************************************************)
EXTENDS CallAssist, CallRecord, Retention, FiniteSetTheorems, TLAPS

-----------------------------------------------------------------------------
(* CallAssist                                                              *)

\* Questions are asked in the order of their numbers; each has read a group
\* below its own number, and so has no context a group that is too high.
AsksInOrder ==
  /\ \A f \in Fires : fire[f] # NoFire =>
       /\ fire[f].call = fire[f].of /\ fire[f].group < f
       /\ \A g \in 1 .. f - 1 : fire[g] # NoFire
  /\ \A c \in Calls, f \in Fires : fire[f] = NoFire => ctx[c].group < f

\* What is awaited fits its bounds.
CallsFit == started + starting <= MaxCalls
TextsFit == \A c \in Calls : ctx[c].window + storing[c] <= MaxTexts

AssistInv == AssistTypeOK /\ AsksInOrder /\ CallsFit /\ TextsFit /\ SuggestionsAreTrue

LEMMA AssistNumbers ==
    /\ MaxCalls \in Nat /\ MaxTexts \in Nat /\ MaxStray \in Nat /\ MaxFires \in Nat
    /\ NoFire \notin Questions
BY AssistBounds, AssistNone

\* A step that leaves the questions, and the groups of the contexts, alone.
LEMMA NoQuestion ==
    ASSUME AssistInv, UNCHANGED <<fire, rows, usage>>,
           ctx' \in [Calls -> Contexts], \A c \in Calls : ctx'[c].group = ctx[c].group,
           storing' \in [Calls -> 0 .. MaxTexts], TextsFit',
           current' \in 0 .. MaxCalls, started' \in 0 .. MaxCalls, starting' \in 0 .. MaxCalls,
           CallsFit', stray' \in 0 .. MaxStray
    PROVE  AssistInv'
<1>1. AssistTypeOK'
  BY DEF AssistInv, AssistTypeOK
<1>2. AsksInOrder'
  BY DEF AssistInv, AsksInOrder
<1>3. SuggestionsAreTrue'
  BY DEF AssistInv, SuggestionsAreTrue, SuggestedForItsCall, AnswersAreCounted
<1>. QED BY <1>1, <1>2, <1>3 DEF AssistInv

\* Clearing a timer leaves window and group.
LEMMA ClearedKeeps ==
    ASSUME AssistInv
    PROVE  /\ Cleared \in [Calls -> Contexts]
           /\ \A c \in Calls : Cleared[c].group = ctx[c].group /\ Cleared[c].window = ctx[c].window
BY AssistNumbers DEF AssistInv, AssistTypeOK, Cleared, Contexts, Calls

LEMMA CallSteps ==
    ASSUME AssistInv, StartCall \/ CallCreated \/ CallRefused \/ CallEnded
    PROVE  AssistInv'
<1>0. /\ started \in 0 .. MaxCalls /\ starting \in 0 .. MaxCalls /\ stray \in 0 .. MaxStray
      /\ current \in 0 .. MaxCalls /\ ctx \in [Calls -> Contexts]
      /\ storing \in [Calls -> 0 .. MaxTexts] /\ CallsFit /\ TextsFit
  BY DEF AssistInv, AssistTypeOK
<1>1. CASE StartCall
  <2>1. CallsFit' /\ TextsFit'
    BY <1>0, <1>1, ClearedKeeps, AssistNumbers DEF StartCall, CallsFit, TextsFit
  <2>. QED BY <1>0, <1>1, <2>1, ClearedKeeps, NoQuestion, AssistNumbers DEF StartCall, CallsFit
<1>2. CASE CallCreated
  <2>1. /\ ctx' \in [Calls -> Contexts]
        /\ \A c \in Calls : ctx'[c].group = ctx[c].group /\ ctx'[c].window = ctx[c].window
    BY <1>0, <1>2, AssistNumbers DEF CallCreated, Contexts, Calls
  <2>2. /\ started' \in 0 .. MaxCalls /\ starting' \in 0 .. MaxCalls /\ current' \in 0 .. MaxCalls
        /\ stray' \in 0 .. MaxStray /\ CallsFit'
    BY <1>0, <1>2, AssistNumbers DEF CallCreated, CallsFit
  <2>3. TextsFit' /\ UNCHANGED <<storing, fire, rows, usage>>
    BY <1>0, <1>2, <2>1 DEF CallCreated, TextsFit
  <2>. QED BY <1>0, <2>1, <2>2, <2>3, NoQuestion
<1>3. CASE CallRefused
  <2>1. CallsFit' /\ TextsFit'
    BY <1>0, <1>3, AssistNumbers DEF CallRefused, CallsFit, TextsFit
  <2>. QED BY <1>0, <1>3, <2>1, NoQuestion, AssistNumbers DEF CallRefused
<1>4. CASE CallEnded
  <2>1. CallsFit' /\ TextsFit'
    BY <1>0, <1>4, ClearedKeeps DEF CallEnded, CallsFit, TextsFit
  <2>. QED BY <1>0, <1>4, <2>1, ClearedKeeps, NoQuestion, AssistNumbers DEF CallEnded
<1>. QED BY <1>1, <1>2, <1>3, <1>4

LEMMA TextSteps ==
    ASSUME AssistInv, TextChunk \/ \E c \in Calls : Stored(c) \/ NotStored(c)
    PROVE  AssistInv'
<1>0. /\ started \in 0 .. MaxCalls /\ starting \in 0 .. MaxCalls /\ stray \in 0 .. MaxStray
      /\ current \in 0 .. MaxCalls /\ ctx \in [Calls -> Contexts]
      /\ storing \in [Calls -> 0 .. MaxTexts] /\ CallsFit /\ TextsFit
      /\ \A c \in Calls : ctx[c].window \in 0 .. MaxTexts
  BY DEF AssistInv, AssistTypeOK, Contexts
<1>1. CASE TextChunk
  <2>1. current \in Calls
    BY <1>0, <1>1, AssistNumbers DEF TextChunk, Calls
  <2>2. storing' \in [Calls -> 0 .. MaxTexts] /\ TextsFit'
    BY <1>0, <1>1, <2>1, AssistNumbers DEF TextChunk, TextsFit
  <2>. QED BY <1>0, <1>1, <2>2, NoQuestion DEF TextChunk, CallsFit
<1>2. ASSUME NEW c \in Calls, Stored(c) PROVE AssistInv'
  <2>1. storing' \in [Calls -> 0 .. MaxTexts] /\ storing'[c] = storing[c] - 1
    BY <1>0, <1>2, AssistNumbers DEF Stored
  <2>2. ctx[c].window + 1 \in 0 .. MaxTexts
    BY <1>0, <1>2, AssistNumbers DEF Stored, TextsFit
  <2>3. /\ ctx' \in [Calls -> Contexts] /\ \A d \in Calls : ctx'[d].group = ctx[d].group
        /\ ctx'[c].window = ctx[c].window + 1 /\ \A d \in Calls \ {c} : ctx'[d] = ctx[d]
    BY <1>0, <1>2, <2>2 DEF Stored, Contexts
  <2>4. TextsFit'
    BY <1>0, <1>2, <2>1, <2>3, AssistNumbers DEF Stored, TextsFit
  <2>5. stray' \in 0 .. MaxStray
    BY <1>0, <1>2, AssistNumbers DEF Stored
  <2>. QED BY <1>0, <1>2, <2>1, <2>3, <2>4, <2>5, NoQuestion DEF Stored, CallsFit
<1>3. ASSUME NEW c \in Calls, NotStored(c) PROVE AssistInv'
  <2>1. storing' \in [Calls -> 0 .. MaxTexts] /\ TextsFit'
    BY <1>0, <1>3, AssistNumbers DEF NotStored, TextsFit
  <2>. QED BY <1>0, <1>3, <2>1, NoQuestion DEF NotStored, CallsFit
<1>. QED BY <1>1, <1>2, <1>3

LEMMA AskStep ==
    ASSUME AssistInv, NEW f \in Fires, current # 0, Asks(f), stray' \in 0 .. MaxStray
    PROVE  AssistInv'
<1>0. /\ started \in 0 .. MaxCalls /\ starting \in 0 .. MaxCalls
      /\ current \in Calls /\ ctx \in [Calls -> Contexts]
      /\ storing \in [Calls -> 0 .. MaxTexts] /\ CallsFit /\ TextsFit /\ AsksInOrder
      /\ fire \in [Fires -> Questions \cup {NoFire}]
  BY AssistNumbers DEF AssistInv, AssistTypeOK, Calls
<1>1. /\ ctx' \in [Calls -> Contexts]
      /\ \A c \in Calls : ctx'[c].group = ctx[c].group /\ ctx'[c].window = ctx[c].window
  BY <1>0 DEF Asks, Released, Contexts
<1>2. TextsFit' /\ CallsFit'
  BY <1>0, <1>1 DEF Asks, TextsFit, CallsFit
<1>3. CASE ctx[current].window = 0
  <2>. QED BY <1>0, <1>1, <1>2, <1>3, NoQuestion, AssistNumbers DEF Asks, Calls
<1>4. CASE ctx[current].window # 0
  <2> DEFINE q == [call |-> current, of |-> current, group |-> ctx[current].group,
                   at |-> "llm", types |-> {}]
  <2>1. q \in Questions /\ q.call = q.of /\ q.group = ctx[current].group /\ q.at = "llm"
    BY <1>0 DEF Questions, Contexts
  <2>2. fire' = [fire EXCEPT ![f] = q] /\ fire[f] = NoFire /\ \A g \in 1 .. f - 1 : fire[g] # NoFire
    BY <1>4 DEF Asks
  <2> HIDE DEF q
  <2>3. /\ fire'[f] = q /\ \A g \in Fires \ {f} : fire'[g] = fire[g]
        /\ fire' \in [Fires -> Questions \cup {NoFire}]
    BY <1>0, <2>1, <2>2
  <2>4. AssistTypeOK'
    BY <1>0, <1>1, <2>3, AssistNumbers DEF AssistInv, AssistTypeOK, Asks, Calls
  <2>5. AsksInOrder'
    <3>1. ASSUME NEW g \in Fires, fire'[g] # NoFire
          PROVE  /\ fire'[g].call = fire'[g].of /\ fire'[g].group < g
                 /\ \A h \in 1 .. g - 1 : fire'[h] # NoFire
      <4>1. CASE g = f
        <5>1. \A h \in 1 .. g - 1 : h \in Fires /\ h # f
          BY <4>1, AssistNumbers DEF Fires
        <5>. QED BY <1>0, <2>1, <2>2, <2>3, <4>1, <5>1 DEF AsksInOrder
      <4>2. CASE g # f
        <5>1. fire[g] # NoFire
          BY <2>3, <3>1, <4>2
        <5>2. \A h \in 1 .. g - 1 : h \in Fires /\ fire[h] # NoFire
          BY <1>0, <5>1, AssistNumbers DEF AsksInOrder, Fires
        <5>3. \A h \in 1 .. g - 1 : fire'[h] # NoFire
          BY <2>1, <2>3, <5>2, AssistNumbers
        <5>. QED BY <1>0, <2>3, <4>2, <5>1, <5>3 DEF AsksInOrder
      <4>. QED BY <4>1, <4>2
    <3>2. ASSUME NEW c \in Calls, NEW g \in Fires, fire'[g] = NoFire
          PROVE  ctx'[c].group < g
      BY <1>0, <1>1, <2>1, <2>3, <3>2, AssistNumbers DEF AsksInOrder
    <3>. QED BY <3>1, <3>2 DEF AsksInOrder
  <2>6. SuggestionsAreTrue'
    <3>1. UNCHANGED <<rows, usage>>
      BY DEF Asks
    <3>. QED BY <2>1, <2>3, <3>1
         DEF AssistInv, SuggestionsAreTrue, SuggestedForItsCall, AnswersAreCounted
  <2>. QED BY <1>2, <2>4, <2>5, <2>6 DEF AssistInv
<1>. QED BY <1>3, <1>4

LEMMA TimerSteps ==
    ASSUME AssistInv, StrayTimerIdle \/ \E f \in Fires : Timer(f) \/ StrayTimer(f)
    PROVE  AssistInv'
<1>0. stray \in 0 .. MaxStray
  BY DEF AssistInv, AssistTypeOK
<1>1. CASE StrayTimerIdle
  <2>1. stray' \in 0 .. MaxStray
    BY <1>0, <1>1, AssistNumbers DEF StrayTimerIdle
  <2>. QED BY <1>1, <2>1, NoQuestion
       DEF StrayTimerIdle, AssistInv, AssistTypeOK, TextsFit, CallsFit
<1>2. ASSUME NEW f \in Fires, Timer(f) PROVE AssistInv'
  BY <1>0, <1>2, AskStep DEF Timer
<1>3. ASSUME NEW f \in Fires, StrayTimer(f) PROVE AssistInv'
  <2>1. stray' \in 0 .. MaxStray
    BY <1>0, <1>3, AssistNumbers DEF StrayTimer
  <2>. QED BY <1>3, <2>1, AskStep DEF StrayTimer
<1>. QED BY <1>1, <1>2, <1>3

\* Question f goes on, and keeps what it has read.
LEMMA GoesOn ==
    ASSUME AssistInv, NEW f \in Fires, fire[f] # NoFire, NEW q \in Questions,
           fire' = [fire EXCEPT ![f] = q],
           q.call = fire[f].call /\ q.of = fire[f].of /\ q.group = fire[f].group,
           UNCHANGED <<current, started, starting, storing, stray>>,
           ctx' \in [Calls -> Contexts],
           \A c \in Calls : ctx'[c].window = ctx[c].window /\ ctx'[c].group \in {ctx[c].group, q.group + 1},
           rows' \subseteq Suggestions, SuggestedForItsCall',
           usage \subseteq usage', usage' \subseteq Fires,
           q.at \in {"persist", "done"} => f \in usage'
    PROVE  AssistInv'
<1>0. /\ AsksInOrder /\ AssistTypeOK /\ CallsFit /\ TextsFit /\ AnswersAreCounted
      /\ fire'[f] = q /\ \A g \in Fires \ {f} : fire'[g] = fire[g]
      /\ fire' \in [Fires -> Questions \cup {NoFire}]
  BY DEF AssistInv, SuggestionsAreTrue, AssistTypeOK
<1>1. AssistTypeOK'
  BY <1>0 DEF AssistTypeOK
<1>2. AsksInOrder'
  <2>1. \A g \in Fires : fire'[g] = NoFire <=> fire[g] = NoFire
    BY <1>0, AssistNumbers
  <2>2. ASSUME NEW g \in Fires, fire'[g] # NoFire
        PROVE  /\ fire'[g].call = fire'[g].of /\ fire'[g].group < g
               /\ \A h \in 1 .. g - 1 : fire'[h] # NoFire
    <3>1. fire[g].call = fire[g].of /\ fire[g].group < g /\ \A h \in 1 .. g - 1 : fire[h] # NoFire
      BY <1>0, <2>1, <2>2 DEF AsksInOrder
    <3>2. \A h \in 1 .. g - 1 : h \in Fires
      BY AssistNumbers DEF Fires
    <3>. QED BY <1>0, <2>1, <3>1, <3>2
  <2>3. ASSUME NEW c \in Calls, NEW g \in Fires, fire'[g] = NoFire
        PROVE  ctx'[c].group < g
    <3>1. ctx[c].group < g
      BY <1>0, <2>1, <2>3 DEF AsksInOrder
    <3>2. q.group < f /\ q.group \in Nat
      BY <1>0, AssistNumbers DEF AsksInOrder, Questions
    <3>3. f < g
      <4>1. ~(g \in 1 .. f - 1)
        BY <1>0, <2>1, <2>3 DEF AsksInOrder
      <4>2. g # f
        BY <2>1, <2>3
      <4>. QED BY <4>1, <4>2, AssistNumbers DEF Fires
    <3>4. f \in Nat /\ g \in Nat
      BY AssistNumbers DEF Fires
    <3>. QED BY <3>1, <3>2, <3>3, <3>4
  <2>. QED BY <2>2, <2>3 DEF AsksInOrder
<1>3. CallsFit' /\ TextsFit'
  BY <1>0 DEF CallsFit, TextsFit
<1>4. AnswersAreCounted'
  BY <1>0 DEF AnswersAreCounted
<1>. QED BY <1>1, <1>2, <1>3, <1>4 DEF AssistInv, SuggestionsAreTrue

LEMMA AnswerSteps ==
    ASSUME AssistInv, NEW f \in Fires,
           \/ \E types \in SUBSET Types : Answers(f, types)
           \/ AnswerFails(f) \/ RecordUsage(f) \/ PersistFails(f)
    PROVE  AssistInv'
<1> DEFINE q == fire'[f]
<1>0. /\ fire \in [Fires -> Questions \cup {NoFire}] /\ ctx \in [Calls -> Contexts]
      /\ rows \subseteq Suggestions /\ usage \subseteq Fires
      /\ SuggestedForItsCall /\ AnswersAreCounted
  BY DEF AssistInv, AssistTypeOK, SuggestionsAreTrue
<1>1. fire[f] # NoFire /\ fire[f] \in Questions
  BY <1>0 DEF Answers, AnswerFails, RecordUsage, PersistFails, At
<1>2. /\ UNCHANGED <<current, started, starting, storing, stray, ctx, rows>>
      /\ usage \subseteq usage' /\ usage' \subseteq Fires
  BY <1>0 DEF Answers, AnswerFails, RecordUsage, PersistFails
<1>3. /\ q \in Questions /\ fire' = [fire EXCEPT ![f] = q]
      /\ q.call = fire[f].call /\ q.of = fire[f].of /\ q.group = fire[f].group
      /\ q.at \in {"persist", "done"} => f \in usage'
  <2>1. CASE \E types \in SUBSET Types : Answers(f, types)
    <3>1. PICK types \in SUBSET Types : Answers(f, types)
      BY <2>1
    <3>2. q = [fire[f] EXCEPT !.at = "usage", !.types = types]
      BY <1>0, <3>1 DEF Answers
    <3>3. q \in Questions /\ q.call = fire[f].call /\ q.of = fire[f].of /\ q.group = fire[f].group
          /\ q.at = "usage"
      BY <1>1, <3>2 DEF Questions
    <3>4. fire' = [fire EXCEPT ![f] = q]
      BY <1>0, <3>1 DEF Answers
    <3>. QED BY <3>3, <3>4
  <2>2. CASE AnswerFails(f)
    BY <1>0, <1>1, <2>2 DEF AnswerFails, Questions
  <2>3. CASE RecordUsage(f)
    BY <1>0, <1>1, <2>3 DEF RecordUsage, Questions
  <2>4. CASE PersistFails(f)
    BY <1>0, <1>1, <2>4 DEF PersistFails, Questions, At, AnswersAreCounted
  <2>. QED BY <2>1, <2>2, <2>3, <2>4
<1>4. SuggestedForItsCall'
  BY <1>0, <1>2 DEF SuggestedForItsCall
<1> HIDE DEF q
<1>. QED BY <1>0, <1>1, <1>2, <1>3, <1>4, GoesOn

LEMMA PersistStep ==
    ASSUME AssistInv, NEW f \in Fires, Persist(f)
    PROVE  AssistInv'
<1> DEFINE q == [fire[f] EXCEPT !.at = "done"]
<1>0. /\ fire \in [Fires -> Questions \cup {NoFire}] /\ ctx \in [Calls -> Contexts]
      /\ rows \subseteq Suggestions /\ usage \subseteq Fires
      /\ SuggestedForItsCall /\ AnswersAreCounted /\ AsksInOrder
  BY DEF AssistInv, AssistTypeOK, SuggestionsAreTrue
<1>1. fire[f] # NoFire /\ fire[f] \in Questions /\ fire[f].at = "persist"
  BY <1>0 DEF Persist, At
<1>2. /\ q \in Questions /\ fire' = [fire EXCEPT ![f] = q]
      /\ q.call = fire[f].call /\ q.of = fire[f].of /\ q.group = fire[f].group
      /\ f \in usage
  BY <1>0, <1>1 DEF Persist, Questions, AnswersAreCounted
<1>3. /\ fire[f].call \in Calls /\ fire[f].call = fire[f].of /\ fire[f].group \in 0 .. MaxFires
      /\ fire[f].types \subseteq Types /\ fire[f].group + 1 \in 0 .. MaxFires
  <2>1. fire[f].call \in Calls /\ fire[f].group \in 0 .. MaxFires /\ fire[f].types \subseteq Types
    BY <1>1 DEF Questions
  <2>2. fire[f].call = fire[f].of /\ fire[f].group < f
    BY <1>0, <1>1 DEF AsksInOrder
  <2>. QED BY <2>1, <2>2, AssistNumbers DEF Fires
<1>4. /\ UNCHANGED <<current, started, starting, storing, stray, usage>>
      /\ UNCHANGED <<rows, ctx>> \/ (rows' = rows \cup GroupOf(f) /\
                                     ctx' = [ctx EXCEPT ![fire[f].call].group = fire[f].group + 1])
  BY DEF Persist
<1> HIDE DEF q
<1>5. rows' \subseteq Suggestions /\ SuggestedForItsCall'
  BY <1>0, <1>3, <1>4 DEF GroupOf, Suggestions, SuggestedForItsCall
<1>6. /\ ctx' \in [Calls -> Contexts]
      /\ \A c \in Calls : ctx'[c].window = ctx[c].window /\ ctx'[c].group \in {ctx[c].group, q.group + 1}
  <2>1. CASE UNCHANGED ctx
    BY <1>0, <2>1
  <2>2. CASE ctx' = [ctx EXCEPT ![fire[f].call].group = fire[f].group + 1]
    BY <1>0, <1>2, <1>3, <2>2 DEF Contexts
  <2>. QED BY <1>4, <2>1, <2>2
<1>. QED BY <1>0, <1>1, <1>2, <1>4, <1>5, <1>6, GoesOn

LEMMA AssistStep == ASSUME AssistInv, [AssistNext]_assistVars PROVE AssistInv'
<1>1. CASE UNCHANGED assistVars
  BY <1>1, NoQuestion DEF assistVars, AssistInv, AssistTypeOK, CallsFit, TextsFit
<1>2. CASE AssistNext
  BY <1>2, CallSteps, TextSteps, TimerSteps, AnswerSteps, PersistStep DEF AssistNext
<1>. QED BY <1>1, <1>2

LEMMA AssistStart == AssistInit => AssistInv
<1> SUFFICES ASSUME AssistInit PROVE AssistInv
  OBVIOUS
<1>1. AssistTypeOK
  BY AssistNumbers DEF AssistInit, AssistTypeOK, NewContext, Contexts
<1>2. AsksInOrder
  BY AssistNumbers DEF AssistInit, AsksInOrder, NewContext, Fires
<1>3. CallsFit /\ TextsFit
  BY AssistNumbers DEF AssistInit, CallsFit, TextsFit, NewContext
<1>4. SuggestionsAreTrue
  BY DEF AssistInit, SuggestionsAreTrue, SuggestedForItsCall, AnswersAreCounted
<1>. QED BY <1>1, <1>2, <1>3, <1>4 DEF AssistInv

\* Contexts, questions and groups keep their types: no count passes its bound,
\* the number of a group included.
THEOREM AssistTyping == AssistSpec => []AssistTypeOK
<1>1. AssistInv => AssistTypeOK
  BY DEF AssistInv
<1>. QED BY <1>1, AssistStart, AssistStep, PTL DEF AssistSpec

\* A suggestion is stored for the call whose texts it was made from, and an
\* answer that may be stored has been counted, although calls start and end
\* between question and answer.
THEOREM SuggestionsTrue == AssistSpec => []SuggestionsAreTrue
<1>1. AssistInv => SuggestionsAreTrue
  BY DEF AssistInv
<1>. QED BY <1>1, AssistStart, AssistStep, PTL DEF AssistSpec

-----------------------------------------------------------------------------
(* CallRecord                                                              *)

\* The requests that were begun, to append, to append and have, and that
\* decided on the suggestion.
BegunOnes == {r \in Requests : req[r].at # "new"}
Appending == {r \in Requests : req[r].kind = "append" /\ req[r].at # "new"}
Appended  == {r \in Requests : req[r].kind = "append" /\ req[r].at = "ok"}
Decided(r) == req[r].kind \in {"use", "dismiss"} /\ req[r].at = "ok"

\* Requests begin in the order of their numbers.
InTurn == BegunOnes = 1 .. Begun

\* The row lock is held by the one request that has still to commit.
Committing ==
  \A r \in Requests :
    /\ req[r].at = "commit" <=> lock = r
    /\ req[r].at = "commit" => req[r].kind \in {"link", "unlink", "append"}
    /\ req[r].at = "enqueue" => req[r].kind = "end"

\* An open suggestion was decided on by nobody.
Deciding ==
  /\ card.suggestion = "open" => \A r \in Requests : ~Decided(r)
  /\ \A r, s \in Requests : Decided(r) /\ Decided(s) => r = s

\* The number a request has read under the lock is still the next one, and
\* there are no more lines than requests that appended one.
Numbering ==
  /\ LinesAreNumbered
  /\ \A r \in Requests : req[r].kind = "append" /\ req[r].at = "commit" => req[r].next = Cardinality(lines)
  /\ Cardinality(lines) <= Cardinality(Appended)
  /\ Cardinality(Appending) <= MaxAppends

\* A job has an owner while it runs, and attempts left until it failed.
Retrying ==
  /\ job.state = "active" <=> job.owner # NoOne
  /\ job.state \in {"none", "waiting", "active"} => job.tries < Attempts

RecordInv == /\ RecordTypeOK /\ InTurn /\ Committing /\ Deciding /\ Numbering /\ Retrying
             /\ LinksAreAudited

LEMMA RecordNumbers ==
    /\ MaxRequests \in Nat /\ MaxAppends \in Nat /\ MaxStalls \in Nat /\ Attempts \in Nat \ {0}
    /\ NoOne \notin Requests /\ NoOne \notin Customers /\ NoOne \notin Runners
    /\ IsFiniteSet(Requests) /\ \A r \in Requests : r \in Nat /\ r <= MaxRequests
<1>1. IsFiniteSet(Requests)
  BY RecordBounds, FS_Interval DEF Requests
<1>. QED BY <1>1, RecordBounds DEF Requests

\* Sets of requests are finite, and lines are because they have numbers.
LEMMA RequestSets ==
    /\ IsFiniteSet(BegunOnes) /\ IsFiniteSet(Appending) /\ IsFiniteSet(Appended)
    /\ Cardinality(BegunOnes) \in Nat /\ Cardinality(Appending) \in Nat /\ Cardinality(Appended) \in Nat
    /\ Begun = Cardinality(BegunOnes)
<1>1. BegunOnes \subseteq Requests /\ Appending \subseteq Requests /\ Appended \subseteq Requests
  BY DEF BegunOnes, Appending, Appended
<1>2. IsFiniteSet(BegunOnes) /\ IsFiniteSet(Appending) /\ IsFiniteSet(Appended)
  BY <1>1, RecordNumbers, FS_Subset
<1>. QED BY <1>2, FS_CardinalityType DEF Begun, BegunOnes

LEMMA LinesFinite ==
    ASSUME RecordTypeOK
    PROVE  IsFiniteSet(lines) /\ Cardinality(lines) \in Nat
<1>1. IsFiniteSet(0 .. MaxAppends - 1)
  BY RecordNumbers, FS_Interval
<1>2. IsFiniteSet((0 .. MaxAppends - 1) \X Requests)
  BY <1>1, RecordNumbers, FS_Product
<1> DEFINE P == (0 .. MaxAppends - 1) \X Requests
           F == [p \in P |-> [seq |-> p[1], by |-> p[2]]]
<1>3. \A l \in lines : \E p \in P : F[p] = l
  <2> TAKE l \in lines
  <2>1. l \in LineRows /\ l = [seq |-> l.seq, by |-> l.by] /\ <<l.seq, l.by>> \in P
    BY DEF RecordTypeOK, LineRows
  <2>. QED BY <2>1
<1>4. PICK f : f = F /\ f \in Surjection(P, {F[p] : p \in P})
  BY DEF Surjection
<1>5. IsFiniteSet({F[p] : p \in P})
  BY <1>2, <1>4, FS_Surjection
<1>6. lines \subseteq {F[p] : p \in P}
  BY <1>3
<1>. QED BY <1>5, <1>6, FS_Subset, FS_CardinalityType

\* What a request reads under the lock is the number of lines there are.
LEMMA NextIsCount ==
    ASSUME RecordTypeOK, LinesAreNumbered, Cardinality(lines) <= MaxAppends
    PROVE  NextSeq = Cardinality(lines)
<1>0. IsFiniteSet(lines) /\ Cardinality(lines) \in Nat
  BY LinesFinite
<1>1. CASE lines = {}
  BY <1>1, FS_EmptySet DEF NextSeq
<1>2. CASE lines # {}
  <2> DEFINE k == Cardinality(lines)
             S == {l.seq : l \in lines}
             last == CHOOSE s \in S : \A l \in lines : l.seq <= s
  <2>1. k # 0 /\ k \in Nat
    BY <1>0, <1>2, FS_EmptySet
  <2>2. S = {n \in 0 .. MaxAppends : n < k}
    BY DEF LinesAreNumbered
  <2> HIDE DEF k, S
  <2>3. k - 1 \in S
    BY <2>1, <2>2, RecordNumbers DEF k
  <2>4. \A l \in lines : l.seq \in S
    BY DEF S
  <2>5. \A l \in lines : l.seq <= k - 1
    BY <2>1, <2>2, <2>4, RecordNumbers
  <2>6. last \in S /\ \A l \in lines : l.seq <= last
    BY <2>3, <2>5
  <2>7. k - 1 <= last
    <3>1. PICK l \in lines : l.seq = k - 1
      BY <2>3 DEF S
    <3>. QED BY <2>6, <3>1
  <2>8. last = k - 1
    <3> HIDE DEF last
    <3>. QED BY <2>1, <2>2, <2>6, <2>7, RecordNumbers
  <2>9. NextSeq = 1 + last
    BY <1>2 DEF NextSeq, S
  <2> HIDE DEF last
  <2>. QED BY <2>1, <2>8, <2>9 DEF k
<1>. QED BY <1>1, <1>2

\* A request goes on, and neither decides, appends nor starts to.
Plainly(r) ==
  \/ req'[r] = req[r]
  \/ /\ req[r].at # "new" /\ req'[r].at # "new" /\ req'[r].kind = req[r].kind
     /\ req[r].at # "ok"
     /\ req[r].kind \in {"use", "dismiss", "append"} => req'[r].at = "refused"

LEMMA PlainStep ==
    ASSUME RecordInv, UNCHANGED lines, card'.suggestion = card.suggestion,
           \A r \in Requests : Plainly(r)
    PROVE  InTurn' /\ Deciding' /\ Numbering'
<1>0. InTurn /\ Deciding /\ Numbering
  BY DEF RecordInv
<1>1. BegunOnes' = BegunOnes /\ Begun' = Begun
  <2>1. \A r \in Requests : req'[r].at # "new" <=> req[r].at # "new"
    BY DEF Plainly
  <2>2. BegunOnes' = BegunOnes
    BY <2>1 DEF BegunOnes
  <2>. QED BY <2>2, RequestSets DEF Begun, BegunOnes
<1>2. Appending' = Appending /\ Appended' = Appended
  BY DEF Appending, Appended, Plainly
<1>3. \A r \in Requests : Decided(r)' <=> Decided(r)
  BY DEF Decided, Plainly
<1>4. \A r \in Requests : req'[r].kind = "append" /\ req'[r].at = "commit" => req'[r] = req[r]
  BY DEF Plainly
<1>5. InTurn'
  BY <1>0, <1>1 DEF InTurn
<1>6. Deciding'
  BY <1>0, <1>3 DEF Deciding
<1>7. Numbering'
  BY <1>0, <1>2, <1>4 DEF Numbering, LinesAreNumbered
<1>. QED BY <1>5, <1>6, <1>7

\* Request r is answered, or moved on.
LEMMA Moving ==
    ASSUME RecordTypeOK, NEW r \in Requests,
           NEW at \in {"new", "write", "commit", "enqueue", "ok", "refused"},
           Answered(r, at) \/ Moves(r, at)
    PROVE  /\ req' \in [Requests -> RequestRows]
           /\ req'[r].at = at /\ req'[r].kind = req[r].kind
           /\ \A s \in Requests \ {r} : req'[s] = req[s]
<1>0. req \in [Requests -> RequestRows] /\ req[r].kind \in Kinds /\ NoOne \notin Customers
  BY RecordNumbers DEF RecordTypeOK, RequestRows
<1>1. CASE Moves(r, at)
  BY <1>0, <1>1 DEF Moves, RequestRows
<1>2. CASE Answered(r, at)
  <2> DEFINE q == [NewRequest EXCEPT !.kind = req[r].kind, !.at = at]
  <2>0. NewRequest \in RequestRows
    BY RecordNumbers DEF NewRequest, RequestRows, Kinds
  <2>1. q \in RequestRows /\ q.kind = req[r].kind /\ q.at = at
    BY <1>0, <2>0 DEF RequestRows
  <2>2. req' = [req EXCEPT ![r] = q]
    BY <1>2 DEF Answered
  <2> HIDE DEF q
  <2>. QED BY <1>0, <2>1, <2>2
<1>. QED BY <1>1, <1>2

\* What is typed, without the requests.
RestTyped ==
  /\ call \in CallRows
  /\ lock \in Requests \cup {NoOne}
  /\ lines \subseteq LineRows
  /\ contact \in [Customers -> 0 .. MaxRequests]
  /\ trail.customer \in Customers \cup {NoOne}
  /\ trail.unlinks \subseteq [said : Customers \cup {NoOne}, was : Customers \cup {NoOne}]
  /\ card \in Cards
  /\ job \in Jobs
  /\ run \in [Runners -> [at : Runs, sawManual : BOOLEAN]]

LEMMA TypedParts == RecordTypeOK <=> RestTyped /\ req \in [Requests -> RequestRows]
BY DEF RecordTypeOK, RestTyped

LEMMA BeginStep ==
    ASSUME RecordInv, NEW r \in Requests, NEW kind \in Kinds, NEW c \in Customers \cup {NoOne},
           Begin(r, kind, c)
    PROVE  RecordInv'
<1> DEFINE q == [kind |-> kind, at |-> "write", customer |-> c, time |-> r, next |-> 0]
<1>0. /\ RecordTypeOK /\ InTurn /\ Committing /\ Deciding /\ Numbering /\ Retrying /\ LinksAreAudited
      /\ req \in [Requests -> RequestRows]
  BY DEF RecordInv, RecordTypeOK
<1>1. /\ UNCHANGED <<call, lock, lines, contact, trail, card, job, run>>
      /\ req' = [req EXCEPT ![r] = q] /\ r = Begun + 1
      /\ kind = "append" => Cardinality(Appending) < MaxAppends
  BY DEF Begin, Appending
<1>2. q \in RequestRows /\ q.kind = kind /\ q.at = "write"
  BY RecordNumbers DEF RequestRows
<1> HIDE DEF q
<1>3. /\ req' \in [Requests -> RequestRows] /\ req'[r] = q
      /\ \A s \in Requests \ {r} : req'[s] = req[s]
  BY <1>0, <1>1, <1>2
<1>4. req[r].at = "new" /\ r \notin BegunOnes
  <2>1. r \notin BegunOnes
    BY <1>0, <1>1, RequestSets DEF InTurn
  <2>. QED BY <2>1 DEF BegunOnes
<1>5. RecordTypeOK'
  BY <1>0, <1>1, <1>3 DEF RecordTypeOK
<1>6. InTurn'
  <2>1. BegunOnes' = BegunOnes \cup {r}
    BY <1>2, <1>3, <1>4 DEF BegunOnes
  <2>2. Cardinality(BegunOnes') = Begun + 1
    BY <1>4, <2>1, RequestSets, FS_AddElement
  <2>3. Begun' = Begun + 1
    BY <2>2 DEF Begun, BegunOnes
  <2>4. BegunOnes \cup {r} = 1 .. Begun + 1
    BY <1>0, <1>1, RequestSets DEF InTurn
  <2>. QED BY <2>1, <2>3, <2>4 DEF InTurn
<1>7. Committing'
  BY <1>0, <1>1, <1>2, <1>3, <1>4 DEF Committing
<1>8. \A s \in Requests : Decided(s)' <=> Decided(s)
  BY <1>2, <1>3, <1>4 DEF Decided
<1>9. Deciding'
  BY <1>0, <1>1, <1>8 DEF Deciding
<1>10. Numbering'
  <2>1. Appended' = Appended
    BY <1>2, <1>3, <1>4 DEF Appended
  <2>2. Cardinality(Appending') <= MaxAppends
    <3>1. CASE kind = "append"
      <4>1. Appending' = Appending \cup {r} /\ r \notin Appending
        BY <1>2, <1>3, <1>4, <3>1 DEF Appending
      <4>2. Cardinality(Appending') = Cardinality(Appending) + 1
        BY <4>1, RequestSets, FS_AddElement
      <4>. QED BY <1>1, <3>1, <4>2, RequestSets, RecordNumbers
    <3>2. CASE kind # "append"
      <4>1. Appending' = Appending
        BY <1>2, <1>3, <1>4, <3>2 DEF Appending
      <4>. QED BY <1>0, <4>1 DEF Numbering
    <3>. QED BY <3>1, <3>2
  <2>3. \A s \in Requests : req'[s].at = "commit" => req'[s] = req[s]
    BY <1>2, <1>3
  <2>. QED BY <1>0, <1>1, <2>1, <2>2, <2>3 DEF Numbering, LinesAreNumbered
<1>11. Retrying' /\ LinksAreAudited'
  BY <1>0, <1>1 DEF Retrying, LinksAreAudited
<1>. QED BY <1>5, <1>6, <1>7, <1>9, <1>10, <1>11 DEF RecordInv

\* A step in which request r plainly goes on, and the lock with it.
LEMMA RequestStep ==
    ASSUME RecordInv, NEW r \in Requests, req' \in [Requests -> RequestRows],
           RestTyped', UNCHANGED <<lines, job>>, card'.suggestion = card.suggestion,
           \A s \in Requests \ {r} : req'[s] = req[s],
           req[r].at \in {"write", "commit", "enqueue"},
           req'[r].at \in {"commit", "enqueue", "ok", "refused"}, req'[r].kind = req[r].kind,
           req[r].kind \in {"use", "dismiss", "append"} => req'[r].at = "refused",
           req'[r].at = "commit" <=> lock' = r, lock' \in {lock, r, NoOne},
           lock # lock' => lock \in {r, NoOne},
           req'[r].at = "commit" => req[r].kind \in {"link", "unlink"},
           req'[r].at = "enqueue" => req[r].kind = "end",
           LinksAreAudited'
    PROVE  RecordInv'
<1>0. Committing /\ Retrying
  BY DEF RecordInv
<1>1. \A s \in Requests : Plainly(s)
  BY DEF Plainly
<1>2. InTurn' /\ Deciding' /\ Numbering'
  BY <1>1, PlainStep
<1>3. Committing'
  BY <1>0, RecordNumbers DEF Committing
<1>4. Retrying'
  BY <1>0 DEF Retrying
<1>5. RecordTypeOK'
  BY DEF RecordTypeOK, RestTyped
<1>. QED BY <1>2, <1>3, <1>4, <1>5 DEF RecordInv

LEMMA LinkSteps ==
    ASSUME RecordInv, NEW r \in Requests,
           LinkUpdate(r) \/ (req[r].kind # "append" /\ LinkCommit(r)) \/ (Fails(r))
    PROVE  RecordInv'
<1>0. RecordTypeOK /\ Committing /\ LinksAreAudited /\ RestTyped /\ req[r] \in RequestRows
  BY TypedParts DEF RecordInv
<1>1. CASE LinkUpdate(r)
  <2>1. /\ Moves(r, "commit") /\ lock' = r /\ lock = NoOne
        /\ UNCHANGED <<call, lines, contact, trail, card, job, run>>
        /\ req[r].at = "write" /\ req[r].kind \in {"link", "unlink"}
    BY <1>1 DEF LinkUpdate, Writes
  <2>2. RestTyped' /\ LinksAreAudited'
    BY <1>0, <2>1 DEF RestTyped, LinksAreAudited
  <2>. QED BY <1>0, <2>1, <2>2, Moving, RequestStep
<1>2. CASE req[r].kind # "append" /\ LinkCommit(r)
  <2>1. /\ Answered(r, "ok") /\ lock' = NoOne /\ lock = r /\ req[r].at = "commit"
        /\ UNCHANGED <<lines, contact, card, job, run>>
        /\ req[r].kind \in {"link", "unlink"}
    BY <1>0, <1>2 DEF LinkCommit, Committing
  <2>2. Target(r) \in Customers \cup {NoOne} /\ req[r].customer \in Customers \cup {NoOne}
    BY <1>0 DEF Target, RequestRows
  <2>3. /\ call' \in CallRows /\ call'.customer = Target(r)
        /\ trail'.customer = Target(r)
        /\ trail'.unlinks \subseteq [said : Customers \cup {NoOne}, was : Customers \cup {NoOne}]
    BY <1>0, <1>2, <2>2 DEF LinkCommit, RestTyped, CallRows
  <2>4. RestTyped' /\ LinksAreAudited'
    BY <1>0, <2>1, <2>2, <2>3 DEF RestTyped, LinksAreAudited
  <2>. QED BY <1>0, <2>1, <2>4, Moving, RequestStep, RecordNumbers
<1>3. CASE Fails(r)
  <2>1. /\ Answered(r, "refused") /\ lock' = NoOne /\ lock = r /\ req[r].at = "commit"
        /\ UNCHANGED <<call, lines, contact, trail, card, job, run>>
    BY <1>3 DEF Fails
  <2>2. RestTyped' /\ LinksAreAudited'
    BY <1>0, <2>1 DEF RestTyped, LinksAreAudited
  <2>. QED BY <1>0, <2>1, <2>2, Moving, RequestStep, RecordNumbers
<1>. QED BY <1>1, <1>2, <1>3

LEMMA RowSteps ==
    ASSUME RecordInv, NEW r \in Requests,
           ManualSummary(r) \/ EndCall(r) \/ Enqueue(r) \/ EnqueueFails(r)
    PROVE  RecordInv'
<1>0. /\ RecordTypeOK /\ Committing /\ LinksAreAudited /\ RestTyped /\ req[r] \in RequestRows
      /\ Retrying
  BY TypedParts DEF RecordInv
<1>1. CASE ManualSummary(r)
  <2>1. /\ Answered(r, "ok") /\ lock = NoOne
        /\ UNCHANGED <<lock, lines, contact, trail, card, job, run>>
        /\ req[r].kind = "manual" /\ req[r].at = "write"
        /\ call' = [call EXCEPT !.source = "manual", !.summary = r]
    BY <1>1 DEF ManualSummary, Writes
  <2>2. call' \in CallRows /\ call'.customer = call.customer
    BY <1>0, <2>1 DEF RestTyped, CallRows
  <2>3. RestTyped' /\ LinksAreAudited'
    BY <1>0, <2>1, <2>2 DEF RestTyped, LinksAreAudited
  <2>. QED BY <1>0, <2>1, <2>3, Moving, RequestStep, RecordNumbers
<1>2. CASE EndCall(r)
  <2>1. /\ Moves(r, "enqueue") /\ lock = NoOne
        /\ UNCHANGED <<lock, lines, trail, card, job, run>>
        /\ req[r].kind = "end" /\ req[r].at = "write"
        /\ call' = [call EXCEPT !.ended = TRUE]
    BY <1>2 DEF EndCall, Writes
  <2>2. call' \in CallRows /\ call'.customer = call.customer
    BY <1>0, <2>1 DEF RestTyped, CallRows
  <2>3. contact' \in [Customers -> 0 .. MaxRequests]
    BY <1>0, <1>2 DEF EndCall, Contacted, RestTyped, CallRows, RequestRows
  <2>4. RestTyped' /\ LinksAreAudited'
    BY <1>0, <2>1, <2>2, <2>3 DEF RestTyped, LinksAreAudited
  <2>. QED BY <1>0, <2>1, <2>4, Moving, RequestStep, RecordNumbers
<1>3. CASE Enqueue(r) \/ EnqueueFails(r)
  <2>1. /\ Answered(r, "ok") /\ req[r].at = "enqueue" /\ req[r].kind = "end" /\ lock # r
        /\ UNCHANGED <<call, lock, lines, contact, trail, card, run>>
        /\ job' \in {job, [job EXCEPT !.state = "waiting"]}
        /\ job' # job => job.state = "none"
    BY <1>0, <1>3 DEF Enqueue, EnqueueFails, Committing
  <2>2. req' \in [Requests -> RequestRows] /\ req'[r].at = "ok" /\ req'[r].kind = req[r].kind
        /\ \A s \in Requests \ {r} : req'[s] = req[s]
    BY <1>0, <2>1, Moving
  <2>3. \A s \in Requests : Plainly(s)
    BY <2>1, <2>2 DEF Plainly
  <2>4. InTurn' /\ Deciding' /\ Numbering'
    BY <2>1, <2>3, PlainStep
  <2>5. Committing'
    BY <1>0, <2>1, <2>2 DEF Committing
  <2>6. job' \in Jobs /\ Retrying'
    <3>1. CASE job' = job
      BY <1>0, <3>1 DEF RestTyped, Retrying
    <3>2. CASE job' # job
      <4>1. job.state = "none" /\ job' = [job EXCEPT !.state = "waiting"]
        BY <2>1, <3>2
      <4>. QED BY <1>0, <4>1, RecordNumbers DEF RestTyped, Retrying, Jobs
    <3>. QED BY <3>1, <3>2
  <2>7. RecordTypeOK' /\ LinksAreAudited'
    BY <1>0, <2>1, <2>2, <2>6 DEF RecordTypeOK, RestTyped, LinksAreAudited
  <2>. QED BY <2>4, <2>5, <2>6, <2>7 DEF RecordInv
<1>. QED BY <1>1, <1>2, <1>3

LEMMA CardSteps ==
    ASSUME RecordInv, NEW r \in Requests,
           Decide(r) \/ Initialize(r) \/ MarkItem(r) \/ ActionItem(r)
    PROVE  RecordInv'
<1>0. /\ RecordTypeOK /\ Committing /\ LinksAreAudited /\ RestTyped /\ req[r] \in RequestRows
      /\ Retrying /\ InTurn /\ Numbering /\ Deciding
  BY TypedParts DEF RecordInv
<1>1. /\ UNCHANGED <<call, lock, lines, contact, trail, job, run>>
      /\ req[r].at = "write" /\ lock # r
  BY <1>0 DEF Decide, Initialize, MarkItem, ActionItem, Writes, Committing
<1>2. \E at \in {"ok", "refused"} :
        /\ Answered(r, at)
        /\ req' \in [Requests -> RequestRows] /\ req'[r].at = at /\ req'[r].kind = req[r].kind
        /\ \A s \in Requests \ {r} : req'[s] = req[s]
  <2>1. \E at \in {"ok", "refused"} : Answered(r, at)
    BY DEF Decide, Initialize, MarkItem, ActionItem
  <2>. QED BY <1>0, <2>1, Moving
<1>3. card' \in Cards
  BY <1>0 DEF RestTyped, Decide, Initialize, MarkItem, ActionItem, Cards, Decision, Seeded
<1>4. RestTyped' /\ LinksAreAudited'
  BY <1>0, <1>1, <1>3 DEF RestTyped, LinksAreAudited
<1>5. CASE Initialize(r) \/ MarkItem(r) \/ ActionItem(r) \/ (Decide(r) /\ req'[r].at = "refused")
  <2>1. card'.suggestion = card.suggestion
    <3>1. card \in Cards
      BY <1>0 DEF RestTyped
    <3>2. CASE Decide(r) /\ req'[r].at = "refused"
      <4>1. \A at : Answered(r, at) => req'[r].at = at
        BY <1>0 DEF RecordTypeOK, Answered, NewRequest
      <4>. QED BY <3>2, <4>1 DEF Decide
    <3>. QED BY <1>5, <3>1, <3>2 DEF Initialize, MarkItem, ActionItem, Cards
  <2>2. req[r].kind \in {"use", "dismiss", "append"} => req'[r].at = "refused"
    BY <1>5 DEF Initialize, MarkItem, ActionItem, Writes, Decide
  <2>. QED BY <1>1, <1>2, <1>4, <2>1, <2>2, RequestStep
<1>6. CASE Decide(r) /\ req'[r].at # "refused"
  <2>1. /\ card.suggestion = "open" /\ card'.suggestion # "open"
        /\ req[r].kind \in {"use", "dismiss"}
    <3>1. \A at : Answered(r, at) => req'[r].at = at
      BY <1>0 DEF RecordTypeOK, Answered, NewRequest
    <3>2. card \in Cards
      BY <1>0 DEF RestTyped
    <3>. QED BY <1>6, <3>1, <3>2 DEF Decide, Undecided, Writes, Cards, Decision
  <2>2. /\ req' \in [Requests -> RequestRows] /\ req'[r].at = "ok" /\ req'[r].kind = req[r].kind
        /\ \A s \in Requests \ {r} : req'[s] = req[s]
    BY <1>2, <1>6
  <2>3. Deciding'
    <3>1. \A s \in Requests \ {r} : ~Decided(s)'
      BY <1>0, <2>1, <2>2 DEF Deciding, Decided
    <3>. QED BY <2>1, <3>1 DEF Deciding
  <2>4. InTurn'
    <3>1. BegunOnes' = BegunOnes
      BY <1>1, <2>2 DEF BegunOnes
    <3>. QED BY <1>0, <3>1 DEF InTurn, Begun, BegunOnes
  <2>5. Numbering'
    <3>1. Appending' = Appending /\ Appended' = Appended
      BY <1>1, <2>1, <2>2 DEF Appending, Appended
    <3>. QED BY <1>0, <1>1, <2>2, <3>1 DEF Numbering, LinesAreNumbered
  <2>6. Committing'
    BY <1>0, <1>1, <2>2 DEF Committing
  <2>7. Retrying'
    BY <1>0, <1>1 DEF Retrying
  <2>. QED BY <1>4, <2>2, <2>3, <2>4, <2>5, <2>6, <2>7 DEF RecordInv, RecordTypeOK, RestTyped
<1>. QED BY <1>5, <1>6

LEMMA AppendLock ==
    ASSUME RecordInv, NEW r \in Requests, AppendLocks(r)
    PROVE  RecordInv'
<1> DEFINE q == [req[r] EXCEPT !.at = "commit", !.next = NextSeq]
<1>0. /\ RecordTypeOK /\ Committing /\ LinksAreAudited /\ RestTyped /\ req[r] \in RequestRows
      /\ Retrying /\ InTurn /\ Numbering /\ Deciding /\ req \in [Requests -> RequestRows]
  BY TypedParts DEF RecordInv
<1>1. /\ UNCHANGED <<call, lines, contact, trail, card, job, run>>
      /\ req[r].at = "write" /\ req[r].kind = "append" /\ lock = NoOne /\ lock' = r
  BY DEF AppendLocks, LockForAppend, Writes
<1>2. NextSeq = Cardinality(lines) /\ NextSeq \in 0 .. MaxAppends
  <2>1. Appended \subseteq Appending
    BY DEF Appended, Appending
  <2>2. Cardinality(Appended) <= Cardinality(Appending)
    BY <2>1, RequestSets, FS_Subset
  <2>3. Cardinality(lines) \in Nat /\ Cardinality(lines) <= MaxAppends
    BY <1>0, <2>2, LinesFinite, RequestSets, RecordNumbers DEF Numbering
  <2>4. NextSeq = Cardinality(lines)
    BY <1>0, <2>3, NextIsCount DEF Numbering
  <2>. QED BY <2>3, <2>4, RecordNumbers
<1>3. q \in RequestRows /\ q.at = "commit" /\ q.kind = "append" /\ q.next = Cardinality(lines)
  BY <1>0, <1>1, <1>2 DEF RequestRows
<1>4. req' = [req EXCEPT ![r] = q]
  BY <1>0 DEF AppendLocks
<1> HIDE DEF q
<1>5. /\ req' \in [Requests -> RequestRows] /\ req'[r] = q
      /\ \A s \in Requests \ {r} : req'[s] = req[s]
  BY <1>0, <1>3, <1>4
<1>6. RecordTypeOK' /\ LinksAreAudited' /\ Retrying'
  BY <1>0, <1>1, <1>5 DEF RecordTypeOK, LinksAreAudited, Retrying
<1>7. InTurn'
  <2>1. BegunOnes' = BegunOnes
    BY <1>1, <1>3, <1>5 DEF BegunOnes
  <2>. QED BY <1>0, <2>1 DEF InTurn, Begun, BegunOnes
<1>8. Committing'
  BY <1>0, <1>1, <1>3, <1>5, RecordNumbers DEF Committing
<1>9. Deciding'
  <2>1. \A s \in Requests : Decided(s)' <=> Decided(s)
    BY <1>1, <1>3, <1>5 DEF Decided
  <2>. QED BY <1>0, <1>1, <2>1 DEF Deciding
<1>10. Numbering'
  <2>1. Appending' = Appending /\ Appended' = Appended
    BY <1>1, <1>3, <1>5 DEF Appending, Appended
  <2>2. \A s \in Requests : req'[s].kind = "append" /\ req'[s].at = "commit" => req'[s].next = Cardinality(lines)
    BY <1>0, <1>3, <1>5 DEF Numbering
  <2>. QED BY <1>0, <1>1, <2>1, <2>2 DEF Numbering, LinesAreNumbered
<1>. QED BY <1>6, <1>7, <1>8, <1>9, <1>10 DEF RecordInv

\* One more line, with the next number.
LEMMA OneMoreLine ==
    ASSUME RecordTypeOK, LinesAreNumbered, Cardinality(lines) < MaxAppends,
           NEW r \in Requests, lines' = lines \cup {[seq |-> Cardinality(lines), by |-> r]}
    PROVE  /\ lines' \subseteq LineRows /\ LinesAreNumbered'
           /\ Cardinality(lines') = Cardinality(lines) + 1
<1> DEFINE k == Cardinality(lines)
           l0 == [seq |-> k, by |-> r]
<1>0. IsFiniteSet(lines) /\ k \in Nat /\ k < MaxAppends /\ l0 \in LineRows /\ l0.seq = k
      /\ lines' = lines \cup {l0} /\ lines \subseteq LineRows
  BY LinesFinite, RecordNumbers DEF LineRows, RecordTypeOK
<1> HIDE DEF l0
<1>1. {l.seq : l \in lines} = {n \in 0 .. MaxAppends : n < k}
  BY DEF LinesAreNumbered
<1>2. l0 \notin lines
  BY <1>0, <1>1
<1>3. Cardinality(lines') = k + 1
  BY <1>0, <1>2, FS_AddElement
<1> HIDE DEF k
<1>4. {l.seq : l \in lines'} = {l.seq : l \in lines} \cup {k}
  BY <1>0
<1>5. {l.seq : l \in lines'} = {n \in 0 .. MaxAppends : n < k + 1}
  BY <1>0, <1>1, <1>4, RecordNumbers
<1>6. LinesAreNumbered'
  BY <1>3, <1>5 DEF LinesAreNumbered
<1>7. lines' \subseteq LineRows
  BY <1>0
<1>. QED BY <1>3, <1>6, <1>7 DEF k

LEMMA AppendLine ==
    ASSUME RecordInv, NEW r \in Requests, AppendInserts(r)
    PROVE  RecordInv'
<1>0. /\ RecordTypeOK /\ Committing /\ LinksAreAudited /\ RestTyped /\ req[r] \in RequestRows
      /\ Retrying /\ InTurn /\ Numbering /\ Deciding /\ req \in [Requests -> RequestRows]
  BY TypedParts DEF RecordInv
<1>1. /\ UNCHANGED <<call, contact, trail, card, job, run>>
      /\ req[r].at = "commit" /\ req[r].kind = "append" /\ lock = r /\ lock' = NoOne
      /\ req[r].next = Cardinality(lines) /\ Answered(r, "ok")
      /\ lines' = lines \cup {[seq |-> Cardinality(lines), by |-> r]}
  BY <1>0 DEF AppendInserts, Committing, Numbering
<1>2. /\ req' \in [Requests -> RequestRows] /\ req'[r].at = "ok" /\ req'[r].kind = req[r].kind
      /\ \A s \in Requests \ {r} : req'[s] = req[s]
  BY <1>0, <1>1, Moving
<1>3. Appended \cup {r} \subseteq Appending /\ r \notin Appended
  BY <1>1 DEF Appended, Appending
<1>4. Cardinality(Appended \cup {r}) = Cardinality(Appended) + 1
  BY <1>3, RequestSets, FS_AddElement
<1>5. Cardinality(Appended \cup {r}) <= Cardinality(Appending)
  BY <1>3, RequestSets, FS_Subset
<1>6. Cardinality(lines) \in Nat /\ Cardinality(lines) < MaxAppends
  BY <1>0, <1>4, <1>5, LinesFinite, RequestSets, RecordNumbers DEF Numbering
<1>7. /\ lines' \subseteq LineRows /\ LinesAreNumbered'
      /\ Cardinality(lines') = Cardinality(lines) + 1
  BY <1>0, <1>1, <1>6, OneMoreLine DEF Numbering
<1>8. RecordTypeOK' /\ LinksAreAudited' /\ Retrying'
  BY <1>0, <1>1, <1>2, <1>7 DEF RecordTypeOK, LinksAreAudited, Retrying
<1>9. InTurn'
  <2>1. BegunOnes' = BegunOnes
    BY <1>1, <1>2 DEF BegunOnes
  <2>. QED BY <1>0, <2>1 DEF InTurn, Begun, BegunOnes
<1>10. Committing'
  BY <1>0, <1>1, <1>2, RecordNumbers DEF Committing
<1>11. Deciding'
  <2>1. \A s \in Requests : Decided(s)' <=> Decided(s)
    BY <1>1, <1>2 DEF Decided
  <2>. QED BY <1>0, <1>1, <2>1 DEF Deciding
<1>12. Numbering'
  <2>1. Appending' = Appending /\ Appended' = Appended \cup {r}
    BY <1>1, <1>2 DEF Appending, Appended
  <2>2. \A s \in Requests : req'[s].at # "commit"
    BY <1>0, <1>1, <1>2 DEF Committing
  <2>3. Cardinality(lines') <= Cardinality(Appended')
    BY <1>0, <1>4, <1>6, <1>7, <2>1, RequestSets DEF Numbering
  <2>4. Cardinality(Appending') <= MaxAppends
    BY <1>0, <2>1 DEF Numbering
  <2>. QED BY <1>7, <2>2, <2>3, <2>4 DEF Numbering
<1>. QED BY <1>8, <1>9, <1>10, <1>11, <1>12 DEF RecordInv

\* A step that leaves the requests, the lines and the cards alone.
LEMMA JobStep ==
    ASSUME RecordInv, UNCHANGED <<lock, req, lines, contact, trail, card>>,
           call' \in CallRows, call'.customer = call.customer,
           job' \in Jobs, run' \in [Runners -> [at : Runs, sawManual : BOOLEAN]], Retrying'
    PROVE  RecordInv'
<1>1. RecordTypeOK' /\ LinksAreAudited'
  BY DEF RecordInv, RecordTypeOK, LinksAreAudited
<1>2. Committing'
  BY DEF RecordInv, Committing
<1>3. InTurn' /\ Deciding' /\ Numbering'
  BY PlainStep DEF Plainly
<1>. QED BY <1>1, <1>2, <1>3 DEF RecordInv

\* A runner that is not the owner leaves the job alone; an owner's job runs.
LEMMA Retries ==
    ASSUME job \in Jobs, Retrying, NEW w \in Runners
    PROVE  /\ Finished(w, Retried) => job' \in Jobs /\ Retrying'
           /\ Finished(w, [job EXCEPT !.state = "done", !.owner = NoOne]) => job' \in Jobs /\ Retrying'
<1>1. CASE job.owner # w
  BY <1>1 DEF Finished, Retrying
<1>2. CASE job.owner = w
  <2>1. job.state = "active" /\ job.tries < Attempts /\ job.tries \in 0 .. Attempts
    BY <1>2, RecordNumbers DEF Retrying, Jobs
  <2>2. ASSUME Finished(w, Retried) PROVE job' \in Jobs /\ Retrying'
    <3>1. job' = Retried /\ job.tries + 1 \in 0 .. Attempts
      BY <1>2, <2>1, <2>2, RecordNumbers DEF Finished
    <3>2. /\ job'.state = IF job.tries + 1 < Attempts THEN "waiting" ELSE "failed"
          /\ job'.tries = job.tries + 1 /\ job'.owner = NoOne /\ job' \in Jobs
      BY <3>1 DEF Retried, Jobs
    <3>. QED BY <3>2 DEF Retrying
  <2>3. ASSUME Finished(w, [job EXCEPT !.state = "done", !.owner = NoOne])
        PROVE  job' \in Jobs /\ Retrying'
    BY <1>2, <2>3 DEF Finished, Jobs, Retrying
  <2>. QED BY <2>2, <2>3
<1>. QED BY <1>1, <1>2

LEMMA JobSteps ==
    ASSUME RecordInv,
           \/ \E w \in Runners : Take(w) \/ Summarized(w) \/ ApplyAiSummary(w) \/ Throws(w)
           \/ \E dies \in BOOLEAN : Stalls(dies)
    PROVE  RecordInv'
<1>0. /\ call \in CallRows /\ job \in Jobs /\ run \in [Runners -> [at : Runs, sawManual : BOOLEAN]]
      /\ Retrying
  BY DEF RecordInv, RecordTypeOK
<1>1. ASSUME NEW w \in Runners, Take(w) PROVE RecordInv'
  <2>1. job' \in Jobs /\ Retrying'
    BY <1>0, <1>1, RecordNumbers DEF Take, Jobs, Retrying
  <2>2. run' \in [Runners -> [at : Runs, sawManual : BOOLEAN]]
    BY <1>0, <1>1 DEF Take, Runs
  <2>. QED BY <1>0, <1>1, <2>1, <2>2, JobStep DEF Take
<1>2. ASSUME NEW w \in Runners, Summarized(w) PROVE RecordInv'
  <2>1. run' \in [Runners -> [at : Runs, sawManual : BOOLEAN]]
    BY <1>0, <1>2 DEF Summarized, Runs
  <2>. QED BY <1>0, <1>2, <2>1, JobStep DEF Summarized, Retrying
<1>3. ASSUME NEW w \in Runners, ApplyAiSummary(w) PROVE RecordInv'
  <2>1. job' \in Jobs /\ Retrying'
    BY <1>0, <1>3, Retries DEF ApplyAiSummary
  <2>2. run' \in [Runners -> [at : Runs, sawManual : BOOLEAN]]
    BY <1>0, <1>3 DEF ApplyAiSummary, Runs
  <2>3. call' \in CallRows /\ call'.customer = call.customer
    BY <1>0, <1>3 DEF ApplyAiSummary, CallRows
  <2>. QED BY <1>3, <2>1, <2>2, <2>3, JobStep DEF ApplyAiSummary
<1>4. ASSUME NEW w \in Runners, Throws(w) PROVE RecordInv'
  <2>1. job' \in Jobs /\ Retrying'
    BY <1>0, <1>4, Retries DEF Throws
  <2>2. run' \in [Runners -> [at : Runs, sawManual : BOOLEAN]]
    BY <1>0, <1>4 DEF Throws, Runs
  <2>. QED BY <1>0, <1>4, <2>1, <2>2, JobStep DEF Throws
<1>5. ASSUME NEW dies \in BOOLEAN, Stalls(dies) PROVE RecordInv'
  <2>1. job' \in Jobs /\ Retrying'
    <3>1. /\ job.state = "active" /\ job.tries \in 0 .. Attempts /\ job.tries < Attempts
          /\ job.stalls \in 0 .. MaxStalls
      BY <1>0, <1>5 DEF Stalls, Jobs, Retrying
    <3>2. CASE job.stalls < MaxStalls
      <4>1. job' = [job EXCEPT !.state = "waiting", !.owner = NoOne, !.stalls = @ + 1]
        BY <1>5, <3>2 DEF Stalls
      <4>2. job.stalls + 1 \in 0 .. MaxStalls
        BY <3>1, <3>2, RecordNumbers
      <4>3. /\ job' \in Jobs /\ job'.state = "waiting" /\ job'.owner = NoOne
            /\ job'.tries = job.tries
        BY <1>0, <4>1, <4>2 DEF Jobs
      <4>. QED BY <3>1, <4>3 DEF Retrying
    <3>3. CASE ~(job.stalls < MaxStalls)
      <4>1. job' = [job EXCEPT !.state = "failed", !.owner = NoOne]
        BY <1>5, <3>3 DEF Stalls
      <4>2. job' \in Jobs /\ job'.state = "failed" /\ job'.owner = NoOne
        BY <1>0, <4>1 DEF Jobs
      <4>. QED BY <4>2 DEF Retrying
    <3>. QED BY <3>2, <3>3
  <2>2. run' \in [Runners -> [at : Runs, sawManual : BOOLEAN]]
    BY <1>0, <1>5 DEF Stalls, Runs
  <2>. QED BY <1>0, <1>5, <2>1, <2>2, JobStep DEF Stalls
<1>. QED BY <1>1, <1>2, <1>3, <1>4, <1>5

LEMMA RecordStep == ASSUME RecordInv, [RecordNext]_recordVars PROVE RecordInv'
<1>1. CASE UNCHANGED recordVars
  <2>1. UNCHANGED <<call, lock, req, lines, contact, trail, card, job, run>>
    BY <1>1 DEF recordVars
  <2>. QED BY <2>1, JobStep DEF RecordInv, RecordTypeOK, Retrying
<1>2. CASE RecordNext
  <2>1. CASE \E r \in Requests, kind \in Kinds, c \in Customers \cup {NoOne} : Begin(r, kind, c)
    BY <2>1, BeginStep
  <2>2. CASE \E r \in Requests : LinkUpdate(r) \/ (req[r].kind # "append" /\ LinkCommit(r)) \/ Fails(r)
    BY <2>2, LinkSteps
  <2>3. CASE \E r \in Requests : ManualSummary(r) \/ EndCall(r) \/ Enqueue(r) \/ EnqueueFails(r)
    BY <2>3, RowSteps
  <2>4. CASE \E r \in Requests : AppendLocks(r) \/ AppendInserts(r)
    BY <2>4, AppendLock, AppendLine
  <2>5. CASE \E r \in Requests : Decide(r) \/ Initialize(r) \/ MarkItem(r) \/ ActionItem(r)
    BY <2>5, CardSteps
  <2>6. CASE \/ \E w \in Runners : Take(w) \/ Summarized(w) \/ ApplyAiSummary(w) \/ Throws(w)
             \/ \E dies \in BOOLEAN : Stalls(dies)
    BY <2>6, JobSteps
  <2>. QED BY <1>2, <2>1, <2>2, <2>3, <2>4, <2>5, <2>6 DEF RecordNext
<1>. QED BY <1>1, <1>2

LEMMA RecordStart == RecordInit => RecordInv
<1> SUFFICES ASSUME RecordInit PROVE RecordInv
  OBVIOUS
<1>1. \A r \in Requests : req[r] = NewRequest
  BY DEF RecordInit
<1>2. RecordTypeOK
  <2>1. NewRequest \in RequestRows /\ NewJob \in Jobs
    BY RecordNumbers DEF NewRequest, RequestRows, Kinds, NewJob, Jobs
  <2>2. PICK c \in Customers \cup {NoOne} :
          /\ call = [ended |-> FALSE, customer |-> c, source |-> "none", summary |-> NoOne]
          /\ trail = [customer |-> c, unlinks |-> {}]
    BY DEF RecordInit
  <2>3. call \in CallRows
    BY <2>2 DEF CallRows
  <2>4. card \in Cards
    BY DEF RecordInit, Cards
  <2>5. contact \in [Customers -> 0 .. MaxRequests]
    BY RecordNumbers DEF RecordInit
  <2>. QED BY <2>1, <2>2, <2>3, <2>4, <2>5 DEF RecordInit, RecordTypeOK, Runs
<1>3. InTurn
  <2>1. BegunOnes = {}
    BY <1>1 DEF BegunOnes, NewRequest
  <2>2. Begun = 0
    BY <2>1, RequestSets, FS_EmptySet
  <2>. QED BY <2>1, <2>2 DEF InTurn
<1>4. Committing /\ Deciding
  BY <1>1, RecordNumbers DEF RecordInit, Committing, Deciding, Decided, NewRequest
<1>5. Numbering
  <2>1. lines = {} /\ Cardinality(lines) = 0
    BY FS_EmptySet DEF RecordInit
  <2>2. Appending = {} /\ Appended = {}
    BY <1>1 DEF Appending, Appended, NewRequest
  <2>3. LinesAreNumbered
    BY <2>1 DEF LinesAreNumbered
  <2>. QED BY <1>1, <2>1, <2>2, <2>3, RecordNumbers DEF Numbering, NewRequest
<1>6. Retrying /\ LinksAreAudited
  BY RecordNumbers DEF RecordInit, Retrying, NewJob, LinksAreAudited
<1>. QED BY <1>2, <1>3, <1>4, <1>5, <1>6 DEF RecordInv

\* The row, its lock, the requests and the job keep their types: a job has no
\* more attempts than the queue gives it, a transcript no number beyond its
\* lines.
THEOREM RecordTyping == RecordSpec => []RecordTypeOK
<1>1. RecordInv => RecordTypeOK
  BY DEF RecordInv
<1>. QED BY <1>1, RecordStart, RecordStep, PTL DEF RecordSpec

\* The audit names the customer the call has, one request at most decided on
\* the suggestion, lines have the numbers from 0 on: for every number of
\* requests, whatever they wait for and whichever of them fail.
THEOREM RecordsAgree == RecordSpec => []RecordAgrees
<1>1. RecordInv => RecordAgrees
  <2> SUFFICES ASSUME RecordInv PROVE RecordAgrees
    OBVIOUS
  <2>1. DecidedOnce
    <3> DEFINE D == {r \in Requests : req[r].at = "ok" /\ req[r].kind \in {"use", "dismiss"}}
    <3>1. \A r, s \in D : r = s
      BY DEF RecordInv, Deciding, Decided
    <3>2. CASE D = {}
      BY <3>2, FS_EmptySet DEF DecidedOnce
    <3>3. CASE D # {}
      <4>1. PICK r : D = {r}
        BY <3>1, <3>3
      <4>2. Cardinality(D) = 1
        BY <4>1, FS_Singleton
      <4>. QED BY <4>2 DEF DecidedOnce
    <3>. QED BY <3>2, <3>3
  <2>. QED BY <2>1 DEF RecordInv, Numbering, RecordAgrees
<1>. QED BY <1>1, RecordStart, RecordStep, PTL DEF RecordSpec

LEMMA EditStep ==
    ASSUME RecordInv, [RecordNext]_recordVars
    PROVE  /\ call.source = "manual" =>
                /\ call'.source = "manual"
                /\ call'.summary # call.summary => \E r \in Requests : Writes(r, "manual")
           /\ \A c \in Customers : contact'[c] >= contact[c]
           /\ (card.item = "done" /\ card'.item # "done") => \E r \in Requests : Writes(r, "uncheck")
<1>0. /\ call \in CallRows /\ card \in Cards /\ req \in [Requests -> RequestRows]
      /\ contact \in [Customers -> 0 .. MaxRequests] /\ \A c \in Customers : contact[c] \in Nat
  BY RecordNumbers DEF RecordInv, RecordTypeOK
<1> DEFINE Stands == call.source = "manual" =>
                       /\ call'.source = "manual"
                       /\ call'.summary # call.summary => \E r \in Requests : Writes(r, "manual")
           Marked == (card.item = "done" /\ card'.item # "done") => \E r \in Requests : Writes(r, "uncheck")
<1>1. Stands
  <2>1. CASE UNCHANGED call
    BY <2>1
  <2>2. ASSUME NEW r \in Requests, LinkCommit(r) \/ ManualSummary(r) \/ EndCall(r) PROVE Stands
    BY <1>0, <2>2 DEF CallRows, LinkCommit, ManualSummary, EndCall
  <2>3. ASSUME NEW w \in Runners, ApplyAiSummary(w) PROVE Stands
    BY <1>0, <2>3 DEF CallRows, ApplyAiSummary, MayApply
  <2>. QED BY <2>1, <2>2, <2>3 DEF RecordNext, recordVars, Begin, LinkUpdate, Fails, Enqueue, EnqueueFails,
          AppendLocks, AppendInserts, Decide, Initialize, MarkItem, ActionItem, Take, Summarized, Throws, Stalls
<1>2. \A c \in Customers : contact'[c] >= contact[c]
  <2>1. CASE UNCHANGED contact
    BY <1>0, <2>1
  <2>2. ASSUME NEW r \in Requests, EndCall(r) PROVE \A c \in Customers : contact'[c] >= contact[c]
    <3>1. req[r].time \in Nat /\ call.customer \in Customers \cup {NoOne}
      BY <1>0, RecordNumbers DEF RequestRows, CallRows
    <3>. QED BY <1>0, <2>2, <3>1 DEF EndCall, Contacted
  <2>. QED BY <2>1, <2>2 DEF RecordNext, recordVars, Begin, LinkUpdate, LinkCommit, Fails, ManualSummary, Enqueue,
          EnqueueFails, AppendLocks, AppendInserts, Decide, Initialize, MarkItem, ActionItem, Take, Summarized,
          ApplyAiSummary, Throws, Stalls
<1>3. Marked
  <2>1. CASE UNCHANGED card
    BY <2>1
  <2>2. ASSUME NEW r \in Requests, Decide(r) \/ Initialize(r) \/ MarkItem(r) \/ ActionItem(r) PROVE Marked
    BY <1>0, <2>2 DEF Cards, Decide, Initialize, Seeded, MarkItem, ActionItem
  <2>. QED BY <2>1, <2>2 DEF RecordNext, recordVars, Begin, LinkUpdate, LinkCommit, Fails, ManualSummary, EndCall,
          Enqueue, EnqueueFails, AppendLocks, AppendInserts, Take, Summarized, ApplyAiSummary, Throws, Stalls
<1>. QED BY <1>1, <1>2, <1>3

\* A manual summary, a tick and the last contact are not undone by a worker or
\* a request that read the row before.
THEOREM EditsKept == RecordSpec => EditsStand
<1>1. RecordInv /\ [RecordNext]_recordVars =>
        [call.source = "manual" =>
           /\ call'.source = "manual"
           /\ call'.summary # call.summary => \E r \in Requests : Writes(r, "manual")]_recordVars
  BY EditStep
<1>2. RecordInv /\ [RecordNext]_recordVars => [\A c \in Customers : contact'[c] >= contact[c]]_recordVars
  BY EditStep
<1>3. RecordInv /\ [RecordNext]_recordVars =>
        [(card.item = "done" /\ card'.item # "done") => \E r \in Requests : Writes(r, "uncheck")]_recordVars
  BY EditStep
<1>. QED BY <1>1, <1>2, <1>3, RecordStart, RecordStep, PTL
     DEF RecordSpec, EditsStand, ManualStands, ContactNeverGoesBack, MarksSurvive

-----------------------------------------------------------------------------
(* Retention                                                               *)

\* A worker in a transaction.
TxStates == [at : TxSteps, now : Times, org : Orgs, batches : 0..MaxBatches,
             lines : SUBSET Lines, mails : SUBSET Mails]

LEMMA Numbers ==
    /\ BatchSize \in Nat \ {0} /\ MaxBatches \in Nat \ {0} /\ RecoveryBatch \in Nat \ {0}
    /\ NumOrgs \in Nat \ {0} /\ Retained \in Nat \ {0} /\ StuckAfter \in Nat \ {0}
    /\ MaxLines \in Nat /\ MaxMails \in Nat /\ MaxTime \in Nat /\ MaxFaults \in Nat
<1>1. {BatchSize, MaxBatches, RecoveryBatch} \subseteq Nat \ {0}
  BY ConfigAssumption DEF Configured
<1>2. {Retained, StuckAfter} \subseteq Nat \ {0}
  BY ConfigAssumption DEF Configured
<1>3. {MaxLines, MaxMails, MaxTime, MaxFaults} \subseteq Nat
  BY BoundsAssumption
<1>4. NumOrgs \in Nat \ {0}
  BY OrgsAssumption
<1>. QED BY <1>1, <1>2, <1>3, <1>4

LEMMA MailFacts ==
    /\ Queued \in MailRows /\ Settled \in MailRows /\ \A t \in Times : Sending(t) \in MailRows
    /\ Queued.st = "queued" /\ Settled.st = "settled"
    /\ \A r \in MailRows : r.st = "sending" => r.at \in Times
<1>1. Queued \in MailRows /\ Settled \in MailRows /\ \A t \in Times : Sending(t) \in MailRows
  BY DEF MailRows
<1>2. Queued.st = "queued" /\ Settled.st = "settled"
  BY DEF Queued, Settled
<1>3. \A t : Sending(t).st = "sending" /\ Sending(t).at = t
  BY DEF Sending
<1>4. ASSUME NEW r \in MailRows, r.st = "sending" PROVE r.at \in Times
  <2>1. PICK t \in Times : r = Sending(t)
    BY <1>2, <1>4 DEF MailRows
  <2>. QED BY <1>3, <2>1
<1>. QED BY <1>1, <1>2, <1>4

LEMMA States ==
    /\ WorkerStates = {Idle} \cup TxStates
    /\ Idle.at \notin TxSteps
    /\ \A x \in WorkerStates : x.at \in TxSteps => x \in TxStates
    /\ \A x \in TxStates : x.at \in TxSteps /\ x # Idle
    /\ \A t \in Times, o \in Orgs : InOrg(t, o) \in TxStates
<1>1. WorkerStates = {Idle} \cup TxStates
  BY DEF WorkerStates, TxStates
<1>2. Idle.at \notin TxSteps
  BY DEF Idle, TxSteps
<1>3. \A x \in TxStates : x.at \in TxSteps
  BY DEF TxStates
<1>4. \A t \in Times, o \in Orgs : InOrg(t, o) \in TxStates
  BY Numbers DEF InOrg, TxStates, TxSteps
<1>. QED BY <1>1, <1>2, <1>3, <1>4

LEMMA TxWorker ==
    ASSUME TypeOK, NEW w \in Workers, InTx(w)
    PROVE  /\ worker[w] \in TxStates /\ worker[w].at \in TxSteps
           /\ worker[w].now \in Times /\ worker[w].org \in Orgs
           /\ worker[w].batches \in 0..MaxBatches
           /\ worker[w].lines \subseteq Lines /\ worker[w].mails \subseteq Mails
<1>1. worker[w] \in TxStates
  BY States DEF TypeOK, InTx
<1>. QED BY <1>1 DEF TxStates

LEMMA NextState ==
    ASSUME TypeOK, NEW w \in Workers, InTx(w)
    PROVE  /\ NextOrg(w) \in WorkerStates
           /\ \/ NextOrg(w) = Idle
              \/ NextOrg(w) = InOrg(worker[w].now, worker[w].org + 1)
<1>1. worker[w].org \in Orgs /\ worker[w].now \in Times
  BY TxWorker
<1>2. worker[w].org # NumOrgs => worker[w].org + 1 \in Orgs
  BY <1>1, Numbers DEF Orgs
<1>. QED BY <1>1, <1>2, States DEF NextOrg

\* What the statement of a batch chooses, and of whom.
LEMMA Chosen ==
    ASSUME NEW S, NEW key, NEW n, NEW T \in First(S, key, n) PROVE T \subseteq S
BY DEF First

LEMMA LinesDue ==
    ASSUME TypeOK, NEW o \in Orgs, NEW now \in Times
    PROVE  /\ Due(o, now) \subseteq Lines
           /\ \A k \in Due(o, now) : /\ k \in 1..said[o] /\ k \notin gone[o]
                                     /\ born[o][k] + Retained < now
BY Numbers DEF TypeOK, Due, Lines

\* The state of w after its batch.
Batched(w, D, n) ==
    [worker[w] EXCEPT !.at = IF LoopIsOver(D, n) THEN "recovering" ELSE "deleting",
                      !.batches = n, !.lines = @ \cup D]

\* A batch that was taken is one the limit still allowed.
LEMMA BatchTyped ==
    ASSUME TypeOK, NEW w \in Workers, worker[w].at = "deleting",
           worker[w].batches < MaxBatches,
           NEW D \in SUBSET Lines, NEW n, n = worker[w].batches + (IF D = {} THEN 0 ELSE 1)
    PROVE  /\ Batched(w, D, n) \in TxStates
           /\ Batched(w, D, n).at = "deleting" => n < MaxBatches
           /\ Batched(w, D, n).now = worker[w].now /\ Batched(w, D, n).org = worker[w].org
           /\ Batched(w, D, n).lines = worker[w].lines \cup D
           /\ Batched(w, D, n).mails = worker[w].mails
           /\ Batched(w, D, n).batches = n
<1>1. worker[w] \in TxStates /\ worker[w].batches \in 0..MaxBatches
  BY TxWorker DEF InTx, TxSteps
<1>2. n \in 0..MaxBatches
  BY <1>1, Numbers
<1>3. worker[w].lines \cup D \subseteq Lines
  BY <1>1 DEF TxStates
<1>4. Batched(w, D, n) \in TxStates
  BY <1>1, <1>2, <1>3 DEF TxStates, TxSteps, Batched
<1>5. Batched(w, D, n).at = "deleting" => n < MaxBatches
  BY <1>1, <1>2, Numbers DEF TxStates, Batched, LoopIsOver
<1>. QED BY <1>1, <1>4, <1>5 DEF TxStates, Batched

\* A transaction that is still deleting has batches left.
BatchesLeft == \A w \in Workers : worker[w].at = "deleting" => worker[w].batches < MaxBatches

LEMMA OneWorker ==
    ASSUME TypeOK, NEW w \in Workers, NEW x, WorkerGoes(w, x)
    PROVE  /\ worker'[w] = x /\ \A v \in Workers \ {w} : worker'[v] = worker[v]
           /\ x \in WorkerStates => worker' \in [Workers -> WorkerStates]
BY DEF TypeOK, WorkerGoes

\* The steps of a tick, as what becomes of the worker.
LEMMA WorkerSteps ==
    ASSUME TypeOK, BatchesLeft, NEW w \in Workers,
           Sweep(w) \/ OrgFails(w) \/ WorkerDies(w)
    PROVE  /\ worker' \in [Workers -> WorkerStates]
           /\ \A v \in Workers \ {w} : worker'[v] = worker[v]
           /\ worker'[w].at = "deleting" => worker'[w].batches < MaxBatches
<1>0. Idle \in WorkerStates /\ Idle.at # "deleting"
  BY States DEF Idle
<1>1. ASSUME NEW t \in Times, NEW o \in Orgs
      PROVE  InOrg(t, o) \in WorkerStates /\ InOrg(t, o).batches < MaxBatches
  BY <1>1, States, Numbers DEF InOrg
<1>n. ASSUME InTx(w)
      PROVE  NextOrg(w) \in WorkerStates
             /\ (NextOrg(w).at = "deleting" => NextOrg(w).batches < MaxBatches)
  <2>1. NextOrg(w) \in WorkerStates
    BY <1>n, NextState
  <2>2. \/ NextOrg(w) = Idle
        \/ NextOrg(w) = InOrg(worker[w].now, worker[w].org + 1)
    BY <1>n, NextState
  <2>. QED BY <2>1, <2>2, <1>0, Numbers DEF InOrg
<1>2. CASE StartTick(w)
  <2>1. clock \in Times /\ 1 \in Orgs
    BY Numbers DEF TypeOK, Orgs
  <2>2. WorkerGoes(w, InOrg(clock, 1))
    BY <1>2 DEF StartTick
  <2>. QED BY <1>1, <2>1, <2>2, OneWorker
<1>3. CASE DeleteBatch(w)
  <2>1. InTx(w) /\ worker[w].at = "deleting"
    BY <1>3 DEF DeleteBatch, InTx, TxSteps
  <2>2. PICK D \in First(Doomed(w), born[worker[w].org], BatchSize) :
          WorkerGoes(w, Batched(w, D, worker[w].batches + (IF D = {} THEN 0 ELSE 1)))
    BY <1>3 DEF DeleteBatch, Batched
  <2>3. D \subseteq Lines
    BY <2>1, Chosen, LinesDue, TxWorker DEF Doomed
  <2>. DEFINE x == Batched(w, D, worker[w].batches + (IF D = {} THEN 0 ELSE 1))
  <2>4. /\ x \in TxStates
        /\ x.at = "deleting" => x.batches < MaxBatches
    BY <2>1, <2>3, BatchTyped DEF BatchesLeft
  <2>5. x \in WorkerStates
    BY <2>4, States
  <2>. QED BY <2>2, <2>4, <2>5, OneWorker
<1>4. CASE RecoverMails(w)
  <2>1. InTx(w) /\ worker[w].at = "recovering"
    BY <1>4 DEF RecoverMails, InTx, TxSteps
  <2>2. PICK M, key :
          /\ M \in First(Stuck(worker[w].org, worker[w].now) \ MailsLocked(worker[w].org),
                         key, RecoveryBatch)
          /\ WorkerGoes(w, [worker[w] EXCEPT !.at = "auditing", !.mails = M])
    BY <1>4 DEF RecoverMails
  <2>3. M \subseteq Mails
    BY <2>2, Chosen DEF Stuck
  <2>. DEFINE x == [worker[w] EXCEPT !.at = "auditing", !.mails = M]
  <2>4. x \in TxStates /\ x.at = "auditing"
    BY <2>1, <2>3, TxWorker DEF TxStates, TxSteps
  <2>5. x \in WorkerStates
    BY <2>4, States
  <2>. QED BY <2>2, <2>4, <2>5, OneWorker
<1>5. CASE CommitOrg(w)
  <2>1. InTx(w) /\ WorkerGoes(w, NextOrg(w))
    BY <1>5 DEF CommitOrg, InTx, TxSteps
  <2>. QED BY <1>n, <2>1, OneWorker
<1>6. CASE OrgFails(w)
  <2>1. InTx(w) /\ WorkerGoes(w, NextOrg(w))
    BY <1>6 DEF OrgFails, AfterFailure
  <2>. QED BY <1>n, <2>1, OneWorker
<1>7. CASE WorkerDies(w)
  BY <1>0, <1>7, OneWorker DEF WorkerDies
<1>. QED BY <1>2, <1>3, <1>4, <1>5, <1>6, <1>7 DEF Sweep

LEMMA TypeStep == ASSUME TypeOK, BatchesLeft, [Next]_vars PROVE TypeOK' /\ BatchesLeft'
<1>1. CASE Tick
  BY <1>1, Numbers DEF Tick, TypeOK, BatchesLeft, data, Times
<1>2. ASSUME NEW o \in Orgs, Speak(o) PROVE TypeOK' /\ BatchesLeft'
  <2>1. /\ said' \in [Orgs -> 0..MaxLines]
        /\ said[o] + 1 \in Lines
    BY <1>2, Numbers DEF Speak, TypeOK, Lines
  <2>2. born' \in [Orgs -> [Lines -> Times]]
    BY <1>2, <2>1 DEF Speak, TypeOK
  <2>. QED BY <1>2, <2>1, <2>2 DEF Speak, TypeOK, BatchesLeft
<1>3. ASSUME NEW o \in Orgs, NEW m \in Mails, Lease(o, m) \/ Settle(o, m)
      PROVE  TypeOK' /\ BatchesLeft'
  <2>1. Sending(clock) \in MailRows /\ Settled \in MailRows
    BY MailFacts DEF TypeOK
  <2>t. mail \in [Orgs -> [Mails -> MailRows]]
    BY DEF TypeOK
  <2>2. mail' \in [Orgs -> [Mails -> MailRows]]
    <3>1. CASE Lease(o, m)
      BY <3>1, <2>1, <2>t DEF Lease
    <3>2. CASE Settle(o, m)
      BY <3>2, <2>1, <2>t DEF Settle
    <3>. QED BY <1>3, <3>1, <3>2
  <2>3. UNCHANGED <<clock, said, born, gone, worker, audited, recovered, poisoned, faults>>
    BY <1>3 DEF Lease, Settle
  <2>. QED BY <2>2, <2>3 DEF TypeOK, BatchesLeft
<1>4. ASSUME NEW w \in Workers, Sweep(w) \/ OrgFails(w) \/ WorkerDies(w)
      PROVE  TypeOK' /\ BatchesLeft'
  <2>1. worker' \in [Workers -> WorkerStates] /\ BatchesLeft'
    BY <1>4, WorkerSteps DEF BatchesLeft
  <2>2. CASE CommitOrg(w)
    <3>1. InTx(w)
      BY <2>2 DEF CommitOrg, InTx, TxSteps
    <3>2. /\ worker[w].lines \subseteq Lines /\ worker[w].mails \subseteq Mails
          /\ worker[w].org \in Orgs
      BY <3>1, TxWorker
    <3>3. IsFiniteSet(Lines) /\ IsFiniteSet(Mails)
      BY Numbers, FS_Interval DEF Lines, Mails
    <3>4. Cardinality(worker[w].lines) \in Nat /\ Cardinality(worker[w].mails) \in Nat
      BY <3>2, <3>3, FS_Subset, FS_CardinalityType
    <3>5. gone' \in [Orgs -> SUBSET Lines]
      BY <2>2, <3>2 DEF CommitOrg, TypeOK
    <3>6. mail' \in [Orgs -> [Mails -> MailRows]]
      BY <2>2, <3>2, MailFacts DEF CommitOrg, TypeOK
    <3>7. audited' \in [Orgs -> [deleted : Nat, recovered : Nat]]
      BY <2>2, <3>2, <3>4 DEF CommitOrg, TypeOK
    <3>8. recovered' \in [Orgs -> Nat]
      BY <2>2, <3>2, <3>4 DEF CommitOrg, TypeOK
    <3>9. UNCHANGED <<clock, said, born, poisoned, faults>>
      BY <2>2 DEF CommitOrg
    <3>. QED BY <2>1, <3>5, <3>6, <3>7, <3>8, <3>9 DEF TypeOK
  <2>3. CASE ~CommitOrg(w)
    <3>1. /\ UNCHANGED <<clock, data, poisoned>>
          /\ faults' = faults \/ (faults < MaxFaults /\ faults' = faults + 1)
      <4>1. CASE StartTick(w) \/ DeleteBatch(w) \/ RecoverMails(w)
        BY <4>1 DEF StartTick, DeleteBatch, RecoverMails, OnlyWorkers
      <4>2. CASE OrgFails(w)
        BY <4>2 DEF OrgFails
      <4>3. CASE WorkerDies(w)
        BY <4>3 DEF WorkerDies
      <4>. QED BY <1>4, <2>3, <4>1, <4>2, <4>3 DEF Sweep
    <3>2. faults' \in 0..MaxFaults
      BY <3>1, Numbers DEF TypeOK
    <3>. QED BY <2>1, <3>1, <3>2 DEF TypeOK, data
  <2>. QED BY <2>1, <2>2, <2>3
<1>5. CASE UNCHANGED vars
  BY <1>5 DEF vars, data, TypeOK, BatchesLeft
<1>. QED BY <1>1, <1>2, <1>3, <1>4, <1>5 DEF Next

\* The columns and the workers' memory keep their types, and no transaction
\* runs more batches than the configuration allows.
THEOREM Typing == Spec => [](TypeOK /\ BatchesLeft)
<1>1. Init => TypeOK /\ BatchesLeft
  BY Numbers, OrgsAssumption, States, MailFacts DEF Init, TypeOK, BatchesLeft, Times, Orgs, Idle, data
<1>. QED BY <1>1, TypeStep, PTL DEF Spec

----------------------------------------------------------------------------
(* What a transaction has chosen was due by its own clock, still is what   *)
(* it chose, and belongs to no other transaction: the row locks.           *)

LinesDueStill(x) ==
    \A k \in x.lines : /\ k \in 1..said[x.org] /\ k \notin gone[x.org]
                       /\ born[x.org][k] + Retained < x.now
MailsStuckStill(x) ==
    \A m \in x.mails : /\ mail[x.org][m].st = "sending"
                       /\ mail[x.org][m].at + StuckAfter < x.now
Good(x) == x.at \in TxSteps => x.now <= clock /\ LinesDueStill(x) /\ MailsStuckStill(x)

Apart(x, y) ==
    x.at \in TxSteps /\ y.at \in TxSteps /\ x.org = y.org
        => x.lines \cap y.lines = {} /\ x.mails \cap y.mails = {}

Chosenness ==
    /\ \A w \in Workers : Good(worker[w])
    /\ \A v, w \in Workers : v # w => Apart(worker[v], worker[w])
RowsHeld == TypeOK /\ BatchesLeft /\ Chosenness

LEMMA Locked ==
    ASSUME NEW v \in Workers, InTx(v)
    PROVE  /\ worker[v].lines \subseteq LinesLocked(worker[v].org)
           /\ worker[v].mails \subseteq MailsLocked(worker[v].org)
BY DEF LinesLocked, MailsLocked

LEMMA ApartSymmetric == ASSUME NEW x, NEW y, Apart(x, y) PROVE Apart(y, x)
BY DEF Apart

\* A state that holds no row is good, and apart from every other.
LEMMA FreshStates ==
    ASSUME TypeOK
    PROVE  /\ Good(Idle) /\ \A y : Apart(Idle, y)
           /\ \A t \in Times, o \in Orgs : t <= clock => Good(InOrg(t, o))
           /\ \A t \in Times, o \in Orgs : \A y : Apart(InOrg(t, o), y)
<1>1. Good(Idle) /\ \A y : Apart(Idle, y)
  BY States DEF Good, Apart
<1>2. ASSUME NEW t \in Times, NEW o \in Orgs
      PROVE  InOrg(t, o).now = t /\ InOrg(t, o).lines = {} /\ InOrg(t, o).mails = {}
  BY DEF InOrg
<1>3. ASSUME NEW t \in Times, NEW o \in Orgs, t <= clock PROVE Good(InOrg(t, o))
  BY <1>2, <1>3 DEF Good, LinesDueStill, MailsStuckStill
<1>4. ASSUME NEW t \in Times, NEW o \in Orgs, NEW y PROVE Apart(InOrg(t, o), y)
  BY <1>2 DEF Apart
<1>. QED BY <1>1, <1>3, <1>4

LEMMA NextIsFresh ==
    ASSUME RowsHeld, NEW w \in Workers, InTx(w)
    PROVE  Good(NextOrg(w)) /\ \A y : Apart(NextOrg(w), y)
<1>1. worker[w].now \in Times /\ worker[w].org \in Orgs /\ worker[w].now <= clock
  BY TxWorker DEF RowsHeld, Chosenness, Good, InTx
<1>2. CASE worker[w].org = NumOrgs
  BY <1>2, FreshStates DEF NextOrg, RowsHeld
<1>3. CASE worker[w].org # NumOrgs
  <2>1. worker[w].org + 1 \in Orgs
    BY <1>1, <1>3, Numbers DEF Orgs
  <2>2. NextOrg(w) = InOrg(worker[w].now, worker[w].org + 1)
    BY <1>3 DEF NextOrg
  <2>. QED BY <1>1, <2>1, <2>2, FreshStates DEF RowsHeld
<1>. QED BY <1>2, <1>3

\* A step that only moves one worker keeps everyone's rows.
LEMMA OneMoves ==
    ASSUME RowsHeld, NEW w \in Workers, NEW x, WorkerGoes(w, x),
           UNCHANGED <<clock, data>>, Good(x),
           \A v \in Workers \ {w} : Apart(x, worker[v])
    PROVE  Chosenness'
<1>1. worker'[w] = x /\ \A v \in Workers \ {w} : worker'[v] = worker[v]
  BY OneWorker DEF RowsHeld
<1>3. ASSUME NEW v \in Workers PROVE Good(worker[v])'
  <2>1. Good(worker'[v])
    BY <1>1 DEF RowsHeld, Chosenness
  <2>. QED BY <2>1 DEF Good, LinesDueStill, MailsStuckStill, data
<1>4. ASSUME NEW u \in Workers, NEW v \in Workers, u # v PROVE Apart(worker[u], worker[v])'
  <2>1. Apart(worker'[u], worker'[v])
    BY <1>1, <1>4, ApartSymmetric DEF RowsHeld, Chosenness
  <2>. QED BY <2>1 DEF Apart
<1>. QED BY <1>3, <1>4 DEF Chosenness

LEMMA BatchHeld ==
    ASSUME RowsHeld, NEW w \in Workers, DeleteBatch(w)
    PROVE  Chosenness'
<1>1. InTx(w) /\ worker[w].at = "deleting"
  BY DEF DeleteBatch, InTx, TxSteps
<1>2. PICK D \in First(Doomed(w), born[worker[w].org], BatchSize) :
        WorkerGoes(w, Batched(w, D, worker[w].batches + (IF D = {} THEN 0 ELSE 1)))
  BY DEF DeleteBatch, Batched
<1>. DEFINE x == Batched(w, D, worker[w].batches + (IF D = {} THEN 0 ELSE 1))
<1>3. D \subseteq Due(worker[w].org, worker[w].now) /\ D \cap LinesLocked(worker[w].org) = {}
  BY Chosen DEF Doomed
<1>4. worker[w].now \in Times /\ worker[w].org \in Orgs
  BY <1>1, TxWorker DEF RowsHeld
<1>5. \A k \in D : /\ k \in Lines /\ k \in 1..said[worker[w].org] /\ k \notin gone[worker[w].org]
                   /\ born[worker[w].org][k] + Retained < worker[w].now
  BY <1>3, <1>4, LinesDue DEF RowsHeld
<1>6. /\ x.now = worker[w].now /\ x.org = worker[w].org
      /\ x.lines = worker[w].lines \cup D /\ x.mails = worker[w].mails
  <2>1. D \subseteq Lines
    BY <1>5
  <2>. QED BY <1>1, <2>1, BatchTyped DEF RowsHeld, BatchesLeft
<1>7. Good(x)
  <2>1. Good(worker[w])
    BY DEF RowsHeld, Chosenness
  <2>2. worker[w].now <= clock /\ LinesDueStill(worker[w]) /\ MailsStuckStill(worker[w])
    BY <1>1, <2>1 DEF Good, InTx
  <2>3. LinesDueStill(x)
    BY <1>5, <1>6, <2>2 DEF LinesDueStill
  <2>4. MailsStuckStill(x)
    BY <1>6, <2>2 DEF MailsStuckStill
  <2>. HIDE DEF x
  <2>. QED BY <1>6, <2>2, <2>3, <2>4 DEF Good
<1>8. ASSUME NEW v \in Workers \ {w} PROVE Apart(x, worker[v])
  <2>. HIDE DEF x
  <2>1. Apart(worker[w], worker[v])
    BY DEF RowsHeld, Chosenness
  <2>2. CASE InTx(v) /\ worker[v].org = worker[w].org
    <3>1. D \cap worker[v].lines = {}
      BY <1>3, <2>2, Locked
    <3>2. worker[w].lines \cap worker[v].lines = {} /\ worker[w].mails \cap worker[v].mails = {}
      BY <1>1, <2>1, <2>2 DEF Apart, InTx
    <3>. QED BY <1>6, <3>1, <3>2 DEF Apart
  <2>3. CASE ~(InTx(v) /\ worker[v].org = worker[w].org)
    BY <1>6, <2>3 DEF Apart, InTx
  <2>. QED BY <2>2, <2>3
<1>9. UNCHANGED <<clock, data>>
  BY DEF DeleteBatch, OnlyWorkers
<1>. HIDE DEF x
<1>. QED BY <1>2, <1>7, <1>8, <1>9, OneMoves DEF x

LEMMA RecoveryHeld ==
    ASSUME RowsHeld, NEW w \in Workers, RecoverMails(w)
    PROVE  Chosenness'
<1>1. InTx(w) /\ worker[w].at = "recovering"
  BY DEF RecoverMails, InTx, TxSteps
<1>2. PICK M, key :
        /\ M \in First(Stuck(worker[w].org, worker[w].now) \ MailsLocked(worker[w].org),
                       key, RecoveryBatch)
        /\ WorkerGoes(w, [worker[w] EXCEPT !.at = "auditing", !.mails = M])
  BY DEF RecoverMails
<1>. DEFINE x == [worker[w] EXCEPT !.at = "auditing", !.mails = M]
<1>3. /\ M \cap MailsLocked(worker[w].org) = {}
      /\ \A m \in M : /\ mail[worker[w].org][m].st = "sending"
                      /\ mail[worker[w].org][m].at + StuckAfter < worker[w].now
  BY <1>2, Chosen DEF Stuck
<1>4. /\ x.now = worker[w].now /\ x.org = worker[w].org
      /\ x.lines = worker[w].lines /\ x.mails = M
  BY <1>1, TxWorker DEF TxStates, RowsHeld
<1>5. Good(x)
  <2>1. Good(worker[w])
    BY DEF RowsHeld, Chosenness
  <2>2. worker[w].now <= clock /\ LinesDueStill(worker[w])
    BY <1>1, <2>1 DEF Good, InTx
  <2>3. LinesDueStill(x)
    BY <1>4, <2>2 DEF LinesDueStill
  <2>4. MailsStuckStill(x)
    BY <1>3, <1>4 DEF MailsStuckStill
  <2>. HIDE DEF x
  <2>. QED BY <1>4, <2>2, <2>3, <2>4 DEF Good
<1>6. ASSUME NEW v \in Workers \ {w} PROVE Apart(x, worker[v])
  <2>. HIDE DEF x
  <2>1. Apart(worker[w], worker[v])
    BY DEF RowsHeld, Chosenness
  <2>2. CASE InTx(v) /\ worker[v].org = worker[w].org
    <3>1. M \cap worker[v].mails = {}
      BY <1>3, <2>2, Locked
    <3>2. worker[w].lines \cap worker[v].lines = {}
      BY <1>1, <2>1, <2>2 DEF Apart, InTx
    <3>. QED BY <1>4, <3>1, <3>2 DEF Apart
  <2>3. CASE ~(InTx(v) /\ worker[v].org = worker[w].org)
    BY <1>4, <2>3 DEF Apart, InTx
  <2>. QED BY <2>2, <2>3
<1>7. UNCHANGED <<clock, data>>
  BY DEF RecoverMails, OnlyWorkers
<1>. HIDE DEF x
<1>. QED BY <1>2, <1>5, <1>6, <1>7, OneMoves DEF x

\* What CommitOrg does to the rows of its organization.
LEMMA Committed ==
    ASSUME RowsHeld, NEW w \in Workers, CommitOrg(w)
    PROVE  /\ InTx(w) /\ WorkerGoes(w, NextOrg(w)) /\ UNCHANGED <<clock, said, born>>
           /\ \A o \in Orgs : gone'[o] = IF o = worker[w].org THEN gone[o] \cup worker[w].lines
                                         ELSE gone[o]
           /\ \A o \in Orgs, m \in Mails :
                 mail'[o][m] = IF o = worker[w].org /\ m \in worker[w].mails THEN Queued
                               ELSE mail[o][m]
<1>1. InTx(w)
  BY DEF CommitOrg, InTx, TxSteps
<1>. QED BY <1>1 DEF CommitOrg, RowsHeld, TypeOK

LEMMA CommitHeld ==
    ASSUME RowsHeld, NEW w \in Workers, CommitOrg(w)
    PROVE  Chosenness'
<1>1. /\ worker'[w] = NextOrg(w) /\ \A v \in Workers \ {w} : worker'[v] = worker[v]
  BY Committed, OneWorker DEF RowsHeld
<1>2. NextOrg(w) = Idle \/ (\E t, o : NextOrg(w) = InOrg(t, o))
  BY DEF NextOrg
<1>3. Good(worker[w])'
  <2>1. Good(NextOrg(w))
    BY Committed, NextIsFresh
  <2>2. NextOrg(w).at \in TxSteps =>
           /\ NextOrg(w).now <= clock
           /\ NextOrg(w).lines = {} /\ NextOrg(w).mails = {}
    BY <1>2, <2>1, States DEF Good, InOrg
  <2>. QED BY <1>1, <2>2, Committed DEF Good, LinesDueStill, MailsStuckStill
<1>4. ASSUME NEW v \in Workers \ {w}, InTx(v) PROVE Good(worker[v])'
  <2>1. /\ worker[v].now <= clock /\ LinesDueStill(worker[v]) /\ MailsStuckStill(worker[v])
        /\ worker[v].org \in Orgs /\ worker[v].mails \subseteq Mails
    BY <1>4, TxWorker DEF RowsHeld, Chosenness, Good, InTx
  <2>2. Apart(worker[w], worker[v])
    BY DEF RowsHeld, Chosenness
  <2>3. worker[v].org = worker[w].org =>
           worker[v].lines \cap worker[w].lines = {} /\ worker[v].mails \cap worker[w].mails = {}
    BY <1>4, <2>2, Committed DEF Apart, InTx
  <2>4. \A k \in worker[v].lines : k \notin gone'[worker[v].org]
    BY <2>1, <2>3, Committed DEF LinesDueStill
  <2>5. \A m \in worker[v].mails : mail'[worker[v].org][m] = mail[worker[v].org][m]
    BY <2>1, <2>3, Committed
  <2>6. LinesDueStill(worker[v])'
    BY <1>1, <2>1, <2>4, Committed DEF LinesDueStill
  <2>7. MailsStuckStill(worker[v])'
    BY <1>1, <2>1, <2>5 DEF MailsStuckStill
  <2>. QED BY <1>1, <2>1, <2>6, <2>7, Committed DEF Good
<1>5. ASSUME NEW v \in Workers \ {w}, ~InTx(v) PROVE Good(worker[v])'
  BY <1>1, <1>5 DEF Good, InTx
<1>6. ASSUME NEW u \in Workers, NEW v \in Workers, u # v PROVE Apart(worker[u], worker[v])'
  <2>1. Apart(worker'[u], worker'[v])
    BY <1>1, <1>6, ApartSymmetric, Committed, NextIsFresh DEF RowsHeld, Chosenness
  <2>. QED BY <2>1 DEF Apart
<1>. QED BY <1>3, <1>4, <1>5, <1>6 DEF Chosenness

\* A step that moves no worker and leaves the rows of the transactions alone.
LEMMA OthersMove ==
    ASSUME RowsHeld, UNCHANGED worker,
           \A v \in Workers : InTx(v) => Good(worker[v])'
    PROVE  Chosenness'
<1>1. ASSUME NEW v \in Workers PROVE Good(worker[v])'
  BY DEF Good, InTx
<1>2. ASSUME NEW u \in Workers, NEW v \in Workers, u # v PROVE Apart(worker[u], worker[v])'
  BY <1>2 DEF RowsHeld, Chosenness, Apart
<1>. QED BY <1>1, <1>2 DEF Chosenness

LEMMA RowsStep == ASSUME RowsHeld, [Next]_vars PROVE RowsHeld'
<1>0. TypeOK' /\ BatchesLeft'
  BY TypeStep DEF RowsHeld
<1>h. ASSUME NEW v \in Workers, InTx(v)
      PROVE  /\ worker[v].now <= clock /\ LinesDueStill(worker[v]) /\ MailsStuckStill(worker[v])
             /\ worker[v].now \in Times /\ worker[v].org \in Orgs
             /\ worker[v].lines \subseteq Lines /\ worker[v].mails \subseteq Mails
  BY <1>h, TxWorker DEF RowsHeld, Chosenness, Good, InTx
<1>1. CASE Tick
  <2>1. UNCHANGED <<data, worker>> /\ clock' = clock + 1 /\ clock \in Nat
    BY <1>1, Numbers DEF Tick, RowsHeld, TypeOK, Times
  <2>2. ASSUME NEW v \in Workers, InTx(v) PROVE Good(worker[v])'
    <3>1. worker[v].now <= clock'
      BY <1>h, <2>1, <2>2, Numbers DEF Times
    <3>. QED BY <1>h, <2>1, <2>2, <3>1 DEF Good, LinesDueStill, MailsStuckStill, data
  <2>. QED BY <1>0, <2>1, <2>2, OthersMove DEF RowsHeld
<1>2. ASSUME NEW o \in Orgs, Speak(o) PROVE RowsHeld'
  <2>1. /\ UNCHANGED <<clock, gone, mail, worker>> /\ said[o] \in Nat /\ said[o] < MaxLines
        /\ \A q \in Orgs : said[q] \in Nat /\ said'[q] \in Nat /\ said[q] <= said'[q]
        /\ \A q \in Orgs, k \in Lines : k \in 1..said[q] => born'[q][k] = born[q][k]
    BY <1>2, Numbers DEF Speak, RowsHeld, TypeOK, Lines
  <2>2. ASSUME NEW v \in Workers, InTx(v) PROVE Good(worker[v])'
    <3>1. LinesDueStill(worker[v])'
      BY <1>h, <2>1, <2>2 DEF LinesDueStill, Lines
    <3>2. MailsStuckStill(worker[v])'
      BY <1>h, <2>1, <2>2 DEF MailsStuckStill
    <3>. QED BY <1>h, <2>1, <2>2, <3>1, <3>2 DEF Good
  <2>. QED BY <1>0, <2>1, <2>2, OthersMove DEF RowsHeld
<1>3. ASSUME NEW o \in Orgs, NEW m \in Mails, Lease(o, m) \/ Settle(o, m) PROVE RowsHeld'
  <2>1. UNCHANGED <<clock, said, born, gone, worker>> /\ m \notin MailsLocked(o)
    BY <1>3 DEF Lease, Settle
  <2>2. \A q \in Orgs, n \in Mails : q # o \/ n # m => mail'[q][n] = mail[q][n]
    BY <1>3 DEF Lease, Settle, RowsHeld, TypeOK
  <2>3. ASSUME NEW v \in Workers, InTx(v) PROVE Good(worker[v])'
    <3>1. \A n \in worker[v].mails : worker[v].org # o \/ n # m
      BY <2>1, <2>3, Locked
    <3>2. MailsStuckStill(worker[v])'
      BY <1>h, <2>1, <2>2, <2>3, <3>1 DEF MailsStuckStill
    <3>3. LinesDueStill(worker[v])'
      BY <1>h, <2>1, <2>3 DEF LinesDueStill
    <3>. QED BY <1>h, <2>1, <2>3, <3>2, <3>3 DEF Good
  <2>. QED BY <1>0, <2>1, <2>3, OthersMove DEF RowsHeld
<1>4. ASSUME NEW w \in Workers, Sweep(w) \/ OrgFails(w) \/ WorkerDies(w) PROVE RowsHeld'
  <2>1. CASE StartTick(w)
    <3>1. WorkerGoes(w, InOrg(clock, 1)) /\ UNCHANGED <<clock, data>>
      BY <2>1 DEF StartTick, OnlyWorkers
    <3>2. clock \in Times /\ 1 \in Orgs /\ clock <= clock
      BY Numbers DEF RowsHeld, TypeOK, Orgs, Times
    <3>. QED BY <1>0, <3>1, <3>2, FreshStates, OneMoves DEF RowsHeld
  <2>2. CASE OrgFails(w)
    <3>1. InTx(w) /\ WorkerGoes(w, NextOrg(w)) /\ UNCHANGED <<clock, data>>
      BY <2>2 DEF OrgFails, AfterFailure
    <3>. QED BY <1>0, <3>1, NextIsFresh, OneMoves DEF RowsHeld
  <2>3. CASE WorkerDies(w)
    <3>1. WorkerGoes(w, Idle) /\ UNCHANGED <<clock, data>>
      BY <2>3 DEF WorkerDies
    <3>. QED BY <1>0, <3>1, FreshStates, OneMoves DEF RowsHeld
  <2>4. CASE DeleteBatch(w) \/ RecoverMails(w) \/ CommitOrg(w)
    BY <1>0, <2>4, BatchHeld, RecoveryHeld, CommitHeld DEF RowsHeld
  <2>. QED BY <1>4, <2>1, <2>2, <2>3, <2>4 DEF Sweep
<1>5. CASE UNCHANGED vars
  <2>1. UNCHANGED <<clock, data, worker>>
    BY <1>5 DEF vars, data
  <2>2. ASSUME NEW v \in Workers, InTx(v) PROVE Good(worker[v])'
    BY <1>h, <2>1, <2>2 DEF Good, LinesDueStill, MailsStuckStill, data
  <2>. QED BY <1>0, <2>1, <2>2, OthersMove DEF RowsHeld
<1>. QED BY <1>1, <1>2, <1>3, <1>4, <1>5 DEF Next

LEMMA RowsInit == Init => RowsHeld /\ AuditTellsAll
<1>. SUFFICES ASSUME Init PROVE RowsHeld /\ AuditTellsAll
  OBVIOUS
<1>1. TypeOK /\ BatchesLeft
  BY Numbers, OrgsAssumption, States, MailFacts
     DEF Init, TypeOK, BatchesLeft, Times, Orgs, Idle, data
<1>2. \A w \in Workers : worker[w] = Idle
  BY DEF Init
<1>3. Chosenness
  BY <1>1, <1>2, FreshStates DEF Chosenness
<1>4. AuditTellsAll
  BY FS_EmptySet DEF Init, AuditTellsAll
<1>. QED BY <1>1, <1>3, <1>4 DEF RowsHeld

----------------------------------------------------------------------------
(* The rows that are gone, and their account.                              *)

\* Only a commit deletes a line or queues a mail that was being sent.
LEMMA OnlyCommits ==
    ASSUME RowsHeld, [Next]_vars, \A w \in Workers : ~CommitOrg(w)
    PROVE  /\ UNCHANGED <<gone, audited, recovered>>
           /\ \A o \in Orgs, m \in Mails :
                 mail[o][m].st = "sending" /\ mail'[o][m] = Queued => mail[o][m] = Queued
<1>1. CASE Tick \/ UNCHANGED vars
  BY <1>1 DEF Tick, data, vars
<1>2. CASE \E o \in Orgs : Speak(o)
  BY <1>2 DEF Speak
<1>3. CASE \E o \in Orgs, m \in Mails : Lease(o, m) \/ Settle(o, m)
  <2>1. PICK o \in Orgs, m \in Mails : Lease(o, m) \/ Settle(o, m)
    BY <1>3
  <2>2. UNCHANGED <<gone, audited, recovered>>
    BY <2>1 DEF Lease, Settle
  <2>3. Queued # Settled /\ Queued # Sending(clock)
    BY MailFacts DEF Queued, Settled, Sending
  <2>4. \A q \in Orgs, n \in Mails : mail'[q][n] = mail[q][n] \/ mail'[q][n] # Queued
    <3>1. mail \in [Orgs -> [Mails -> MailRows]]
      BY DEF RowsHeld, TypeOK
    <3>2. CASE Lease(o, m)
      BY <2>3, <3>1, <3>2 DEF Lease
    <3>3. CASE Settle(o, m)
      BY <2>3, <3>1, <3>3 DEF Settle
    <3>. QED BY <2>1, <3>2, <3>3
  <2>. QED BY <2>2, <2>4
<1>4. CASE \E w \in Workers : Sweep(w) \/ OrgFails(w) \/ WorkerDies(w)
  <2>1. PICK w \in Workers : Sweep(w) \/ OrgFails(w) \/ WorkerDies(w)
    BY <1>4
  <2>2. UNCHANGED data
    <3>1. CASE StartTick(w) \/ DeleteBatch(w) \/ RecoverMails(w)
      BY <3>1 DEF StartTick, DeleteBatch, RecoverMails, OnlyWorkers
    <3>2. CASE OrgFails(w)
      BY <3>2 DEF OrgFails
    <3>3. CASE WorkerDies(w)
      BY <3>3 DEF WorkerDies
    <3>. QED BY <2>1, <3>1, <3>2, <3>3 DEF Sweep
  <2>. QED BY <2>2 DEF data
<1>. QED BY <1>1, <1>2, <1>3, <1>4 DEF Next

LEMMA AuditStep == ASSUME RowsHeld, AuditTellsAll, [Next]_vars PROVE AuditTellsAll'
<1>1. CASE \A w \in Workers : ~CommitOrg(w)
  BY <1>1, OnlyCommits DEF AuditTellsAll
<1>2. ASSUME NEW w \in Workers, CommitOrg(w) PROVE AuditTellsAll'
  <2>. DEFINE o == worker[w].org
              L == worker[w].lines
  <2>1. InTx(w)
    BY <1>2, Committed
  <2>2. o \in Orgs /\ L \subseteq Lines /\ gone[o] \subseteq Lines
    BY <2>1, TxWorker DEF RowsHeld, TypeOK
  <2>3. gone[o] \cap L = {}
    BY <2>1 DEF RowsHeld, Chosenness, Good, LinesDueStill, InTx
  <2>4. IsFiniteSet(gone[o]) /\ IsFiniteSet(L)
    <3>1. IsFiniteSet(Lines)
      BY Numbers, FS_Interval DEF Lines
    <3>. HIDE DEF o, L
    <3>. QED BY <2>2, <3>1, FS_Subset
  <2>5. Cardinality(gone[o] \cup L) = Cardinality(gone[o]) + Cardinality(L)
    <3>1. /\ Cardinality(gone[o]) \in Nat /\ Cardinality(L) \in Nat
          /\ Cardinality(gone[o] \cap L) = 0
      BY <2>3, <2>4, FS_CardinalityType, FS_EmptySet
    <3>. HIDE DEF o, L
    <3>2. Cardinality(gone[o] \cup L)
            = Cardinality(gone[o]) + Cardinality(L) - Cardinality(gone[o] \cap L)
      BY <2>4, FS_Union
    <3>. QED BY <3>1, <3>2
  <2>6. ASSUME NEW q \in Orgs
        PROVE  audited'[q] = [deleted |-> Cardinality(gone'[q]), recovered |-> recovered'[q]]
    <3>1. audited[q] = [deleted |-> Cardinality(gone[q]), recovered |-> recovered[q]]
      BY DEF AuditTellsAll
    <3>2. CASE q # o
      BY <1>2, <3>1, <3>2, Committed DEF CommitOrg, RowsHeld, TypeOK
    <3>3. CASE q = o
      <4>1. /\ audited'[o] = [deleted |-> audited[o].deleted + Cardinality(L),
                              recovered |-> audited[o].recovered + Cardinality(worker[w].mails)]
            /\ recovered'[o] = recovered[o] + Cardinality(worker[w].mails)
        BY <1>2, <2>2 DEF CommitOrg, RowsHeld, TypeOK
      <4>2. gone'[o] = gone[o] \cup L
        BY <1>2, <2>2, Committed
      <4>. QED BY <2>5, <3>1, <3>3, <4>1, <4>2
    <3>. QED BY <3>2, <3>3
  <2>. QED BY <2>6 DEF AuditTellsAll
<1>. QED BY <1>1, <1>2

\* The activity log tells exactly what the sweeps did, whichever ticks
\* overlapped, failed or died.
THEOREM AuditTold == Spec => []AuditTellsAll
<1>1. Init => RowsHeld /\ AuditTellsAll
  BY RowsInit
<1>2. RowsHeld /\ AuditTellsAll /\ [Next]_vars => (RowsHeld /\ AuditTellsAll)'
  BY RowsStep, AuditStep
<1>. QED BY <1>1, <1>2, PTL DEF Spec

LEMMA TermsStep ==
    ASSUME RowsHeld, [Next]_vars
    PROVE  /\ \A o \in Orgs : \A k \in gone'[o] \ gone[o] :
                 k <= said[o] /\ born[o][k] + Retained < clock
           /\ \A o \in Orgs, m \in Mails :
                 mail[o][m].st = "sending" /\ mail'[o][m] = Queued
                     => mail[o][m].at + StuckAfter < clock
<1>1. CASE \A w \in Workers : ~CommitOrg(w)
  BY <1>1, OnlyCommits, MailFacts
<1>2. ASSUME NEW w \in Workers, CommitOrg(w)
      PROVE  /\ \A o \in Orgs : \A k \in gone'[o] \ gone[o] :
                   k <= said[o] /\ born[o][k] + Retained < clock
             /\ \A o \in Orgs, m \in Mails :
                   mail[o][m].st = "sending" /\ mail'[o][m] = Queued
                       => mail[o][m].at + StuckAfter < clock
  <2>1. /\ worker[w].now <= clock /\ LinesDueStill(worker[w]) /\ MailsStuckStill(worker[w])
        /\ worker[w].now \in Nat /\ clock \in Nat /\ worker[w].org \in Orgs
        /\ worker[w].lines \subseteq Lines
    <3>1. InTx(w)
      BY <1>2, Committed
    <3>2. worker[w].now <= clock /\ LinesDueStill(worker[w]) /\ MailsStuckStill(worker[w])
      BY <3>1 DEF RowsHeld, Chosenness, Good, InTx
    <3>3. /\ worker[w].now \in Times /\ clock \in Times /\ worker[w].org \in Orgs
          /\ worker[w].lines \subseteq Lines
      BY <3>1, TxWorker DEF RowsHeld, TypeOK
    <3>. QED BY <3>2, <3>3, Numbers DEF Times
  <2>2. ASSUME NEW o \in Orgs, NEW k \in gone'[o] \ gone[o]
        PROVE  k <= said[o] /\ born[o][k] + Retained < clock
    <3>1. o = worker[w].org /\ k \in worker[w].lines
      BY <1>2, <2>2, Committed
    <3>2. /\ born[o][k] \in Nat /\ said[o] \in Nat
          /\ k \in 1..said[o] /\ born[o][k] + Retained < worker[w].now
      BY <2>1, <3>1, Numbers DEF LinesDueStill, RowsHeld, TypeOK, Times
    <3>. QED BY <2>1, <3>2, Numbers
  <2>3. ASSUME NEW o \in Orgs, NEW m \in Mails,
               mail[o][m].st = "sending", mail'[o][m] = Queued
        PROVE  mail[o][m].at + StuckAfter < clock
    <3>1. o = worker[w].org /\ m \in worker[w].mails
      BY <1>2, <2>3, Committed, MailFacts
    <3>2. mail[o][m].at + StuckAfter < worker[w].now
      BY <2>1, <3>1 DEF MailsStuckStill
    <3>3. mail[o][m].at \in Nat
      BY <2>3, MailFacts, Numbers DEF RowsHeld, TypeOK, Times
    <3>. QED BY <2>1, <3>2, <3>3, Numbers
  <2>. QED BY <2>2, <2>3
<1>. QED BY <1>1, <1>2

\* A line is deleted and a mail taken from its worker only after its term.
THEOREM TermsKept == Spec => TermsAreKept
<1>1. Init => RowsHeld
  BY RowsInit
<1>2. RowsHeld /\ [Next]_vars => RowsHeld'
  BY RowsStep
<1>3. RowsHeld /\ [Next]_vars =>
        [\A o \in Orgs : \A k \in gone'[o] \ gone[o] :
            k <= said[o] /\ born[o][k] + Retained < clock]_vars
  BY TermsStep
<1>4. RowsHeld /\ [Next]_vars =>
        [\A o \in Orgs, m \in Mails :
            mail[o][m].st = "sending" /\ mail'[o][m] = Queued
                => mail[o][m].at + StuckAfter < clock]_vars
  BY TermsStep
<1>. QED BY <1>1, <1>2, <1>3, <1>4, PTL
     DEF Spec, TermsAreKept, LinesKeepTheirTerm, LeasesKeepTheirTerm
===============================================================================
