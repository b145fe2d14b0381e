---------------------------- MODULE ChatSessions ----------------------------
(***************************************************************************)
(* Chat requests of several sessions in one agent.                         *)
(*                                                                         *)
(* ChatHandler keeps a Go slice of messages per session.  A request takes  *)
(* the slice under the mutex, appends to it without the mutex while it     *)
(* talks to the model and runs the tools the model asks for, and puts its  *)
(* slice back under the mutex.  A slice is a length and an array, and      *)
(* append writes into the array as long as there is room: two slices may   *)
(* share one array.  ChatHistory is the same without arrays.               *)
(***************************************************************************)
EXTENDS Naturals, Sequences

CONSTANTS
  Session,
  Request,        \* every request is made once
  SessionOf,      \* the session each request names
  MaxToolRounds,  \* calls of the model that may ask for tools
  MaxMessages,    \* messages trimHistory keeps, the system prompt included
  MaxTools,       \* bound: tool calls in one reply
  MaxEvents,      \* bound: clears and restarts
  OnePerSession   \* sessions are pages, which send one request at a time

ASSUME ChatAssumption ==
  /\ SessionOf \in [Request -> Session]
  /\ MaxToolRounds \in Nat
  /\ MaxMessages \in Nat \ {0, 1}
  /\ MaxTools \in Nat
  /\ MaxEvents \in Nat
  /\ OnePerSession \in BOOLEAN

VARIABLES
  arrays,    \* arrays[a]: the cells of array a, in order of allocation
  sessions,  \* sessions[s]: the slice kept for session s, or Nil
  messages,  \* messages[r]: the local slice of request r, Nil outside a request
  pc,        \* where request r is
  round,     \* calls of the model r has made with tools
  pending,   \* tool calls of the last reply r has still to run
  sent,      \* what r's call under way told the model, <<>> if there is none
  events

vars == <<arrays, sessions, messages, pc, round, pending, sent, events>>

System  == [role |-> "system"]
Spoken  == {"user", "calls", "tool", "answer"}
Message == {System} \cup [role: Spoken, of: Request]
Said(role, r) == [role |-> role, of |-> r]
Zero    == [role |-> "zero"]          \* a cell nothing was written to
Cell    == Message \cup {Zero}

Nil    == [array |-> 0, len |-> 0]
Slice  == [array: 1..Len(arrays), len: Nat \ {0}]
Active == {r \in Request : pc[r] \in {"call", "wait", "tools", "store"}}

Content(slice) ==
  IF slice = Nil THEN <<>> ELSE SubSeq(arrays[slice.array], 1, slice.len)

TypeOK ==
  /\ arrays \in Seq(Seq(Cell))
  /\ sessions \in [Session -> Slice \cup {Nil}]
  /\ messages \in [Request -> Slice \cup {Nil}]
  /\ pc \in [Request -> {"idle", "call", "wait", "tools", "store", "end"}]
  /\ round \in [Request -> 0..MaxToolRounds]
  /\ pending \in [Request -> 0..MaxTools]
  /\ sent \in [Request -> Seq(Cell)]
  /\ events \in 0..MaxEvents

Event ==
  /\ events < MaxEvents
  /\ events' = events + 1

Init ==
  /\ arrays = <<>>
  /\ sessions = [s \in Session |-> Nil]
  /\ messages = [r \in Request |-> Nil]
  /\ pc = [r \in Request |-> "idle"]
  /\ round = [r \in Request |-> 0]
  /\ pending = [r \in Request |-> 0]
  /\ sent = [r \in Request |-> <<>>]
  /\ events = 0

Room(slice) == slice.len < Len(arrays[slice.array])

\* Mutant: the last message of the slice is written over.
WrittenOver(slice, m) ==
  [arrays EXCEPT ![slice.array] = [@ EXCEPT ![slice.len] = m]]

\* Go's append in place: the cell after the slice is written.
Written(slice, m) ==
  [arrays EXCEPT ![slice.array] = [@ EXCEPT ![slice.len + 1] = m]]

\* Go's append without room: the messages move to a new array, twice as long.
Moved(content, m) ==
  Append(arrays, content \o <<m>> \o [i \in 1..(Len(content) - 1) |-> Zero])

\* messages = append(slice, m), for a slice that is not Nil.
AppendTo(r, slice, m) ==
  IF Room(slice)
  THEN /\ arrays' = Written(slice, m)
       /\ messages' = [messages EXCEPT ![r] = [slice EXCEPT !.len = @ + 1]]
  ELSE /\ arrays' = Moved(Content(slice), m)
       /\ messages' = [messages EXCEPT ![r] =
                         [array |-> Len(arrays) + 1, len |-> slice.len + 1]]

\* A page sends no message while it waits for an answer.
MayAsk(r) ==
  OnePerSession => \A q \in Active : SessionOf[q] # SessionOf[r]

\* Chat up to Unlock: the session's slice, or the system prompt, and the question.
Ask(r) ==
  /\ pc[r] = "idle"
  /\ MayAsk(r)
  /\ LET slice == sessions[SessionOf[r]] IN
       IF slice # Nil
       THEN AppendTo(r, slice, Said("user", r))
       ELSE /\ arrays' = Moved(<<System>>, Said("user", r))
            /\ messages' = [messages EXCEPT ![r] = [array |-> Len(arrays) + 1, len |-> 2]]
  /\ pc' = [pc EXCEPT ![r] = "call"]
  /\ UNCHANGED <<sessions, round, pending, sent, events>>

\* Client.Chat encodes the messages and sends them.
Call(r) ==
  /\ pc[r] = "call"
  /\ sent' = [sent EXCEPT ![r] = Content(messages[r])]
  /\ pc' = [pc EXCEPT ![r] = "wait"]
  /\ UNCHANGED <<arrays, sessions, messages, round, pending, events>>

\* The model asks for tools; it may while tools are offered to it.
ReplyCalls(r) ==
  /\ pc[r] = "wait"
  /\ round[r] < MaxToolRounds
  /\ AppendTo(r, messages[r], Said("calls", r))
  /\ \E n \in 1..MaxTools : pending' = [pending EXCEPT ![r] = n]
  /\ round' = [round EXCEPT ![r] = @ + 1]
  /\ sent' = [sent EXCEPT ![r] = <<>>]
  /\ pc' = [pc EXCEPT ![r] = "tools"]
  /\ UNCHANGED <<sessions, events>>

\* The model answers, in a round or after the last of them.
ReplyAnswer(r) ==
  /\ pc[r] = "wait"
  /\ AppendTo(r, messages[r], Said("answer", r))
  /\ sent' = [sent EXCEPT ![r] = <<>>]
  /\ pc' = [pc EXCEPT ![r] = "store"]
  /\ UNCHANGED <<sessions, round, pending, events>>

\* Mutant: what has been said is kept when the model fails.
FailKeeps(r) ==
  /\ pc[r] = "wait"
  /\ sessions' = [sessions EXCEPT ![SessionOf[r]] = messages[r]]
  /\ messages' = [messages EXCEPT ![r] = Nil]
  /\ pending' = [pending EXCEPT ![r] = 0]
  /\ sent' = [sent EXCEPT ![r] = <<>>]
  /\ pc' = [pc EXCEPT ![r] = "end"]
  /\ UNCHANGED <<arrays, round, events>>

\* The model cannot be reached, times out, or the page is closed: Chat returns.
Fail(r) ==
  /\ pc[r] = "wait"
  /\ messages' = [messages EXCEPT ![r] = Nil]
  /\ pending' = [pending EXCEPT ![r] = 0]
  /\ sent' = [sent EXCEPT ![r] = <<>>]
  /\ pc' = [pc EXCEPT ![r] = "end"]
  /\ UNCHANGED <<arrays, sessions, round, events>>

\* Mutant: a reply's last tool call is taken for done, the model is not called again.
RunToolStops(r) ==
  /\ pc[r] = "tools"
  /\ pending[r] > 1
  /\ AppendTo(r, messages[r], Said("tool", r))
  /\ pending' = [pending EXCEPT ![r] = @ - 1]
  /\ UNCHANGED <<sessions, pc, round, sent, events>>

\* One tool call; an error of the tool is its result.
RunTool(r) ==
  /\ pc[r] = "tools"
  /\ AppendTo(r, messages[r], Said("tool", r))
  /\ pending' = [pending EXCEPT ![r] = @ - 1]
  /\ pc' = [pc EXCEPT ![r] = IF pending[r] = 1 THEN "call" ELSE "tools"]
  /\ UNCHANGED <<sessions, round, sent, events>>

\* Mutant: the last messages, without the system prompt.
LastMessages(m) == SubSeq(m, Len(m) - MaxMessages + 1, Len(m))

\* trimHistory for a list that is too long: system prompt and last messages.
TrimmedList(m) == <<m[1]>> \o SubSeq(m, Len(m) - MaxMessages + 2, Len(m))

\* The answer is there: the trimmed messages replace the session's.
Store(r) ==
  /\ pc[r] = "store"
  /\ IF messages[r].len <= MaxMessages
     THEN /\ sessions' = [sessions EXCEPT ![SessionOf[r]] = messages[r]]
          /\ UNCHANGED arrays
     ELSE /\ arrays' = Append(arrays, TrimmedList(Content(messages[r])))
          /\ sessions' = [sessions EXCEPT ![SessionOf[r]] =
                            [array |-> Len(arrays) + 1, len |-> MaxMessages]]
  /\ messages' = [messages EXCEPT ![r] = Nil]
  /\ pc' = [pc EXCEPT ![r] = "end"]
  /\ UNCHANGED <<round, pending, sent, events>>

\* ClearSession, at any time.
ClearSession(s) ==
  /\ Event
  /\ sessions' = [sessions EXCEPT ![s] = Nil]
  /\ UNCHANGED <<arrays, messages, pc, round, pending, sent>>

\* The agent is started again: sessions are in memory only, requests break off.
Restart ==
  /\ Event
  /\ arrays' = <<>>
  /\ sessions' = [s \in Session |-> Nil]
  /\ messages' = [r \in Request |-> Nil]
  /\ pc' = [r \in Request |-> IF r \in Active THEN "end" ELSE pc[r]]
  /\ pending' = [r \in Request |-> 0]
  /\ sent' = [r \in Request |-> <<>>]
  /\ UNCHANGED round

Go(r) == Call(r) \/ ReplyCalls(r) \/ ReplyAnswer(r) \/ RunTool(r) \/ Store(r)

Next ==
  \/ \E r \in Request : Ask(r) \/ Go(r) \/ Fail(r)
  \/ \E s \in Session : ClearSession(s)
  \/ Restart

Spec == Init /\ [][Next]_vars

\* A request goes on: the call of the model has a timeout, tools are queries.
FairSpec == Spec /\ \A r \in Request : WF_vars(Go(r))

-----------------------------------------------------------------------------
\* What is sent to the model for a request is about this request: its own
\* question, once, then only what it has said since (Chat, on slices that may
\* share their array with the history).
AsksItsOwnQuestion ==
  \A r \in Request : sent[r] # <<>> =>
    \E i \in 1..Len(sent[r]) :
      /\ sent[r][i] = Said("user", r)
      /\ \A j \in 1..(i - 1) : sent[r][j] = System \/ sent[r][j].of # r
      /\ \A j \in (i + 1)..Len(sent[r]) :
           sent[r][j] \in {Said("calls", r), Said("tool", r)}

\* A history is the system prompt and whole exchanges: after the place where
\* it may have been trimmed, each question is followed by its own exchange up
\* to its answer (error returns of Chat keep nothing; Store keeps everything).
Whole(m) ==
  /\ m[1] = System
  /\ m[Len(m)].role = "answer"
  /\ \A i \in 2..(Len(m) - 1) :
       IF m[i].role = "answer" THEN m[i + 1].role = "user"
                               ELSE m[i + 1].role # "user" /\ m[i + 1].of = m[i].of

HistoriesAreWhole ==
  \A s \in Session : sessions[s] # Nil => Whole(Content(sessions[s]))

\* Slices over shared arrays behave like lists of their own (ChatHandler, as
\* long as a session's requests come one after the other).
Lists == INSTANCE ChatHistory WITH
  history <- [s \in Session |-> Content(sessions[s])],
  talk    <- [r \in Request |-> Content(messages[r])]

ImplementsHistory == Lists!Spec

\* Every request comes to an end: the tool rounds of Chat are limited, and the
\* call after the last of them ends it.
RequestsEnd == \A r \in Request : r \in Active ~> r \notin Active
=============================================================================
