---------------------------- MODULE ChatHistory -----------------------------
(***************************************************************************)
(* What the chat handler promises: a request talks on its own copy of the  *)
(* history its session had when the request began, and when it ends well   *)
(* the copy, trimmed, becomes the history.  No request and no session ever *)
(* changes what another one holds.                                         *)
(***************************************************************************)
EXTENDS Naturals, Sequences

CONSTANTS
  Session,
  Request,
  SessionOf,    \* the session each request names
  MaxMessages   \* messages a history keeps, the system prompt included

System  == [role |-> "system"]
Spoken  == {"user", "calls", "tool", "answer"}
Message == {System} \cup [role: Spoken, of: Request]
Said(role, r) == [role |-> role, of |-> r]

VARIABLES
  history,  \* history[s]: the messages session s remembers, <<>> if none
  talk      \* talk[r]: what request r has on its hands, <<>> if r is not under way

vars == <<history, talk>>

\* The system prompt and the last messages.
Trimmed(m) ==
  IF Len(m) <= MaxMessages
  THEN m
  ELSE <<m[1]>> \o SubSeq(m, Len(m) - MaxMessages + 2, Len(m))

Remembered(s) == IF history[s] = <<>> THEN <<System>> ELSE history[s]

Init ==
  /\ history = [s \in Session |-> <<>>]
  /\ talk = [r \in Request |-> <<>>]

Ask(r) ==
  /\ talk[r] = <<>>
  /\ talk' = [talk EXCEPT ![r] = Append(Remembered(SessionOf[r]), Said("user", r))]
  /\ UNCHANGED history

Say(r) ==
  /\ talk[r] # <<>>
  /\ \E role \in Spoken : talk' = [talk EXCEPT ![r] = Append(@, Said(role, r))]
  /\ UNCHANGED history

Keep(r) ==
  /\ talk[r] # <<>>
  /\ history' = [history EXCEPT ![SessionOf[r]] = Trimmed(talk[r])]
  /\ talk' = [talk EXCEPT ![r] = <<>>]

GiveUp(r) ==
  /\ talk' = [talk EXCEPT ![r] = <<>>]
  /\ UNCHANGED history

Clear(s) ==
  /\ history' = [history EXCEPT ![s] = <<>>]
  /\ UNCHANGED talk

\* The agent stops and forgets everything.
Forget ==
  /\ history' = [s \in Session |-> <<>>]
  /\ talk' = [r \in Request |-> <<>>]

Next ==
  \/ \E r \in Request : Ask(r) \/ Say(r) \/ Keep(r) \/ GiveUp(r)
  \/ \E s \in Session : Clear(s)
  \/ Forget

Spec == Init /\ [][Next]_vars
=============================================================================
