---------------------------- MODULE AlertsProofs ----------------------------
(***************************************************************************)
(* Proofs about Alerts, for any callers, keys, senders and cooldown: the   *)
(* mutex keeps two deliveries of one key apart, and what the settings page *)
(* saved is what the process and its successors use.                       *)
(***************************************************************************)
EXTENDS Alerts, TLAPS

\* Between Acquire and Release a caller holds the mutex.
HoldsLock == \A c \in Callers : at[c] \in {"clear", "sending"} => lock = c

\* What the look-up of the cooldown found is still so at the stamp.
StillClear == \A c \in Callers : at[c] = "clear" => age[KeyOf[c]] >= Cooldown

\* The overrides and the rows, outside a save and at each of its points.
Agree == \A s \in Senders : over[s] # "unset" => over[s] = db[s]
SaveInv == ~cut =>
    /\ save.at = "idle" => Agree
    /\ save.at = "rows" => \A s \in Senders \ save.rows : db[s] = Saved[s]
    /\ save.at = "senders" => \A s \in Senders : over[s] = db[s]

IInv == TypeOK /\ HoldsLock /\ StillClear /\ SaveInv

\* A caller's key is a key.
LEMMA KeyType == \A c \in Callers : KeyOf[c] \in Keys
BY DEF Keys

LEMMA ConfiguredType == \A o, f, c : Configured(o, f, c) \subseteq Senders
BY DEF Configured

LEMMA FromDatabaseType ==
  ASSUME NEW rows \in [Senders -> Value], NEW flags
  PROVE  /\ FromDatabase(rows, flags) \in [Senders -> Value]
         /\ \A s \in Senders : FromDatabase(rows, flags)[s] \in {"unset", rows[s]}
BY DEF FromDatabase, Value

LEMMA SavedType == Saved \in [Senders -> Value] /\ \A s \in Senders : Saved[s] # "unset"
BY DEF Saved, Value

LEMMA InitInv == Init => IInv
<1> SUFFICES ASSUME Init PROVE IInv
  OBVIOUS
<1> USE AlertsAssumption DEF Init
<1>1. TypeOK
  <2>1. age \in [Keys -> 0..Cooldown] /\ at \in [Callers -> {"idle", "waiting", "clear", "sending"}]
    OBVIOUS
  <2>2. /\ db \in [Senders -> Value] /\ over \in [Senders -> Value]
        /\ flag \in [Senders -> Value] /\ file \in [Senders -> Value]
    BY DEF Unset, Value
  <2>3. /\ senders \subseteq Senders /\ left \subseteq Senders /\ lock \in Callers \cup {None}
        /\ save \in [at : {"idle", "rows", "senders"}, to : SUBSET Senders, rows : SUBSET Senders]
        /\ reload \in [at : {"idle", "read", "senders"}, to : SUBSET Senders]
    BY ConfiguredType DEF NoSave, NoReload
  <2>4. hung \in BOOLEAN /\ cut \in BOOLEAN
    OBVIOUS
  <2>5. saves \in 0..MaxSaves /\ edits \in 0..MaxEdits /\ restarts \in 0..MaxRestarts
    OBVIOUS
  <2>6. QED
    BY <2>1, <2>2, <2>3, <2>4, <2>5, Zenon DEF TypeOK
<1>2. HoldsLock /\ StillClear
  BY DEF HoldsLock, StillClear
<1>3. SaveInv
  BY DEF SaveInv, Agree, Unset, NoSave
<1>4. QED
  BY <1>1, <1>2, <1>3 DEF IInv

\* The actions of the dispatcher, those of the settings and the restart apart.
Dispatch == \E c \in Callers :
    Raise(c) \/ Suppress(c) \/ Acquire(c) \/ Stamp(c) \/ Deliver(c) \/ Release(c) \/ WebhookHangs(c)
Setting == SaveBegin \/ SaveRow \/ SaveSet \/ SaveSenders \/ Edit \/ ReloadRead \/ ReloadSenders

LEMMA NextCases == [Next]_vars => Dispatch \/ Tick \/ Setting \/ Restart \/ UNCHANGED vars
BY DEF Next, Send, Dispatch, Setting

\* Every step keeps the types.
LEMMA TypeStep == TypeOK /\ [Next]_vars => TypeOK'
<1> SUFFICES ASSUME TypeOK, [Next]_vars PROVE TypeOK'
  OBVIOUS
<1> USE AlertsAssumption, KeyType DEF TypeOK, dispatcher, settings, counts
<1>1. ASSUME NEW c \in Callers, Raise(c) \/ Suppress(c) \/ Acquire(c) PROVE TypeOK'
  BY <1>1 DEF Raise, Suppress, Acquire, Goes
<1>2. ASSUME NEW c \in Callers, Stamp(c) PROVE TypeOK'
  BY <1>2 DEF Stamp, Goes
<1>3. ASSUME NEW c \in Callers, Deliver(c) \/ Release(c) \/ WebhookHangs(c) PROVE TypeOK'
  BY <1>3 DEF Deliver, Release, WebhookHangs, Goes
<1>4. CASE Tick
  <2>1. age' \in [Keys -> 0..Cooldown]
    BY <1>4 DEF Tick
  <2>2. QED
    BY <1>4, <2>1 DEF Tick
<1>5. CASE SaveBegin
  BY <1>5 DEF SaveBegin
<1>6. CASE SaveRow
  <2>1. PICK s \in save.rows : save' = [save EXCEPT !.rows = @ \ {s}]
    BY <1>6 DEF SaveRow
  <2>2. save' \in [at : {"idle", "rows", "senders"}, to : SUBSET Senders, rows : SUBSET Senders]
    BY <2>1
  <2>3. db' \in [Senders -> Value] /\ cut' \in BOOLEAN
    <3>1. CASE UNCHANGED db /\ cut' = TRUE
      BY <3>1
    <3>2. CASE UNCHANGED cut /\ \E u \in save.rows : db' = [db EXCEPT ![u] = Saved[u]]
      BY <3>2, SavedType
    <3>3. QED
      BY <1>6, <3>1, <3>2 DEF SaveRow
  <2>4. QED
    BY <1>6, <2>2, <2>3 DEF SaveRow
<1>7. CASE SaveSet
  BY <1>7, SavedType DEF SaveSet
<1>8. CASE SaveSenders
  BY <1>8 DEF SaveSenders, NoSave
<1>9. CASE Edit
  <2>1. file' \in [Senders -> Value]
    BY <1>9 DEF Edit, Value
  <2>2. QED
    BY <1>9, <2>1 DEF Edit
<1>10. CASE ReloadRead
  BY <1>10, ConfiguredType DEF ReloadRead
<1>11. CASE ReloadSenders
  BY <1>11 DEF ReloadSenders, NoReload
<1>12. CASE Restart
  <2>1. flag' \in [Senders -> Value] /\ over' \in [Senders -> Value] /\ senders' \subseteq Senders
    BY <1>12, FromDatabaseType, ConfiguredType DEF Restart, Value
  <2>2. /\ at' \in [Callers -> {"idle", "waiting", "clear", "sending"}]
        /\ age' \in [Keys -> 0..Cooldown]
    BY <1>12 DEF Restart
  <2>3. /\ save' \in [at : {"idle", "rows", "senders"}, to : SUBSET Senders, rows : SUBSET Senders]
        /\ reload' \in [at : {"idle", "read", "senders"}, to : SUBSET Senders]
    BY <1>12 DEF Restart, NoSave, NoReload
  <2>4. /\ left' \subseteq Senders /\ lock' \in Callers \cup {None}
        /\ restarts' \in 0..MaxRestarts /\ saves' \in 0..MaxSaves /\ edits' \in 0..MaxEdits
    BY <1>12 DEF Restart
  <2>5. hung' \in BOOLEAN /\ cut' \in BOOLEAN
    BY <1>12 DEF Restart
  <2>6. db' \in [Senders -> Value] /\ file' \in [Senders -> Value]
    BY <1>12 DEF Restart
  <2>7. QED
    BY <2>1, <2>2, <2>3, <2>4, <2>5, <2>6, Zenon DEF TypeOK
<1>13. CASE UNCHANGED vars
  BY <1>13 DEF vars
<1>14. QED
  BY NextCases, <1>1, <1>2, <1>3, <1>4, <1>5, <1>6, <1>7, <1>8, <1>9, <1>10, <1>11, <1>12, <1>13
    DEF Dispatch, Setting

\* The mutex keeps others from stamping between a look-up and its stamp; time
\* only makes keys clearer.
LEMMA ClearStep ==
  TypeOK /\ HoldsLock /\ StillClear /\ [Next]_vars => HoldsLock' /\ StillClear'
<1> SUFFICES ASSUME TypeOK, HoldsLock, StillClear, [Next]_vars PROVE HoldsLock' /\ StillClear'
  OBVIOUS
<1> USE AlertsAssumption, KeyType DEF TypeOK, HoldsLock, StillClear
<1>1. ASSUME NEW d \in Callers, Raise(d) \/ Suppress(d) PROVE HoldsLock' /\ StillClear'
  BY <1>1 DEF Raise, Suppress, Goes
<1>2. ASSUME NEW d \in Callers, Acquire(d) PROVE HoldsLock' /\ StillClear'
  <2>1. \A c \in Callers : at[c] \in {"idle", "waiting"}
    BY <1>2 DEF Acquire
  <2>2. QED
    BY <1>2, <2>1 DEF Acquire, Goes
<1>3. ASSUME NEW d \in Callers, Stamp(d) PROVE HoldsLock' /\ StillClear'
  <2>1. \A c \in Callers : at[c] = "clear" => c = d
    BY <1>3 DEF Stamp
  <2>2. QED
    BY <1>3, <2>1 DEF Stamp, Goes
<1>4. ASSUME NEW d \in Callers, Deliver(d) \/ WebhookHangs(d) PROVE HoldsLock' /\ StillClear'
  BY <1>4 DEF Deliver, WebhookHangs
<1>5. ASSUME NEW d \in Callers, Release(d) PROVE HoldsLock' /\ StillClear'
  <2>1. \A c \in Callers : at[c] \in {"clear", "sending"} => c = d
    BY <1>5 DEF Release
  <2>2. QED
    BY <1>5, <2>1 DEF Release, Goes
<1>6. CASE Tick
  BY <1>6 DEF Tick
<1>7. CASE Setting \/ UNCHANGED vars
  BY <1>7 DEF Setting, SaveBegin, SaveRow, SaveSet, SaveSenders, Edit, ReloadRead, ReloadSenders,
              dispatcher, vars
<1>8. CASE Restart
  BY <1>8 DEF Restart
<1>9. QED
  BY NextCases, <1>1, <1>2, <1>3, <1>4, <1>5, <1>6, <1>7, <1>8 DEF Dispatch

\* A save writes its rows before its overrides; a restart between them starts
\* from the rows.
LEMMA SaveStep == TypeOK /\ SaveInv /\ [Next]_vars => SaveInv'
<1> SUFFICES ASSUME TypeOK, SaveInv, [Next]_vars, ~cut' PROVE SaveInv'
  BY DEF SaveInv
<1> USE DEF TypeOK, SaveInv, Agree
<1>1. CASE Dispatch \/ Tick \/ Edit \/ ReloadRead \/ ReloadSenders \/ UNCHANGED vars
  <2>1. UNCHANGED <<db, over, save, cut>>
    BY <1>1 DEF Dispatch, Raise, Suppress, Acquire, Stamp, Deliver, Release, WebhookHangs, Tick,
                Edit, ReloadRead, ReloadSenders, settings, vars
  <2>2. QED
    BY <2>1 DEF Saved
<1>2. CASE SaveBegin
  BY <1>2 DEF SaveBegin
<1>3. CASE SaveRow
  <2>1. PICK s \in save.rows : /\ save' = [save EXCEPT !.rows = @ \ {s}]
                               /\ db' = [db EXCEPT ![s] = Saved[s]]
    BY <1>3 DEF SaveRow
  <2>2. save.at = "rows" /\ save'.at = "rows" /\ Saved' = Saved /\ ~cut
    BY <1>3, <2>1 DEF SaveRow, Saved
  <2>3. QED
    BY <2>1, <2>2
<1>4. CASE SaveSet
  <2>1. \A s \in Senders : over'[s] = db'[s]
    BY <1>4, SavedType DEF SaveSet
  <2>2. QED
    BY <1>4, <2>1 DEF SaveSet
<1>5. CASE SaveSenders
  BY <1>5 DEF SaveSenders, NoSave
<1>6. CASE Restart
  <2>1. over' = FromDatabase(db, flag') /\ db' = db /\ save' = NoSave
    BY <1>6 DEF Restart
  <2>2. \A s \in Senders : over'[s] \in {"unset", db[s]}
    BY <2>1, FromDatabaseType
  <2>3. QED
    BY <2>1, <2>2 DEF NoSave
<1>7. QED
  BY NextCases, <1>1, <1>2, <1>3, <1>4, <1>5, <1>6 DEF Setting

LEMMA Invariant == Spec => []IInv
<1>1. IInv /\ [Next]_vars => IInv'
  BY TypeStep, ClearStep, SaveStep DEF IInv
<1>2. QED
  BY InitInv, <1>1, PTL DEF Spec

\* The variables keep their types.
THEOREM TypeCorrect == Spec => []TypeOK
<1>1. IInv => TypeOK
  BY DEF IInv
<1>2. QED
  BY <1>1, Invariant, PTL

\* However many goroutines share the dispatcher, a delivery of a key begins only
\* when its cooldown has run out (notifier.go:74-89): from the look-up to the
\* stamp nobody else has the mutex.
THEOREM CooldownCorrect == Spec => CooldownIsKept
<1>1. IInv /\ [Next]_vars =>
        [\A c \in Callers : at[c] = "clear" /\ at'[c] = "sending" => age[KeyOf[c]] >= Cooldown]_vars
  BY DEF IInv, StillClear
<1>2. QED
  BY <1>1, Invariant, PTL DEF CooldownIsKept, Spec

\* Through any saves, restarts, flags and edits of the file, an override has the
\* value of its row outside a save, as long as no save's browser has left
\* (pages.go:411-487, root.go).
THEOREM SavedCorrect == Spec => []SavedIsKept
<1>1. IInv => SavedIsKept
  BY DEF IInv, SaveInv, Agree, SavedIsKept
<1>2. QED
  BY <1>1, Invariant, PTL

=============================================================================
