------------------------------- MODULE Alerts -------------------------------
(***************************************************************************)
(* Notifications and the settings that route them.  Callers (the stale     *)
(* sweep, the threshold check, test messages from the UI) share one        *)
(* Dispatcher, which holds its mutex while it delivers; the settings page  *)
(* and the reload of config.yaml replace its senders under the same mutex. *)
(*                                                                         *)
(* A setting is the URL of a sender: it is "on", "off" (an empty string)   *)
(* or "unset" (no row, no viper override, no flag).                        *)
(***************************************************************************)
EXTENDS Integers, FiniteSets

CONSTANTS Callers,     \* goroutines that send notifications
          Sweep,       \* the caller that is the stale sweep
          Check,       \* the caller that is the threshold check
          KeyOf,       \* the dedup key of what a caller sends
          Senders,     \* "webhook" and what is called with a timeout
          Cooldown,    \* the dispatcher's interval, in ticks
          MaxSaves, MaxEdits, MaxRestarts,
          None

Keys  == {KeyOf[c] : c \in Callers}
Value == {"unset", "off", "on"}

ASSUME AlertsAssumption ==
    /\ KeyOf \in [Callers -> Keys]
    /\ Sweep \in Callers /\ Check \in Callers
    /\ Cooldown \in Nat \ {0}
    /\ MaxSaves \in Nat /\ MaxEdits \in Nat /\ MaxRestarts \in Nat
    /\ None \notin Callers

VARIABLES at,       \* where each caller is
          left,     \* the senders the delivery under way has still to call
          lock,     \* who holds Dispatcher.mu
          age,      \* ticks since the key's cooldown was stamped, Cooldown for "long ago"
          senders,  \* Dispatcher.senders
          hung,     \* is a webhook being called that never answers?
          db,       \* settings table
          over,     \* viper.Set
          flag,     \* the command line's flags
          file,     \* config.yaml
          save,     \* a request of the settings page in progress
          reload,   \* the OnConfigChange callback in progress
          cut,      \* did a browser go away during a save?
          saves, edits, restarts  \* how many, for the bounds

dispatcher == <<at, left, lock, age, hung>>
counts == <<saves, edits, restarts>>
settings == <<db, over, flag, file, save, reload, cut, counts>>
vars == <<dispatcher, senders, settings>>

\* viper's precedence: an override, a flag that was given, the file.
Effective(o, f, c) == [s \in Senders |-> IF o[s] # "unset" THEN o[s]
                                         ELSE IF f[s] # "unset" THEN f[s] ELSE c[s]]
Configured(o, f, c) == {s \in Senders : Effective(o, f, c)[s] = "on"}

\* What the start takes from the database: a row becomes an override unless
\* the flag was given.
FromDatabase(rows, flags) == [s \in Senders |-> IF flags[s] = "unset" THEN rows[s] ELSE "unset"]

Unset    == [s \in Senders |-> "unset"]
NoSave   == [at |-> "idle", to |-> {}, rows |-> {}]
NoReload == [at |-> "idle", to |-> {}]

Init ==
    /\ at = [c \in Callers |-> "idle"]
    /\ left = {} /\ lock = None /\ hung = FALSE
    /\ age = [k \in Keys |-> Cooldown]
    /\ db = Unset /\ over = Unset
    /\ flag = Unset
    /\ file = [s \in Senders |-> "on"]
    /\ senders = Configured(over, flag, file)
    /\ save = NoSave /\ reload = NoReload
    /\ cut = FALSE
    /\ saves = 0 /\ edits = 0 /\ restarts = 0

-----------------------------------------------------------------------------
(* Dispatcher                                                              *)

Goes(c, to) == at' = [at EXCEPT ![c] = to]

\* A goroutine has something to send.  The threshold check asks HasSenders
\* first, for which it needs the mutex for a moment.
Raise(c) ==
    /\ at[c] = "idle" /\ Goes(c, "waiting")
    /\ c = Check => lock = None /\ senders # {}
    /\ UNCHANGED <<left, lock, age, hung, senders, settings>>

\* Mutant: the cooldown never runs out.
SuppressForEver(c) ==
    /\ at[c] = "waiting" /\ Goes(c, "idle")
    /\ lock = None
    /\ age[KeyOf[c]] <= Cooldown
    /\ UNCHANGED <<left, lock, age, hung, senders, settings>>

\* Mutant: the cooldown is looked up without the mutex.
AcquireUnlocked(c) ==
    /\ at[c] = "waiting" /\ Goes(c, "clear")
    /\ lock' = c
    /\ age[KeyOf[c]] >= Cooldown
    /\ UNCHANGED <<left, age, hung, senders, settings>>

\* Send takes the mutex and looks at the cooldown of its key: under it the
\* notification is dropped and the mutex is free again.
Suppress(c) ==
    /\ at[c] = "waiting" /\ Goes(c, "idle")
    /\ lock = None
    /\ age[KeyOf[c]] < Cooldown
    /\ UNCHANGED <<left, lock, age, hung, senders, settings>>

Acquire(c) ==
    /\ at[c] = "waiting" /\ Goes(c, "clear")
    /\ lock = None /\ lock' = c
    /\ age[KeyOf[c]] >= Cooldown
    /\ UNCHANGED <<left, age, hung, senders, settings>>

\* The key is stamped before anything is delivered, and stays so when every
\* sender fails or there is none.
Stamp(c) ==
    /\ at[c] = "clear" /\ Goes(c, "sending")
    /\ age' = [age EXCEPT ![KeyOf[c]] = 0]
    /\ left' = senders
    /\ UNCHANGED <<lock, hung, senders, settings>>

\* ntfy is called with a timeout of 10 s.  The webhook is called with
\* http.Post, which has none: the client of the struct is not used.
Deliver(c) ==
    /\ at[c] = "sending" /\ ~hung
    /\ \E s \in left : left' = left \ {s}
    /\ UNCHANGED <<at, lock, age, hung, senders, settings>>

WebhookHangs(c) ==
    /\ at[c] = "sending" /\ ~hung /\ "webhook" \in left
    /\ hung' = TRUE
    /\ UNCHANGED <<at, left, lock, age, senders, settings>>

\* Mutant: a return that leaves the mutex locked.
ReleaseForgotten(c) ==
    /\ at[c] = "sending" /\ left = {} /\ Goes(c, "idle")
    /\ UNCHANGED <<left, lock, age, hung, senders, settings>>

Release(c) ==
    /\ at[c] = "sending" /\ left = {} /\ Goes(c, "idle")
    /\ lock' = None
    /\ UNCHANGED <<left, age, hung, senders, settings>>

Send(c) == Stamp(c) \/ Deliver(c) \/ Release(c)

Tick ==
    /\ age' = [k \in Keys |-> IF age[k] < Cooldown THEN age[k] + 1 ELSE age[k]]
    /\ UNCHANGED <<at, left, lock, hung, senders, settings>>

-----------------------------------------------------------------------------
(* Settings                                                                *)

\* handleSaveSettings, one request at a time: the rows, the overrides, the senders.
SaveBegin ==
    /\ saves < MaxSaves /\ saves' = saves + 1
    /\ save.at = "idle"
    /\ \E to \in SUBSET Senders : save' = [at |-> "rows", to |-> to, rows |-> Senders]
    /\ UNCHANGED <<dispatcher, senders, db, over, flag, file, reload, cut, edits, restarts>>

Saved == [s \in Senders |-> IF s \in save.to THEN "on" ELSE "off"]

\* Mutant: like the other settings, an empty URL is not saved.
SaveRowNotEmpty ==
    /\ save.at = "rows"
    /\ \E s \in save.rows :
          /\ save' = [save EXCEPT !.rows = @ \ {s}]
          /\ db' = IF Saved[s] = "on" THEN [db EXCEPT ![s] = "on"] ELSE db
    /\ UNCHANGED <<dispatcher, senders, over, flag, file, reload, cut, counts>>

\* SetSetting under the request's context: when the browser is gone the
\* statement fails, its error is dropped and the handler goes on.
SaveRow ==
    /\ save.at = "rows"
    /\ \E s \in save.rows :
          /\ save' = [save EXCEPT !.rows = @ \ {s}]
          /\ \/ db' = [db EXCEPT ![s] = Saved[s]] /\ UNCHANGED cut
             \/ cut' = TRUE /\ UNCHANGED db
    /\ UNCHANGED <<dispatcher, senders, over, flag, file, reload, counts>>

SaveSet ==
    /\ save.at = "rows" /\ save.rows = {}
    /\ over' = Saved
    /\ save' = [save EXCEPT !.at = "senders"]
    /\ UNCHANGED <<dispatcher, senders, db, flag, file, reload, cut, counts>>

SaveSenders ==
    /\ save.at = "senders" /\ lock = None
    /\ senders' = save.to
    /\ save' = NoSave
    /\ UNCHANGED <<dispatcher, db, over, flag, file, reload, cut, counts>>

\* config.yaml is edited and viper has read it; OnConfigChange reads the settings ...
Edit ==
    /\ edits < MaxEdits /\ edits' = edits + 1
    /\ reload.at = "idle"
    /\ file' \in [Senders -> {"off", "on"}]
    /\ reload' = [at |-> "read", to |-> {}]
    /\ UNCHANGED <<dispatcher, senders, db, over, flag, save, cut, saves, restarts>>

ReloadRead ==
    /\ reload.at = "read"
    /\ reload' = [at |-> "senders", to |-> Configured(over, flag, file)]
    /\ UNCHANGED <<dispatcher, senders, db, over, flag, file, save, cut, counts>>

\* ... and replaces the senders.
ReloadSenders ==
    /\ reload.at = "senders" /\ lock = None
    /\ senders' = reload.to
    /\ reload' = NoReload
    /\ UNCHANGED <<dispatcher, db, over, flag, file, save, cut, counts>>

\* The process stops, in the middle of a save or a delivery too, and starts
\* with other flags: the cooldowns are forgotten, the rows become overrides.
Restart ==
    /\ restarts < MaxRestarts /\ restarts' = restarts + 1
    /\ flag' \in [Senders -> {"unset", "on"}]
    /\ over' = FromDatabase(db, flag')
    /\ senders' = Configured(over', flag', file)
    /\ at' = [c \in Callers |-> "idle"]
    /\ left' = {} /\ lock' = None /\ hung' = FALSE
    /\ age' = [k \in Keys |-> Cooldown]
    /\ save' = NoSave /\ reload' = NoReload
    /\ UNCHANGED <<db, file, cut, saves, edits>>

-----------------------------------------------------------------------------
Next ==
    \/ \E c \in Callers : Raise(c) \/ Suppress(c) \/ Acquire(c) \/ Send(c) \/ WebhookHangs(c)
    \/ Tick
    \/ SaveBegin \/ SaveRow \/ SaveSet \/ SaveSenders
    \/ Edit \/ ReloadRead \/ ReloadSenders
    \/ Restart

\* Time passes; the sweep and the threshold check run on their tickers and
\* have something to report; a Send that holds the mutex goes on unless the
\* webhook hangs; a mutex that is free again and again is given to each that
\* waits (Go's mutex hands over after 1 ms).
Spec ==
    /\ Init /\ [][Next]_vars
    /\ WF_vars(Tick) /\ WF_vars(Raise(Sweep)) /\ SF_vars(Raise(Check))
    /\ SF_vars(Suppress(Sweep) \/ Acquire(Sweep)) /\ SF_vars(Suppress(Check) \/ Acquire(Check))
    /\ WF_vars(\E c \in Callers : Send(c))

-----------------------------------------------------------------------------
\* Types of every variable.
TypeOK ==
    /\ at \in [Callers -> {"idle", "waiting", "clear", "sending"}]
    /\ left \subseteq Senders /\ senders \subseteq Senders
    /\ lock \in Callers \cup {None}
    /\ age \in [Keys -> 0..Cooldown]
    /\ hung \in BOOLEAN /\ cut \in BOOLEAN
    /\ db \in [Senders -> Value] /\ over \in [Senders -> Value]
    /\ flag \in [Senders -> Value] /\ file \in [Senders -> Value]
    /\ save \in [at : {"idle", "rows", "senders"}, to : SUBSET Senders, rows : SUBSET Senders]
    /\ reload \in [at : {"idle", "read", "senders"}, to : SUBSET Senders]
    /\ saves \in 0..MaxSaves /\ edits \in 0..MaxEdits /\ restarts \in 0..MaxRestarts

\* Two deliveries for the same key begin at least one cooldown apart, although
\* several goroutines send it and the check comes before the stamp.
CooldownIsKept ==
    [][\A c \in Callers : at[c] = "clear" /\ at'[c] = "sending" => age[KeyOf[c]] >= Cooldown]_vars

\* What the settings page saved is what a restart uses: outside a save, an
\* override has the value of its row, through restarts in the middle of a save,
\* flags and edits of the file.  Only a browser that left a save can break it.
SavedIsKept ==
    save.at = "idle" /\ ~cut => \A s \in Senders : over[s] # "unset" => over[s] = db[s]

\* A host that stays over its threshold is reported again and again while some
\* sender stays configured, unless a webhook hangs for good.
AlertsRepeat == <>[](senders # {}) => ([]<>(at[Check] = "sending") \/ <>[]hung)

\* The goroutine that marks stale hosts is not held up for good by delivering
\* notifications, unless a webhook hangs.
SweepGoesOn == []<>(at[Sweep] = "idle") \/ <>[]hung
=============================================================================
