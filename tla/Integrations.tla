---------------------------- MODULE Integrations ----------------------------
(***************************************************************************)
(* Integrations and their passwords.  The settings page saves, deletes,    *)
(* tests and syncs them, several browsers at a time; a background loop     *)
(* syncs all of them; passwords are encrypted with a key the start of the  *)
(* process reads from secret.key or creates.  The devices a sync finds are *)
(* passive devices like those of a scan, see HostStatus.                   *)
(***************************************************************************)
EXTENDS Naturals, SequencesExt

CONSTANTS Names,       \* the ids of the integrations, in the order of their names
          Requests,    \* requests of browsers
          MaxSaves, MaxStops

Igs == Range(Names)

ASSUME IntegrationsAssumption ==
    /\ Names \in Seq(Igs) /\ Names # <<>>
    /\ MaxSaves \in Nat /\ MaxStops \in Nat

VARIABLES igs,      \* integrations table: the status of each row, or "absent"
          secrets,  \* secrets table: the key a password is encrypted with, 0 for no row
          file,     \* secret.key: 0 when missing or not 32 bytes long
          key,      \* Store.encKey, 0 while the process is not up
          keys,     \* how many keys were drawn
          req,      \* the requests under way
          loop,     \* the background loop
          mixed,    \* integrations saved and deleted at the same time
          saves, stops

tables == <<igs, secrets>>
vars == <<tables, file, key, keys, req, loop, mixed, saves, stops>>

Free == [at |-> "idle", ig |-> Names[1], gone |-> FALSE]
Rest == [at |-> "idle", todo |-> <<>>]

Init ==
    /\ igs = [i \in Igs |-> "absent"] /\ secrets = [i \in Igs |-> 0]
    /\ file = 0 /\ key = 0 /\ keys = 0
    /\ req = [r \in Requests |-> Free]
    /\ loop = Rest
    /\ mixed = {}
    /\ saves = 0 /\ stops = 0

-----------------------------------------------------------------------------
(* The key                                                                 *)

\* deriveKey: a key file of the right length is taken as it is, otherwise a
\* new key is drawn and has to be written first.
LoadKey ==
    /\ key = 0 /\ file # 0
    /\ key' = file
    /\ UNCHANGED <<tables, file, keys, req, loop, mixed, saves, stops>>

CreateKey ==
    /\ key = 0 /\ file = 0
    /\ keys' = keys + 1 /\ file' = keys'
    /\ key' = file'
    /\ UNCHANGED <<tables, req, loop, mixed, saves, stops>>

\* Mutant: the error of the write is dropped.
KeyIsNotWrittenUnnoticed ==
    /\ key = 0 /\ file = 0 /\ stops < MaxStops
    /\ keys' = keys + 1 /\ stops' = stops + 1
    /\ key' = keys'
    /\ UNCHANGED <<tables, file, req, loop, mixed, saves>>

\* The write fails or the process dies in it: no store, no process.
KeyIsNotWritten ==
    /\ key = 0 /\ file = 0 /\ stops < MaxStops
    /\ keys' = keys + 1 /\ stops' = stops + 1
    /\ UNCHANGED <<tables, file, key, req, loop, mixed, saves>>

Stop ==
    /\ key # 0 /\ stops < MaxStops
    /\ stops' = stops + 1
    /\ key' = 0
    /\ req' = [r \in Requests |-> Free]
    /\ loop' = Rest
    /\ UNCHANGED <<tables, file, keys, mixed, saves>>

-----------------------------------------------------------------------------
(* Requests                                                                *)

Idle(r) == key # 0 /\ req[r].at = "idle"
Goes(r, to) == req' = [req EXCEPT ![r].at = to]
Ends(r) == req' = [req EXCEPT ![r] = Free]

\* A second request that saves or deletes what another one deletes or saves.
Mixes(r, others) ==
    mixed' = IF \E q \in Requests \ {r} : req[q].at \in others /\ req[q].ig = req'[r].ig
             THEN mixed \cup {req'[r].ig} ELSE mixed

Saving   == {"row", "secret"}
Deleting == {"unsecret", "unrow"}

Begin(r, at) ==
    /\ Idle(r)
    /\ \E i \in Igs : req' = [req EXCEPT ![r] = [at |-> at, ig |-> i, gone |-> FALSE]]

\* handleSaveIntegration, of a new integration or of one that is there.
SaveBegin(r) ==
    /\ saves < MaxSaves /\ saves' = saves + 1
    /\ Begin(r, "row") /\ Mixes(r, Deleting)
    /\ UNCHANGED <<tables, file, key, keys, loop, stops>>

\* The browser goes away: every later statement of its request fails.
Leave(r) ==
    /\ req[r].at # "idle" /\ ~req[r].gone
    /\ req' = [req EXCEPT ![r].gone = TRUE]
    /\ UNCHANGED <<tables, file, key, keys, loop, mixed, saves, stops>>

\* UpsertIntegration: the status is unknown again.  A failure ends the request,
\* and so does an empty password.
SaveRow(r) ==
    /\ req[r].at = "row"
    /\ \/ req[r].gone /\ Ends(r) /\ UNCHANGED igs
       \/ ~req[r].gone /\ igs' = [igs EXCEPT ![req[r].ig] = "unknown"] /\ (Goes(r, "secret") \/ Ends(r))
    /\ UNCHANGED <<secrets, file, key, keys, loop, mixed, saves, stops>>

\* SetSecret: a failure is logged, the answer is "ok".
SaveSecret(r) ==
    /\ req[r].at = "secret" /\ Ends(r)
    /\ secrets' = IF req[r].gone THEN secrets ELSE [secrets EXCEPT ![req[r].ig] = key]
    /\ UNCHANGED <<igs, file, key, keys, loop, mixed, saves, stops>>

\* handleDeleteIntegration: the secret, then the row; no error is looked at.
DeleteBegin(r) ==
    /\ Begin(r, "unsecret") /\ Mixes(r, Saving)
    /\ UNCHANGED <<tables, file, key, keys, loop, saves, stops>>

\* Mutant: the name under which the password was saved is another one.
DeleteSecretOfOtherName(r) ==
    /\ req[r].at = "unsecret" /\ Goes(r, "unrow")
    /\ UNCHANGED <<tables, file, key, keys, loop, mixed, saves, stops>>

DeleteSecret(r) ==
    /\ req[r].at = "unsecret" /\ Goes(r, "unrow")
    /\ secrets' = IF req[r].gone THEN secrets ELSE [secrets EXCEPT ![req[r].ig] = 0]
    /\ UNCHANGED <<igs, file, key, keys, loop, mixed, saves, stops>>

DeleteRow(r) ==
    /\ req[r].at = "unrow" /\ Ends(r)
    /\ igs' = IF req[r].gone THEN igs ELSE [igs EXCEPT ![req[r].ig] = "absent"]
    /\ UNCHANGED <<secrets, file, key, keys, loop, mixed, saves, stops>>

\* handleTestIntegration and handleSyncIntegration: what is not there is not called.
AskBegin(r) ==
    /\ Begin(r, "call") /\ igs[req'[r].ig] # "absent"
    /\ UNCHANGED <<tables, file, key, keys, loop, mixed, saves, stops>>

\* UpdateIntegrationStatus: an UPDATE, nothing when the row is gone.
SetStatus(i, s) == igs' = [igs EXCEPT ![i] = IF @ = "absent" THEN @ ELSE s]

AskEnd(r) ==
    /\ req[r].at = "call" /\ Ends(r)
    /\ IF req[r].gone THEN UNCHANGED igs ELSE \E s \in {"ok", "error"} : SetStatus(req[r].ig, s)
    /\ UNCHANGED <<secrets, file, key, keys, loop, mixed, saves, stops>>

-----------------------------------------------------------------------------
(* The background loop                                                     *)

Present == SelectSeq(Names, LAMBDA i : igs[i] # "absent")

LoopBegin ==
    /\ key # 0 /\ loop.at = "idle" /\ Present # <<>>
    /\ loop' = [at |-> "call", todo |-> Present]
    /\ UNCHANGED <<tables, file, key, keys, req, mixed, saves, stops>>

\* Mutant: an error ends the loop over the integrations.
LoopCallReturns ==
    /\ loop.at = "call"
    /\ \E s \in {"ok", "error"} :
          /\ SetStatus(Head(loop.todo), s)
          /\ loop' = IF s = "error" \/ Len(loop.todo) = 1 THEN Rest ELSE [at |-> "call", todo |-> Tail(loop.todo)]
    /\ UNCHANGED <<secrets, file, key, keys, req, mixed, saves, stops>>

\* Every client has a timeout: the call of the first that is left ends, in
\* devices or in an error, and the loop goes on with the others.
LoopCall ==
    /\ loop.at = "call"
    /\ \E s \in {"ok", "error"} : SetStatus(Head(loop.todo), s)
    /\ loop' = IF Len(loop.todo) = 1 THEN Rest ELSE [at |-> "call", todo |-> Tail(loop.todo)]
    /\ UNCHANGED <<secrets, file, key, keys, req, mixed, saves, stops>>

-----------------------------------------------------------------------------
Request(r) == SaveRow(r) \/ SaveSecret(r) \/ DeleteSecret(r) \/ DeleteRow(r) \/ AskEnd(r)

Next ==
    \/ LoadKey \/ CreateKey \/ KeyIsNotWritten \/ Stop
    \/ \E r \in Requests : \/ SaveBegin(r) \/ DeleteBegin(r) \/ AskBegin(r)
                           \/ Leave(r) \/ Request(r)
    \/ LoopBegin \/ LoopCall

\* A process that is down is started, the loop ticks and its calls time out.
Spec == Init /\ [][Next]_vars /\ WF_vars(LoadKey \/ CreateKey) /\ WF_vars(LoopBegin) /\ WF_vars(LoopCall)

-----------------------------------------------------------------------------
\* Types of every variable.
TypeOK ==
    /\ igs \in [Igs -> {"absent", "unknown", "ok", "error"}]
    /\ keys \in Nat /\ file \in 0..keys /\ key \in {0, file}
    /\ secrets \in [Igs -> 0..keys]
    /\ req \in [Requests -> [at : {"idle", "call"} \cup Saving \cup Deleting, ig : Igs, gone : BOOLEAN]]
    /\ loop.at \in {"idle", "call"}
    /\ mixed \subseteq Igs

\* A password is kept only for an integration that is there: a save writes the
\* row first, a deletion removes it last, so a stop or a browser that leaves in
\* the middle leaves no password behind.  Only a save and a deletion of the same
\* integration at the same time can.
SecretsAreOwned == \A i \in Igs \ mixed : secrets[i] # 0 => igs[i] # "absent"

\* Every password in the table can be decrypted with the key file, whatever
\* start was interrupted or failed.
SecretsAreReadable == \A i \in Igs : secrets[i] # 0 => secrets[i] = file

\* Each integration that stays is synced again and again by the loop, whatever
\* happens to the calls of the others and to requests.
EachIsSynced == \A i \in Igs : <>[](igs[i] # "absent") => []<>(loop.at = "call" /\ Head(loop.todo) = i)
=============================================================================
