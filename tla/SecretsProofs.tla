--------------------------- MODULE SecretsProofs ---------------------------
(***************************************************************************)
(* Proofs about what a node keeps secret.  Integrations, for every list of *)
(* integrations, every set of requests and every number of saves and       *)
(* stops: the two tables agree, and what is in them can be read with the   *)
(* key file.  Enrollment, for every set of joiners and every number of     *)
(* setups, tokens and crashes: certificates verify, tokens are used once.  *)
(***************************************************************************)
EXTENDS Integrations, Enrollment, TLAPS

\* What a save and a deletion have done so far, unless one met the other.
RowBeforeSecret ==
    \A r \in Requests :
        LET i == req[r].ig IN
        req[r].at = "secret" /\ i \notin mixed => igs[i] # "absent"

SecretBeforeRow ==
    \A r \in Requests :
        LET i == req[r].ig IN
        req[r].at = "unrow" /\ ~req[r].gone /\ i \notin mixed => secrets[i] = 0

\* A save and a deletion of one integration at the same time are noted.
MeetingsAreNoted ==
    \A p, q \in Requests :
        req[p].at \in Saving /\ req[q].at \in Deleting /\ req[p].ig = req[q].ig
            => req[p].ig \in mixed

IInv ==
    /\ TypeOK /\ SecretsAreReadable
    /\ RowBeforeSecret /\ SecretBeforeRow /\ MeetingsAreNoted
    /\ SecretsAreOwned

\* An idle request has the type of a request.
LEMMA FreeType == Free \in [at : {"idle", "call"} \cup Saving \cup Deleting, ig : Igs, gone : BOOLEAN]
<1>1. Names[1] \in Igs
  <2>1. Names \in Seq(Igs) /\ Names # <<>>
    BY IntegrationsAssumption
  <2>2. QED
    BY <2>1
<1>2. QED
  BY <1>1 DEF Free

\* Every step keeps the types.
LEMMA TypeStep == TypeOK /\ [Next]_vars => TypeOK'
<1> SUFFICES ASSUME TypeOK, [Next]_vars PROVE TypeOK'
  OBVIOUS
<1> USE FreeType DEF TypeOK, tables
<1>1. CASE LoadKey
  BY <1>1 DEF LoadKey
<1>2. CASE CreateKey
  BY <1>2 DEF CreateKey
<1>3. CASE KeyIsNotWritten
  BY <1>3 DEF KeyIsNotWritten
<1>4. CASE Stop
  BY <1>4 DEF Stop, Rest
<1>5. ASSUME NEW r \in Requests, SaveBegin(r) PROVE TypeOK'
  BY <1>5 DEF SaveBegin, Begin, Mixes, Saving, Deleting
<1>6. ASSUME NEW r \in Requests, DeleteBegin(r) PROVE TypeOK'
  BY <1>6 DEF DeleteBegin, Begin, Mixes, Saving, Deleting
<1>7. ASSUME NEW r \in Requests, AskBegin(r) PROVE TypeOK'
  BY <1>7 DEF AskBegin, Begin
<1>8. ASSUME NEW r \in Requests, Leave(r) PROVE TypeOK'
  BY <1>8 DEF Leave
<1>9. ASSUME NEW r \in Requests, SaveRow(r) PROVE TypeOK'
  BY <1>9 DEF SaveRow, Goes, Ends, Saving
<1>10. ASSUME NEW r \in Requests, SaveSecret(r) PROVE TypeOK'
  BY <1>10 DEF SaveSecret, Ends
<1>11. ASSUME NEW r \in Requests, DeleteSecret(r) PROVE TypeOK'
  BY <1>11 DEF DeleteSecret, Goes, Deleting
<1>12. ASSUME NEW r \in Requests, DeleteRow(r) PROVE TypeOK'
  BY <1>12 DEF DeleteRow, Ends
<1>13. ASSUME NEW r \in Requests, AskEnd(r) PROVE TypeOK'
  BY <1>13 DEF AskEnd, Ends, SetStatus
<1>14. CASE LoopBegin
  BY <1>14 DEF LoopBegin
<1>15. CASE LoopCall
  BY <1>15 DEF LoopCall, SetStatus, Rest
<1>16. CASE UNCHANGED vars
  BY <1>16 DEF vars
<1>17. QED
  BY <1>1, <1>2, <1>3, <1>4, <1>5, <1>6, <1>7, <1>8, <1>9, <1>10, <1>11, <1>12, <1>13,
     <1>14, <1>15, <1>16 DEF Next, Request

\* The initial state meets the invariant.
LEMMA InitInv == Init => IInv
<1> SUFFICES ASSUME Init PROVE IInv
  OBVIOUS
<1> USE FreeType DEF Init
<1>1. TypeOK
  BY DEF TypeOK, Rest
<1>2. RowBeforeSecret /\ SecretBeforeRow /\ MeetingsAreNoted
  BY DEF RowBeforeSecret, SecretBeforeRow, MeetingsAreNoted, Free, Saving
<1>3. SecretsAreOwned /\ SecretsAreReadable
  BY DEF SecretsAreOwned, SecretsAreReadable
<1>4. QED
  BY <1>1, <1>2, <1>3 DEF IInv

\* What SetStatus leaves alone: whether a row is there.
LEMMA StatusKeepsRows ==
  ASSUME TypeOK, NEW i, NEW s \in {"ok", "error"}, SetStatus(i, s)
  PROVE  \A j \in Igs : igs'[j] = "absent" <=> igs[j] = "absent"
BY DEF TypeOK, SetStatus

\* What was decrypted with the key file is encrypted with it.
LEMMA ReadableStep == TypeOK /\ SecretsAreReadable /\ [Next]_vars => SecretsAreReadable'
<1> SUFFICES ASSUME TypeOK, SecretsAreReadable, [Next]_vars PROVE SecretsAreReadable'
  OBVIOUS
<1> USE DEF TypeOK, SecretsAreReadable, tables
<1>1. CASE CreateKey
  BY <1>1 DEF CreateKey
<1>2. ASSUME NEW r \in Requests, SaveSecret(r) PROVE SecretsAreReadable'
  BY <1>2 DEF SaveSecret
<1>3. ASSUME NEW r \in Requests, DeleteSecret(r) PROVE SecretsAreReadable'
  BY <1>3 DEF DeleteSecret
<1>4. CASE UNCHANGED <<secrets, file>>
  BY <1>4
<1>5. ASSUME NEW r \in Requests,
             \/ SaveBegin(r) \/ DeleteBegin(r) \/ AskBegin(r) \/ Leave(r)
             \/ SaveRow(r) \/ DeleteRow(r) \/ AskEnd(r)
      PROVE  UNCHANGED <<secrets, file>>
  BY <1>5 DEF SaveBegin, DeleteBegin, AskBegin, Leave, SaveRow, DeleteRow, AskEnd
<1>6. LoadKey \/ KeyIsNotWritten \/ Stop \/ LoopBegin \/ LoopCall \/ UNCHANGED vars
        => UNCHANGED <<secrets, file>>
  BY DEF LoadKey, KeyIsNotWritten, Stop, LoopBegin, LoopCall, vars
<1>7. QED
  BY <1>1, <1>2, <1>3, <1>4, <1>5, <1>6 DEF Next, Request

Order == RowBeforeSecret /\ SecretBeforeRow /\ MeetingsAreNoted /\ SecretsAreOwned

\* A step that changes no request and no integration's being there.
LEMMA NothingMoves ==
  ASSUME TypeOK, Order, UNCHANGED <<req, secrets, mixed>>,
         \A i \in Igs : igs'[i] = "absent" <=> igs[i] = "absent"
  PROVE  Order'
BY DEF TypeOK, Order, RowBeforeSecret, SecretBeforeRow, MeetingsAreNoted, SecretsAreOwned

\* A request that takes a step: what holds of the others holds still, if the
\* tables change for its own integration only.
LEMMA OrderStep == TypeOK /\ Order /\ [Next]_vars => Order'
<1> SUFFICES ASSUME TypeOK, Order, [Next]_vars PROVE Order'
  OBVIOUS
<1> USE DEF TypeOK, tables, Order, RowBeforeSecret, SecretBeforeRow, MeetingsAreNoted, SecretsAreOwned
<1>1. CASE LoadKey \/ CreateKey \/ KeyIsNotWritten \/ LoopBegin \/ UNCHANGED vars
  BY <1>1, NothingMoves DEF LoadKey, CreateKey, KeyIsNotWritten, LoopBegin, vars
<1>2. CASE LoopCall
  <2>1. PICK s \in {"ok", "error"} : SetStatus(Head(loop.todo), s)
    BY <1>2 DEF LoopCall
  <2>2. \A i \in Igs : igs'[i] = "absent" <=> igs[i] = "absent"
    BY <2>1, StatusKeepsRows
  <2>3. QED
    BY <1>2, <2>2, NothingMoves DEF LoopCall
<1>3. CASE Stop
  <2>1. \A r \in Requests : req'[r].at = "idle"
    BY <1>3 DEF Stop, Free
  <2>2. UNCHANGED <<tables, mixed>>
    BY <1>3 DEF Stop
  <2>3. QED
    BY <2>1, <2>2 DEF Saving
<1>4. ASSUME NEW r \in Requests, SaveBegin(r) PROVE Order'
  <2>1. PICK i \in Igs : req' = [req EXCEPT ![r] = [at |-> "row", ig |-> i, gone |-> FALSE]]
    BY <1>4 DEF SaveBegin, Begin
  <2>2. mixed \subseteq mixed' /\ UNCHANGED tables
    BY <1>4 DEF SaveBegin, Mixes
  <2>3. \A q \in Requests \ {r} : req'[q].at \in Deleting /\ req'[q].ig = i => i \in mixed'
    BY <1>4, <2>1 DEF SaveBegin, Mixes
  <2>4. QED
    BY <2>1, <2>2, <2>3 DEF Saving, Deleting
<1>5. ASSUME NEW r \in Requests, DeleteBegin(r) PROVE Order'
  <2>1. PICK i \in Igs : req' = [req EXCEPT ![r] = [at |-> "unsecret", ig |-> i, gone |-> FALSE]]
    BY <1>5 DEF DeleteBegin, Begin
  <2>2. mixed \subseteq mixed' /\ UNCHANGED tables
    BY <1>5 DEF DeleteBegin, Mixes
  <2>3. \A q \in Requests \ {r} : req'[q].at \in Saving /\ req'[q].ig = i => i \in mixed'
    BY <1>5, <2>1 DEF DeleteBegin, Mixes
  <2>4. QED
    BY <2>1, <2>2, <2>3 DEF Saving, Deleting
<1>6. ASSUME NEW r \in Requests, AskBegin(r) PROVE Order'
  BY <1>6 DEF AskBegin, Begin, Saving, Deleting
<1>7. ASSUME NEW r \in Requests, Leave(r) PROVE Order'
  BY <1>7 DEF Leave
<1>8. ASSUME NEW r \in Requests, SaveRow(r) PROVE Order'
  BY <1>8 DEF SaveRow, Goes, Ends, Free, Saving, Deleting
<1>9. ASSUME NEW r \in Requests, SaveSecret(r) PROVE Order'
  BY <1>9 DEF SaveSecret, Ends, Free, Saving, Deleting
<1>10. ASSUME NEW r \in Requests, DeleteSecret(r) PROVE Order'
  BY <1>10 DEF DeleteSecret, Goes, Saving, Deleting
<1>11. ASSUME NEW r \in Requests, DeleteRow(r) PROVE Order'
  BY <1>11 DEF DeleteRow, Ends, Free, Saving, Deleting
<1>12. ASSUME NEW r \in Requests, AskEnd(r) PROVE Order'
  <2>1. \A i \in Igs : igs'[i] = "absent" <=> igs[i] = "absent"
    BY <1>12, StatusKeepsRows DEF AskEnd
  <2>2. UNCHANGED <<secrets, mixed>> /\ req' = [req EXCEPT ![r] = Free]
    BY <1>12 DEF AskEnd, Ends
  <2>3. QED
    BY <2>1, <2>2 DEF Free, Saving, Deleting
<1>13. QED
  BY <1>1, <1>2, <1>3, <1>4, <1>5, <1>6, <1>7, <1>8, <1>9, <1>10, <1>11, <1>12 DEF Next, Request

LEMMA Invariant == Spec => []IInv
<1>1. IInv /\ [Next]_vars => IInv'
  BY TypeStep, ReadableStep, OrderStep DEF IInv, Order
<1>2. QED
  BY InitInv, <1>1, PTL DEF Spec

\* The variables keep their types.
THEOREM TypeCorrect == Spec => []TypeOK
<1>1. IInv => TypeOK
  BY DEF IInv
<1>2. QED
  BY <1>1, Invariant, PTL

\* Every password can be decrypted with the key file: a key is used only after
\* it was written, or read from there (secrets.go:15-33).
THEOREM ReadableCorrect == Spec => []SecretsAreReadable
<1>1. IInv => SecretsAreReadable
  BY DEF IInv
<1>2. QED
  BY <1>1, Invariant, PTL

\* No password without its integration, unless the integration was saved and
\* deleted at the same time: a save writes the row first, a deletion removes it
\* last (pages.go:711-747), whoever leaves or stops in between.
THEOREM OwnedCorrect == Spec => []SecretsAreOwned
<1>1. IInv => SecretsAreOwned
  BY DEF IInv
<1>2. QED
  BY <1>1, Invariant, PTL

-----------------------------------------------------------------------------
(***************************************************************************)
(* Enrollment.  ca.crt is written once and never replaced: the setup       *)
(* refuses when it exists, whole or torn.  So what the CA's node.crt was   *)
(* signed with, what its agent has loaded and what it hands out are the    *)
(* same CA.                                                                *)
(***************************************************************************)
FilesOf == [id : BOOLEAN, ca : Int, cakey : Int, crt : CertOf, key : Int]

PkiOf == [ca : Nat, cakey : Nat, cert : CertOf, pool : Int, ready : BOOLEAN]

AgentOf == [at : Steps, key : Nat, got : CertOf, gotca : Int, pki : PkiOf]

CallOf == [from : Joiners, token : 1..MaxTokens, key : Nat, cert : CertOf, ca : Int,
           at : {"sent", "admitted", "signed", "answered", "rejected"}]

\* The setup writes the four files in order, the first of them only once.
SetupInOrder ==
    /\ disk[CA].ca = Absent =>
         disk[CA].cakey = Absent /\ disk[CA].crt = NoCert /\ disk[CA].key = Absent
    /\ setup.at = "ca" => disk[CA].ca = Absent
    /\ setup.at \in {"ca", "cakey", "crt"} => disk[CA].crt = NoCert
    /\ setup.at # "off" => setup.ca > 0
    /\ setup.at \in {"cakey", "crt", "key"} => disk[CA].ca = setup.ca
    /\ disk[CA].crt.by > 0 => disk[CA].crt.by = disk[CA].ca

\* The CA's agent enrolls nowhere.
HubNeverAsks == agent[CA].at \in {"off", "up"}

\* ca.key stays with the CA, so no joiner loads a CA.
JoinersHaveNoKey == \A n \in Joiners : disk[n].cakey = Absent /\ ~agent[n].pki.ready

\* What the CA's agent has loaded is what is on its disk.
HubHasLoaded ==
    /\ agent[CA].pki.ca # 0 => agent[CA].pki.ca = disk[CA].ca
    /\ agent[CA].pki.ready => agent[CA].pki.ca # 0 /\ agent[CA].pki.cert.by = agent[CA].pki.pool

\* A request that got past its check is served by an agent with a loaded PKI.
HubServes ==
    \A c \in calls : c.at \in {"admitted", "signed", "answered"} =>
        agent[CA].at = "up" /\ agent[CA].pki.ready

\* Tokens are numbered as they are made; the one in the setting is not spent.
TokenIsFresh ==
    /\ token \in 0..tokens /\ token \notin spent /\ spent \subseteq 1..tokens
    /\ \A c \in calls : c.token \in 1..tokens

EnrollInv ==
    /\ EnrollTypeOK
    /\ SetupInOrder /\ HubNeverAsks /\ JoinersHaveNoKey /\ HubHasLoaded
    /\ HubServes /\ AnswersVerify /\ TokenIsFresh

\* What is written to a file changes that file.
LEMMA WrittenFile ==
    ASSUME NEW files, NEW ca, NEW cert, NEW own
    PROVE  /\ Written(files, "ca", ca, cert, own) = [files EXCEPT !.ca = ca]
           /\ Written(files, "cakey", ca, cert, own) = [files EXCEPT !.cakey = ca]
           /\ Written(files, "crt", ca, cert, own) = [files EXCEPT !.crt = cert]
           /\ Written(files, "key", ca, cert, own) = [files EXCEPT !.key = own]
BY DEF Written

LEMMA WrittenFiles ==
    ASSUME NEW files \in FilesOf, NEW at \in {"ca", "cakey", "crt", "key"},
           NEW ca \in Int, NEW cert \in CertOf, NEW own \in Int
    PROVE  Written(files, at, ca, cert, own) \in FilesOf
<1>1. /\ [files EXCEPT !.ca = ca] \in FilesOf
      /\ [files EXCEPT !.cakey = ca] \in FilesOf
      /\ [files EXCEPT !.crt = cert] \in FilesOf
      /\ [files EXCEPT !.key = own] \in FilesOf
  BY DEF FilesOf
<1> QED BY <1>1, WrittenFile

\* What a PKI is after Load, and when it is ready.
LEMMA LoadedPKI ==
    ASSUME NEW p \in PkiOf, NEW files \in FilesOf
    PROVE  /\ Load(p, files) \in PkiOf
           /\ Loads(p, files) =>
                Load(p, files).cert = files.crt /\ Load(p, files).pool = files.ca
<1> DEFINE q == LoadCA(p, files)
<1>1. q \in PkiOf
  <2>1. CASE p.ca # 0 /\ p.cakey # 0 BY <2>1 DEF LoadCA
  <2>2. CASE ~(p.ca # 0 /\ p.cakey # 0) /\ files.ca <= 0 BY <2>2 DEF LoadCA, PkiOf
  <2>3. CASE ~(p.ca # 0 /\ p.cakey # 0) /\ ~(files.ca <= 0)
    <3>1. q = [p EXCEPT !.ca = files.ca, !.cakey = IF files.cakey > 0 THEN files.cakey ELSE 0]
      BY <2>3 DEF LoadCA
    <3>2. files.ca \in Nat /\ (IF files.cakey > 0 THEN files.cakey ELSE 0) \in Nat
      BY <2>3 DEF FilesOf
    <3> QED BY <3>1, <3>2 DEF PkiOf
  <2> QED BY <2>1, <2>2, <2>3
<1>2. Load(p, files) = IF Loads(p, files)
                       THEN [q EXCEPT !.cert = files.crt, !.pool = files.ca, !.ready = TRUE]
                       ELSE q
  BY DEF Load, Loads
<1> HIDE DEF q
<1>3. files.crt \in CertOf /\ files.ca \in Int BY DEF FilesOf
<1>4. CASE Loads(p, files) BY <1>1, <1>2, <1>3, <1>4 DEF PkiOf
<1>5. CASE ~Loads(p, files) BY <1>1, <1>2, <1>5
<1> QED BY <1>4, <1>5

LEMMA NewlyLoaded ==
    ASSUME NEW files \in FilesOf
    PROVE  /\ NewPKI \in PkiOf
           /\ Load(NewPKI, files).ca # 0 => Load(NewPKI, files).ca = files.ca
           /\ Load(NewPKI, files).ready =>
                /\ files.ca > 0 /\ files.cakey > 0 /\ files.crt.by > 0
                /\ Load(NewPKI, files).ca = files.ca
                /\ Load(NewPKI, files).cert = files.crt
                /\ Load(NewPKI, files).pool = files.ca
           /\ Loads(NewPKI, files) => files.cakey > 0
<1> DEFINE q == LoadCA(NewPKI, files)
<1>1. NewPKI \in PkiOf BY DEF NewPKI, PkiOf, CertOf, NoCert, Absent
<1>2. files.ca \in Int /\ files.cakey \in Int BY DEF FilesOf
<1>3. /\ NewPKI.ca = 0 /\ NewPKI.ready = FALSE /\ NewPKI.cakey = 0 BY DEF NewPKI
<1>4. /\ q.ready = FALSE
      /\ q.ca # 0 => q.ca = files.ca /\ files.ca > 0
      /\ q.cakey # 0 => files.cakey > 0
      /\ q \in PkiOf
  <2>1. CASE files.ca <= 0
    <3>1. q = [NewPKI EXCEPT !.ca = 0] BY <1>3, <2>1, Zenon DEF LoadCA
    <3> QED BY <1>1, <1>3, <3>1 DEF PkiOf
  <2>2. CASE ~(files.ca <= 0)
    <3> DEFINE k == IF files.cakey > 0 THEN files.cakey ELSE 0
    <3>1. q = [NewPKI EXCEPT !.ca = files.ca, !.cakey = k]
      BY <1>3, <2>2, Zenon DEF LoadCA
    <3>2. files.ca \in Nat /\ files.ca > 0 /\ k \in Nat /\ (k # 0 => files.cakey > 0)
      BY <1>2, <2>2
    <3> HIDE DEF k
    <3> QED BY <1>1, <1>3, <3>1, <3>2 DEF PkiOf
  <2> QED BY <2>1, <2>2
<1>5. Load(NewPKI, files) = IF Loads(NewPKI, files)
                       THEN [q EXCEPT !.cert = files.crt, !.pool = files.ca, !.ready = TRUE]
                       ELSE q
  BY DEF Load, Loads
<1>6. Loads(NewPKI, files) => q.ca # 0 /\ q.cakey # 0 /\ files.crt.by > 0
  BY DEF Loads, KeyPairLoads
<1> HIDE DEF q
<1>7. CASE Loads(NewPKI, files) BY <1>1, <1>4, <1>5, <1>6, <1>7 DEF PkiOf
<1>8. CASE ~Loads(NewPKI, files) BY <1>1, <1>4, <1>5, <1>8
<1> QED BY <1>7, <1>8

\* The types by the names above.
Typed ==
    /\ disk \in [Nodes -> FilesOf] /\ agent \in [Nodes -> AgentOf]
    /\ setup \in [at : {"off", "ca", "cakey", "crt", "key"}, ca : Nat, key : Nat]
    /\ auth \in BOOLEAN
    /\ token \in 0..MaxTokens
    /\ calls \subseteq CallOf
    /\ spent \subseteq 1..MaxTokens
    /\ tokens \in 0..MaxTokens /\ drawn \in Nat /\ setups \in 0..MaxSetups /\ faults \in 0..MaxFaults

LEMMA TypedTypes == EnrollTypeOK <=> Typed
BY DEF EnrollTypeOK, Typed, FilesOf, AgentOf, PkiOf, CallOf

LEMMA Blank ==
    /\ NoCert \in CertOf /\ TornCert \in CertOf /\ NoFiles \in FilesOf
    /\ NewPKI \in PkiOf /\ Off \in AgentOf
    /\ NoSetup \in [at : {"off", "ca", "cakey", "crt", "key"}, ca : Nat, key : Nat]
    /\ Absent \in Int /\ Torn \in Int
<1>1. NoCert \in CertOf /\ TornCert \in CertOf /\ Absent \in Int /\ Torn \in Int /\ 0 \in Nat
  BY DEF NoCert, TornCert, CertOf, Absent, Torn
<1>2. NoFiles \in FilesOf BY <1>1 DEF NoFiles, FilesOf
<1>3. NewPKI \in PkiOf BY <1>1 DEF NewPKI, PkiOf
<1>4. Off \in AgentOf BY <1>1, <1>3 DEF Off, AgentOf, Steps
<1>5. NoSetup \in [at : {"off", "ca", "cakey", "crt", "key"}, ca : Nat, key : Nat]
  BY DEF NoSetup
<1> QED BY <1>1, <1>2, <1>3, <1>4, <1>5

\* A handler's next step keeps the types of the requests.
LEMMA BecomesTyped ==
    ASSUME calls \subseteq CallOf, NEW c \in calls, NEW d \in CallOf, Becomes(c, d)
    PROVE  calls' \subseteq CallOf
BY DEF Becomes

LEMMA SetupTyped ==
    ASSUME Typed, Setup
    PROVE  Typed'
<1>1. CA \in Nodes BY DEF Nodes
<1>2. CASE RunSetup
  <2>1. disk' \in [Nodes -> FilesOf] BY <1>1, <1>2 DEF RunSetup, Typed, FilesOf
  <2>2. setups' \in 0..MaxSetups BY <1>2, EnrollmentAssumption DEF RunSetup, Typed
  <2>3. drawn' \in Nat /\ setup' \in [at : {"off", "ca", "cakey", "crt", "key"}, ca : Nat, key : Nat]
    BY <1>2 DEF RunSetup, Typed
  <2> QED BY <1>2, <2>1, <2>2, <2>3 DEF RunSetup, Typed
<1>3. CASE SetupCA
  <2>1. Written(disk[CA], setup.at, setup.ca, NoCert, 0) \in FilesOf
    <3>1. /\ disk[CA] \in FilesOf /\ setup.ca \in Int /\ NoCert \in CertOf /\ 0 \in Int
          /\ setup.at \in {"ca", "cakey", "crt", "key"}
      BY <1>1, <1>3, Blank DEF SetupCA, Typed
    <3> QED BY <3>1, WrittenFiles
  <2>2. disk' \in [Nodes -> FilesOf] BY <1>1, <1>3, <2>1 DEF SetupCA, Typed
  <2>3. setup' \in [at : {"off", "ca", "cakey", "crt", "key"}, ca : Nat, key : Nat]
    BY <1>3 DEF SetupCA, Typed
  <2> QED BY <1>3, <2>2, <2>3 DEF SetupCA, Typed
<1>4. CASE SetupNodeCert
  <2>1. drawn + 1 \in Nat /\ disk[CA].ca \in Int BY <1>1 DEF Typed, FilesOf
  <2>2. [by |-> disk[CA].ca, of |-> drawn + 1] \in CertOf BY <2>1 DEF CertOf
  <2>3. Written(disk[CA], "crt", 0, [by |-> disk[CA].ca, of |-> drawn + 1], 0) \in FilesOf
    BY <1>1, <2>2, WrittenFiles DEF Typed
  <2>4. disk' \in [Nodes -> FilesOf] BY <1>1, <1>4, <2>3 DEF SetupNodeCert, Typed
  <2>5. setup' \in [at : {"off", "ca", "cakey", "crt", "key"}, ca : Nat, key : Nat]
    BY <1>4, <2>1 DEF SetupNodeCert, Typed
  <2> QED BY <1>4, <2>1, <2>4, <2>5 DEF SetupNodeCert, Typed
<1>5. CASE SetupNodeKey
  <2>1. Written(disk[CA], "key", 0, NoCert, setup.key) \in FilesOf
    BY <1>1, Blank, WrittenFiles DEF Typed
  <2>2. disk' \in [Nodes -> FilesOf] BY <1>1, <1>5, <2>1 DEF SetupNodeKey, Typed
  <2> QED BY <1>5, <2>2, Blank DEF SetupNodeKey, Typed
<1> QED BY <1>2, <1>3, <1>4, <1>5 DEF Setup

LEMMA StartTyped ==
    ASSUME Typed, NEW n \in Nodes, Start(n)
    PROVE  Typed'
<1>1. disk' \in [Nodes -> FilesOf]
  <2>1. disk' = [disk EXCEPT ![n] = [disk[n] EXCEPT !.id = TRUE]] BY DEF Start
  <2>2. \A d \in FilesOf : [d EXCEPT !.id = TRUE] \in FilesOf BY DEF FilesOf
  <2>3. disk[n] \in FilesOf BY DEF Typed
  <2> QED BY <2>1, <2>2, <2>3 DEF Typed
<1> DEFINE pki == IF CAExists(n) THEN Load(NewPKI, disk[n]) ELSE NewPKI
<1>2. pki \in PkiOf BY Blank, LoadedPKI DEF Typed
<1> HIDE DEF pki
<1>3. CASE /\ agent' = [agent EXCEPT ![n] = [Off EXCEPT !.at = "up", !.pki = pki]]
           /\ UNCHANGED <<calls, drawn>>
  <2>1. [Off EXCEPT !.at = "up", !.pki = pki] \in AgentOf
    BY <1>2, Blank DEF AgentOf, Steps
  <2>2. agent' \in [Nodes -> AgentOf] BY <1>3, <2>1 DEF Typed
  <2> QED BY <1>1, <1>3, <2>2 DEF Start, Typed
<1>4. ASSUME n \in Joiners, NEW t \in 1..tokens,
             drawn' = drawn + 1,
             calls' = calls \cup {[from |-> n, token |-> t, key |-> drawn + 1,
                                   at |-> "sent", cert |-> NoCert, ca |-> 0]},
             agent' = [agent EXCEPT ![n] = [Off EXCEPT !.at = "asking", !.pki = pki, !.key = drawn + 1]]
      PROVE  Typed'
  <2>1. drawn + 1 \in Nat /\ t \in 1..MaxTokens BY EnrollmentAssumption DEF Typed
  <2>2. [Off EXCEPT !.at = "asking", !.pki = pki, !.key = drawn + 1] \in AgentOf
    BY <1>2, <2>1, Blank DEF AgentOf, Steps
  <2>3. agent' \in [Nodes -> AgentOf] BY <1>4, <2>2 DEF Typed
  <2>4. [from |-> n, token |-> t, key |-> drawn + 1, at |-> "sent", cert |-> NoCert, ca |-> 0]
          \in CallOf
    BY <1>4, <2>1, Blank DEF CallOf
  <2>5. calls' \subseteq CallOf BY <1>4, <2>4 DEF Typed
  <2> QED BY <1>1, <1>4, <2>1, <2>3, <2>5 DEF Start, Typed
<1> QED BY <1>3, <1>4 DEF Start, pki

LEMMA BootTyped ==
    ASSUME Typed, NEW n \in Nodes, Boot(n)
    PROVE  Typed'
<1>0. agent[n] \in AgentOf /\ disk[n] \in FilesOf BY DEF Typed
<1>1. CASE NoEnrollment(n)
  <2>1. [agent[n] EXCEPT !.at = "up", !.key = 0] \in AgentOf BY <1>0 DEF AgentOf, Steps
  <2>2. agent' \in [Nodes -> AgentOf] BY <1>1, <2>1 DEF NoEnrollment, Typed
  <2>3. calls' \subseteq CallOf BY <1>1 DEF NoEnrollment, Typed
  <2>4. faults' \in 0..MaxFaults BY <1>1, EnrollmentAssumption DEF NoEnrollment, Typed
  <2> QED BY <1>1, <2>2, <2>3, <2>4 DEF NoEnrollment, Typed
<1>2. CASE Enrolled(n)
  <2>1. PICK c \in calls :
          /\ calls' = calls \ {c}
          /\ agent' = [agent EXCEPT ![n] = [@ EXCEPT !.at = "ca", !.got = c.cert, !.gotca = c.ca]]
    BY <1>2 DEF Enrolled
  <2>2. c.cert \in CertOf /\ c.ca \in Int BY DEF Typed, CallOf
  <2>3. [agent[n] EXCEPT !.at = "ca", !.got = c.cert, !.gotca = c.ca] \in AgentOf
    BY <1>0, <2>2 DEF AgentOf, Steps
  <2>4. agent' \in [Nodes -> AgentOf] BY <2>1, <2>3 DEF Typed
  <2> QED BY <1>2, <2>1, <2>4 DEF Enrolled, Typed
<1>3. CASE StoreCert(n)
  <2>1. Written(disk[n], agent[n].at, agent[n].gotca, agent[n].got, 0) \in FilesOf
    <3>1. /\ agent[n].gotca \in Int /\ agent[n].got \in CertOf /\ 0 \in Int
          /\ agent[n].at \in {"ca", "cakey", "crt", "key"}
      BY <1>0, <1>3 DEF StoreCert, AgentOf
    <3> QED BY <1>0, <3>1, WrittenFiles
  <2>2. disk' \in [Nodes -> FilesOf] BY <1>3, <2>1 DEF StoreCert, Typed
  <2>3. agent' \in [Nodes -> AgentOf] BY <1>0, <1>3 DEF StoreCert, Typed, AgentOf, Steps
  <2> QED BY <1>3, <2>2, <2>3 DEF StoreCert, Typed
<1>4. CASE StoreKey(n)
  <2> DEFINE files == Written(disk[n], "key", 0, NoCert, agent[n].key)
  <2>1. files \in FilesOf
    <3>1. agent[n].key \in Int /\ 0 \in Int /\ NoCert \in CertOf BY <1>0, Blank DEF AgentOf
    <3> QED BY <1>0, <3>1, WrittenFiles
  <2> DEFINE pki == IF Loads(NewPKI, files) THEN Load(agent[n].pki, files) ELSE agent[n].pki
  <2>2. agent[n].pki \in PkiOf BY <1>0 DEF AgentOf
  <2>3. pki \in PkiOf BY <2>1, <2>2, LoadedPKI
  <2>4. /\ disk' = [disk EXCEPT ![n] = files]
        /\ agent' = [agent EXCEPT ![n] = [Off EXCEPT !.at = "up", !.pki = pki]]
    BY <1>4 DEF StoreKey
  <2> HIDE DEF files, pki
  <2>5. [Off EXCEPT !.at = "up", !.pki = pki] \in AgentOf BY <2>3, Blank DEF AgentOf, Steps
  <2>6. disk' \in [Nodes -> FilesOf] /\ agent' \in [Nodes -> AgentOf]
    BY <2>1, <2>4, <2>5 DEF Typed
  <2> QED BY <1>4, <2>6 DEF StoreKey, Typed
<1> QED BY <1>1, <1>2, <1>3, <1>4 DEF Boot

LEMMA HandleTyped ==
    ASSUME Typed, NEW c \in calls, Handle(c)
    PROVE  Typed'
<1>1. c \in CallOf /\ calls \subseteq CallOf BY DEF Typed
<1>2. CASE Admit(c)
  <2>1. PICK at \in {"admitted", "rejected"} : Becomes(c, [c EXCEPT !.at = at])
    BY <1>2 DEF Admit
  <2>2. [c EXCEPT !.at = at] \in CallOf BY <1>1 DEF CallOf
  <2>3. calls' \subseteq CallOf BY <1>1, <2>1, <2>2, BecomesTyped
  <2> QED BY <1>2, <2>3 DEF Admit, Typed
<1>3. CASE Issue(c)
  <2>1. /\ agent[CA].pki.ca \in Int /\ c.key \in Int /\ disk[CA].ca \in Int
    BY <1>1 DEF Typed, Nodes, AgentOf, PkiOf, FilesOf, CallOf
  <2>2. [by |-> agent[CA].pki.ca, of |-> c.key] \in CertOf BY <2>1 DEF CertOf
  <2>3. /\ [c EXCEPT !.at = "signed", !.cert = [by |-> agent[CA].pki.ca, of |-> c.key],
                     !.ca = disk[CA].ca] \in CallOf
        /\ [c EXCEPT !.at = "rejected"] \in CallOf
    BY <1>1, <2>1, <2>2 DEF CallOf
  <2>4. \E d \in CallOf : Becomes(c, d)
    <3>1. CASE agent[CA].pki.ca = agent[CA].pki.cakey /\ CAExists(CA)
      BY <1>3, <2>3, <3>1 DEF Issue
    <3>2. CASE ~(agent[CA].pki.ca = agent[CA].pki.cakey /\ CAExists(CA))
      BY <1>3, <2>3, <3>2 DEF Issue
    <3> QED BY <3>1, <3>2
  <2>5. calls' \subseteq CallOf BY <1>1, <2>4, BecomesTyped
  <2> QED BY <1>3, <2>5 DEF Issue, Typed
<1>4. CASE Spend(c)
  <2>1. [c EXCEPT !.at = "answered"] \in CallOf /\ c.token \in 1..MaxTokens
    BY <1>1 DEF CallOf
  <2>2. calls' \subseteq CallOf BY <1>1, <1>4, <2>1, BecomesTyped DEF Spend
  <2>3. token' \in 0..MaxTokens /\ spent' \subseteq 1..MaxTokens
    BY <1>4, <2>1, EnrollmentAssumption DEF Spend, Typed
  <2> QED BY <1>4, <2>2, <2>3 DEF Spend, Typed
<1> QED BY <1>2, <1>3, <1>4 DEF Handle

LEMMA CrashTyped ==
    ASSUME Typed, NEW n \in Nodes, Crash(n)
    PROVE  Typed'
<1> DEFINE at == IF n = CA /\ setup.at # "off" THEN setup.at ELSE agent[n].at
<1>1. PICK files \in (IF at \in {"ca", "cakey", "crt", "key"} THEN {TornFile(disk[n], at)} ELSE {})
                      \cup {disk[n]} :
        disk' = [disk EXCEPT ![n] = files]
  BY DEF Crash
<1> HIDE DEF at
<1>2. files \in FilesOf
  <2>1. disk[n] \in FilesOf BY DEF Typed
  <2>2. at \in {"ca", "cakey", "crt", "key"} => TornFile(disk[n], at) \in FilesOf
    BY <2>1, Blank, WrittenFiles DEF TornFile
  <2> QED BY <1>1, <2>1, <2>2
<1>3. disk' \in [Nodes -> FilesOf] BY <1>1, <1>2 DEF Typed
<1>4. agent' \in [Nodes -> AgentOf] BY Blank DEF Crash, Typed
<1>5. setup' \in [at : {"off", "ca", "cakey", "crt", "key"}, ca : Nat, key : Nat]
  BY Blank DEF Crash, Typed
<1>6. calls' \subseteq CallOf BY DEF Crash, Typed
<1>7. faults' \in 0..MaxFaults BY EnrollmentAssumption DEF Crash, Typed
<1> QED BY <1>3, <1>4, <1>5, <1>6, <1>7 DEF Crash, Typed

LEMMA EnrollTypeStep ==
    ASSUME EnrollTypeOK, [EnrollNext]_enrollVars
    PROVE  EnrollTypeOK'
<1>1. Typed BY TypedTypes
<1> SUFFICES Typed' BY TypedTypes, PTL
<1>2. CASE GenToken
  BY <1>1, <1>2, EnrollmentAssumption DEF GenToken, Typed
<1>3. CASE UNCHANGED enrollVars
  BY <1>1, <1>3 DEF enrollVars, Typed
<1> QED
  BY <1>1, <1>2, <1>3, SetupTyped, StartTyped, BootTyped, HandleTyped, CrashTyped
  DEF EnrollNext

-----------------------------------------------------------------------------
\* The CA's files stay in order as long as the setup and they do not move.
LEMMA HubRests ==
    ASSUME SetupInOrder, setup' = setup,
           disk'[CA].ca = disk[CA].ca, disk'[CA].cakey = disk[CA].cakey,
           disk'[CA].crt = disk[CA].crt, disk'[CA].key = disk[CA].key
    PROVE  SetupInOrder'
BY DEF SetupInOrder

\* A setup begins only where there is no ca.crt, writes file after file, and
\* can stop in the middle of each.
LEMMA SetupKeepsOrder ==
    ASSUME EnrollTypeOK, SetupInOrder, Setup
    PROVE  SetupInOrder'
<1>0. /\ CA \in Nodes /\ disk \in [Nodes -> FilesOf] /\ disk[CA] \in FilesOf
      /\ setup \in [at : {"off", "ca", "cakey", "crt", "key"}, ca : Nat, key : Nat]
      /\ drawn \in Nat
  BY TypedTypes DEF Typed, Nodes
<1>1. CASE RunSetup
  <2>1. /\ disk'[CA].ca = disk[CA].ca /\ disk'[CA].cakey = disk[CA].cakey
        /\ disk'[CA].crt = disk[CA].crt /\ disk'[CA].key = disk[CA].key
    BY <1>0, <1>1 DEF RunSetup, FilesOf
  <2>2. CASE CAExists(CA) BY <1>1, <2>1, <2>2, HubRests DEF RunSetup
  <2>3. CASE ~CAExists(CA)
    <3>1. /\ setup' = [at |-> "ca", ca |-> drawn + 1, key |-> 0]
          /\ disk[CA].ca = Absent
      BY <1>1, <2>3 DEF RunSetup, CAExists
    <3>2. setup'.at = "ca" /\ setup'.ca > 0 BY <1>0, <3>1
    <3>3. disk'[CA].ca = Absent /\ disk'[CA].cakey = Absent /\ disk'[CA].crt = NoCert
            /\ disk'[CA].key = Absent
      BY <2>1, <3>1 DEF SetupInOrder
    <3>4. NoCert.by = 0 BY DEF NoCert, Absent
    <3> QED BY <3>2, <3>3, <3>4 DEF SetupInOrder
  <2> QED BY <2>2, <2>3
<1>2. CASE SetupCA /\ setup.at = "ca"
  <2>1. /\ disk'[CA].ca = setup.ca /\ disk'[CA].crt = disk[CA].crt
        /\ setup'.at = "cakey" /\ setup'.ca = setup.ca
    BY <1>0, <1>2, WrittenFile DEF SetupCA, FilesOf
  <2>2. setup.ca > 0 /\ disk[CA].crt = NoCert /\ NoCert.by = 0
    BY <1>2 DEF SetupInOrder, NoCert, Absent
  <2> QED BY <1>0, <2>1, <2>2 DEF SetupInOrder, Absent
<1>3. CASE SetupCA /\ setup.at = "cakey"
  <2>1. /\ disk'[CA].ca = disk[CA].ca /\ disk'[CA].crt = disk[CA].crt
        /\ setup'.at = "crt" /\ setup'.ca = setup.ca
    BY <1>0, <1>3, WrittenFile DEF SetupCA, FilesOf
  <2>2. disk[CA].ca = setup.ca /\ setup.ca > 0 BY <1>3 DEF SetupInOrder
  <2>3. disk[CA].crt = NoCert /\ NoCert.by = 0 BY <1>3 DEF SetupInOrder, NoCert, Absent
  <2> QED BY <1>0, <2>1, <2>2, <2>3 DEF SetupInOrder, Absent
<1>4. CASE SetupNodeCert
  <2>1. /\ disk'[CA].ca = disk[CA].ca
        /\ disk'[CA].crt = [by |-> disk[CA].ca, of |-> drawn + 1]
        /\ setup'.at = "key" /\ setup'.ca = setup.ca
    BY <1>0, <1>4, WrittenFile DEF SetupNodeCert, FilesOf
  <2>2. disk[CA].ca = setup.ca /\ setup.ca > 0 BY <1>4 DEF SetupNodeCert, SetupInOrder
  <2>3. disk'[CA].crt.by = disk[CA].ca BY <2>1
  <2> QED BY <1>0, <2>1, <2>2, <2>3 DEF SetupInOrder, Absent
<1>5. CASE SetupNodeKey
  <2>1. /\ disk'[CA].ca = disk[CA].ca /\ disk'[CA].crt = disk[CA].crt
        /\ setup'.at = "off"
    BY <1>0, <1>5, WrittenFile DEF SetupNodeKey, FilesOf, NoSetup
  <2>2. disk[CA].ca = setup.ca /\ setup.ca > 0 BY <1>5 DEF SetupNodeKey, SetupInOrder
  <2> QED BY <1>0, <2>1, <2>2 DEF SetupInOrder, Absent
<1> QED BY <1>1, <1>2, <1>3, <1>4, <1>5 DEF Setup, SetupCA

LEMMA CrashKeepsOrder ==
    ASSUME EnrollTypeOK, SetupInOrder, HubNeverAsks, NEW n \in Nodes, Crash(n)
    PROVE  SetupInOrder'
<1>0. /\ CA \in Nodes /\ disk \in [Nodes -> FilesOf] /\ disk[CA] \in FilesOf
      /\ setup \in [at : {"off", "ca", "cakey", "crt", "key"}, ca : Nat, key : Nat]
  BY TypedTypes DEF Typed, Nodes
<1>1. CASE n # CA
  <2>1. disk'[CA] = disk[CA] /\ setup' = setup BY <1>0, <1>1 DEF Crash
  <2> QED BY <2>1, HubRests
<1>2. CASE n = CA
  <2>1. setup'.at = "off" BY <1>2 DEF Crash, NoSetup
  <2>2. \/ disk'[CA] = disk[CA]
        \/ setup.at # "off" /\ disk'[CA] = TornFile(disk[CA], setup.at)
    <3>1. CASE setup.at = "off"
      <4>1. agent[CA].at \notin {"ca", "cakey", "crt", "key"} BY DEF HubNeverAsks
      <4> QED BY <1>0, <1>2, <3>1, <4>1 DEF Crash
    <3>2. CASE setup.at # "off"
      <4>1. \E files \in {TornFile(disk[CA], setup.at), disk[CA]} :
              disk' = [disk EXCEPT ![CA] = files]
        BY <1>0, <1>2, <3>2 DEF Crash
      <4> QED BY <1>0, <3>2, <4>1
    <3> QED BY <3>1, <3>2
  <2>3. CASE disk'[CA] = disk[CA] BY <2>1, <2>3 DEF SetupInOrder
  <2>4. ASSUME setup.at = "ca", disk'[CA] = TornFile(disk[CA], "ca") PROVE SetupInOrder'
    <3>1. disk'[CA].ca = Torn /\ disk'[CA].crt = disk[CA].crt
      BY <1>0, <2>4, WrittenFile DEF TornFile, FilesOf
    <3>2. disk[CA].crt = NoCert /\ NoCert.by = 0 BY <2>4 DEF SetupInOrder, NoCert, Absent
    <3> QED BY <2>1, <3>1, <3>2 DEF SetupInOrder, Torn, Absent
  <2>5. ASSUME setup.at \in {"cakey", "key"}, disk'[CA] = TornFile(disk[CA], setup.at)
        PROVE  SetupInOrder'
    <3>1. disk'[CA].ca = disk[CA].ca /\ disk'[CA].crt = disk[CA].crt
      BY <1>0, <2>5, WrittenFile DEF TornFile, FilesOf
    <3>2. disk[CA].ca = setup.ca /\ setup.ca > 0 BY <2>5 DEF SetupInOrder
    <3> QED BY <1>0, <2>1, <3>1, <3>2 DEF SetupInOrder, Absent
  <2>6. ASSUME setup.at = "crt", disk'[CA] = TornFile(disk[CA], "crt") PROVE SetupInOrder'
    <3>1. disk'[CA].ca = disk[CA].ca /\ disk'[CA].crt = TornCert
      BY <1>0, <2>6, WrittenFile DEF TornFile, FilesOf
    <3>2. disk[CA].ca = setup.ca /\ setup.ca > 0 BY <2>6 DEF SetupInOrder
    <3>3. TornCert.by = -1 BY DEF TornCert, Torn
    <3> QED BY <1>0, <2>1, <3>1, <3>2, <3>3 DEF SetupInOrder, Absent
  <2> QED BY <1>0, <2>2, <2>3, <2>4, <2>5, <2>6
<1> QED BY <1>1, <1>2

LEMMA SetupInOrderStep ==
    ASSUME EnrollTypeOK, SetupInOrder, HubNeverAsks, [EnrollNext]_enrollVars
    PROVE  SetupInOrder' /\ HubNeverAsks'
<1>0. /\ CA \in Nodes /\ disk \in [Nodes -> FilesOf] /\ disk[CA] \in FilesOf
      /\ agent \in [Nodes -> AgentOf] /\ CA \notin Joiners
  BY TypedTypes, EnrollmentAssumption DEF Typed, Nodes
<1>1. CASE Setup
  <2>1. agent' = agent BY <1>1 DEF Setup, RunSetup, SetupCA, SetupNodeCert, SetupNodeKey
  <2> QED BY <1>1, <2>1, SetupKeepsOrder DEF HubNeverAsks
<1>2. ASSUME NEW n \in Nodes, Start(n) PROVE SetupInOrder' /\ HubNeverAsks'
  <2>1. /\ disk'[CA].ca = disk[CA].ca /\ disk'[CA].cakey = disk[CA].cakey
        /\ disk'[CA].crt = disk[CA].crt /\ disk'[CA].key = disk[CA].key /\ setup' = setup
    BY <1>0, <1>2 DEF Start, FilesOf
  <2>2. agent'[CA].at \in {"off", "up"}
    <3>1. CASE n = CA BY <1>0, <1>2, <3>1 DEF Start, Off
    <3>2. CASE n # CA
      <4>1. agent'[CA] = agent[CA] BY <1>0, <1>2, <3>2 DEF Start
      <4> QED BY <4>1 DEF HubNeverAsks
    <3> QED BY <3>1, <3>2
  <2> QED BY <2>1, <2>2, HubRests DEF HubNeverAsks
<1>3. ASSUME NEW n \in Nodes, Boot(n) PROVE SetupInOrder' /\ HubNeverAsks'
  <2>1. n # CA
    BY <1>3 DEF Boot, NoEnrollment, Enrolled, StoreCert, StoreKey, HubNeverAsks
  <2>2. disk'[CA] = disk[CA] /\ agent'[CA] = agent[CA] /\ setup' = setup
    BY <1>0, <1>3, <2>1 DEF Boot, NoEnrollment, Enrolled, StoreCert, StoreKey
  <2> QED BY <2>2, HubRests DEF HubNeverAsks
<1>4. ASSUME NEW n \in Nodes, Crash(n) PROVE SetupInOrder' /\ HubNeverAsks'
  <2>1. agent'[CA].at \in {"off", "up"} BY <1>0, <1>4 DEF Crash, Off, HubNeverAsks
  <2> QED BY <1>4, <2>1, CrashKeepsOrder DEF HubNeverAsks
<1>5. CASE disk' = disk /\ agent' = agent /\ setup' = setup
  BY <1>5, HubRests DEF HubNeverAsks
<1>6. CASE GenToken BY <1>5, <1>6 DEF GenToken
<1>7. ASSUME NEW c \in calls, Handle(c) PROVE SetupInOrder' /\ HubNeverAsks'
  BY <1>5, <1>7 DEF Handle, Admit, Issue, Spend
<1>8. CASE UNCHANGED enrollVars BY <1>5, <1>8 DEF enrollVars
<1> QED BY <1>1, <1>2, <1>3, <1>4, <1>6, <1>7, <1>8 DEF EnrollNext

\* A joiner gets ca.crt and its own pair, and loads nothing without ca.key.
LEMMA JoinersHaveNoKeyStep ==
    ASSUME EnrollTypeOK, JoinersHaveNoKey, [EnrollNext]_enrollVars
    PROVE  JoinersHaveNoKey'
<1>0. /\ disk \in [Nodes -> FilesOf] /\ agent \in [Nodes -> AgentOf] /\ CA \notin Joiners
      /\ CA \in Nodes
  BY TypedTypes, EnrollmentAssumption DEF Typed, Nodes
<1> SUFFICES ASSUME NEW m \in Joiners
             PROVE  disk'[m].cakey = Absent /\ ~agent'[m].pki.ready
  BY DEF JoinersHaveNoKey
<1>1. /\ m \in Nodes /\ m # CA /\ disk[m] \in FilesOf /\ agent[m] \in AgentOf
      /\ disk[m].cakey = Absent /\ ~agent[m].pki.ready
  BY <1>0 DEF JoinersHaveNoKey, Nodes
<1>2. CASE disk'[m] = disk[m] /\ agent'[m] = agent[m] BY <1>1, <1>2
<1>3. CASE Setup
  BY <1>0, <1>1, <1>2, <1>3 DEF Setup, RunSetup, SetupCA, SetupNodeCert, SetupNodeKey
<1>4. CASE GenToken \/ UNCHANGED enrollVars BY <1>2, <1>4 DEF GenToken, enrollVars
<1>5. ASSUME NEW c \in calls, Handle(c)
      PROVE  disk'[m].cakey = Absent /\ ~agent'[m].pki.ready
  BY <1>2, <1>5 DEF Handle, Admit, Issue, Spend
<1>6. ASSUME NEW n \in Nodes, n # m, Start(n) \/ Boot(n) \/ Crash(n)
      PROVE  disk'[m].cakey = Absent /\ ~agent'[m].pki.ready
  BY <1>0, <1>1, <1>2, <1>6
  DEF Start, Boot, NoEnrollment, Enrolled, StoreCert, StoreKey, Crash
<1>7. CASE Start(m)
  <2>1. disk'[m].cakey = Absent BY <1>0, <1>1, <1>7 DEF Start, FilesOf
  <2> DEFINE pki == IF CAExists(m) THEN Load(NewPKI, disk[m]) ELSE NewPKI
  <2>2. ~pki.ready
    <3>1. NewPKI.ready = FALSE BY DEF NewPKI
    <3>2. ~Load(NewPKI, disk[m]).ready BY <1>1, NewlyLoaded DEF Absent
    <3> QED BY <3>1, <3>2
  <2> HIDE DEF pki
  <2>3. agent'[m].pki = pki
    <3>1. agent' = [agent EXCEPT ![m] =
                      [Off EXCEPT !.at = "asking", !.pki = pki, !.key = drawn + 1]]
      BY <1>1, <1>7, Zenon DEF Start, pki
    <3> QED BY <1>0, <1>1, <3>1 DEF Off
  <2> QED BY <2>1, <2>2, <2>3
<1>8. CASE NoEnrollment(m) \/ Enrolled(m)
  <2>1. CASE NoEnrollment(m)
    BY <1>0, <1>1, <2>1 DEF NoEnrollment, AgentOf
  <2>2. CASE Enrolled(m)
    <3>1. PICK c \in calls : agent' = [agent EXCEPT ![m] =
                               [@ EXCEPT !.at = "ca", !.got = c.cert, !.gotca = c.ca]]
      BY <2>2 DEF Enrolled
    <3>2. agent'[m].pki = agent[m].pki BY <1>0, <1>1, <3>1 DEF AgentOf
    <3> QED BY <1>1, <2>2, <3>2 DEF Enrolled
  <2> QED BY <1>8, <2>1, <2>2
<1>9. CASE StoreCert(m)
  <2>1. agent'[m].pki = agent[m].pki BY <1>0, <1>1, <1>9 DEF StoreCert, AgentOf
  <2>2. disk'[m].cakey = disk[m].cakey
    BY <1>0, <1>1, <1>9, WrittenFile DEF StoreCert, FilesOf
  <2> QED BY <1>1, <2>1, <2>2
<1>10. CASE StoreKey(m)
  <2> DEFINE files == Written(disk[m], "key", 0, NoCert, agent[m].key)
  <2>1. files \in FilesOf /\ files.cakey = Absent
    <3>1. agent[m].key \in Int /\ 0 \in Int /\ NoCert \in CertOf BY <1>1, Blank DEF AgentOf
    <3>2. files \in FilesOf BY <1>1, <3>1, WrittenFiles
    <3>3. files.cakey = disk[m].cakey BY <1>1, WrittenFile DEF FilesOf
    <3> QED BY <1>1, <3>2, <3>3
  <2>2. ~Loads(NewPKI, files) BY <2>1, NewlyLoaded DEF Absent
  <2>3. disk' = [disk EXCEPT ![m] = files] /\ agent'[m].pki = agent[m].pki
    BY <1>0, <1>1, <1>10, <2>2 DEF StoreKey, Off
  <2> QED BY <1>0, <1>1, <2>1, <2>3
<1>11. CASE Crash(m)
  <2> DEFINE at == agent[m].at
  <2>1. \E files \in (IF at \in {"ca", "cakey", "crt", "key"} THEN {TornFile(disk[m], at)} ELSE {})
                     \cup {disk[m]} : disk'[m] = files
    BY <1>0, <1>1, <1>11 DEF Crash
  <2>2. at # "cakey" BY <1>1 DEF AgentOf, Steps
  <2>3. disk'[m].cakey = disk[m].cakey
    BY <1>1, <2>1, <2>2, WrittenFile DEF TornFile, FilesOf
  <2>4. agent'[m] = Off BY <1>0, <1>1, <1>11 DEF Crash
  <2> QED BY <1>1, <2>3, <2>4 DEF Off, NewPKI
<1> QED
  BY <1>3, <1>4, <1>5, <1>6, <1>7, <1>8, <1>9, <1>10, <1>11 DEF EnrollNext, Boot

\* The CA's agent loads when it starts; ca.crt stays what it was then.
LEMMA HubHasLoadedStep ==
    ASSUME EnrollTypeOK, SetupInOrder, HubNeverAsks, HubHasLoaded, [EnrollNext]_enrollVars
    PROVE  HubHasLoaded'
<1>0. /\ disk \in [Nodes -> FilesOf] /\ agent \in [Nodes -> AgentOf]
      /\ CA \in Nodes /\ CA \notin Joiners /\ disk[CA] \in FilesOf
      /\ setup.ca \in Nat
  BY TypedTypes, EnrollmentAssumption DEF Typed, Nodes
<1>1. CASE agent'[CA] = agent[CA] /\ disk'[CA].ca = disk[CA].ca BY <1>1 DEF HubHasLoaded
<1>2. CASE Setup
  <2>1. agent' = agent BY <1>2 DEF Setup, RunSetup, SetupCA, SetupNodeCert, SetupNodeKey
  <2>2. CASE SetupCA /\ setup.at = "ca"
    <3>1. disk[CA].ca = 0 BY <2>2 DEF SetupInOrder, Absent
    <3>2. agent[CA].pki.ca = 0 /\ ~agent[CA].pki.ready BY <3>1 DEF HubHasLoaded
    <3> QED BY <2>1, <3>2 DEF HubHasLoaded
  <2>3. CASE ~(SetupCA /\ setup.at = "ca")
    <3>1. disk'[CA].ca = disk[CA].ca
      BY <1>0, <1>2, <2>3, WrittenFile
      DEF Setup, RunSetup, SetupCA, SetupNodeCert, SetupNodeKey, FilesOf
    <3> QED BY <1>1, <2>1, <3>1
  <2> QED BY <2>2, <2>3
<1>3. CASE Start(CA)
  <2> DEFINE pki == IF CAExists(CA) THEN Load(NewPKI, disk[CA]) ELSE NewPKI
  <2>1. disk'[CA].ca = disk[CA].ca BY <1>0, <1>3 DEF Start, FilesOf
  <2>2. agent'[CA].pki = pki BY <1>0, <1>3 DEF Start, Off
  <2>3. NewPKI.ca = 0 /\ NewPKI.ready = FALSE BY DEF NewPKI
  <2>4. pki.ca # 0 => pki.ca = disk[CA].ca BY <1>0, <2>3, NewlyLoaded
  <2>5. ASSUME pki.ready PROVE pki.ca # 0 /\ pki.cert.by = pki.pool
    <3>1. pki = Load(NewPKI, disk[CA]) BY <2>3, <2>5
    <3>2. /\ disk[CA].ca > 0 /\ disk[CA].crt.by > 0 /\ pki.ca = disk[CA].ca
          /\ pki.cert = disk[CA].crt /\ pki.pool = disk[CA].ca
      BY <1>0, <2>5, <3>1, NewlyLoaded
    <3> QED BY <3>2 DEF SetupInOrder
  <2> HIDE DEF pki
  <2> QED BY <2>1, <2>2, <2>4, <2>5 DEF HubHasLoaded
<1>4. ASSUME NEW n \in Nodes, n # CA, Start(n) \/ Boot(n) \/ Crash(n) PROVE HubHasLoaded'
  BY <1>0, <1>1, <1>4
  DEF Start, Boot, NoEnrollment, Enrolled, StoreCert, StoreKey, Crash
<1>5. ~Boot(CA)
  BY DEF Boot, NoEnrollment, Enrolled, StoreCert, StoreKey, HubNeverAsks
<1>6. CASE Crash(CA)
  BY <1>0, <1>6 DEF Crash, Off, NewPKI, HubHasLoaded
<1>7. CASE GenToken \/ UNCHANGED enrollVars BY <1>1, <1>7 DEF GenToken, enrollVars
<1>8. ASSUME NEW c \in calls, Handle(c) PROVE HubHasLoaded'
  BY <1>1, <1>8 DEF Handle, Admit, Issue, Spend
<1> QED BY <1>2, <1>3, <1>4, <1>5, <1>6, <1>7, <1>8 DEF EnrollNext

\* A request goes on: the others stay as they are.
LEMMA OnlyBecomes ==
    ASSUME NEW c \in calls, NEW d, Becomes(c, d), NEW x \in calls'
    PROVE  x \in calls \/ x = d
BY DEF Becomes

\* What each step of the handler makes of a request.
LEMMA Handled ==
    ASSUME EnrollTypeOK, NEW c \in calls
    PROVE  /\ Admit(c) => \E d : /\ Becomes(c, d) /\ d.token = c.token
                                 /\ \/ d.at = "rejected"
                                    \/ /\ d.at = "admitted" /\ c.token = token
                                       /\ agent[CA].pki.ready
           /\ Issue(c) => \E d : /\ Becomes(c, d) /\ d.token = c.token
                                 /\ \/ d.at = "rejected"
                                    \/ /\ d.at = "signed" /\ d.ca = disk[CA].ca
                                       /\ d.cert.by = agent[CA].pki.ca
           /\ Spend(c) => \E d : /\ Becomes(c, d) /\ d.token = c.token
                                 /\ d.at = "answered" /\ d.cert = c.cert /\ d.ca = c.ca
<1>0. c \in CallOf BY TypedTypes DEF Typed
<1>1. ASSUME Admit(c)
      PROVE  \E d : /\ Becomes(c, d) /\ d.token = c.token
                    /\ \/ d.at = "rejected"
                       \/ d.at = "admitted" /\ c.token = token /\ agent[CA].pki.ready
  <2>1. PICK at \in {"admitted", "rejected"} :
          /\ at = "admitted" => c.token = token /\ agent[CA].pki.ready
          /\ Becomes(c, [c EXCEPT !.at = at])
    BY <1>1 DEF Admit
  <2>2. [c EXCEPT !.at = at].at = at /\ [c EXCEPT !.at = at].token = c.token
    BY <1>0 DEF CallOf
  <2> QED BY <2>1, <2>2
<1>2. ASSUME Issue(c)
      PROVE  \E d : /\ Becomes(c, d) /\ d.token = c.token
                    /\ \/ d.at = "rejected"
                       \/ /\ d.at = "signed" /\ d.ca = disk[CA].ca
                          /\ d.cert.by = agent[CA].pki.ca
  <2> DEFINE d == [c EXCEPT !.at = "signed",
                            !.cert = [by |-> agent[CA].pki.ca, of |-> c.key],
                            !.ca = disk[CA].ca]
             e == [c EXCEPT !.at = "rejected"]
  <2>1. /\ d.token = c.token /\ d.at = "signed" /\ d.ca = disk[CA].ca
        /\ d.cert = [by |-> agent[CA].pki.ca, of |-> c.key]
        /\ e.token = c.token /\ e.at = "rejected"
    BY <1>0 DEF CallOf
  <2>2. CASE agent[CA].pki.ca = agent[CA].pki.cakey /\ CAExists(CA)
    <3>1. Becomes(c, d) BY <1>2, <2>2 DEF Issue
    <3> HIDE DEF d
    <3> QED BY <2>1, <3>1
  <2>3. CASE ~(agent[CA].pki.ca = agent[CA].pki.cakey /\ CAExists(CA))
    <3>1. Becomes(c, e) BY <1>2, <2>3 DEF Issue
    <3> HIDE DEF e
    <3> QED BY <2>1, <3>1
  <2> QED BY <2>2, <2>3
<1>3. ASSUME Spend(c)
      PROVE  \E d : /\ Becomes(c, d) /\ d.token = c.token
                    /\ d.at = "answered" /\ d.cert = c.cert /\ d.ca = c.ca
  <2> DEFINE d == [c EXCEPT !.at = "answered"]
  <2>1. d.token = c.token /\ d.at = "answered" /\ d.cert = c.cert /\ d.ca = c.ca
    BY <1>0 DEF CallOf
  <2>2. Becomes(c, d) BY <1>3 DEF Spend
  <2> HIDE DEF d
  <2> QED BY <2>1, <2>2
<1> QED BY <1>1, <1>2, <1>3

\* The CA serves a request with what it had loaded when the request was checked.
LEMMA HubServesStep ==
    ASSUME EnrollTypeOK, HubNeverAsks, HubServes, [EnrollNext]_enrollVars
    PROVE  HubServes'
<1>0. /\ agent \in [Nodes -> AgentOf] /\ CA \in Nodes /\ calls \subseteq CallOf
  BY TypedTypes DEF Typed, Nodes
<1> DEFINE Past == {"admitted", "signed", "answered"}
<1>1. CASE agent'[CA] = agent[CA] /\ \A x \in calls' : x.at \in Past => x \in calls
  BY <1>1 DEF HubServes
<1>2. CASE Setup \/ GenToken \/ UNCHANGED enrollVars
  BY <1>1, <1>2
  DEF Setup, RunSetup, SetupCA, SetupNodeCert, SetupNodeKey, GenToken, enrollVars
<1>3. CASE Start(CA)
  <2>1. /\ \A x \in calls : x.at \notin Past
        /\ CA \notin Joiners
    BY <1>3, EnrollmentAssumption DEF Start, HubServes
  <2>2. calls' = calls BY <1>3, <2>1 DEF Start
  <2> QED BY <2>1, <2>2 DEF HubServes
<1>4. ASSUME NEW n \in Nodes, n # CA, Start(n) \/ Boot(n) \/ Crash(n) PROVE HubServes'
  <2>1. agent'[CA] = agent[CA]
    BY <1>0, <1>4 DEF Start, Boot, NoEnrollment, Enrolled, StoreCert, StoreKey, Crash
  <2>2. \A x \in calls' : x.at \in Past => x \in calls
    <3>1. CASE Start(n) BY <3>1 DEF Start
    <3>2. CASE Boot(n) \/ Crash(n)
      BY <1>4, <3>2 DEF Boot, NoEnrollment, Enrolled, StoreCert, StoreKey, Crash
    <3> QED BY <1>4, <3>1, <3>2
  <2> QED BY <1>1, <2>1, <2>2
<1>5. ~Boot(CA)
  BY DEF Boot, NoEnrollment, Enrolled, StoreCert, StoreKey, HubNeverAsks
<1>6. CASE Crash(CA) BY <1>6 DEF Crash, HubServes
<1>7. ASSUME NEW c \in calls, Handle(c) PROVE HubServes'
  <2>1. agent' = agent BY <1>7 DEF Handle, Admit, Issue, Spend
  <2>2. CASE Admit(c)
    <3>1. PICK d : Becomes(c, d) /\ (d.at = "rejected" \/ agent[CA].pki.ready)
      BY <2>2, Handled
    <3>2. agent[CA].at = "up" BY <2>2 DEF Admit
    <3>3. \A x \in calls' : x \in calls \/ x = d BY <3>1, OnlyBecomes
    <3> QED BY <2>1, <3>1, <3>2, <3>3 DEF HubServes
  <2>3. CASE Issue(c) \/ Spend(c)
    <3>1. agent[CA].at = "up" /\ agent[CA].pki.ready
      BY <2>3 DEF Issue, Spend, HubServes
    <3> QED BY <2>1, <3>1 DEF HubServes
  <2> QED BY <1>7, <2>2, <2>3 DEF Handle
<1> QED BY <1>2, <1>3, <1>4, <1>5, <1>6, <1>7 DEF EnrollNext

\* The certificate of an answer and the CA in it fit.
LEMMA AnswersVerifyStep ==
    ASSUME EnrollTypeOK, HubHasLoaded, HubServes, AnswersVerify, [EnrollNext]_enrollVars
    PROVE  AnswersVerify'
<1>1. CASE \A x \in calls' : x.at \in {"signed", "answered"} => x \in calls
  BY <1>1 DEF AnswersVerify
<1>2. CASE Setup \/ GenToken \/ UNCHANGED enrollVars
  BY <1>1, <1>2
  DEF Setup, RunSetup, SetupCA, SetupNodeCert, SetupNodeKey, GenToken, enrollVars
<1>3. ASSUME NEW n \in Nodes, Start(n) PROVE AnswersVerify' BY <1>1, <1>3 DEF Start
<1>4. ASSUME NEW n \in Nodes, Boot(n) \/ Crash(n) PROVE AnswersVerify'
  BY <1>1, <1>4 DEF Boot, NoEnrollment, Enrolled, StoreCert, StoreKey, Crash
<1>5. ASSUME NEW c \in calls, Handle(c) PROVE AnswersVerify'
  <2>1. CASE Admit(c)
    <3>1. PICK d : Becomes(c, d) /\ d.at \in {"admitted", "rejected"} BY <2>1, Handled
    <3>2. \A x \in calls' : x \in calls \/ x = d BY <3>1, OnlyBecomes
    <3> QED BY <1>1, <3>1, <3>2
  <2>2. CASE Issue(c)
    <3>1. agent[CA].pki.ca = disk[CA].ca BY <2>2 DEF Issue, HubServes, HubHasLoaded
    <3>2. PICK d : /\ Becomes(c, d)
                   /\ d.at = "rejected" \/ d.cert.by = d.ca
      BY <2>2, <3>1, Handled
    <3>3. \A x \in calls' : x \in calls \/ x = d BY <3>2, OnlyBecomes
    <3> QED BY <3>2, <3>3 DEF AnswersVerify
  <2>3. CASE Spend(c)
    <3>1. PICK d : Becomes(c, d) /\ d.cert = c.cert /\ d.ca = c.ca BY <2>3, Handled
    <3>2. c.cert.by = c.ca BY <2>3 DEF Spend, AnswersVerify
    <3>3. \A x \in calls' : x \in calls \/ x = d BY <3>1, OnlyBecomes
    <3> QED BY <3>1, <3>2, <3>3 DEF AnswersVerify
  <2> QED BY <1>5, <2>1, <2>2, <2>3 DEF Handle
<1> QED BY <1>2, <1>3, <1>4, <1>5 DEF EnrollNext

\* A token is spent when the setting is cleared; a new one has a new number.
LEMMA TokenIsFreshStep ==
    ASSUME EnrollTypeOK, TokenIsFresh, [EnrollNext]_enrollVars
    PROVE  TokenIsFresh'
<1>0. /\ calls \subseteq CallOf /\ tokens \in Nat /\ token \in Nat
  BY TypedTypes, EnrollmentAssumption DEF Typed
<1>1. CASE /\ token' = token /\ tokens' = tokens /\ spent' = spent
           /\ \A x \in calls' : x.token \in 1..tokens
  BY <1>1 DEF TokenIsFresh
<1>2. CASE Setup \/ UNCHANGED enrollVars
  BY <1>1, <1>2
  DEF Setup, RunSetup, SetupCA, SetupNodeCert, SetupNodeKey, enrollVars, TokenIsFresh
<1>3. CASE GenToken
  <2>1. tokens' = tokens + 1 /\ token' = tokens + 1 /\ calls' = calls /\ spent' = spent
    BY <1>3 DEF GenToken
  <2>2. tokens + 1 \notin spent /\ 1..tokens \subseteq 1..(tokens + 1) /\ tokens + 1 \in 0..(tokens + 1)
    BY <1>0 DEF TokenIsFresh
  <2> QED BY <1>0, <2>1, <2>2 DEF TokenIsFresh
<1>4. ASSUME NEW n \in Nodes, Start(n) PROVE TokenIsFresh'
  <2>1. \A x \in calls' : x \in calls \/ x.token \in 1..tokens BY <1>4 DEF Start
  <2> QED BY <1>1, <1>4, <2>1 DEF Start, TokenIsFresh
<1>5. ASSUME NEW n \in Nodes, Boot(n) \/ Crash(n) PROVE TokenIsFresh'
  <2>1. /\ calls' \subseteq calls
        /\ token' = token /\ tokens' = tokens /\ spent' = spent
    BY <1>5 DEF Boot, NoEnrollment, Enrolled, StoreCert, StoreKey, Crash
  <2> QED BY <1>1, <2>1 DEF TokenIsFresh
<1>6. ASSUME NEW c \in calls, Handle(c) PROVE TokenIsFresh'
  <2>0. c \in CallOf /\ c.token \in 1..tokens BY <1>0 DEF TokenIsFresh
  <2>1. \A x \in calls' : x.token \in 1..tokens
    <3>1. PICK d : Becomes(c, d) /\ d.token = c.token BY <1>6, Handled DEF Handle
    <3>2. \A x \in calls' : x \in calls \/ x = d BY <3>1, OnlyBecomes
    <3> QED BY <2>0, <3>1, <3>2 DEF TokenIsFresh
  <2>2. CASE Admit(c) \/ Issue(c)
    BY <1>1, <2>1, <2>2 DEF Admit, Issue
  <2>3. CASE Spend(c)
    <3>1. tokens' = tokens BY <2>3 DEF Spend
    <3>2. spent' \subseteq 1..tokens BY <2>0, <2>3 DEF Spend, TokenIsFresh
    <3>3. 0 \notin spent' BY <3>2
    <3>4. token' = 0 \/ (token' = token /\ spent' = spent) BY <2>3 DEF Spend
    <3>5. token' \in 0..tokens /\ token' \notin spent'
      BY <1>0, <3>3, <3>4 DEF TokenIsFresh
    <3> QED BY <2>1, <3>1, <3>2, <3>5 DEF TokenIsFresh
  <2> QED BY <1>6, <2>2, <2>3 DEF Handle
<1> QED BY <1>2, <1>3, <1>4, <1>5, <1>6 DEF EnrollNext

LEMMA EnrollStart == EnrollInit => EnrollInv
<1> SUFFICES ASSUME EnrollInit PROVE EnrollInv OBVIOUS
<1>1. /\ \A n \in Nodes : disk[n] = NoFiles /\ agent[n] = Off
      /\ CA \in Nodes /\ Joiners \subseteq Nodes
  BY DEF EnrollInit, Nodes
<1>2. EnrollTypeOK
  <2>1. Typed BY Blank, EnrollmentAssumption DEF EnrollInit, Typed
  <2> QED BY <2>1, TypedTypes
<1>3. SetupInOrder BY <1>1 DEF EnrollInit, SetupInOrder, NoFiles, NoSetup, NoCert, Absent
<1>4. HubNeverAsks /\ JoinersHaveNoKey /\ HubHasLoaded
  BY <1>1 DEF HubNeverAsks, JoinersHaveNoKey, HubHasLoaded, NoFiles, Off, NewPKI
<1>5. HubServes /\ AnswersVerify /\ TokenIsFresh
  BY DEF EnrollInit, HubServes, AnswersVerify, TokenIsFresh
<1> QED BY <1>2, <1>3, <1>4, <1>5 DEF EnrollInv

LEMMA EnrollStep == EnrollInv /\ [EnrollNext]_enrollVars => EnrollInv'
BY EnrollTypeStep, SetupInOrderStep, JoinersHaveNoKeyStep, HubHasLoadedStep, HubServesStep,
   AnswersVerifyStep, TokenIsFreshStep DEF EnrollInv

LEMMA EnrollInvariant == EnrollSpec => []EnrollInv
BY EnrollStart, EnrollStep, PTL DEF EnrollSpec

\* The variables keep their types: what is loaded is never torn.
THEOREM EnrollTypeCorrect == EnrollSpec => []EnrollTypeOK
<1>1. EnrollInv => EnrollTypeOK BY DEF EnrollInv
<1> QED BY <1>1, EnrollInvariant, PTL

\* An agent that turns TLS on presents a certificate its CA file verifies,
\* whatever crashes of the setup and of enrollments left on disk
\* (ReadyVerifies; pki.go:40-44, 140-164, 235-267).
THEOREM ReadyCorrect == EnrollSpec => []ReadyVerifies
<1>1. EnrollInv => ReadyVerifies
  BY DEF EnrollInv, JoinersHaveNoKey, HubHasLoaded, ReadyVerifies, Nodes
<1> QED BY <1>1, EnrollInvariant, PTL

\* The certificate in an answer verifies under the CA in the same answer
\* (AnswersVerify; handlers.go:282-311, pki.go:190-226).
THEOREM AnswersCorrect == EnrollSpec => []AnswersVerify
<1>1. EnrollInv => AnswersVerify BY DEF EnrollInv
<1> QED BY <1>1, EnrollInvariant, PTL

\* Nobody who is checked later gets through with a token somebody was answered
\* for (SpentTokenIsRefused; handlers.go:253-311).
THEOREM SpentCorrect == EnrollSpec => SpentTokenIsRefused
<1>1. ASSUME EnrollInv, [EnrollNext]_enrollVars
      PROVE  [\A c \in calls' \ calls : c.at = "admitted" => c.token \notin spent]_enrollVars
  <2> SUFFICES ASSUME EnrollNext, NEW x \in calls' \ calls, x.at = "admitted"
               PROVE  x.token \notin spent
    BY <1>1
  <2>1. CASE Setup \/ GenToken
    BY <2>1 DEF Setup, RunSetup, SetupCA, SetupNodeCert, SetupNodeKey, GenToken
  <2>2. ASSUME NEW n \in Nodes, Start(n) PROVE x.token \notin spent BY <2>2 DEF Start
  <2>3. ASSUME NEW n \in Nodes, Boot(n) \/ Crash(n) PROVE x.token \notin spent
    BY <2>3 DEF Boot, NoEnrollment, Enrolled, StoreCert, StoreKey, Crash
  <2>4. ASSUME NEW c \in calls, Handle(c) PROVE x.token \notin spent
    <3>1. PICK d : Becomes(c, d) /\ d.token = c.token
                   /\ (d.at = "admitted" => c.token = token)
      <4>1. EnrollTypeOK BY <1>1 DEF EnrollInv
      <4> QED BY <2>4, <4>1, Handled DEF Handle
    <3>2. x = d BY <3>1, OnlyBecomes
    <3> QED BY <1>1, <3>1, <3>2 DEF EnrollInv, TokenIsFresh
  <2> QED BY <2>1, <2>2, <2>3, <2>4 DEF EnrollNext
<1> QED BY <1>1, EnrollInvariant, PTL DEF EnrollSpec, SpentTokenIsRefused

\* Load needs ca.key, which enrollment does not deliver: a node that joined
\* never has a PKI that is ready, and its TLS stays off (pki.go:140-144,
\* run.go:815-838).
THEOREM JoinersStayWithoutTLS == EnrollSpec => [](\A n \in Joiners : ~agent[n].pki.ready)
<1>1. EnrollInv => \A n \in Joiners : ~agent[n].pki.ready BY DEF EnrollInv, JoinersHaveNoKey
<1> QED BY <1>1, EnrollInvariant, PTL
=============================================================================
