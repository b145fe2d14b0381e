----------------------------- MODULE Enrollment -----------------------------
(***************************************************************************)
(* Certificates of the mesh: `setup --gen-ca`, `setup --gen-token`, the    *)
(* enrollment of a new node over HTTP, and what the PKI of an agent finds  *)
(* on disk when it starts.                                                 *)
(*                                                                         *)
(* A key pair is a number, drawn when it is generated.  ca.crt and ca.key  *)
(* hold the number of a CA, node.key that of a node key, and node.crt says *)
(* by which CA which key was signed.  A file is written after it was       *)
(* truncated, so a crash can leave it Torn: it exists and does not parse.  *)
(***************************************************************************)
EXTENDS Integers, FiniteSets

CONSTANTS CA,          \* the node on which `setup --gen-ca` is run
          Joiners,     \* nodes that start with --enroll-url and --enroll-token
          MaxSetups,   \* how often `setup --gen-ca` is run
          MaxTokens,   \* how often `setup --gen-token` is run
          MaxFaults    \* crashes and answers that come too late

ASSUME EnrollmentAssumption ==
    /\ CA \notin Joiners
    /\ MaxSetups \in Nat
    /\ MaxTokens \in Nat
    /\ MaxFaults \in Nat

VARIABLES disk,     \* the files of each node's data directory
          agent,    \* the agent of each node: its step and its PKI in memory
          setup,    \* the running `setup --gen-ca`
          auth,     \* does the UI of the CA protect the routes (--ui, no --no-auth)?
          token,    \* setting enroll-token in the CA's database, 0 when cleared
          calls,    \* enrollment requests from their sending to their answer
          spent,    \* tokens some request has been answered for
          tokens, drawn, setups, faults   \* numbers used so far

enrollVars == <<disk, agent, setup, auth, token, calls, spent, tokens, drawn, setups, faults>>

Nodes  == Joiners \cup {CA}
Absent == 0
Torn   == -1
NoCert   == [by |-> Absent, of |-> Absent]
TornCert == [by |-> Torn, of |-> Torn]

-----------------------------------------------------------------------------
(* The PKI object                                                          *)

\* What a new PKI holds: nothing is loaded.
NewPKI == [ca |-> 0, cakey |-> 0, cert |-> NoCert, pool |-> 0, ready |-> FALSE]

\* CAExists: ca.crt is there, whatever is in it.
CAExists(n) == disk[n].ca # Absent

\* Mutant: takes a file that does not parse.
LoadCAUnparsed(p, files) ==
    IF p.ca # 0 /\ p.cakey # 0 THEN p
    ELSE IF files.ca = Absent THEN [p EXCEPT !.ca = 0]
    ELSE [p EXCEPT !.ca = files.ca, !.cakey = IF files.cakey > 0 THEN files.cakey ELSE 0]

\* loadCA: what is in memory is kept once certificate and key are loaded; a
\* certificate without its key is remembered although the call fails.
LoadCA(p, files) ==
    IF p.ca # 0 /\ p.cakey # 0 THEN p
    ELSE IF files.ca <= 0 THEN [p EXCEPT !.ca = 0]
    ELSE [p EXCEPT !.ca = files.ca, !.cakey = IF files.cakey > 0 THEN files.cakey ELSE 0]

\* tls.LoadX509KeyPair: both files parse and the certificate is for the key.
KeyPairLoads(files) == files.crt.by > 0 /\ files.crt.of = files.key

\* Load: the CA with its key, then the node's pair.  Nothing compares the
\* pair, or the CA's key, with ca.crt.
Load(p, files) ==
    LET q == LoadCA(p, files) IN
    IF q.ca # 0 /\ q.cakey # 0 /\ KeyPairLoads(files)
    THEN [q EXCEPT !.cert = files.crt, !.pool = files.ca, !.ready = TRUE]
    ELSE q

\* Did this Load succeed?
Loads(p, files) == LET q == LoadCA(p, files) IN q.ca # 0 /\ q.cakey # 0 /\ KeyPairLoads(files)

-----------------------------------------------------------------------------
NoFiles == [id |-> FALSE, ca |-> Absent, cakey |-> Absent, crt |-> NoCert, key |-> Absent]
Off     == [at |-> "off", pki |-> NewPKI, key |-> 0, got |-> NoCert, gotca |-> 0]
NoSetup == [at |-> "off", ca |-> 0, key |-> 0]

EnrollInit ==
    /\ disk = [n \in Nodes |-> NoFiles]
    /\ agent = [n \in Nodes |-> Off]
    /\ setup = NoSetup
    /\ auth \in BOOLEAN
    /\ token = 0 /\ calls = {} /\ spent = {}
    /\ tokens = 0 /\ drawn = 0 /\ setups = 0 /\ faults = 0

\* The four files in the order both writers have: what file `at` holds afterwards.
Written(files, at, ca, cert, key) ==
    CASE at = "ca"    -> [files EXCEPT !.ca = ca]
      [] at = "cakey" -> [files EXCEPT !.cakey = ca]
      [] at = "crt"   -> [files EXCEPT !.crt = cert]
      [] at = "key"   -> [files EXCEPT !.key = key]

-----------------------------------------------------------------------------
(* setup --gen-ca on the CA's node                                         *)

\* Mutant: setupCA without its look at ca.crt.
RunSetupAnyway ==
    /\ setup.at = "off"
    /\ setups < MaxSetups
    /\ setups' = setups + 1
    /\ disk' = [disk EXCEPT ![CA].id = TRUE]
    /\ drawn' = drawn + 1
    /\ setup' = [at |-> "ca", ca |-> drawn + 1, key |-> 0]
    /\ UNCHANGED <<agent, auth, token, calls, spent, tokens, faults>>

\* runSetup writes the node id if there is none; setupCA refuses when ca.crt
\* exists; GenerateCA makes a key.
RunSetup ==
    /\ setup.at = "off"
    /\ setups < MaxSetups
    /\ setups' = setups + 1
    /\ disk' = [disk EXCEPT ![CA].id = TRUE]
    /\ IF CAExists(CA)
       THEN UNCHANGED <<setup, drawn>>
       ELSE /\ drawn' = drawn + 1
            /\ setup' = [at |-> "ca", ca |-> drawn + 1, key |-> 0]
    /\ UNCHANGED <<agent, auth, token, calls, spent, tokens, faults>>

\* ca.crt, then ca.key.
SetupCA ==
    /\ setup.at \in {"ca", "cakey"}
    /\ disk' = [disk EXCEPT ![CA] = Written(@, setup.at, setup.ca, NoCert, 0)]
    /\ setup' = [setup EXCEPT !.at = IF @ = "ca" THEN "cakey" ELSE "crt"]
    /\ UNCHANGED <<agent, auth, token, calls, spent, tokens, drawn, setups, faults>>

\* GenerateNodeCert: signed by the CA that is on disk by now; node.crt first.
SetupNodeCert ==
    /\ setup.at = "crt"
    /\ drawn' = drawn + 1
    /\ setup' = [setup EXCEPT !.at = "key", !.key = drawn + 1]
    /\ disk' = [disk EXCEPT ![CA] =
                  Written(@, "crt", 0, [by |-> disk[CA].ca, of |-> drawn + 1], 0)]
    /\ UNCHANGED <<agent, auth, token, calls, spent, tokens, setups, faults>>

SetupNodeKey ==
    /\ setup.at = "key"
    /\ disk' = [disk EXCEPT ![CA] = Written(@, "key", 0, NoCert, setup.key)]
    /\ setup' = NoSetup
    /\ UNCHANGED <<agent, auth, token, calls, spent, tokens, drawn, setups, faults>>

\* setup --gen-token: a process of its own writes the setting, whether an
\* agent is running or not.
GenToken ==
    /\ tokens < MaxTokens
    /\ tokens' = tokens + 1
    /\ token' = tokens + 1
    /\ UNCHANGED <<disk, agent, setup, auth, calls, spent, drawn, setups, faults>>

-----------------------------------------------------------------------------
(* The start of an agent                                                   *)

\* loadOrCreateNodeID; then the certificates, if there is a ca.crt.  With the
\* two flags the agent enrolls before it serves, with the token it was given.
Start(n) ==
    /\ agent[n].at = "off"
    /\ disk' = [disk EXCEPT ![n].id = TRUE]
    /\ LET pki == IF CAExists(n) THEN Load(NewPKI, disk[n]) ELSE NewPKI IN
       \/ /\ n = CA
          /\ agent' = [agent EXCEPT ![n] = [Off EXCEPT !.at = "up", !.pki = pki]]
          /\ UNCHANGED <<calls, drawn>>
       \/ /\ n \in Joiners
          /\ \E t \in 1..tokens :
               /\ drawn' = drawn + 1
               /\ calls' = calls \cup {[from |-> n, token |-> t, key |-> drawn + 1,
                                        at |-> "sent", cert |-> NoCert, ca |-> 0]}
               /\ agent' = [agent EXCEPT ![n] = [Off EXCEPT !.at = "asking",
                                                 !.pki = pki, !.key = drawn + 1]]
    /\ UNCHANGED <<setup, auth, token, spent, tokens, setups, faults>>

\* Mutant: an HTTP client without a timeout.
NoEnrollmentUntimed(n) ==
    /\ agent[n].at = "asking"
    /\ \E c \in calls : c.key = agent[n].key /\ c.at = "rejected"
    /\ calls' = {c \in calls : c.key # agent[n].key}
    /\ agent' = [agent EXCEPT ![n] = [@ EXCEPT !.at = "up", !.key = 0]]
    /\ UNCHANGED <<disk, setup, auth, token, spent, tokens, drawn, setups, faults>>

\* The answer is an error, or there is none (the client's timeout is 15 s, or
\* the CA is gone): the agent serves with what it had.
NoEnrollment(n) ==
    /\ agent[n].at = "asking"
    /\ \/ /\ \E c \in calls : c.key = agent[n].key /\ c.at = "rejected"
          /\ calls' = {c \in calls : c.key # agent[n].key}
          /\ UNCHANGED faults
       \/ /\ ~\E c \in calls : c.key = agent[n].key /\ c.at \in {"rejected", "answered"}
          /\ UNCHANGED <<calls, faults>>
       \/ /\ faults < MaxFaults
          /\ \E c \in calls : c.key = agent[n].key /\ c.at = "answered"
          /\ faults' = faults + 1
          /\ calls' = {c \in calls : c.key # agent[n].key}
    /\ agent' = [agent EXCEPT ![n] = [@ EXCEPT !.at = "up", !.key = 0]]
    /\ UNCHANGED <<disk, setup, auth, token, spent, tokens, drawn, setups>>

\* The answer arrives; the files are written next.
Enrolled(n) ==
    /\ agent[n].at = "asking"
    /\ \E c \in calls :
         /\ c.key = agent[n].key /\ c.at = "answered"
         /\ calls' = calls \ {c}
         /\ agent' = [agent EXCEPT ![n] = [@ EXCEPT !.at = "ca", !.got = c.cert, !.gotca = c.ca]]
    /\ UNCHANGED <<disk, setup, auth, token, spent, tokens, drawn, setups, faults>>

\* ca.crt, then node.crt; ca.key stays with the CA.
StoreCert(n) ==
    /\ agent[n].at \in {"ca", "crt"}
    /\ disk' = [disk EXCEPT ![n] = Written(@, agent[n].at, agent[n].gotca, agent[n].got, 0)]
    /\ agent' = [agent EXCEPT ![n].at = IF @ = "ca" THEN "crt" ELSE "key"]
    /\ UNCHANGED <<setup, auth, token, calls, spent, tokens, drawn, setups, faults>>

\* node.key, and the check of enrollWithCA: a PKI of its own must load
\* everything, or the enrollment counts as failed.  Only then does the
\* agent's PKI load it.
StoreKey(n) ==
    /\ agent[n].at = "key"
    /\ LET files == Written(disk[n], "key", 0, NoCert, agent[n].key) IN
       /\ disk' = [disk EXCEPT ![n] = files]
       /\ agent' = [agent EXCEPT ![n] = [Off EXCEPT !.at = "up",
                      !.pki = IF Loads(NewPKI, files) THEN Load(agent[n].pki, files)
                              ELSE agent[n].pki]]
    /\ UNCHANGED <<setup, auth, token, calls, spent, tokens, drawn, setups, faults>>

-----------------------------------------------------------------------------
(* handleEnroll on the CA                                                  *)

\* A client that gave up or died closes its connection, which cancels the
\* context the handler hands to the database.
Gone(c) == agent[c.from].key # c.key

\* The handler's next step, or its end, of which nobody hears if the client is gone.
Becomes(c, d) ==
    calls' = (calls \ {c}) \cup (IF Gone(c) /\ d.at \in {"rejected", "answered"} THEN {} ELSE {d})

\* Only an agent whose PKI was loaded serves as a CA (SetPKI), and the UI's
\* middleware does not count this route among the mesh routes.  The token is
\* read and compared.
Admit(c) ==
    /\ c \in calls /\ c.at = "sent"
    /\ agent[CA].at = "up"
    /\ LET ok == ~auth /\ agent[CA].pki.ready /\ CAExists(CA) /\ token # 0 /\ c.token = token IN
       \E at \in (IF ok THEN {"admitted"} ELSE {"rejected"}) \cup (IF Gone(c) THEN {"rejected"} ELSE {}) :
          Becomes(c, [c EXCEPT !.at = at])
    /\ UNCHANGED <<disk, agent, setup, auth, token, spent, tokens, drawn, setups, faults>>

\* SignCSR with the CA in memory (CreateCertificate refuses a key that is not
\* the certificate's), and ca.crt as it is on disk now.
Issue(c) ==
    /\ c \in calls /\ c.at = "admitted"
    /\ LET pki == agent[CA].pki IN
       Becomes(c, IF pki.ca = pki.cakey /\ CAExists(CA)
                  THEN [c EXCEPT !.at = "signed", !.cert = [by |-> pki.ca, of |-> c.key],
                                 !.ca = disk[CA].ca]
                  ELSE [c EXCEPT !.at = "rejected"])
    /\ UNCHANGED <<disk, agent, setup, auth, token, spent, tokens, drawn, setups, faults>>

\* Mutant: the token is not cleared.
SpendKeepsToken(c) ==
    /\ c \in calls /\ c.at = "signed"
    /\ spent' = IF Gone(c) THEN spent ELSE spent \cup {c.token}
    /\ Becomes(c, [c EXCEPT !.at = "answered"])
    /\ UNCHANGED <<disk, agent, setup, auth, token, tokens, drawn, setups, faults>>

\* The setting is cleared, whichever token it holds by now, and the answer goes
\* out.  The statement's error is ignored: after a cancelled one the token stays.
Spend(c) ==
    /\ c \in calls /\ c.at = "signed"
    /\ token' \in {0} \cup (IF Gone(c) THEN {token} ELSE {})
    /\ spent' = IF Gone(c) THEN spent ELSE spent \cup {c.token}
    /\ Becomes(c, [c EXCEPT !.at = "answered"])
    /\ UNCHANGED <<disk, agent, setup, auth, tokens, drawn, setups, faults>>

\* A node stops: the file being written may be torn, the requests it was
\* serving are gone, those it was waiting for run on without it.
TornFile(files, at) == Written(files, at, Torn, TornCert, Torn)

Crash(n) ==
    /\ faults < MaxFaults
    /\ faults' = faults + 1
    /\ LET at == IF n = CA /\ setup.at # "off" THEN setup.at ELSE agent[n].at
           torn == IF at \in {"ca", "cakey", "crt", "key"} THEN {TornFile(disk[n], at)} ELSE {}
       IN \E files \in torn \cup {disk[n]} : disk' = [disk EXCEPT ![n] = files]
    /\ setup' = IF n = CA THEN NoSetup ELSE setup
    /\ agent' = [agent EXCEPT ![n] = Off]
    /\ calls' = IF n = CA THEN {}
                ELSE {c \in calls : c.key # agent[n].key \/ c.at \notin {"rejected", "answered"}}
    /\ UNCHANGED <<auth, token, spent, tokens, drawn, setups>>

Setup == RunSetup \/ SetupCA \/ SetupNodeCert \/ SetupNodeKey
Boot(n) == NoEnrollment(n) \/ Enrolled(n) \/ StoreCert(n) \/ StoreKey(n)
Handle(c) == Admit(c) \/ Issue(c) \/ Spend(c)

EnrollNext ==
    \/ Setup
    \/ GenToken
    \/ \E n \in Nodes : Start(n) \/ Boot(n) \/ Crash(n)
    \/ \E c \in calls : Handle(c)

\* A started agent runs on: its request ends at the latest with the client's
\* timeout, and it writes its files.  Nobody need start or set up anything.
EnrollSpec == EnrollInit /\ [][EnrollNext]_enrollVars /\ \A n \in Nodes : WF_enrollVars(Boot(n))

-----------------------------------------------------------------------------
Steps  == {"off", "asking", "ca", "crt", "key", "up"}
CertOf == [by : Int, of : Int]

\* Types of every variable.
EnrollTypeOK ==
    /\ disk \in [Nodes -> [id : BOOLEAN, ca : Int, cakey : Int, crt : CertOf, key : Int]]
    /\ agent \in [Nodes -> [at : Steps, key : Nat, got : CertOf, gotca : Int,
                 pki : [ca : Nat, cakey : Nat, cert : CertOf, pool : Int, ready : BOOLEAN]]]
    /\ setup \in [at : {"off", "ca", "cakey", "crt", "key"}, ca : Nat, key : Nat]
    /\ auth \in BOOLEAN
    /\ token \in 0..MaxTokens
    /\ calls \subseteq [from : Joiners, token : 1..MaxTokens, key : Nat, cert : CertOf, ca : Int,
                 at : {"sent", "admitted", "signed", "answered", "rejected"}]
    /\ spent \subseteq 1..MaxTokens
    /\ tokens \in 0..MaxTokens /\ drawn \in Nat /\ setups \in 0..MaxSetups /\ faults \in 0..MaxFaults

\* An agent that turns TLS on presents a certificate its own CA file verifies,
\* although Load does not compare them: whatever crashes left on disk, files of
\* two generations never load together.
ReadyVerifies ==
    \A n \in Nodes : agent[n].pki.ready => agent[n].pki.cert.by = agent[n].pki.pool

\* The certificate of an enrollment answer verifies under the CA certificate
\* in the same answer: the one is signed with the CA loaded when the agent
\* started, the other is read from disk for every request.
AnswersVerify ==
    \A c \in calls : c.at \in {"signed", "answered"} => c.cert.by = c.ca

\* Once a waiting client was answered for a token, no request that is checked
\* later gets through with it, however other requests, new tokens, timeouts
\* and crashes interleave.
SpentTokenIsRefused ==
    [][\A c \in calls' \ calls : c.at = "admitted" => c.token \notin spent]_enrollVars

\* An agent started with the enrollment flags serves in the end, or stops: no
\* CA that is slow, gone or refusing keeps it from starting.
StartupEnds ==
    \A n \in Joiners : (agent[n].at # "off") ~> (agent[n].at \in {"up", "off"})

=============================================================================
