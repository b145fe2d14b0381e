------------------------------ MODULE Devices ------------------------------
(***************************************************************************)
(* One device of the local network and the rows the inventory keeps for    *)
(* it: the row of its MAC, and a row for every address that was reported   *)
(* without a MAC.  The network scan, the sync of an integration and the    *)
(* UI's vendor check look at the device, look its vendor up and write a    *)
(* row, all at the same time.  A job works through a list of devices; the  *)
(* model follows one entry of it at a time, for the rows do not depend on  *)
(* each other.                                                             *)
(***************************************************************************)
EXTENDS Naturals, FiniteSets

CONSTANTS Ips,         \* addresses the device may be given
          Macless,     \* bound: those that are also reported without a MAC
          None,        \* no address: ""
          Embedded,    \* is its prefix in the embedded table?
          Recognised,  \* does its vendor's name tell a device type?
          MaxStops     \* bound: restarts

ASSUME DevicesAssumption ==
    /\ Macless \subseteq Ips /\ None \notin Ips
    /\ {Embedded, Recognised} \subseteq BOOLEAN
    /\ MaxStops \in Nat

Scans == "scan"  \* the coordinator runs one scan of a kind at a time
Jobs == {Scans, "sync", "check"}

VARIABLES at,     \* the device's address in the router's table
          arp,    \* addresses the neighbour cache has for its MAC, old ones too
          cache,  \* what ouiDB has for its prefix: "unknown", "none" or "vendor"
          row,    \* the row of the MAC
          loose,  \* the addresses that have a row of their own
          job,    \* what each job is doing
          stops   \* restarts so far

deviceVars == <<at, arp, cache, row, loose, job, stops>>

Absent == [ip |-> None, vendor |-> FALSE, type |-> "absent"]
There == row.type # "absent"
Idle == [pc |-> "idle", mac |-> FALSE, ip |-> None, vendor |-> FALSE]

\* The table ouiDB as it is compiled in.
OuiDB == IF Embedded THEN "vendor" ELSE "unknown"

DevicesInit ==
    /\ at \in Ips \cup {None} /\ arp = {}
    /\ cache = OuiDB
    /\ row = Absent /\ loose = {}
    /\ job = [j \in Jobs |-> Idle]
    /\ stops = 0

-----------------------------------------------------------------------------
(* The network                                                             *)

\* The device gets an address or loses the one it had.
Move ==
    /\ at' \in (Ips \cup {None}) \ {at}
    /\ UNCHANGED <<arp, cache, row, loose, job, stops>>

\* The kernel learns the address of a neighbour, and forgets one nobody uses.
Traffic ==
    /\ at \in Ips \ arp /\ arp' = arp \cup {at}
    /\ UNCHANGED <<at, cache, row, loose, job, stops>>

Expire ==
    /\ \E ip \in arp \ {at} : arp' = arp \ {ip}
    /\ UNCHANGED <<at, cache, row, loose, job, stops>>

-----------------------------------------------------------------------------
(* Entries: what a source may report of the device                         *)

Entry(macs, ips, vendors) == [mac : macs, ip : ips, vendor : vendors]

\* A neighbour has both; of several entries of one MAC the merge keeps the
\* address of the first, which may be an old one.
ArpEntries == Entry({TRUE}, arp, {FALSE})

\* An answer to a multicast query has no MAC, whoever has the address now.
MdnsEntries == Entry({FALSE}, Macless, {FALSE})

\* The router: every host it knows, the inactive ones too.
FritzBox == Entry({TRUE}, {at}, {FALSE}) \cup Entry({FALSE}, {at} \cap Macless, {FALSE})

\* The controller: clients with a MAC, perhaps without an address; it may know the vendor.
Unifi == Entry({TRUE}, {at, None}, BOOLEAN)

\* Trackers: any attribute may be missing, not both.
HomeAssistant == Entry({TRUE}, {at, None}, {FALSE}) \cup Entry({FALSE}, {at} \cap Macless, {FALSE})

\* Clients of the name server; it may know the vendor, even without a MAC.
PiHole == Entry({TRUE}, {at, None}, BOOLEAN) \cup Entry({FALSE}, {at} \cap Macless, BOOLEAN)

\* The firewall's neighbour table.
PfSense == Entry({TRUE}, {at, None}, {FALSE}) \cup Entry({FALSE}, {at} \cap Macless, {FALSE})

-----------------------------------------------------------------------------
(* The jobs                                                                *)

\* A device with a MAC and no vendor is looked up before it is stored.
NextStep(e) == IF e.mac /\ ~e.vendor THEN "lookup" ELSE "store"

See(j, entries) ==
    /\ job[j].pc = "idle"
    /\ \E e \in entries :
          job' = [job EXCEPT ![j] =
             [pc |-> NextStep(e), mac |-> e.mac, ip |-> e.ip, vendor |-> e.vendor]]
    /\ UNCHANGED <<at, arp, cache, row, loose, stops>>

ScanArp == See(Scans, ArpEntries)
ScanMdns == See(Scans, MdnsEntries)
Sync == See("sync", FritzBox \cup Unifi \cup HomeAssistant \cup PiHole \cup PfSense)

\* handleOUICheck lists the rows that have a MAC and no vendor.
Check ==
    /\ There /\ ~row.vendor
    /\ See("check", Entry({TRUE}, {None}, {FALSE}))

Found(j, v) == job' = [job EXCEPT ![j].pc = "store", ![j].vendor = v]

\* LookupVendor: the table under its lock, then the service without it.
Lookup(j) ==
    /\ job[j].pc = "lookup"
    /\ \/ cache # "unknown" /\ Found(j, cache = "vendor")
       \/ cache = "unknown" /\ job' = [job EXCEPT ![j].pc = "online"]
    /\ UNCHANGED <<at, arp, cache, row, loose, stops>>

\* lookupOnline answers or does not; either answer goes into the table, over
\* the one another job may have put there.
Online(j) ==
    /\ job[j].pc = "online"
    /\ \/ cache' = "vendor" /\ Found(j, TRUE)
       \/ cache' = "none" /\ Found(j, FALSE)
    /\ UNCHANGED <<at, arp, row, loose, stops>>

\* ClassifyByVendor knows a type for the vendor.
Classified(d) == d.vendor /\ Recognised

\* Mutant: the conflict clause takes the new vendor as it is.
RowBlanked(d) ==
    [ip |-> d.ip,
     vendor |-> d.vendor,
     type |-> IF Classified(d) THEN "class" ELSE IF There THEN row.type ELSE "other"]

\* Mutant: the conflict clause keeps the address it has.
RowAddressKept(d) ==
    [ip |-> IF There THEN row.ip ELSE d.ip,
     vendor |-> d.vendor \/ row.vendor,
     type |-> IF Classified(d) THEN "class" ELSE IF There THEN row.type ELSE "other"]

\* The row of the MAC after an entry: the address is replaced; a vendor and a
\* type are replaced by what is known only.
RowAfter(d) ==
    [ip |-> d.ip,
     vendor |-> d.vendor \/ row.vendor,
     type |-> IF Classified(d) THEN "class" ELSE IF There THEN row.type ELSE "other"]

\* UpsertPassiveDevice: the row of the MAC, or else of the address.
Upsert(d) ==
    \/ d.mac /\ row' = RowAfter(d) /\ UNCHANGED loose
    \/ ~d.mac /\ loose' = loose \cup {d.ip} /\ UNCHANGED row

\* Mutant: a device without an address is stored like the others.
StoredAll(d) == Upsert(d)

\* A device of an integration that has no address is skipped.
Stored(d) == IF d.ip = None THEN UNCHANGED <<row, loose>> ELSE Upsert(d)

Store(j) ==
    /\ j # "check" /\ job[j].pc = "store"
    /\ Stored(job[j])
    /\ job' = [job EXCEPT ![j] = Idle]
    /\ UNCHANGED <<at, arp, cache, stops>>

\* UpdateHostVendor, on the row as it is by now; a deleted row stays deleted.
UpdateVendor ==
    /\ job["check"].pc = "store"
    /\ row' = IF job["check"].vendor /\ There
              THEN [row EXCEPT !.vendor = TRUE, !.type = IF Recognised THEN "class" ELSE @]
              ELSE row
    /\ UNCHANGED loose
    /\ job' = [job EXCEPT !["check"] = Idle]
    /\ UNCHANGED <<at, arp, cache, stops>>

-----------------------------------------------------------------------------
(* The user and the process                                                *)

\* handleUpdateDeviceType: a type of the user's, or "other" for none.
Retype ==
    /\ There
    /\ \E t \in {"user", "other"} : row' = [row EXCEPT !.type = t]
    /\ UNCHANGED <<at, arp, cache, loose, job, stops>>

DeleteHost ==
    /\ \/ There /\ row' = Absent /\ UNCHANGED loose
       \/ \E ip \in loose : loose' = loose \ {ip} /\ UNCHANGED row
    /\ UNCHANGED <<at, arp, cache, job, stops>>

\* What was looked up online is kept in memory only.
Restart ==
    /\ stops < MaxStops /\ stops' = stops + 1
    /\ job' = [j \in Jobs |-> Idle]
    /\ cache' = OuiDB
    /\ UNCHANGED <<at, arp, row, loose>>

-----------------------------------------------------------------------------
DevicesNext ==
    \/ Move \/ Traffic \/ Expire
    \/ ScanArp \/ ScanMdns \/ Sync \/ Check
    \/ \E j \in Jobs : Lookup(j) \/ Online(j) \/ Store(j)
    \/ UpdateVendor
    \/ Retype \/ DeleteHost
    \/ Restart

\* The jobs go on, the neighbour cache follows the network, and the ARP scan is
\* repeated for as long as the process runs.
Fairness ==
    /\ WF_deviceVars(Traffic) /\ WF_deviceVars(Expire)
    /\ \A j \in Jobs : WF_deviceVars(Lookup(j)) /\ WF_deviceVars(Online(j)) /\ WF_deviceVars(Store(j))
    /\ WF_deviceVars(UpdateVendor)
    /\ SF_deviceVars(ScanArp)

DevicesSpec == DevicesInit /\ [][DevicesNext]_deviceVars /\ Fairness

-----------------------------------------------------------------------------
\* Types of every variable; a row has an address.
DevicesTypeOK ==
    /\ at \in Ips \cup {None}
    /\ arp \subseteq Ips
    /\ cache \in {"unknown", "none", "vendor"}
    /\ row \in {Absent} \cup [ip : Ips, vendor : BOOLEAN, type : {"other", "class", "user"}]
    /\ loose \subseteq Macless
    /\ job \in [Jobs -> [pc : {"idle", "lookup", "online", "store"}, mac : BOOLEAN,
                         ip : Ips \cup {None}, vendor : BOOLEAN]]
    /\ stops \in 0..MaxStops

\* What is known of a device is not forgotten, though the online service may
\* fail a job, a late failure may overwrite an answer in the table, and a
\* restart loses the table: a vendor stays, and no job turns a type, a user's
\* or a recognised one, into "other".
KnownIsKept ==
    [][There /\ There' =>
          /\ row.vendor => row'.vendor
          /\ row'.type = "other" => row.type = "other" \/ Retype]_deviceVars

\* A device that stays where it is gets a row, again after a deletion, and in
\* the end the row has its address, though a scan may have read an old entry of
\* the neighbour cache and a sync may store an old answer late.
LeaseIsShown ==
    \A ip \in Ips :
       <>[](at = ip) => []<>There /\ <>[](There => row.ip = ip)
=============================================================================
