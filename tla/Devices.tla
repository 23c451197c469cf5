------------------------------- MODULE Devices -------------------------------
(***************************************************************************)
(* The device registry: one encrypted list under one IPNS name, which every *)
(* browser and desktop of the user reads, changes and publishes at sign-in  *)
(* without a lock.  The API keeps the CID published last beside the routed  *)
(* record and answers with it when routing is down; the republishing job    *)
(* re-signs the CID it was enrolled with, one above the number it keeps.    *)
(*                                                                         *)
(* The list of a registry is a status for each device, "absent" for one     *)
(* that is not listed.  Heartbeats and names are left out.                  *)
(***************************************************************************)
EXTENDS Integers, FiniteSets

CONSTANTS
    Webs, Desktops,
    MaxCount,     \* bound: what the API has counted when a registration begins
    MaxSigned,    \* bound: the number the job signs
    MaxFaults     \* bound: calls that fail, answers lost, routing down

ASSUME DevicesAssumption ==
    Webs \cap Desktops = {} /\ {MaxCount, MaxSigned, MaxFaults} \subseteq Nat

VARIABLES
    routed,   \* the record the name resolves to: its number (-1: none) and registry
    row,      \* what the API saved of the last publish: its count (-1: none) and registry
    job,      \* what the job signs: the number it signed last (-1: not enrolled), registry
    step,     \* how far a device's registration is
    work,     \* the registry a device is about to publish
    shown,    \* the registry in a browser's store
    acked,    \* history: the devices whose registration was answered
    faults,
    missed,   \* history: who published, or may have, unseen by a device about to publish
    atRisk    \* history: the devices whose entry a publish may have taken away

devicesVars == <<routed, row, job, step, work, shown, acked, faults, missed, atRisk>>
risks == <<missed, atRisk>>

Devices == Webs \cup Desktops
Statuses == {"absent", "pending", "authorized"}
Registry == [number : Nat, status : [Devices -> Statuses]]
Blank == [number |-> 0, status |-> [d \in Devices |-> "absent"]]
Kept(n, r) == [seq |-> n, reg |-> r]

DevicesTypeOK ==
    /\ {routed, row, job} \subseteq [seq : Nat \cup {-1}, reg : Registry]
    /\ step \in [Devices -> {"idle", "asked", "publish", "published", "done"}]
    /\ work \in [Devices -> Registry] /\ shown \in [Webs -> Registry]
    /\ acked \subseteq Devices /\ faults \in 0..MaxFaults
    /\ missed \in [Devices -> SUBSET Devices] /\ atRisk \subseteq Devices

DevicesInit ==
    /\ routed = Kept(-1, Blank) /\ row = Kept(-1, Blank) /\ job = Kept(-1, Blank)
    /\ step = [d \in Devices |-> "idle"] /\ work = [d \in Devices |-> Blank]
    /\ shown = [w \in Webs |-> Blank]
    /\ acked = {} /\ faults = 0
    /\ missed = [d \in Devices |-> {}] /\ atRisk = {}

Fault == faults < MaxFaults /\ faults' = faults + 1
Goes(d, s) == step' = [step EXCEPT ![d] = s]

-----------------------------------------------------------------------------
(* What a device writes and what a browser accepts *)

(* A browser's identity is a SHA-256 of its Ed25519 key, a desktop's a UUID  *)
(* beside the user's own public key; neither knows its address              *)
Entry(d) == IF d \in Webs THEN [id |-> "sha256", key |-> "ed25519", ip |-> "empty"]
            ELSE [id |-> "uuid", key |-> "secp256k1", ip |-> "empty"]

ValidEntry(e) == e.id = "sha256" /\ e.key = "ed25519" /\ e.ip = "sha256"

(* decryptRegistry validates every entry of the list                        *)
Validates(r) == \A d \in Devices : r.status[d] # "absent" => ValidEntry(Entry(d))

(* The desktop parses any list                                              *)
Reads(d, r) == d \in Desktops \/ Validates(r)

First(d) == [number |-> 1, status |-> [Blank.status EXCEPT ![d] = "authorized"]]

(* Mistake: the list starts anew *)
ListedAlone(r, d) == First(d).status

(* The device's own entry stays as it is; a device that is not listed is    *)
(* pending                                                                  *)
Listed(r, d) == [r.status EXCEPT ![d] = IF @ = "absent" THEN "pending" ELSE @]

(* A browser seen a moment ago changes nothing                              *)
Updates(r, d) ==
    {[number |-> r.number + 1, status |-> Listed(r, d)]}
        \cup IF d \in Webs /\ r.status[d] # "absent" THEN {r} ELSE {}

-----------------------------------------------------------------------------
(* A registration, started by a sign-in and awaited by nobody *)

Begin(d) ==
    /\ step[d] \in {"idle", "done"} /\ row.seq < MaxCount
    /\ Goes(d, "asked")
    /\ UNCHANGED <<routed, row, job, work, shown, acked, faults, risks>>

Misses(d, others) == missed' = [missed EXCEPT ![d] = others] /\ UNCHANGED atRisk

Makes(d, registries, at) ==
    /\ \E r \in registries : work' = [work EXCEPT ![d] = r]
    /\ Goes(d, at)

(* A list was found.  A browser that cannot open it gives up                *)
Takes(d, r) ==
    IF Reads(d, r)
    THEN \E u \in Updates(r, d) : Makes(d, {u}, IF u = r THEN "published" ELSE "publish")
    ELSE Goes(d, "done") /\ UNCHANGED work

Read(d) ==
    /\ step[d] = "asked"
    /\ IF row.seq = -1 THEN Makes(d, {First(d)}, "publish") ELSE Takes(d, routed.reg)
    /\ Misses(d, {})
    /\ UNCHANGED <<routed, row, job, shown, acked, faults>>

(* Routing is down: the API answers with what it saved                      *)
ReadSaved(d) ==
    /\ step[d] = "asked" /\ row.seq # -1 /\ Fault
    /\ Takes(d, row.reg) /\ Misses(d, {})
    /\ UNCHANGED <<routed, row, job, shown, acked>>

(* A call fails: a browser gives up, a desktop takes it that there is no    *)
(* registry yet                                                             *)
ReadFails(d) ==
    /\ step[d] = "asked" /\ Fault /\ Misses(d, Devices \ {d})
    /\ IF d \in Webs THEN Goes(d, "done") /\ UNCHANGED work ELSE Makes(d, {First(d)}, "publish")
    /\ UNCHANGED <<routed, row, job, shown, acked>>

(* The API saves the CID and counts; routing keeps the higher number, the   *)
(* later record of two equal ones; a browser's publish enrols its CID.      *)
(* At risk are the entries the device has not seen, and its own if routing  *)
(* holds a higher number; one that registers again no longer is             *)
Routes(seq, r) == IF seq >= routed.seq THEN Kept(seq, r) ELSE routed

Publish(d) ==
    /\ step[d] = "publish"
    /\ row' = Kept(row.seq + 1, work[d])
    /\ routed' = Routes(work[d].number, work[d])
    /\ job' = IF d \in Webs THEN row' ELSE job
    /\ Goes(d, "published")
    /\ missed' = [e \in Devices |-> IF step[e] = "publish" /\ e # d
                                    THEN missed[e] \cup {d} ELSE missed[e]]
    /\ atRisk' = missed[d] \cup IF work[d].number >= routed.seq THEN atRisk \ {d}
                                                               ELSE atRisk \cup {d}
    /\ UNCHANGED <<work, shown, acked, faults>>

PublishFails(d) ==
    /\ step[d] = "publish" /\ Fault
    /\ Goes(d, "done")
    /\ UNCHANGED <<routed, row, job, work, shown, acked, risks>>

(* The browser's store takes the registry, whoever is signed in by now      *)
Answered(d) ==
    /\ step[d] = "published"
    /\ Goes(d, "done") /\ acked' = acked \cup {d}
    /\ shown' = IF d \in Webs THEN [shown EXCEPT ![d] = work[d]] ELSE shown
    /\ UNCHANGED <<routed, row, job, work, faults, risks>>

AnswerLost(d) ==
    /\ step[d] = "published" /\ Fault
    /\ Goes(d, "done")
    /\ UNCHANGED <<routed, row, job, work, shown, acked, risks>>

-----------------------------------------------------------------------------
(* A browser's store, and the republishing job *)

(* Every minute the store takes a later list, if it can be read             *)
Sync(w) ==
    /\ shown[w] # Blank
    /\ shown' = [shown EXCEPT ![w] = IF Reads(w, routed.reg) /\ routed.reg.number > @.number
                                    THEN routed.reg ELSE @]
    /\ UNCHANGED <<routed, row, job, step, work, acked, faults, risks>>

SignOut(w) ==
    /\ shown[w] # Blank
    /\ shown' = [shown EXCEPT ![w] = Blank]
    /\ UNCHANGED <<routed, row, job, step, work, acked, faults, risks>>

(* At risk are the devices that are not in the list that was enrolled       *)
Republish ==
    /\ job.seq \in 0..(MaxSigned - 1)
    /\ job' = [job EXCEPT !.seq = @ + 1]
    /\ routed' = Routes(job'.seq, job.reg)
    /\ row' = [row EXCEPT !.seq = job'.seq]
    /\ atRisk' = atRisk \cup {d \in Devices : job.reg.status[d] = "absent"}
    /\ UNCHANGED <<step, work, shown, acked, faults, missed>>

DevicesNext ==
    \/ \E d \in Devices :
         \/ Begin(d) \/ Read(d) \/ ReadSaved(d) \/ ReadFails(d)
         \/ Publish(d) \/ PublishFails(d) \/ Answered(d) \/ AnswerLost(d)
    \/ \E w \in Webs : Sync(w) \/ SignOut(w)
    \/ Republish

DevicesSpec == DevicesInit /\ [][DevicesNext]_devicesVars

-----------------------------------------------------------------------------
(* Properties *)

(* Whatever fails or overlaps, every version of the registry has one device *)
(* that was authorized without being asked, its first                       *)
OneAuthorized ==
    \A r \in {routed.reg, row.reg, job.reg} \cup {shown[w] : w \in Webs} :
        r # Blank => Cardinality({d \in Devices : r.status[d] = "authorized"}) = 1

(* A device whose registration was answered stays in the list, the routed   *)
(* one and the one the API saved, whatever other registrations overlap, are *)
(* lost, or read what the API saved, and however often the job signs, until *)
(* its entry is put at risk: by a device that read before it published, or  *)
(* could not read, by a list the job was enrolled with before it came, or   *)
(* by its own number being below the routed one                              *)
DevicesKept ==
    \A d \in acked \ atRisk :
        routed.reg.status[d] # "absent" /\ row.reg.status[d] # "absent"

(* "load existing registry, register new devices": a browser whose          *)
(* registration ended, nothing having failed, is listed                     *)
SignedInListed ==
    faults = 0 => \A w \in Webs \ atRisk :
                      step[w] = "done" => routed.reg.status[w] # "absent"
=============================================================================
