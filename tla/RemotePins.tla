----------------------------- MODULE RemotePins -----------------------------
(* Remote pinning: the loop that keeps the MFS root pinned on the remote     *)
(* services (cmd/ipfs/pinmfs.go), one goroutine per service and round, and   *)
(* the commands `ipfs pin remote ...` (core/commands/pin/remotepin.go). A    *)
(* service is external: a set of pins, each with an identifier of its own,   *)
(* that it works off; a request to it may fail, and the answer of one that   *)
(* took effect may be lost.                                                  *)
EXTENDS Naturals, FiniteSets

CONSTANTS RSvcs, RCids,
          MaxPinId,     \* bound: pins a service ever makes
          MaxEdits,     \* bound: changes of the root and of the configuration
          MaxFaults     \* bound: failed requests, lost answers, restarts, failed pins

VARIABLES rRoot,        \* CID of the MFS root
          rConf,        \* service -> absent, off, or the MFS policy that is on
          rPins,        \* service -> its pins
          rLast,        \* lastPins: service -> what it is known to have
          rWait,        \* service -> RepinInterval has not passed since
          rJob,         \* service -> the goroutine of this round
          rLoop,        \* pinMFSOnChange: sleep, or work
          rCmd,         \* a command `pin remote add` or `rm` in progress
          rSpoilt,      \* ghost: services where rLast does not describe the service
          rId, rEdits, rFaults

rVars == <<rRoot, rConf, rPins, rLast, rWait, rJob, rLoop, rCmd, rSpoilt, rId, rEdits, rFaults>>

RNo == "no cid"
On == {"on", "on2"}
NoLast == [cid |-> RNo, conf |-> "off"]
Idle == [st |-> "idle", cid |-> RNo, conf |-> "off", id |-> 0]
NoCmd == [st |-> "idle", svc |-> RNo, ids |-> {}]
MfsPins(s) == {p \in rPins[s] : p.name = "mfs"}

RInit ==
    /\ rRoot = CHOOSE c \in RCids : TRUE
    /\ rConf \in [RSvcs -> {"absent", "off", "on"}]
    /\ rPins = [s \in RSvcs |-> {}]
    /\ rLast = [s \in RSvcs |-> NoLast] /\ rWait = [s \in RSvcs |-> FALSE]
    /\ rJob = [s \in RSvcs |-> Idle] /\ rLoop = "sleep" /\ rCmd = NoCmd
    /\ rSpoilt = {} /\ rId = 0 /\ rEdits = 0 /\ rFaults = 0

Fault == rFaults < MaxFaults /\ rFaults' = rFaults + 1
loopOnly == <<rRoot, rConf, rCmd, rEdits>>
outside == <<rLast, rWait, rJob, rLoop>>

\* Users write files, and edit the configuration the loop rereads.
Edit ==
    /\ rEdits < MaxEdits /\ rEdits' = rEdits + 1
    /\ \/ rRoot' \in RCids \ {rRoot} /\ UNCHANGED rConf
       \/ \E s \in RSvcs, c \in On : rConf[s] \in ({"off"} \cup On) \ {c} /\ rConf' = [rConf EXCEPT ![s] = c] /\ UNCHANGED rRoot
    /\ UNCHANGED <<outside, rPins, rCmd, rSpoilt, rId, rFaults>>

serviceAdd(s) ==
    /\ rConf[s] = "absent" /\ rConf' = [rConf EXCEPT ![s] = "off"]
    /\ rEdits < MaxEdits /\ rEdits' = rEdits + 1
    /\ UNCHANGED <<outside, rRoot, rPins, rCmd, rSpoilt, rId, rFaults>>

serviceRm(s) ==
    /\ rConf[s] # "absent" /\ rConf' = [rConf EXCEPT ![s] = "absent"]
    /\ rEdits < MaxEdits /\ rEdits' = rEdits + 1
    /\ UNCHANGED <<outside, rRoot, rPins, rCmd, rSpoilt, rId, rFaults>>

\* pinAllMFS: skip a service that has this root already, or was pinned to
\* within the interval, under the very same configuration.
Due(s) ==
    /\ rConf[s] \in On
    /\ ~(rLast[s].conf = rConf[s] /\ (rLast[s].cid = rRoot \/ rWait[s]))

\* The poll timer fires; the goroutines of the round start.
pinAllMFS ==
    /\ rLoop = "sleep" /\ \E s \in RSvcs : Due(s)
    /\ rLoop' = "work"
    /\ rJob' = [s \in RSvcs |-> IF Due(s) THEN [st |-> "list", cid |-> rRoot, conf |-> rConf[s], id |-> 0] ELSE Idle]
    /\ UNCHANGED <<loopOnly, rPins, rLast, rWait, rSpoilt, rId, rFaults>>

\* pinMFS succeeded: its answer goes into lastPins.
Remember(s) ==
    /\ rLast' = [rLast EXCEPT ![s] = [cid |-> rJob[s].cid, conf |-> rJob[s].conf]]
    /\ rWait' = [rWait EXCEPT ![s] = TRUE]
    /\ rJob' = [rJob EXCEPT ![s] = Idle]

\* pinMFS failed: the error is logged and lastPins stays.
Forget(s) == rJob' = [rJob EXCEPT ![s] = Idle] /\ UNCHANGED <<rLast, rWait>>

ExistingPinned(s) ==   \* mutant: only pins that have been pinned are listed
    {p \in MfsPins(s) : p.status = "pinned"}

\* The pins c.Ls lists: those of the name, in every status.
Existing(s) == MfsPins(s)

\* List the MFS pins of the service: the root is pinned or on its way, or
\* some pin of that name is to be replaced, or there is none.
ListPins(s) ==
    /\ rJob[s].st = "list"
    /\ \/ /\ \E p \in Existing(s) : p.cid = rJob[s].cid /\ p.status # "failed"
          /\ Remember(s) /\ rSpoilt' = rSpoilt \ {s}
       \/ /\ \A p \in Existing(s) : p.cid # rJob[s].cid \/ p.status = "failed"
          /\ \E i \in IF Existing(s) = {} THEN {0} ELSE {p.id : p \in Existing(s)} :
                rJob' = [rJob EXCEPT ![s].st = "write", ![s].id = i]
          /\ UNCHANGED <<rLast, rWait, rSpoilt>>
    /\ UNCHANGED <<loopOnly, rPins, rLoop, rId, rFaults>>

NewPin(c, name) == [id |-> rId + 1, cid |-> c, name |-> name, status |-> "queued"]

\* c.Add, or c.Replace, which makes a new pin for the old one.
Effect(s) ==
    /\ rId < MaxPinId /\ rId' = rId + 1
    /\ rPins' = [rPins EXCEPT ![s] = {p \in @ : p.id # rJob[s].id} \cup {NewPin(rJob[s].cid, "mfs")}]

WritePin(s) ==
    /\ rJob[s].st = "write" /\ (rJob[s].id # 0 => \E p \in rPins[s] : p.id = rJob[s].id)
    /\ Effect(s) /\ Remember(s) /\ rSpoilt' = rSpoilt \ {s}
    /\ UNCHANGED <<loopOnly, rLoop, rFaults>>

\* The request took effect, its answer is lost.
WriteUnanswered(s) ==
    /\ rJob[s].st = "write" /\ (rJob[s].id # 0 => \E p \in rPins[s] : p.id = rJob[s].id)
    /\ Effect(s) /\ Forget(s) /\ Fault
    /\ rSpoilt' = rSpoilt \cup {s}
    /\ UNCHANGED <<loopOnly, rLoop>>

RememberAnyway(s) ==   \* mutant: a failed request is remembered as a pin
    /\ rJob[s].st # "idle" /\ Fault
    /\ Remember(s)
    /\ UNCHANGED <<loopOnly, rPins, rLoop, rSpoilt, rId>>

\* A request fails: nothing is known of the service.
RequestFails(s) ==
    /\ rJob[s].st # "idle" /\ Fault
    /\ Forget(s)
    /\ UNCHANGED <<loopOnly, rPins, rLoop, rSpoilt, rId>>

\* The pin to replace is gone: the service answers with an error.
ReplaceGone(s) ==
    /\ rJob[s].st = "write" /\ rJob[s].id # 0 /\ \A p \in rPins[s] : p.id # rJob[s].id
    /\ Forget(s)
    /\ UNCHANGED <<loopOnly, rPins, rLoop, rSpoilt, rId, rFaults>>

GatherFirst ==   \* mutant: the round ends with the first answer
    /\ rLoop = "work" /\ \E s \in RSvcs : rJob[s].st = "idle"
    /\ rLoop' = "stuck"
    /\ UNCHANGED <<loopOnly, rPins, rLast, rWait, rJob, rSpoilt, rId, rFaults>>

\* All answers of the round are in: sleep again.
Gather ==
    /\ rLoop = "work" /\ \A s \in RSvcs : rJob[s].st = "idle"
    /\ rLoop' = "sleep"
    /\ UNCHANGED <<loopOnly, rPins, rLast, rWait, rJob, rSpoilt, rId, rFaults>>

Elapse(s) ==
    /\ rWait[s] /\ rWait' = [rWait EXCEPT ![s] = FALSE]
    /\ UNCHANGED <<loopOnly, rPins, rLast, rJob, rLoop, rSpoilt, rId, rFaults>>

\* The daemon restarts: lastPins is a local variable.
Restart ==
    /\ Fault
    /\ rLast' = [s \in RSvcs |-> NoLast] /\ rWait' = [s \in RSvcs |-> FALSE]
    /\ rJob' = [s \in RSvcs |-> Idle] /\ rLoop' = "sleep" /\ rCmd' = NoCmd
    /\ rSpoilt' = {}
    /\ UNCHANGED <<rRoot, rConf, rPins, rId, rEdits>>

\* The service works off a request.
Serve(s) ==
    /\ \E p \in rPins[s] :
          /\ p.status = "queued"
          /\ \/ /\ rPins' = [rPins EXCEPT ![s] = (@ \ {p}) \cup {[p EXCEPT !.status = "pinned"]}]
                /\ UNCHANGED <<rSpoilt, rFaults>>
             \/ /\ rPins' = [rPins EXCEPT ![s] = (@ \ {p}) \cup {[p EXCEPT !.status = "failed"]}]
                /\ rSpoilt' = rSpoilt \cup {s} /\ Fault
    /\ UNCHANGED <<loopOnly, outside, rId>>

\* The service has to be configured; the commands reread the configuration.
getRemotePinService(s) == rConf[s] # "absent"

\* `pin remote add`: ask for the pin, then poll its status every half second.
\* Which CID a user pins makes no difference to the loop: pins go by name.
addRemotePin(s) ==
    /\ rCmd.st = "idle" /\ getRemotePinService(s) /\ rId < MaxPinId
    /\ rId' = rId + 1 /\ rPins' = [rPins EXCEPT ![s] = @ \cup {NewPin(RNo, "user")}]
    /\ rCmd' = [st |-> "poll", svc |-> s, ids |-> {rId + 1}]
    /\ UNCHANGED <<outside, rRoot, rConf, rSpoilt, rEdits, rFaults>>

addRemotePinDone ==
    /\ rCmd.st = "poll"
    /\ \A p \in rPins[rCmd.svc] : p.id \in rCmd.ids => p.status # "queued"
    /\ rCmd' = NoCmd
    /\ UNCHANGED <<outside, rRoot, rConf, rPins, rSpoilt, rId, rEdits, rFaults>>

\* `pin remote rm`: list the pins that match the filters; several need --force.
rmRemotePinList(s, name, force) ==
    LET match == {p \in rPins[s] : p.name = name /\ p.status = "pinned"} IN
    /\ rCmd.st = "idle" /\ getRemotePinService(s) /\ match # {}
    /\ Cardinality(match) > 1 => force
    /\ rCmd' = [st |-> "rm", svc |-> s, ids |-> {p.id : p \in match}]
    /\ UNCHANGED <<outside, rRoot, rConf, rPins, rSpoilt, rId, rEdits, rFaults>>

\* Delete them one by one; one that is gone ends the command with an error.
rmRemotePin ==
    /\ rCmd.st = "rm"
    /\ \E i \in rCmd.ids :
          LET s == rCmd.svc IN
          \/ /\ \E p \in rPins[s] : p.id = i
             /\ rPins' = [rPins EXCEPT ![s] = {p \in @ : p.id # i}]
             /\ rSpoilt' = IF \E p \in MfsPins(s) : p.id = i THEN rSpoilt \cup {s} ELSE rSpoilt
             /\ rCmd' = IF rCmd.ids = {i} THEN NoCmd ELSE [rCmd EXCEPT !.ids = @ \ {i}]
          \/ /\ \A p \in rPins[s] : p.id # i
             /\ rCmd' = NoCmd /\ UNCHANGED <<rPins, rSpoilt>>
    /\ UNCHANGED <<outside, rRoot, rConf, rId, rEdits, rFaults>>

RLoop == \/ pinAllMFS \/ Gather
         \/ \E s \in RSvcs : ListPins(s) \/ WritePin(s) \/ ReplaceGone(s) \/ Elapse(s)

RUser == \/ Edit \/ addRemotePinDone \/ rmRemotePin
         \/ \E s \in RSvcs : \/ serviceAdd(s) \/ serviceRm(s)
                             \/ addRemotePin(s)
                             \/ \E n \in {"mfs", "user"}, f \in BOOLEAN : rmRemotePinList(s, n, f)

RFaultSteps == Restart \/ \E s \in RSvcs : WriteUnanswered(s) \/ RequestFails(s)

RNext == RLoop \/ RUser \/ RFaultSteps \/ \E s \in RSvcs : Serve(s)

RSpec == RInit /\ [][RNext]_rVars /\ WF_rVars(RLoop)

-----------------------------------------------------------------------------

\* A service never holds two pins for the MFS root: not after an answer was
\* lost, not after the daemon died between the request and its answer, not
\* when a user removes pins meanwhile.
OnePinPerName == \A s \in RSvcs : Cardinality(MfsPins(s)) <= 1

\* What lastPins says a service holds, it holds: the loop skips a service only
\* for a reason. Where an answer was lost, a pin failed later or a user removed
\* it, the entry is wrong until the next request to that service.
LastPinTrue ==
    \A s \in RSvcs \ rSpoilt : rLast[s] # NoLast => \E p \in MfsPins(s) : p.cid = rLast[s].cid

HasRoot(s) == \E p \in MfsPins(s) : p.cid = rRoot

\* The loop "follows changes to MFS": when the root and the configuration
\* come to rest, every service with the policy on comes to hold the root.
FollowsRoot == <>[](\A s \in RSvcs : rConf[s] \in On /\ s \notin rSpoilt /\ rId < MaxPinId => HasRoot(s))
=============================================================================
