------------------------------- MODULE Fleet -------------------------------
(***************************************************************************)
(* Growing the fleet (infrastructure.py, fleet_enrollment.py and           *)
(* deploy/infrastructure_worker.py, deploy/fleet_reconcile.py): the bot    *)
(* queues a provisioning job, the infrastructure worker creates the        *)
(* droplet, the node calls back with a one-time token, and the worker      *)
(* writes it into the fleet manifest and the pinned hosts, reconciles the  *)
(* fleet and completes the job.  The worker also deletes orphans.          *)
(*                                                                         *)
(* One worker pass runs at a time (a file lock); the bot's two threads,    *)
(* the registration endpoint and the operator run beside it.  A            *)
(* transaction, a file write and a provider call are each a step.          *)
(***************************************************************************)
EXTENDS Integers, FiniteSets

CONSTANTS
  FleetJobs,     \* infrastructure_jobs, numbered in the order they are queued
  MaxNodes,      \* AURIX_MAX_VPN_NODES
  BudgetNodes,   \* nodes the monthly budget pays for
  Growths        \* bound: the jobs queued, the worker's crashes and the nodes the
                 \* operator declares, one choice a behaviour

ASSUME FleetAssumption ==
  /\ FleetJobs \subseteq Nat \ {0} /\ IsFiniteSet(FleetJobs)
  /\ MaxNodes \in Nat /\ BudgetNodes \in Nat \ {0}
  /\ \A g \in Growths : g.jobs \subseteq FleetJobs /\ {g.crashes, g.edits} \subseteq Nat

(* A droplet carries its job's id in its name; 0 is the node there was before. *)
Droplets == {0} \cup FleetJobs
Callers == {"owner", "auto"}
Unasked == -1

VARIABLES
  growth,     \* what this behaviour explores
  job,        \* infrastructure_jobs: [status, id]; id is the droplet's, saved or not
  enrolment,  \* infrastructure_enrollments: [status, payload, old]
  droplets,   \* droplets that exist at the provider
  booted,     \* droplets that are active
  created,    \* history: droplets created for a job
  sighted,    \* provider_inventory_observed events of a droplet
  registered, \* outline_servers.provider_resource_id
  manifest,   \* AURIX_FLEET_NODES_JSON
  pinned,     \* the known_hosts file
  asking,     \* node count a queue request has read
  rested,     \* the creation cooldown is over
  pass,       \* the worker's pass
  fleetCrashes,
  byHand,     \* history: nodes the operator declared
  cut,        \* history: nodes whose enrollment a crash cut short
  raced       \* history: registered while the worker was deleting it

fleetVars == <<growth, job, enrolment, droplets, booted, created, sighted, registered, manifest,
               pinned, asking, rested, pass, fleetCrashes, byHand, cut, raced>>
requestVars == <<asking, rested>>
providerVars == <<droplets, booted, created>>
fileVars == <<manifest, pinned>>
pastVars == <<growth, fleetCrashes, byHand, cut, raced>>

NoJob == [status |-> "none", id |-> FALSE]
NoEnrolment == [status |-> "none", payload |-> FALSE, old |-> FALSE]
NoPass == [at |-> "rest", node |-> 0, todo |-> {}, before |-> {}, hosts |-> {}]
Stages == {"rest", "look", "orphans", "sweep", "delete", "jobs", "create", "save",
           "lookup", "declared", "enrol", "write", "run", "undo", "unpin", "consume",
           "finish"}

FleetTypeOK ==
  /\ job \in [FleetJobs -> [status : {"none", "pending", "running", "awaiting",
                                      "completed", "failed"}, id : BOOLEAN]]
  /\ enrolment \in [FleetJobs -> [status : {"none", "pending", "expired", "consumed"},
                                  payload : BOOLEAN, old : BOOLEAN]]
  /\ droplets \subseteq Droplets /\ booted \subseteq Droplets
  /\ created \in [FleetJobs -> 0..2]
  /\ sighted \in [Droplets -> {"no", "once", "hourAgo", "twice"}]
  /\ registered \subseteq Droplets /\ manifest \subseteq Droplets /\ pinned \subseteq Droplets
  /\ asking \in [Callers -> {Unasked} \cup Nat] /\ rested \in BOOLEAN
  /\ pass \in [at : Stages, node : Droplets, todo : SUBSET Droplets,
               before : SUBSET Droplets, hosts : SUBSET Droplets]
  /\ fleetCrashes \in 0..growth.crashes
  /\ byHand \subseteq Droplets /\ cut \subseteq Droplets /\ raced \subseteq Droplets

FleetInit ==
  /\ growth \in Growths
  /\ job = [j \in FleetJobs |-> NoJob] /\ enrolment = [j \in FleetJobs |-> NoEnrolment]
  /\ droplets = {0} /\ booted = {0} /\ created = [j \in FleetJobs |-> 0]
  /\ sighted = [d \in Droplets |-> "no"]
  /\ registered = {0} /\ manifest = {0} /\ pinned = {0}
  /\ asking = [c \in Callers |-> Unasked] /\ rested = TRUE /\ pass = NoPass
  /\ fleetCrashes = 0 /\ byHand = {} /\ cut = {} /\ raced = {}

-----------------------------------------------------------------------------
(* Queueing a job.  The bot has no provider client: it counts servers and jobs,
   not droplets. *)

Most(a, b) == IF a > b THEN a ELSE b
Underway == {j \in FleetJobs : job[j].status \in {"pending", "running"}}
Counted == {j \in FleetJobs : job[j].status \in {"running", "awaiting", "completed"}}
KnownNodes(inventory) ==
  Most(Most(Cardinality(registered), Cardinality(Counted)), Cardinality(inventory))

QueueReads(c) ==
  /\ asking[c] = Unasked /\ asking' = [asking EXCEPT ![c] = KnownNodes({})]
  /\ UNCHANGED <<job, enrolment, providerVars, sighted, registered, fileVars, rested,
                 pass, pastVars>>

(* The limits are checked again, the node count is the one read before. *)
QueueInserts(c) ==
  /\ asking[c] # Unasked /\ asking' = [asking EXCEPT ![c] = Unasked]
  /\ IF asking[c] < MaxNodes /\ rested /\ Underway = {}
     THEN \E j \in growth.jobs :
            /\ job[j] = NoJob /\ \A i \in FleetJobs : i < j => job[i] # NoJob
            /\ job' = [job EXCEPT ![j].status = "pending"] /\ rested' = FALSE
     ELSE UNCHANGED <<job, rested>>
  /\ UNCHANGED <<enrolment, providerVars, sighted, registered, fileVars, pass, pastVars>>

-----------------------------------------------------------------------------
(* The worker's pass: expiry, inventory, orphans, jobs. *)

At(stage) == pass.at = stage
Moves(stage) == pass' = [pass EXCEPT !.at = stage]
NextJob == pass' = [pass EXCEPT !.at = "jobs", !.node = 0, !.before = {}, !.hosts = {}]

(* Old tokens expire at the start of a pass. *)
PassBegins ==
  /\ At("rest") /\ Moves("look")
  /\ enrolment' = [j \in FleetJobs |->
       IF enrolment[j].status = "pending" /\ enrolment[j].old
       THEN [enrolment[j] EXCEPT !.status = "expired"] ELSE enrolment[j]]
  /\ UNCHANGED <<job, providerVars, sighted, registered, fileVars, requestVars, pastVars>>

(* One observation an hour is kept; the provider not answering ends the pass. *)
ObserveInventory ==
  /\ At("look") /\ Moves("orphans")
  /\ sighted' = [d \in Droplets |->
       CASE d \in droplets /\ sighted[d] = "no" -> "once"
         [] d \in droplets /\ sighted[d] = "hourAgo" -> "twice"
         [] OTHER -> sighted[d]]
  /\ UNCHANGED <<job, enrolment, providerVars, registered, fileVars, requestVars, pastVars>>

ProviderDown ==
  /\ At("look") /\ pass' = NoPass
  /\ UNCHANGED <<job, enrolment, providerVars, sighted, registered, fileVars,
                 requestVars, pastVars>>

Protected(d) ==
  \/ d \in registered
  \/ d \in FleetJobs /\ job[d].id /\ job[d].status \notin {"failed", "completed"}

FindOrphans ==
  /\ At("orphans")
  /\ pass' = [pass EXCEPT !.at = "sweep",
       !.todo = {d \in droplets : ~Protected(d) /\ sighted[d] = "twice"}]
  /\ UNCHANGED <<job, enrolment, providerVars, sighted, registered, fileVars,
                 requestVars, pastVars>>

(* A candidate is looked up once more before it is deleted. *)
LookAgain_Skipped(d) ==                    \* mutant: the listing is trusted
  /\ At("sweep") /\ d \in pass.todo
  /\ pass' = [pass EXCEPT !.todo = @ \ {d}, !.at = "delete", !.node = d]
  /\ UNCHANGED <<job, enrolment, providerVars, sighted, registered, fileVars,
                 requestVars, pastVars>>

LookAgain(d) ==
  /\ At("sweep") /\ d \in pass.todo
  /\ pass' = IF Protected(d) THEN [pass EXCEPT !.todo = @ \ {d}]
             ELSE [pass EXCEPT !.todo = @ \ {d}, !.at = "delete", !.node = d]
  /\ UNCHANGED <<job, enrolment, providerVars, sighted, registered, fileVars,
                 requestVars, pastVars>>

DeleteOrphan ==
  /\ At("delete") /\ pass' = [pass EXCEPT !.at = "sweep", !.node = 0]
  /\ droplets' \in {droplets, droplets \ {pass.node}} /\ booted' = booted \cap droplets'
  /\ UNCHANGED <<job, enrolment, created, sighted, registered, fileVars,
                 requestVars, pastVars>>

ListJobs ==
  /\ At("sweep") /\ pass.todo = {}
  /\ pass' = [pass EXCEPT !.at = "jobs", !.todo =
       {j \in FleetJobs : job[j].status \in {"pending", "running", "awaiting"}}]
  /\ UNCHANGED <<job, enrolment, providerVars, sighted, registered, fileVars,
                 requestVars, pastVars>>

PassEnds ==
  /\ At("jobs") /\ pass.todo = {} /\ pass' = NoPass
  /\ UNCHANGED <<job, enrolment, providerVars, sighted, registered, fileVars,
                 requestVars, pastVars>>

Turn(j) == At("jobs") /\ j \in pass.todo /\ \A i \in pass.todo : j <= i
Takes(j, stage) ==
  pass' = [pass EXCEPT !.at = stage, !.node = j, !.todo = @ \ {j}]

-----------------------------------------------------------------------------
(* A pending job: guards, then running with its token, then the provider. *)

(* The budget pays for what is known, the droplets at the provider included. *)
Affordable_Registered ==                   \* mutant: droplets not counted
  Cardinality(registered) + 1 <= BudgetNodes

Affordable == KnownNodes(droplets) + 1 <= BudgetNodes

(* A closed gate, the month's bill or a provider error leaves the job pending. *)
ProvisionRefused(j) ==
  /\ Turn(j) /\ job[j].status = "pending" /\ Takes(j, "jobs")
  /\ UNCHANGED <<job, enrolment, providerVars, sighted, registered, fileVars,
                 requestVars, pastVars>>

ExecuteProvision(j) ==
  /\ Turn(j) /\ job[j].status = "pending" /\ Affordable /\ Takes(j, "create")
  /\ job' = [job EXCEPT ![j].status = "running"]
  /\ enrolment' = [enrolment EXCEPT ![j].status = "pending"]
  /\ UNCHANGED <<providerVars, sighted, registered, fileVars, requestVars, pastVars>>

Born == /\ droplets' = droplets \cup {pass.node}
        /\ created' = [created EXCEPT ![pass.node] = IF @ < 2 THEN @ + 1 ELSE @]

CreateDroplet ==
  /\ At("create") /\ Moves("save") /\ Born
  /\ UNCHANGED <<job, enrolment, booted, sighted, registered, fileVars, requestVars, pastVars>>

CreateDropletFails ==
  /\ At("create") /\ Moves("lookup")
  /\ Born \/ UNCHANGED <<droplets, created>>
  /\ UNCHANGED <<job, enrolment, booted, sighted, registered, fileVars, requestVars, pastVars>>

SaveId ==
  /\ \/ At("save")
     \/ At("lookup") /\ pass.node \in droplets      \* found by its exact name
  /\ job' = [job EXCEPT ![pass.node].id = TRUE] /\ NextJob
  /\ UNCHANGED <<enrolment, providerVars, sighted, registered, fileVars, requestVars, pastVars>>

(* The droplet is not found, or the listing fails too. *)
ProvisionFails_Retried ==                  \* mutant: the create is tried again
  /\ At("lookup") /\ NextJob
  /\ job' = [job EXCEPT ![pass.node].status = "pending"]
  /\ UNCHANGED <<enrolment, providerVars, sighted, registered, fileVars, requestVars, pastVars>>

ProvisionFails ==
  /\ At("lookup") /\ NextJob
  /\ job' = [job EXCEPT ![pass.node].status = "failed"]
  /\ UNCHANGED <<enrolment, providerVars, sighted, registered, fileVars, requestVars, pastVars>>

-----------------------------------------------------------------------------
(* A running job waits for its droplet; without an id it waits for ever. *)

StillCreating(j) ==
  /\ Turn(j) /\ job[j].status = "running" /\ Takes(j, "jobs")
  /\ ~job[j].id \/ j \notin booted
  /\ UNCHANGED <<job, enrolment, providerVars, sighted, registered, fileVars,
                 requestVars, pastVars>>

ActionErrored(j) ==
  /\ Turn(j) /\ job[j].status = "running" /\ job[j].id /\ j \notin booted
  /\ Takes(j, "jobs") /\ job' = [job EXCEPT ![j].status = "failed"]
  /\ UNCHANGED <<enrolment, providerVars, sighted, registered, fileVars, requestVars, pastVars>>

(* Only this pass knows the address a declared node is matched by. *)
DropletActive(j) ==
  /\ Turn(j) /\ job[j].status = "running" /\ job[j].id /\ j \in booted
  /\ job' = [job EXCEPT ![j].status = "awaiting"]
  /\ Takes(j, IF j \in manifest THEN "declared" ELSE "enrol")
  /\ UNCHANGED <<enrolment, providerVars, sighted, registered, fileVars, requestVars, pastVars>>

AwaitsVerification(j) ==
  /\ Turn(j) /\ job[j].status = "awaiting" /\ Takes(j, "enrol")
  /\ UNCHANGED <<job, enrolment, providerVars, sighted, registered, fileVars,
                 requestVars, pastVars>>

(* The reconciler reaches every node of the manifest, then registers them all;
   it may fail before that or afterwards. *)
Registers == manifest \subseteq booted /\ registered' = registered \cup manifest

(* The node is in the operator's manifest already. *)
RunDeclared ==
  /\ At("declared")
  /\ \/ Moves("finish") /\ Registers
     \/ NextJob /\ (Registers \/ UNCHANGED registered)
  /\ UNCHANGED <<job, enrolment, providerVars, sighted, fileVars, requestVars, pastVars>>

(* The callback has not come, came too late, was used, or cannot be used. *)
NotEnrolled ==
  /\ At("enrol")
  /\ LET j == pass.node
         usable == enrolment[j].status = "pending" /\ enrolment[j].payload
     IN  \/ /\ ~usable /\ ~(enrolment[j].status = "consumed" /\ j \in manifest)
            /\ NextJob /\ UNCHANGED enrolment
         \/ /\ usable /\ enrolment[j].old /\ NextJob
            /\ enrolment' = [enrolment EXCEPT ![j].status = "expired"]
         \/ /\ usable /\ ~enrolment[j].old /\ j \in manifest
            /\ NextJob /\ UNCHANGED enrolment
         \/ /\ enrolment[j].status = "consumed" /\ j \in manifest    \* after a crash
            /\ Moves("finish") /\ UNCHANGED enrolment
  /\ UNCHANGED <<job, providerVars, sighted, registered, fileVars, requestVars, pastVars>>

PinHost ==
  /\ At("enrol")
  /\ LET j == pass.node IN
       /\ enrolment[j].status = "pending" /\ enrolment[j].payload /\ ~enrolment[j].old
       /\ j \notin manifest /\ pinned' = pinned \cup {j}
  /\ pass' = [pass EXCEPT !.at = "write", !.before = manifest, !.hosts = pinned]
  /\ UNCHANGED <<job, enrolment, providerVars, sighted, registered, manifest,
                 requestVars, pastVars>>

WriteManifest ==
  /\ At("write") /\ manifest' = pass.before \cup {pass.node} /\ Moves("run")
  /\ UNCHANGED <<job, enrolment, providerVars, sighted, registered, pinned, requestVars, pastVars>>

RunReconcile ==
  /\ At("run")
  /\ \/ Moves("consume") /\ Registers
     \/ Moves("undo") /\ (Registers \/ UNCHANGED registered)
  /\ UNCHANGED <<job, enrolment, providerVars, sighted, fileVars, requestVars, pastVars>>

RestoreManifest ==
  /\ At("undo") /\ manifest' = pass.before /\ Moves("unpin")
  /\ UNCHANGED <<job, enrolment, providerVars, sighted, registered, pinned, requestVars, pastVars>>

RestoreHosts_Forgotten ==                  \* mutant: only the manifest restored
  /\ At("unpin") /\ NextJob
  /\ UNCHANGED <<pinned, job, enrolment, providerVars, sighted, registered, manifest,
                 requestVars, pastVars>>

RestoreHosts ==
  /\ At("unpin") /\ pinned' = pass.hosts /\ NextJob
  /\ UNCHANGED <<job, enrolment, providerVars, sighted, registered, manifest,
                 requestVars, pastVars>>

(* The token is used up before the job is completed. *)
MarkConsumed_Later ==                      \* mutant: the job first
  /\ At("consume") /\ Moves("finish")
  /\ UNCHANGED <<enrolment, job, providerVars, sighted, registered, fileVars,
                 requestVars, pastVars>>

MarkConsumed ==
  /\ At("consume")
  /\ IF enrolment[pass.node].status \in {"pending", "consumed"}
     THEN /\ enrolment' = [enrolment EXCEPT ![pass.node].status = "consumed"]
          /\ Moves("finish")
     ELSE NextJob /\ UNCHANGED enrolment
  /\ UNCHANGED <<job, providerVars, sighted, registered, fileVars, requestVars, pastVars>>

MarkActivated ==
  /\ At("finish") /\ NextJob
  /\ job' = IF job[pass.node].status = "awaiting" /\ pass.node \in registered
            THEN [job EXCEPT ![pass.node].status = "completed"] ELSE job
  /\ UNCHANGED <<enrolment, providerVars, sighted, registered, fileVars, requestVars, pastVars>>

-----------------------------------------------------------------------------
(* The node, the operator, time and crashes. *)

DropletBoots(j) ==
  /\ j \in droplets \ booted /\ booted' = booted \cup {j}
  /\ UNCHANGED <<job, enrolment, droplets, created, sighted, registered, fileVars,
                 requestVars, pass, pastVars>>

(* The registration endpoint: kept once, refused when old or used. *)
ReceiveEnrolment(j) ==
  /\ j \in booted /\ enrolment[j].status \notin {"none", "consumed"}
  /\ enrolment' = [enrolment EXCEPT ![j] =
       IF @.old THEN [@ EXCEPT !.status = "expired"]
       ELSE [@ EXCEPT !.payload = enrolment[j].payload \/ enrolment[j].status = "pending"]]
  /\ UNCHANGED <<job, providerVars, sighted, registered, fileVars, requestVars, pass, pastVars>>

TokenAges(j) ==
  /\ enrolment[j].status = "pending" /\ ~enrolment[j].old
  /\ enrolment' = [enrolment EXCEPT ![j].old = TRUE]
  /\ UNCHANGED <<job, providerVars, sighted, registered, fileVars, requestVars, pass, pastVars>>

HourPasses ==
  /\ \E d \in Droplets : sighted[d] = "once"
  /\ sighted' = [d \in Droplets |-> IF sighted[d] = "once" THEN "hourAgo" ELSE sighted[d]]
  /\ UNCHANGED <<job, enrolment, providerVars, registered, fileVars, requestVars, pass, pastVars>>

(* The cooldown is a day: no request and no pass lasts that long. *)
CooldownOver ==
  /\ ~rested /\ rested' = TRUE /\ At("rest") /\ \A c \in Callers : asking[c] = Unasked
  /\ UNCHANGED <<job, enrolment, providerVars, sighted, registered, fileVars, asking,
                 pass, pastVars>>

DeclareNode(d) ==
  /\ Cardinality(byHand) < growth.edits /\ d \in booted \ manifest
  /\ manifest' = manifest \cup {d} /\ pinned' = pinned \cup {d}
  /\ byHand' = byHand \cup {d}
  /\ UNCHANGED <<job, enrolment, providerVars, sighted, registered, requestVars, pass,
                 growth, fleetCrashes, cut, raced>>

(* Run by the operator; the reconciler's own lock keeps the worker's out. *)
Reconcile ==
  /\ pass.at \notin {"run", "declared"} /\ ~(manifest \subseteq registered)
  /\ Registers
  /\ raced' = IF At("delete") THEN raced \cup (manifest \cap {pass.node}) ELSE raced
  /\ UNCHANGED <<job, enrolment, providerVars, sighted, fileVars, requestVars, pass,
                 growth, fleetCrashes, byHand, cut>>

WorkerStops ==
  /\ fleetCrashes < growth.crashes /\ ~At("rest")
  /\ fleetCrashes' = fleetCrashes + 1 /\ pass' = NoPass
  /\ cut' = IF pass.at \in {"write", "run", "undo", "unpin"} THEN cut \cup {pass.node} ELSE cut
  /\ UNCHANGED <<job, enrolment, providerVars, sighted, registered, fileVars,
                 requestVars, growth, byHand, raced>>

OrphanStep == ObserveInventory \/ ProviderDown \/ FindOrphans \/ DeleteOrphan
              \/ \E d \in Droplets : LookAgain(d)
CreateStep == CreateDroplet \/ CreateDropletFails \/ SaveId \/ ProvisionFails
EnrolStep == \/ RunDeclared \/ NotEnrolled \/ PinHost \/ WriteManifest \/ RunReconcile
             \/ RestoreManifest \/ RestoreHosts \/ MarkConsumed \/ MarkActivated
JobStep(j) == \/ ProvisionRefused(j) \/ ExecuteProvision(j) \/ StillCreating(j)
              \/ ActionErrored(j) \/ DropletActive(j) \/ AwaitsVerification(j)
NodeStep(j) == DropletBoots(j) \/ ReceiveEnrolment(j) \/ TokenAges(j)

FleetNext ==
  \/ \E c \in Callers : QueueReads(c) \/ QueueInserts(c)
  \/ PassBegins \/ OrphanStep \/ ListJobs \/ CreateStep \/ EnrolStep \/ PassEnds
  \/ \E j \in FleetJobs : JobStep(j) \/ NodeStep(j)
  \/ HourPasses \/ CooldownOver \/ Reconcile \/ WorkerStops
  \/ \E d \in Droplets : DeclareNode(d)

FleetSpec == FleetInit /\ [][FleetNext]_fleetVars

-----------------------------------------------------------------------------
(* A job never pays for two droplets, whatever answer, crash or failed lookup
   follows the create request. *)
OneDropletPerJob == \A j \in FleetJobs : created[j] <= 1

(* The nodes at the provider never cost more than the budget, droplets of failed
   or forgotten jobs included. *)
WithinBudget == Cardinality(droplets) <= BudgetNodes

(* Orphan cleanup never takes a node in service or one a job is waiting for; the
   operator registering the node while it is being deleted is the exception. *)
NodeInUseIsKept == {d \in Droplets : Protected(d)} \subseteq droplets \cup raced

(* Enrollment is all or nothing.  One that fails leaves the manifest and the
   pinned hosts as they were, unless a crash or the operator came in between;
   a completed job's node is in service and its token cannot be used again,
   unless the operator declared the node. *)
EnrolmentIsAllOrNothing ==
  /\ pass.at \notin {"write", "run", "undo", "unpin"} =>
       manifest \cup pinned \subseteq (registered \cap manifest \cap pinned) \cup byHand \cup cut
  /\ \A j \in FleetJobs : job[j].status = "completed" =>
       j \in registered /\ (enrolment[j].status # "pending" \/ j \in byHand)
=============================================================================
