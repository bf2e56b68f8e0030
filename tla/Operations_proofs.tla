--------------------------- MODULE Operations_proofs ---------------------------
(***************************************************************************)
(* Proofs about the two state machines of operations: the growing fleet    *)
(* (Fleet) and the deployer (Releases).                                    *)
(***************************************************************************)
EXTENDS Fleet, Releases, FiniteSetTheorems, TLAPS

-----------------------------------------------------------------------------
(* The deployer: the steps of a run. *)
Steps == {"rest", "build", "link", "watch", "install", "record", "clean"}

ReleasesTypes ==
  /\ head \in Commits /\ checks \in [Commits -> {"pending", "success", "failed"}]
  /\ releases \subseteq Commits /\ younger \in [Commits -> SUBSET releases]
  /\ {current, recorded, units} \subseteq Commits \cup {NoCommit}
  /\ run \in [step : Steps, commit : Commits \cup {NoCommit}, old : Commits \cup {NoCommit}]
  /\ run.step # "rest" => run.commit \in Commits

(* Directories that are removed leave the others and their order alone. *)
LEMMA RemovedTypes ==
  ASSUME ReleasesTypes, NEW gone, Removed(gone)
  PROVE  releases' \subseteq Commits /\ younger' \in [Commits -> SUBSET releases']
BY DEF Removed, ReleasesTypes

(* The types of the first state, kept by every step. *)
LEMMA ReleasesTypesInit == ReleasesInit => ReleasesTypes
BY DEF ReleasesInit, ReleasesTypes, NoRun, Steps

(* A run that goes on keeps its commit. *)
LEMMA RunGoes ==
  ASSUME ReleasesTypes, NEW step \in Steps, Goes(step)
  PROVE  /\ run' \in [step : Steps, commit : Commits \cup {NoCommit}, old : Commits \cup {NoCommit}]
         /\ run'.step = step /\ run'.commit = run.commit /\ run'.old = run.old
BY DEF Goes, ReleasesTypes

(* Every step keeps the types. *)
LEMMA ReleasesTypesStep == ReleasesTypes /\ [ReleasesNext]_releasesVars => ReleasesTypes'
<1> SUFFICES ASSUME ReleasesTypes, [ReleasesNext]_releasesVars PROVE ReleasesTypes'
  OBVIOUS
<1>S. {"rest", "build", "link", "watch", "install", "record", "clean"} \subseteq Steps
  BY DEF Steps
<1>1. ASSUME NEW c \in Commits, Push(c) \/ \E v \in {"success", "failed"} : ChecksEnd(c, v)
      PROVE  ReleasesTypes'
  BY <1>1 DEF Push, ChecksEnd, dirVars, ReleasesTypes
<1>2. CASE AlreadyCurrent
  BY <1>2 DEF AlreadyCurrent, branchVars, dirVars, ReleasesTypes
<1>3. CASE Begins
  BY <1>3 DEF Begins, branchVars, dirVars, ReleasesTypes, Steps
<1>4. CASE Build
  <2>1. run.commit \in Commits
    BY <1>4 DEF Build, DeployAt, ReleasesTypes
  <2>2. releases' \subseteq Commits /\ younger' \in [Commits -> SUBSET releases']
    BY <1>4, <2>1 DEF Build, ReleasesTypes
  <2> QED BY <1>4, <1>S, <2>1, <2>2, RunGoes DEF Build, branchVars, ReleasesTypes
<1>5. CASE BuildFails
  BY <1>5, RemovedTypes DEF BuildFails, branchVars, NoRun, Steps, ReleasesTypes
<1>6. CASE Link
  BY <1>6 DEF Link, DeployAt, branchVars, dirVars, Steps, ReleasesTypes
<1>7. CASE ComesUp
  BY <1>7, <1>S, RunGoes DEF ComesUp, DeployAt, branchVars, dirVars, ReleasesTypes
<1>8. CASE DoesNotComeUp
  BY <1>8 DEF DoesNotComeUp, DeployAt, branchVars, dirVars, NoRun, Steps, ReleasesTypes
<1>9. CASE Install
  <2>1. run.commit \in Commits /\ units' \in {units, run.commit}
    BY <1>9 DEF Install, DeployAt, ReleasesTypes
  <2>2. CASE Goes("record")
    BY <1>9, <1>S, <2>1, <2>2, RunGoes DEF Install, branchVars, dirVars, ReleasesTypes
  <2>3. CASE run' = NoRun
    BY <1>9, <2>1, <2>3 DEF Install, branchVars, dirVars, NoRun, Steps, ReleasesTypes
  <2> QED BY <1>9, <2>2, <2>3 DEF Install
<1>10. CASE Record
  BY <1>10, <1>S, RunGoes DEF Record, DeployAt, branchVars, dirVars, ReleasesTypes
<1>11. CASE Cleanup
  BY <1>11, RemovedTypes DEF Cleanup, branchVars, NoRun, Steps, ReleasesTypes
<1>12. CASE Killed
  <2>1. releases' \subseteq Commits /\ younger' \in [Commits -> SUBSET releases']
    BY <1>12, RemovedTypes DEF Killed, dirVars, ReleasesTypes
  <2> QED BY <1>12, <2>1 DEF Killed, branchVars, NoRun, Steps, ReleasesTypes
<1>13. CASE UNCHANGED releasesVars
  BY <1>13 DEF releasesVars, ReleasesTypes
<1> QED
  BY <1>1, <1>2, <1>3, <1>4, <1>5, <1>6, <1>7, <1>8, <1>9, <1>10, <1>11, <1>12, <1>13
  DEF ReleasesNext

(* The deployer keeps its types. *)
THEOREM ReleasesTypesSafety == ReleasesSpec => []ReleasesTypeOK
<1>1. ReleasesTypes => ReleasesTypeOK
  BY DEF ReleasesTypes, ReleasesTypeOK, Steps
<1> QED BY <1>1, ReleasesTypesInit, ReleasesTypesStep, PTL DEF ReleasesSpec

(* A release that may be served: CI passed it, and it came up or was never seen to
   fail.  The release before the one being watched is one as well, and the run
   builds no release that is served. *)
Served(c) == /\ c # NoCommit => c \in releases /\ checks[c] = "success"
             /\ c \in passed \cup unsure \cup {NoCommit}

ServedInv ==
  /\ run.step # "rest" => checks[run.commit] = "success"
  /\ recorded \in passed \cup unsure \cup {NoCommit}
  /\ run.step # "watch" => Served(current)
  /\ run.step \in {"build", "link"} => current # run.commit
  /\ run.step \in {"link", "watch"} => run.commit \in releases
  /\ run.step = "watch" => current = run.commit /\ Served(run.old)
  /\ run.step \in {"install", "record", "clean"} =>
       current = run.commit /\ run.commit \in passed \cup unsure

(* Every step keeps it: a release is removed only while another is served, and a
   watched one gives way to the one before or is marked. *)
LEMMA ServedStep == ReleasesTypes /\ ServedInv /\ [ReleasesNext]_releasesVars => ServedInv'
<1> SUFFICES ASSUME ReleasesTypes, ServedInv, [ReleasesNext]_releasesVars PROVE ServedInv'
  OBVIOUS
<1>N. NoCommit \notin Commits /\ NoCommit \notin releases
  BY ReleasesAssumption DEF ReleasesTypes
<1>1. ASSUME NEW c \in Commits, Push(c) \/ \E v \in {"success", "failed"} : ChecksEnd(c, v)
      PROVE  ServedInv'
  <2>1. \A d \in Commits : checks[d] = "success" => checks'[d] = "success"
    BY <1>1 DEF Push, ChecksEnd, ReleasesTypes
  <2>2. UNCHANGED <<dirVars, current, recorded, run, passed, unsure>>
    BY <1>1 DEF Push, ChecksEnd, outcomeVars
  <2>3. ASSUME NEW d, Served(d), d \in releases \/ d = NoCommit PROVE Served(d)'
    BY <2>1, <2>2, <2>3 DEF Served, dirVars, ReleasesTypes
  <2> QED BY <2>1, <2>2, <2>3 DEF ServedInv, Served, dirVars, ReleasesTypes
<1>2. CASE AlreadyCurrent
  BY <1>2 DEF AlreadyCurrent, branchVars, dirVars, outcomeVars, ServedInv, Served
<1>3. CASE Begins
  BY <1>3, <1>N DEF Begins, DeployAt, branchVars, dirVars, outcomeVars, ServedInv, Served,
                    ReleasesTypes
<1>4. CASE Build
  BY <1>4, <1>N, RunGoes DEF Build, DeployAt, branchVars, outcomeVars, ServedInv, Served, Steps
<1>5. CASE BuildFails
  BY <1>5, <1>N DEF BuildFails, DeployAt, Removed, branchVars, outcomeVars, NoRun, ServedInv,
                    Served
<1>6. CASE Link
  BY <1>6, <1>N DEF Link, DeployAt, branchVars, dirVars, outcomeVars, ServedInv, Served,
                    ReleasesTypes
<1>7. CASE ComesUp
  BY <1>7, <1>N, RunGoes DEF ComesUp, DeployAt, branchVars, dirVars, ServedInv, Served, Steps
<1>8. CASE DoesNotComeUp
  BY <1>8, <1>N DEF DoesNotComeUp, DeployAt, branchVars, dirVars, NoRun, ServedInv, Served,
                    ReleasesTypes
<1>9. CASE Install
  <2>1. CASE Goes("record")
    BY <1>9, <2>1, RunGoes
    DEF Install, DeployAt, branchVars, dirVars, outcomeVars, ServedInv, Served, Steps
  <2>2. CASE run' = NoRun
    BY <1>9, <2>2
    DEF Install, DeployAt, branchVars, dirVars, outcomeVars, NoRun, ServedInv, Served
  <2> QED BY <1>9, <2>1, <2>2 DEF Install
<1>10. CASE Record
  BY <1>10, RunGoes
  DEF Record, DeployAt, branchVars, dirVars, outcomeVars, ServedInv, Served, Steps
<1>11. CASE Cleanup
  BY <1>11 DEF Cleanup, DeployAt, Removed, branchVars, outcomeVars, NoRun, ServedInv, Served
<1>12. CASE Killed
  BY <1>12, <1>N DEF Killed, DeployAt, Removed, branchVars, dirVars, NoRun, ServedInv, Served,
                     ReleasesTypes
<1>13. CASE UNCHANGED releasesVars
  BY <1>13 DEF releasesVars, ServedInv, Served
<1> QED
  BY <1>1, <1>2, <1>3, <1>4, <1>5, <1>6, <1>7, <1>8, <1>9, <1>10, <1>11, <1>12, <1>13
  DEF ReleasesNext

(* Between runs a release is served that CI passed and that came up, whatever step
   failed or was cut short; one that was never watched to the end is marked. *)
THEOREM ServedReleaseSafety == ReleasesSpec => []FailedReleaseIsNotServed
<1>1. ReleasesInit => ServedInv
  BY DEF ReleasesInit, ServedInv, Served, NoRun
<1>2. ReleasesTypes /\ ServedInv => FailedReleaseIsNotServed
  BY DEF ReleasesTypes, ServedInv, Served, FailedReleaseIsNotServed, DeployAt, Steps
<1> QED
  BY <1>1, <1>2, ReleasesTypesInit, ReleasesTypesStep, ServedStep, PTL DEF ReleasesSpec


-----------------------------------------------------------------------------
(* The fleet: the values of a job, a token and the worker's pass. *)
Jobs == [status : {"none", "pending", "running", "awaiting", "completed", "failed"}, id : BOOLEAN]
Enrolments == [status : {"none", "pending", "expired", "consumed"}, payload : BOOLEAN,
               old : BOOLEAN]
Passes == [at : Stages, node : Droplets, todo : SUBSET Droplets, before : SUBSET Droplets,
           hosts : SUBSET Droplets]

FleetTypes == FleetTypeOK /\ growth \in Growths

(* What a step that writes one field of a row leaves of the table. *)
LEMMA JobStatus ==
  ASSUME FleetTypes, NEW j \in FleetJobs, NEW s, job' = [job EXCEPT ![j].status = s],
         s \in {"none", "pending", "running", "awaiting", "completed", "failed"}
  PROVE  /\ job' \in [FleetJobs -> Jobs] /\ job'[j].status = s /\ job'[j].id = job[j].id
         /\ \A i \in FleetJobs \ {j} : job'[i] = job[i]
BY DEF FleetTypes, FleetTypeOK, Jobs

(* A droplet's id. *)
LEMMA JobId ==
  ASSUME FleetTypes, NEW j \in FleetJobs, job' = [job EXCEPT ![j].id = TRUE]
  PROVE  /\ job' \in [FleetJobs -> Jobs] /\ job'[j].status = job[j].status /\ job'[j].id
         /\ \A i \in FleetJobs \ {j} : job'[i] = job[i]
BY DEF FleetTypes, FleetTypeOK, Jobs

(* A token's status. *)
LEMMA TokenStates ==
  ASSUME FleetTypes, NEW j \in FleetJobs, NEW s, enrolment' = [enrolment EXCEPT ![j].status = s],
         s \in {"none", "pending", "expired", "consumed"}
  PROVE  /\ enrolment' \in [FleetJobs -> Enrolments] /\ enrolment'[j].status = s
         /\ \A i \in FleetJobs \ {j} : enrolment'[i] = enrolment[i]
BY DEF FleetTypes, FleetTypeOK, Enrolments

(* The worker goes on to another stage, to the next job, or takes a job. *)
LEMMA MovesIs ==
  ASSUME FleetTypes, NEW stage \in Stages, Moves(stage)
  PROVE  /\ pass' \in Passes /\ pass'.at = stage /\ pass'.node = pass.node
         /\ pass'.todo = pass.todo /\ pass'.before = pass.before /\ pass'.hosts = pass.hosts
BY DEF Moves, FleetTypes, FleetTypeOK, Passes

(* The job is done with. *)
LEMMA NextJobIs ==
  ASSUME FleetTypes, NextJob
  PROVE  pass' \in Passes /\ pass'.at = "jobs"
<1> "jobs" \in Stages /\ 0 \in Droplets
  BY DEF Stages, Droplets
<1> QED BY DEF NextJob, FleetTypes, FleetTypeOK, Passes

(* The worker takes a job off its list. *)
LEMMA TakesInPass ==
  ASSUME FleetTypes, NEW j \in FleetJobs, NEW stage \in Stages, Takes(j, stage)
  PROVE  pass' \in Passes /\ pass'.at = stage /\ pass'.node = j
<1> j \in Droplets
  BY DEF Droplets
<1> QED BY DEF Takes, FleetTypes, FleetTypeOK, Passes

(* The types of the first state. *)
LEMMA FleetTypesInit == FleetInit => FleetTypes
BY FleetAssumption
DEF FleetInit, FleetTypes, FleetTypeOK, NoJob, NoEnrolment, NoPass, Stages, Droplets, Callers,
    Unasked
(* There are finitely many droplets, so a node count is a number. *)
LEMMA DropletsFinite == IsFiniteSet(Droplets)
BY FS_AddElement, FS_EmptySet, FS_Union, FS_Singleton, FleetAssumption DEF Droplets

(* The node count is a number, no smaller than what the provider lists. *)
LEMMA KnownNodesNat ==
  ASSUME FleetTypes, NEW S \in SUBSET Droplets
  PROVE  KnownNodes(S) \in Nat /\ KnownNodes(S) >= Cardinality(S)
<1>1. IsFiniteSet(registered) /\ IsFiniteSet(Counted) /\ IsFiniteSet(S)
  <2>1. registered \subseteq Droplets /\ Counted \subseteq Droplets
    BY DEF FleetTypes, FleetTypeOK, Counted, Droplets
  <2> QED BY <2>1, FS_Subset, DropletsFinite
<1>2. {Cardinality(registered), Cardinality(Counted), Cardinality(S)} \subseteq Nat
  BY <1>1, FS_CardinalityType
<1> QED BY <1>2 DEF KnownNodes, Most

(* What a step writes in the tables and the pass, read once for all the proofs
   below: one row, the stage and its node, the nodes the reconciler registers. *)
JobBecomes(j, s) == /\ job' \in [FleetJobs -> Jobs] /\ job'[j].status = s
                 /\ job'[j].id = job[j].id /\ \A i \in FleetJobs \ {j} : job'[i] = job[i]
TokenBecomes(j, s) == /\ enrolment' \in [FleetJobs -> Enrolments] /\ enrolment'[j].status = s
                      /\ \A i \in FleetJobs \ {j} : enrolment'[i] = enrolment[i]
GoesTo(stage, n) == pass' \in Passes /\ pass'.at = stage /\ pass'.node = n
Keeps == pass'.before = pass.before /\ pass'.hosts = pass.hosts
PassAtRest == pass' \in Passes /\ pass'.at = "jobs"
Born1 == /\ droplets' = droplets \cup {pass.node} /\ created' \in [FleetJobs -> 0..2]
         /\ created'[pass.node] <= created[pass.node] + 1
         /\ \A i \in FleetJobs \ {pass.node} : created'[i] = created[i]

(* The droplet of the job in hand is there, and counted once more at most. *)
LEMMA BornIs ==
  ASSUME FleetTypes, pass.node \in FleetJobs, Born PROVE Born1
<1> DEFINE n == pass.node
           v == IF created[n] < 2 THEN created[n] + 1 ELSE created[n]
<1>1. created' = [created EXCEPT ![n] = v] /\ droplets' = droplets \cup {n}
  BY DEF Born
<1>2. created[n] \in 0..2 /\ created \in [FleetJobs -> 0..2]
  BY DEF FleetTypes, FleetTypeOK
<1>3. v \in 0..2 /\ v <= created[n] + 1
  BY <1>2
<1> HIDE DEF v
<1> QED BY <1>1, <1>2, <1>3 DEF Born1

(* A request reads the node count. *)
LEMMA QueueReadsIs ==
  ASSUME FleetTypes, NEW c \in Callers, QueueReads(c)
  PROVE  /\ asking' \in [Callers -> {Unasked} \cup Nat]
         /\ UNCHANGED <<job, enrolment, providerVars, sighted, registered, fileVars, rested,
                        pass, pastVars>>
<1>1. KnownNodes({}) \in Nat
  BY KnownNodesNat
<1> HIDE DEF KnownNodes
<1> QED BY <1>1 DEF QueueReads, FleetTypes, FleetTypeOK

(* A request queues a job that was not there, or nothing. *)
LEMMA QueueInsertsIs ==
  ASSUME FleetTypes, NEW c \in Callers, QueueInserts(c)
  PROVE  /\ asking' \in [Callers -> {Unasked} \cup Nat] /\ rested' \in BOOLEAN
         /\ UNCHANGED job \/ \E j \in FleetJobs : job[j] = NoJob /\ JobBecomes(j, "pending")
         /\ UNCHANGED <<enrolment, providerVars, sighted, registered, fileVars, pass, pastVars>>
<1>1. asking' \in [Callers -> {Unasked} \cup Nat]
  BY DEF QueueInserts, FleetTypes, FleetTypeOK
<1>2. UNCHANGED <<enrolment, providerVars, sighted, registered, fileVars, pass, pastVars>>
  BY DEF QueueInserts
<1>3. CASE UNCHANGED <<job, rested>>
  BY <1>1, <1>2, <1>3 DEF FleetTypes, FleetTypeOK
<1>4. ASSUME NEW j \in growth.jobs, job[j] = NoJob, rested' = FALSE,
             job' = [job EXCEPT ![j].status = "pending"]
      PROVE  rested' \in BOOLEAN /\ \E i \in FleetJobs : job[i] = NoJob /\ JobBecomes(i, "pending")
  <2>1. j \in FleetJobs
    BY FleetAssumption DEF FleetTypes
  <2>2. JobBecomes(j, "pending")
    BY <1>4, <2>1, JobStatus DEF JobBecomes
  <2> QED BY <1>4, <2>1, <2>2
<1> QED BY <1>1, <1>2, <1>3, <1>4 DEF QueueInserts

(* A pass begins; a token may expire, none becomes pending. *)
LEMMA PassBeginsIs ==
  ASSUME FleetTypes, PassBegins
  PROVE  /\ pass.at = "rest" /\ GoesTo("look", pass.node)
         /\ enrolment' \in [FleetJobs -> Enrolments]
         /\ \A j \in FleetJobs : enrolment'[j].status = "pending" => enrolment[j].status = "pending"
         /\ UNCHANGED <<job, providerVars, sighted, registered, fileVars, requestVars, pastVars>>
<1>1. "look" \in Stages
  BY DEF Stages
<1>2. \A j \in FleetJobs : /\ enrolment'[j] \in Enrolments
                           /\ enrolment'[j].status = "pending" => enrolment[j].status = "pending"
  BY DEF PassBegins, FleetTypes, FleetTypeOK, Enrolments
<1>3. enrolment' \in [FleetJobs -> Enrolments]
  BY <1>2 DEF PassBegins
<1> QED BY <1>1, <1>2, <1>3, MovesIs DEF PassBegins, At, GoesTo

(* A pending job is paid for and running. *)
LEMMA ExecuteProvisionIs ==
  ASSUME FleetTypes, NEW j \in FleetJobs, ExecuteProvision(j)
  PROVE  /\ pass.at = "jobs" /\ job[j].status = "pending" /\ Affordable
         /\ GoesTo("create", j) /\ JobBecomes(j, "running") /\ TokenBecomes(j, "pending")
         /\ UNCHANGED <<providerVars, sighted, registered, fileVars, requestVars, pastVars>>
<1>1. pass.at = "jobs" /\ GoesTo("create", j)
  BY TakesInPass DEF ExecuteProvision, Turn, At, GoesTo, Stages
<1>2. JobBecomes(j, "running")
  BY JobStatus DEF ExecuteProvision, JobBecomes
<1>3. TokenBecomes(j, "pending")
  BY TokenStates DEF ExecuteProvision, TokenBecomes
<1> QED BY <1>1, <1>2, <1>3 DEF ExecuteProvision

(* The create request is answered. *)
LEMMA CreateDropletIs ==
  ASSUME FleetTypes, pass.node \in FleetJobs, CreateDroplet
  PROVE  /\ pass.at = "create" /\ GoesTo("save", pass.node) /\ Born1
         /\ UNCHANGED <<job, enrolment, booted, sighted, registered, fileVars, requestVars, pastVars>>
BY BornIs, MovesIs DEF CreateDroplet, At, GoesTo, Stages

(* It fails, and the droplet may be there. *)
LEMMA CreateDropletFailsIs ==
  ASSUME FleetTypes, pass.node \in FleetJobs, CreateDropletFails
  PROVE  /\ pass.at = "create" /\ GoesTo("lookup", pass.node)
         /\ Born1 \/ UNCHANGED <<droplets, created>>
         /\ UNCHANGED <<job, enrolment, booted, sighted, registered, fileVars, requestVars, pastVars>>
<1>1. pass.at = "create" /\ GoesTo("lookup", pass.node)
  BY MovesIs DEF CreateDropletFails, At, GoesTo, Stages
<1> QED BY <1>1, BornIs DEF CreateDropletFails

(* The droplet's id is saved. *)
LEMMA SaveIdIs ==
  ASSUME FleetTypes, pass.node \in FleetJobs, SaveId
  PROVE  /\ pass.at = "save" \/ (pass.at = "lookup" /\ pass.node \in droplets)
         /\ PassAtRest /\ job' \in [FleetJobs -> Jobs]
         /\ job'[pass.node].status = job[pass.node].status /\ job'[pass.node].id
         /\ \A i \in FleetJobs \ {pass.node} : job'[i] = job[i]
         /\ UNCHANGED <<enrolment, providerVars, sighted, registered, fileVars, requestVars, pastVars>>
<1>1. job' = [job EXCEPT ![pass.node].id = TRUE] /\ NextJob
  BY DEF SaveId
<1>2. /\ job' \in [FleetJobs -> Jobs]
      /\ job'[pass.node].status = job[pass.node].status /\ job'[pass.node].id
      /\ \A i \in FleetJobs \ {pass.node} : job'[i] = job[i]
  BY <1>1, JobId
<1>3. /\ pass.at = "save" \/ (pass.at = "lookup" /\ pass.node \in droplets)
      /\ UNCHANGED <<enrolment, providerVars, sighted, registered, fileVars, requestVars, pastVars>>
  BY DEF SaveId, At
<1> QED BY <1>1, <1>2, <1>3, NextJobIs DEF PassAtRest

(* The job fails for good. *)
LEMMA ProvisionFailsIs ==
  ASSUME FleetTypes, pass.node \in FleetJobs, ProvisionFails
  PROVE  /\ pass.at = "lookup" /\ PassAtRest /\ JobBecomes(pass.node, "failed")
         /\ UNCHANGED <<enrolment, providerVars, sighted, registered, fileVars, requestVars, pastVars>>
<1>1. JobBecomes(pass.node, "failed")
  BY JobStatus DEF ProvisionFails, JobBecomes
<1> QED BY <1>1, NextJobIs DEF ProvisionFails, At, PassAtRest

(* The droplet's action errored. *)
LEMMA ActionErroredIs ==
  ASSUME FleetTypes, NEW j \in FleetJobs, ActionErrored(j)
  PROVE  /\ pass.at = "jobs" /\ GoesTo("jobs", j) /\ job[j].status = "running"
         /\ JobBecomes(j, "failed")
         /\ UNCHANGED <<enrolment, providerVars, sighted, registered, fileVars, requestVars, pastVars>>
<1>1. pass.at = "jobs" /\ GoesTo("jobs", j)
  BY TakesInPass DEF ActionErrored, Turn, At, GoesTo, Stages
<1>2. JobBecomes(j, "failed")
  BY JobStatus DEF ActionErrored, JobBecomes
<1> QED BY <1>1, <1>2 DEF ActionErrored

(* The droplet is up: the job waits for its node. *)
LEMMA DropletActiveIs ==
  ASSUME FleetTypes, NEW j \in FleetJobs, DropletActive(j)
  PROVE  /\ pass.at = "jobs" /\ job[j].status = "running"
         /\ job[j].id /\ j \in booted /\ JobBecomes(j, "awaiting")
         /\ \/ GoesTo("declared", j) /\ j \in manifest
            \/ GoesTo("enrol", j) /\ j \notin manifest
         /\ UNCHANGED <<enrolment, providerVars, sighted, registered, fileVars, requestVars, pastVars>>
<1>1. \/ GoesTo("declared", j) /\ j \in manifest
      \/ GoesTo("enrol", j) /\ j \notin manifest
  BY TakesInPass DEF DropletActive, GoesTo, Stages
<1>2. JobBecomes(j, "awaiting")
  BY JobStatus DEF DropletActive, JobBecomes
<1> QED BY <1>1, <1>2 DEF DropletActive, Turn, At

(* The reconciler registers every declared node, or none. *)
LEMMA RunDeclaredIs ==
  ASSUME FleetTypes, RunDeclared
  PROVE  /\ pass.at = "declared" /\ registered' \subseteq registered \cup manifest
         /\ registered \subseteq registered'
         /\ \/ GoesTo("finish", pass.node) /\ manifest \subseteq registered'
            \/ PassAtRest
         /\ registered' = registered \/ manifest \subseteq booted
         /\ UNCHANGED <<job, enrolment, providerVars, sighted, fileVars, requestVars, pastVars>>
<1>1. CASE NextJob
  BY <1>1, NextJobIs DEF RunDeclared, At, Registers, PassAtRest
<1>2. CASE Moves("finish") /\ Registers
  BY <1>2, MovesIs DEF RunDeclared, At, Registers, GoesTo, Stages
<1> QED BY <1>1, <1>2 DEF RunDeclared

(* The same for a node the worker has written. *)
LEMMA RunReconcileIs ==
  ASSUME FleetTypes, RunReconcile
  PROVE  /\ pass.at = "run" /\ registered' \subseteq registered \cup manifest
         /\ registered \subseteq registered' /\ Keeps
         /\ \/ GoesTo("consume", pass.node) /\ manifest \subseteq registered'
            \/ GoesTo("undo", pass.node)
         /\ registered' = registered \/ manifest \subseteq booted
         /\ UNCHANGED <<job, enrolment, providerVars, sighted, fileVars, requestVars, pastVars>>
<1>1. CASE Moves("undo")
  BY <1>1, MovesIs DEF RunReconcile, At, Registers, GoesTo, Keeps, Stages
<1>2. CASE Moves("consume") /\ Registers
  BY <1>2, MovesIs DEF RunReconcile, At, Registers, GoesTo, Keeps, Stages
<1> QED BY <1>1, <1>2 DEF RunReconcile

(* The node has not called back as it should, or had done so before a crash. *)
LEMMA NotEnrolledIs ==
  ASSUME FleetTypes, pass.node \in FleetJobs, NotEnrolled
  PROVE  /\ pass.at = "enrol"
         /\ \/ PassAtRest /\ (UNCHANGED enrolment \/ TokenBecomes(pass.node, "expired"))
            \/ /\ GoesTo("finish", pass.node) /\ UNCHANGED enrolment
               /\ enrolment[pass.node].status = "consumed"
         /\ UNCHANGED <<job, providerVars, sighted, registered, fileVars, requestVars, pastVars>>
<1> DEFINE j == pass.node
<1>1. CASE NextJob /\ UNCHANGED enrolment
  BY <1>1, NextJobIs DEF NotEnrolled, At, PassAtRest
<1>2. CASE NextJob /\ enrolment' = [enrolment EXCEPT ![j].status = "expired"]
  <2>1. TokenBecomes(j, "expired")
    BY <1>2, TokenStates DEF TokenBecomes
  <2> QED BY <1>2, <2>1, NextJobIs DEF NotEnrolled, At, PassAtRest
<1>3. CASE enrolment[j].status = "consumed" /\ Moves("finish") /\ UNCHANGED enrolment
  BY <1>3, MovesIs DEF NotEnrolled, At, GoesTo, Stages
<1> QED BY <1>1, <1>2, <1>3 DEF NotEnrolled

(* An enrolment opens: what was there is remembered. *)
LEMMA PinHostIs ==
  ASSUME FleetTypes, PinHost
  PROVE  /\ pass.at = "enrol" /\ pass.node \notin manifest
         /\ GoesTo("write", pass.node) /\ pass'.before = manifest /\ pass'.hosts = pinned
         /\ pinned' = pinned \cup {pass.node}
         /\ UNCHANGED <<job, enrolment, providerVars, sighted, registered, manifest,
                        requestVars, pastVars>>
BY DEF PinHost, At, GoesTo, Stages, Passes, FleetTypes, FleetTypeOK

(* The manifest is written, or restored. *)
LEMMA WritesIs ==
  ASSUME FleetTypes, WriteManifest \/ RestoreManifest
  PROVE  /\ Keeps
         /\ \/ /\ pass.at = "write" /\ GoesTo("run", pass.node)
               /\ manifest' = pass.before \cup {pass.node}
            \/ pass.at = "undo" /\ GoesTo("unpin", pass.node) /\ manifest' = pass.before
         /\ UNCHANGED <<job, enrolment, providerVars, sighted, registered, pinned,
                        requestVars, pastVars>>
BY MovesIs DEF WriteManifest, RestoreManifest, At, GoesTo, Keeps, Stages

(* The token is used up, or the worker gives way. *)
LEMMA MarkConsumedIs ==
  ASSUME FleetTypes, pass.node \in FleetJobs, MarkConsumed
  PROVE  /\ pass.at = "consume"
         /\ \/ GoesTo("finish", pass.node) /\ TokenBecomes(pass.node, "consumed")
            \/ PassAtRest /\ UNCHANGED enrolment
         /\ UNCHANGED <<job, providerVars, sighted, registered, fileVars, requestVars, pastVars>>
<1>1. CASE NextJob /\ UNCHANGED enrolment
  BY <1>1, NextJobIs DEF MarkConsumed, At, PassAtRest
<1>2. CASE Moves("finish") /\ enrolment' = [enrolment EXCEPT ![pass.node].status = "consumed"]
  <2>1. TokenBecomes(pass.node, "consumed")
    BY <1>2, TokenStates DEF TokenBecomes
  <2> QED BY <1>2, <2>1, MovesIs DEF MarkConsumed, At, GoesTo, Stages
<1> QED BY <1>1, <1>2 DEF MarkConsumed

(* The job is completed when its node is in service. *)
LEMMA MarkActivatedIs ==
  ASSUME FleetTypes, pass.node \in FleetJobs, MarkActivated
  PROVE  /\ pass.at = "finish" /\ PassAtRest
         /\ \/ UNCHANGED job
            \/ /\ job[pass.node].status = "awaiting" /\ pass.node \in registered
               /\ JobBecomes(pass.node, "completed")
         /\ UNCHANGED <<enrolment, providerVars, sighted, registered, fileVars, requestVars, pastVars>>
<1>1. CASE UNCHANGED job
  BY <1>1, NextJobIs DEF MarkActivated, At, PassAtRest
<1>2. CASE /\ job[pass.node].status = "awaiting" /\ pass.node \in registered
           /\ job' = [job EXCEPT ![pass.node].status = "completed"]
  <2>1. JobBecomes(pass.node, "completed")
    BY <1>2, JobStatus DEF JobBecomes
  <2> QED BY <1>2, <2>1, NextJobIs DEF MarkActivated, At, PassAtRest
<1> QED BY <1>1, <1>2 DEF MarkActivated

(* The node and the clock touch one token: it is never pending again. *)
LEMMA TokenIs ==
  ASSUME FleetTypes, NEW j \in FleetJobs, ReceiveEnrolment(j) \/ TokenAges(j)
  PROVE  /\ enrolment' \in [FleetJobs -> Enrolments]
         /\ \A i \in FleetJobs : enrolment'[i].status = "pending" => enrolment[i].status = "pending"
         /\ UNCHANGED <<job, providerVars, sighted, registered, fileVars, requestVars, pass, pastVars>>
<1> DEFINE e == enrolment[j]
<1>1. e \in Enrolments /\ enrolment \in [FleetJobs -> Enrolments]
  BY DEF FleetTypes, FleetTypeOK, Enrolments
<1>2. ASSUME NEW r, r \in Enrolments, r.status \in {"expired", e.status},
             enrolment' = [enrolment EXCEPT ![j] = r]
      PROVE  /\ enrolment' \in [FleetJobs -> Enrolments]
             /\ \A i \in FleetJobs : enrolment'[i].status = "pending" => enrolment[i].status = "pending"
  BY <1>1, <1>2
<1>3. CASE TokenAges(j)
  <2> DEFINE r == [e EXCEPT !.old = TRUE]
  <2>1. enrolment' = [enrolment EXCEPT ![j] = r]
    BY <1>1, <1>3 DEF TokenAges
  <2>2. r \in Enrolments /\ r.status = e.status
    BY <1>1 DEF Enrolments
  <2> HIDE DEF r
  <2> QED BY <1>2, <1>3, <2>1, <2>2 DEF TokenAges
<1>4. CASE ReceiveEnrolment(j)
  <2> DEFINE p == e.payload \/ e.status = "pending"
             r == IF e.old THEN [e EXCEPT !.status = "expired"] ELSE [e EXCEPT !.payload = p]
  <2>1. enrolment' = [enrolment EXCEPT ![j] = r]
    BY <1>1, <1>4 DEF ReceiveEnrolment
  <2>2. p \in BOOLEAN
    OBVIOUS
  <2> HIDE DEF p
  <2>3. r \in Enrolments /\ r.status \in {"expired", e.status}
    BY <1>1, <2>2 DEF Enrolments
  <2> HIDE DEF r
  <2> QED BY <1>2, <1>4, <2>1, <2>3 DEF ReceiveEnrolment
<1> QED BY <1>3, <1>4

(* The operator's reconciler, at any other time. *)
LEMMA ReconcileIs ==
  ASSUME FleetTypes, Reconcile
  PROVE  /\ pass.at \notin {"run", "declared"} /\ manifest \subseteq booted
         /\ registered' = registered \cup manifest
         /\ raced' \subseteq raced \cup manifest /\ raced \subseteq raced'
         /\ (pass.at = "delete" /\ pass.node \in manifest) => pass.node \in raced'
         /\ UNCHANGED <<job, enrolment, providerVars, sighted, fileVars, requestVars, pass,
                        growth, fleetCrashes, byHand, cut>>
BY DEF Reconcile, Registers, At

(* A crash forgets the pass. *)
LEMMA WorkerStopsIs ==
  ASSUME FleetTypes, WorkerStops
  PROVE  /\ pass' = NoPass /\ fleetCrashes' \in 0..growth.crashes
         /\ cut' \subseteq cut \cup {pass.node} /\ cut \subseteq cut'
         /\ pass.at \in {"write", "run", "undo", "unpin"} => pass.node \in cut'
         /\ UNCHANGED <<job, enrolment, providerVars, sighted, registered, fileVars,
                        requestVars, growth, byHand, raced>>
<1>1. growth.crashes \in Nat /\ fleetCrashes \in 0..growth.crashes
  BY FleetAssumption DEF FleetTypes, FleetTypeOK
<1> QED BY <1>1 DEF WorkerStops

(* The pass is at a job the worker has just taken, and the job has the status that
   the stage needs. *)
HandStages == {"declared", "enrol", "write", "run", "undo", "unpin", "consume", "finish"}

NodeInHand ==
  /\ pass.at \in {"create", "save", "lookup"} =>
       pass.node \in FleetJobs /\ job[pass.node].status = "running"
  /\ pass.at \in HandStages => pass.node \in FleetJobs /\ job[pass.node].status = "awaiting"
(* Every step keeps the types. *)
LEMMA FleetTypesStep == FleetTypes /\ NodeInHand /\ [FleetNext]_fleetVars => FleetTypes'
<1> SUFFICES ASSUME FleetTypes, NodeInHand, [FleetNext]_fleetVars PROVE FleetTypes'
  OBVIOUS
<1> USE DEF pastVars, requestVars, providerVars, fileVars, FleetTypes, FleetTypeOK
<1>T. /\ job \in [FleetJobs -> Jobs] /\ enrolment \in [FleetJobs -> Enrolments]
      /\ pass \in Passes /\ FleetJobs \subseteq Droplets /\ 0 \in Droplets /\ NoPass \in Passes
  BY DEF Jobs, Enrolments, Passes, NoPass, Stages, Droplets
<1>D. FleetTypes' <=>
        /\ growth' \in Growths /\ job' \in [FleetJobs -> Jobs]
        /\ enrolment' \in [FleetJobs -> Enrolments] /\ pass' \in Passes
        /\ droplets' \subseteq Droplets /\ booted' \subseteq Droplets
        /\ created' \in [FleetJobs -> 0..2]
        /\ sighted' \in [Droplets -> {"no", "once", "hourAgo", "twice"}]
        /\ registered' \subseteq Droplets /\ manifest' \subseteq Droplets
        /\ pinned' \subseteq Droplets
        /\ asking' \in [Callers -> {Unasked} \cup Nat] /\ rested' \in BOOLEAN
        /\ fleetCrashes' \in 0..growth'.crashes
        /\ byHand' \subseteq Droplets /\ cut' \subseteq Droplets /\ raced' \subseteq Droplets
  BY DEF Jobs, Enrolments, Passes
<1>S. Stages = {"rest", "look", "orphans", "sweep", "delete", "jobs", "create", "save",
                "lookup", "declared", "enrol", "write", "run", "undo", "unpin", "consume",
                "finish"}
  BY DEF Stages
<1>1. ASSUME NEW c \in Callers, QueueReads(c) PROVE FleetTypes'
  BY <1>1, <1>T, <1>D, QueueReadsIs
<1>2. ASSUME NEW c \in Callers, QueueInserts(c) PROVE FleetTypes'
  BY <1>2, <1>T, <1>D, QueueInsertsIs DEF JobBecomes
<1>3. CASE PassBegins
  BY <1>3, <1>T, <1>D, PassBeginsIs DEF GoesTo
<1>4. CASE ObserveInventory
  BY <1>4, <1>T, <1>D, <1>S, MovesIs DEF ObserveInventory
<1>5. CASE ProviderDown
  BY <1>5, <1>T, <1>D DEF ProviderDown
<1>6. CASE FindOrphans
  BY <1>6, <1>T, <1>D, <1>S DEF FindOrphans
<1>7. CASE DeleteOrphan
  BY <1>7, <1>T, <1>D, <1>S DEF DeleteOrphan
<1>8. ASSUME NEW d \in Droplets, LookAgain(d) PROVE FleetTypes'
  BY <1>8, <1>T, <1>D, <1>S DEF LookAgain
<1>9. CASE ListJobs
  BY <1>9, <1>T, <1>D, <1>S DEF ListJobs
<1>10. CASE CreateDroplet
  <2>1. pass.node \in FleetJobs
    BY <1>10 DEF CreateDroplet, At, NodeInHand, HandStages
  <2> QED BY <1>10, <1>T, <1>D, <2>1, CreateDropletIs DEF Born1, GoesTo
<1>11. CASE CreateDropletFails
  <2>1. pass.node \in FleetJobs
    BY <1>11 DEF CreateDropletFails, At, NodeInHand, HandStages
  <2> QED BY <1>11, <1>T, <1>D, <2>1, CreateDropletFailsIs DEF Born1, GoesTo
<1>12. CASE SaveId
  <2>1. pass.node \in FleetJobs
    BY <1>12 DEF SaveId, At, NodeInHand, HandStages
  <2> QED BY <1>12, <1>T, <1>D, <2>1, SaveIdIs DEF PassAtRest
<1>13. CASE ProvisionFails
  <2>1. pass.node \in FleetJobs
    BY <1>13 DEF ProvisionFails, At, NodeInHand, HandStages
  <2> QED BY <1>13, <1>T, <1>D, <2>1, ProvisionFailsIs DEF PassAtRest, JobBecomes
<1>14. CASE RunDeclared
  BY <1>14, <1>T, <1>D, RunDeclaredIs DEF PassAtRest, GoesTo
<1>15. CASE NotEnrolled
  <2>1. pass.node \in FleetJobs
    BY <1>15 DEF NotEnrolled, At, NodeInHand, HandStages
  <2> QED BY <1>15, <1>T, <1>D, <2>1, NotEnrolledIs DEF PassAtRest, GoesTo, TokenBecomes
<1>16. CASE PinHost
  BY <1>16, <1>T, <1>D, PinHostIs DEF GoesTo
<1>17. CASE WriteManifest
  BY <1>17, <1>T, <1>D, WritesIs DEF GoesTo
<1>18. CASE RunReconcile
  BY <1>18, <1>T, <1>D, RunReconcileIs DEF GoesTo
<1>19. CASE RestoreManifest
  BY <1>19, <1>T, <1>D, WritesIs DEF GoesTo
<1>20. CASE RestoreHosts
  BY <1>20, <1>T, <1>D, NextJobIs DEF RestoreHosts
<1>21. CASE MarkConsumed
  <2>1. pass.node \in FleetJobs
    BY <1>21 DEF MarkConsumed, At, NodeInHand, HandStages
  <2> QED BY <1>21, <1>T, <1>D, <2>1, MarkConsumedIs DEF PassAtRest, GoesTo, TokenBecomes
<1>22. CASE MarkActivated
  <2>1. pass.node \in FleetJobs
    BY <1>22 DEF MarkActivated, At, NodeInHand, HandStages
  <2> QED BY <1>22, <1>T, <1>D, <2>1, MarkActivatedIs DEF PassAtRest, JobBecomes
<1>23. CASE PassEnds
  BY <1>23, <1>T, <1>D DEF PassEnds
<1>24. ASSUME NEW j \in FleetJobs, ProvisionRefused(j) PROVE FleetTypes'
  BY <1>24, <1>T, <1>D, <1>S, TakesInPass DEF ProvisionRefused
<1>25. ASSUME NEW j \in FleetJobs, ExecuteProvision(j) PROVE FleetTypes'
  BY <1>25, <1>T, <1>D, ExecuteProvisionIs DEF JobBecomes, TokenBecomes, GoesTo
<1>26. ASSUME NEW j \in FleetJobs, StillCreating(j) PROVE FleetTypes'
  BY <1>26, <1>T, <1>D, <1>S, TakesInPass DEF StillCreating
<1>27. ASSUME NEW j \in FleetJobs, ActionErrored(j) PROVE FleetTypes'
  BY <1>27, <1>T, <1>D, ActionErroredIs DEF JobBecomes, GoesTo
<1>28. ASSUME NEW j \in FleetJobs, DropletActive(j) PROVE FleetTypes'
  BY <1>28, <1>T, <1>D, DropletActiveIs DEF JobBecomes, GoesTo
<1>29. ASSUME NEW j \in FleetJobs, AwaitsVerification(j) PROVE FleetTypes'
  BY <1>29, <1>T, <1>D, <1>S, TakesInPass DEF AwaitsVerification
<1>30. ASSUME NEW j \in FleetJobs, DropletBoots(j) PROVE FleetTypes'
  BY <1>30, <1>T, <1>D DEF DropletBoots
<1>31. ASSUME NEW j \in FleetJobs, ReceiveEnrolment(j) PROVE FleetTypes'
  BY <1>31, <1>T, <1>D, TokenIs
<1>32. ASSUME NEW j \in FleetJobs, TokenAges(j) PROVE FleetTypes'
  BY <1>32, <1>T, <1>D, TokenIs
<1>33. CASE HourPasses
  BY <1>33, <1>T, <1>D DEF HourPasses
<1>34. CASE CooldownOver
  BY <1>34, <1>T, <1>D DEF CooldownOver
<1>35. CASE Reconcile
  BY <1>35, <1>T, <1>D, ReconcileIs
<1>36. CASE WorkerStops
  BY <1>36, <1>T, <1>D, WorkerStopsIs
<1>37. ASSUME NEW d \in Droplets, DeclareNode(d) PROVE FleetTypes'
  BY <1>37, <1>T, <1>D DEF DeclareNode
<1>0. CASE UNCHANGED fleetVars
  BY <1>0, <1>T, <1>D DEF fleetVars
<1> QED
  BY <1>0, <1>1, <1>2, <1>3, <1>4, <1>5, <1>6, <1>7, <1>8, <1>9, <1>10, <1>11, <1>12, <1>13,
     <1>14, <1>15, <1>16, <1>17, <1>18, <1>19, <1>20, <1>21, <1>22, <1>23, <1>24, <1>25, <1>26,
     <1>27, <1>28, <1>29, <1>30, <1>31, <1>32, <1>33, <1>34, <1>35, <1>36, <1>37
  DEF FleetNext, OrphanStep, CreateStep, EnrolStep, JobStep, NodeStep

(* A job creates one droplet at most, and none before its turn has come. *)
CreatedInv ==
  /\ \A j \in FleetJobs : /\ created[j] <= 1
                          /\ job[j].status \in {"none", "pending"} => created[j] = 0
  /\ pass.at = "create" => created[pass.node] = 0

(* A droplet about to be created is paid for. *)
BudgetInv ==
  /\ Cardinality(droplets) <= BudgetNodes
  /\ pass.at = "create" => Cardinality(droplets) + 1 <= BudgetNodes

(* What is protected exists; what is about to be deleted is not protected. *)
KeptInv ==
  /\ booted \subseteq droplets
  /\ \A d \in Droplets : Protected(d) => d \in droplets \cup raced
  /\ pass.at = "save" => pass.node \in droplets
  /\ pass.at = "delete" => ~Protected(pass.node) \/ pass.node \in raced

(* While an enrolment is open, what is to be restored is in service already, and the
   files hold no more than it and the node. *)
OpenStages == {"write", "run", "undo", "unpin"}
Known == byHand \cup cut

FilesInHand ==
  /\ pass.at \in OpenStages =>
       /\ pass.before \subseteq (registered \cap pass.hosts) \cup Known
       /\ pass.hosts \subseteq (registered \cap pass.before) \cup Known
       /\ pass.before \subseteq manifest /\ manifest \subseteq pass.before \cup {pass.node} \cup byHand
       /\ pass.hosts \subseteq pinned /\ pinned \subseteq pass.hosts \cup {pass.node} \cup byHand
  /\ pass.at \in {"write", "run"} => pass.node \in pinned
  /\ pass.at = "run" => pass.node \in manifest
  /\ pass.at = "unpin" => manifest \subseteq pass.before \cup byHand

(* A declared job was enrolled or is being, unless the operator declared it. *)
ManifestKnown ==
  /\ \A j \in FleetJobs : j \in manifest => j \in byHand \/ job[j].status \in {"awaiting", "completed"}
  /\ pass.at = "declared" => pass.node \in byHand
  /\ pass.at = "finish" => enrolment[pass.node].status # "pending" \/ pass.node \in byHand

FleetInv == /\ NodeInHand /\ CreatedInv /\ BudgetInv /\ KeptInv
            /\ FilesInHand /\ ManifestKnown /\ EnrolmentIsAllOrNothing

(* A step of the queue, the clock or the worker's own lists changes nothing of it:
   the worker holds no job before or after. *)
NoJobStages == {"rest", "look", "orphans", "sweep", "jobs"}
FleetQuiet ==
  /\ UNCHANGED <<growth, job, enrolment, droplets, booted, created, registered,
                 manifest, pinned, byHand, cut, raced>>
  /\ UNCHANGED pass \/ (pass.at \in NoJobStages /\ pass'.at \in NoJobStages)

(* Which steps are quiet. *)
LEMMA QuietIs ==
  ASSUME FleetTypes,
         \/ ObserveInventory \/ ProviderDown \/ FindOrphans \/ ListJobs \/ PassEnds
         \/ HourPasses \/ CooldownOver \/ UNCHANGED fleetVars
         \/ \E c \in Callers : QueueReads(c)
         \/ \E j \in FleetJobs : ProvisionRefused(j) \/ StillCreating(j)
  PROVE  FleetQuiet
<1> USE DEF pastVars, providerVars, fileVars, FleetQuiet, NoJobStages
<1>S. {"orphans", "jobs"} \subseteq Stages
  BY DEF Stages
<1>1. CASE (\E c \in Callers : QueueReads(c)) \/ HourPasses \/ CooldownOver \/ UNCHANGED fleetVars
  BY <1>1 DEF QueueReads, HourPasses, CooldownOver, fleetVars
<1>2. CASE ProviderDown \/ PassEnds
  BY <1>2 DEF ProviderDown, PassEnds, NoPass, At
<1>3. CASE ObserveInventory
  BY <1>3, <1>S, MovesIs DEF ObserveInventory, At
<1>4. CASE FindOrphans \/ ListJobs
  BY <1>4 DEF FindOrphans, ListJobs, At, FleetTypes, FleetTypeOK
<1>5. CASE \E j \in FleetJobs : ProvisionRefused(j) \/ StillCreating(j)
  BY <1>5, <1>S, TakesInPass DEF ProvisionRefused, StillCreating, Turn, At
<1> QED BY <1>1, <1>2, <1>3, <1>4, <1>5

(* It keeps the invariant. *)
LEMMA FleetQuietStep == ASSUME FleetInv, FleetQuiet PROVE FleetInv'
<1>1. CASE UNCHANGED pass
  BY <1>1 DEF FleetQuiet, FleetInv, NodeInHand, CreatedInv, BudgetInv, KeptInv, FilesInHand,
     ManifestKnown, EnrolmentIsAllOrNothing, Protected, Known
<1>2. CASE pass.at \in NoJobStages /\ pass'.at \in NoJobStages
  <2>1. UNCHANGED <<job, enrolment, droplets, booted, created, registered, manifest,
                    pinned, byHand, cut, raced>>
    BY DEF FleetQuiet
  <2>2. pass'.at \notin {"create", "save", "lookup", "delete"} \cup HandStages
    BY <1>2 DEF NoJobStages, HandStages
  <2>3. HandStages = {"declared", "enrol", "finish", "consume"} \cup OpenStages
    BY DEF HandStages, OpenStages
  <2>4. pass.at \notin OpenStages /\ pass'.at \notin OpenStages
    BY <1>2 DEF NoJobStages, OpenStages
  <2>5. (NodeInHand /\ CreatedInv /\ BudgetInv)'
    BY <2>1, <2>2, <2>3 DEF FleetInv, NodeInHand, CreatedInv, BudgetInv
  <2>6. (KeptInv /\ FilesInHand /\ ManifestKnown)'
    BY <2>1, <2>2, <2>3, <2>4
    DEF FleetInv, KeptInv, FilesInHand, ManifestKnown, OpenStages, Protected
  <2>7. EnrolmentIsAllOrNothing'
    BY <2>1, <2>4 DEF FleetInv, OpenStages, EnrolmentIsAllOrNothing
  <2> QED BY <2>5, <2>6, <2>7 DEF FleetInv
<1> QED BY <1>1, <1>2 DEF FleetQuiet

(* A droplet more or one less, counted. *)
LEMMA OneMoreDroplet ==
  ASSUME FleetTypes, NEW d, NEW S \in {droplets, droplets \cup {d}, droplets \ {d}}
  PROVE  /\ Cardinality(S) \in Nat /\ Cardinality(droplets) \in Nat /\ BudgetNodes \in Nat
         /\ Cardinality(S) <= Cardinality(droplets) + 1
         /\ S \subseteq droplets => Cardinality(S) <= Cardinality(droplets)
<1>1. IsFiniteSet(droplets)
  BY FS_Subset, DropletsFinite DEF FleetTypes, FleetTypeOK
<1>2. Cardinality(droplets) \in Nat
  BY <1>1, FS_CardinalityType
<1>3. /\ IsFiniteSet(droplets \cup {d})
      /\ Cardinality(droplets \cup {d}) =
           IF d \in droplets THEN Cardinality(droplets) ELSE Cardinality(droplets) + 1
  BY <1>1, FS_AddElement
<1>4. /\ IsFiniteSet(droplets \ {d})
      /\ Cardinality(droplets \ {d}) =
           IF d \in droplets THEN Cardinality(droplets) - 1 ELSE Cardinality(droplets)
  BY <1>1, FS_RemoveElement
<1>5. {Cardinality(droplets \cup {d}), Cardinality(droplets \ {d})} \subseteq Nat
  BY <1>3, <1>4, FS_CardinalityType
<1>6. CASE S = droplets \cup {d}
  <2>1. S \subseteq droplets => d \in droplets
    BY <1>6
  <2> QED BY <1>2, <1>3, <1>5, <1>6, <2>1, FleetAssumption
<1>7. CASE S = droplets \ {d}
  BY <1>2, <1>4, <1>5, <1>7, FleetAssumption
<1>8. CASE S = droplets
  BY <1>2, <1>8, FleetAssumption
<1> QED BY <1>6, <1>7, <1>8

(* Every step keeps the invariant. *)
LEMMA FleetInvStep == FleetTypes /\ FleetInv /\ [FleetNext]_fleetVars => FleetInv'
<1> SUFFICES ASSUME FleetTypes, FleetInv, [FleetNext]_fleetVars PROVE FleetInv'
  OBVIOUS
<1> USE DEF pastVars, requestVars, providerVars, fileVars, HandStages, OpenStages, Known,
            FleetInv, NodeInHand, CreatedInv, BudgetInv, KeptInv, FilesInHand, ManifestKnown,
            EnrolmentIsAllOrNothing, Protected, Jobs, Enrolments
<1>T. /\ job \in [FleetJobs -> Jobs] /\ enrolment \in [FleetJobs -> Enrolments]
      /\ pass \in Passes /\ FleetJobs \subseteq Droplets /\ created \in [FleetJobs -> 0..2]
      /\ droplets \subseteq Droplets /\ booted \subseteq Droplets /\ manifest \subseteq Droplets
  BY DEF FleetTypes, FleetTypeOK, Passes, Droplets
<1>N. Cardinality(droplets) \in Nat /\ BudgetNodes \in Nat
  BY OneMoreDroplet DEF FleetTypes
<1>0. CASE \/ ObserveInventory \/ ProviderDown \/ FindOrphans \/ ListJobs \/ PassEnds
           \/ HourPasses \/ CooldownOver \/ UNCHANGED fleetVars
           \/ \E c \in Callers : QueueReads(c)
           \/ \E j \in FleetJobs : ProvisionRefused(j) \/ StillCreating(j)
  BY <1>0, QuietIs, FleetQuietStep
<1>1. ASSUME NEW c \in Callers, QueueInserts(c) PROVE FleetInv'
  <2>1. CASE UNCHANGED job
    BY <1>1, <2>1, QueueInsertsIs, FleetQuietStep DEF FleetQuiet
  <2>2. ASSUME NEW i \in FleetJobs, job[i] = NoJob, JobBecomes(i, "pending") PROVE FleetInv'
    <3>1. job[i].status = "none" /\ ~job[i].id
      BY <2>2 DEF NoJob
    <3>2. /\ \A j \in FleetJobs \ {i} : job'[j] = job[j]
          /\ job'[i].status = "pending" /\ ~job'[i].id
          /\ UNCHANGED <<enrolment, providerVars, registered, fileVars, pass, pastVars>>
      BY <1>1, <2>2, <3>1, QueueInsertsIs DEF JobBecomes
    <3>3. \A j \in FleetJobs \ {i} : created'[j] <= 1 /\ (job'[j].status \in {"none", "pending"} => created'[j] = 0)
      BY <3>2
    <3> QED BY <1>T, <3>1, <3>2, <3>3
  <2> QED BY <1>1, <2>1, <2>2, QueueInsertsIs
<1>2. CASE PassBegins
  BY <1>2, <1>T, PassBeginsIs DEF GoesTo
<1>3. CASE DeleteOrphan
  <2>2. BudgetInv'
    <3>1. pass'.at # "create" /\ droplets' \in {droplets, droplets \ {pass.node}}
      BY <1>3, <1>T DEF DeleteOrphan, At, Passes
    <3>2. Cardinality(droplets') <= Cardinality(droplets) /\ Cardinality(droplets') \in Nat
      BY <3>1, OneMoreDroplet
    <3> QED BY <1>N, <3>1, <3>2
  <2> QED BY <1>3, <1>T, <2>2 DEF DeleteOrphan, At
<1>4. ASSUME NEW d \in Droplets, LookAgain(d) PROVE FleetInv'
  BY <1>4, <1>T DEF LookAgain, At
<1>5. CASE CreateDroplet
  <2>1. pass.node \in FleetJobs
    BY <1>5 DEF CreateDroplet, At
  <2>2. BudgetInv'
    <3>1. /\ pass.at = "create" /\ pass'.at # "create"
          /\ droplets' = droplets \cup {pass.node} \/ droplets' = droplets
      BY <1>5, <2>1, CreateDropletIs DEF Born1, GoesTo
    <3>2. Cardinality(droplets') <= Cardinality(droplets) + 1 /\ Cardinality(droplets') \in Nat
      BY <3>1, OneMoreDroplet
    <3> QED BY <1>N, <3>1, <3>2
  <2> QED BY <1>5, <1>T, CreateDropletIs, <2>1, <2>2 DEF Born1, GoesTo
<1>6. CASE CreateDropletFails
  <2>1. pass.node \in FleetJobs
    BY <1>6 DEF CreateDropletFails, At
  <2>2. BudgetInv'
    <3>1. /\ pass.at = "create" /\ pass'.at # "create"
          /\ droplets' = droplets \cup {pass.node} \/ droplets' = droplets
      BY <1>6, <2>1, CreateDropletFailsIs DEF Born1, GoesTo
    <3>2. Cardinality(droplets') <= Cardinality(droplets) + 1 /\ Cardinality(droplets') \in Nat
      BY <3>1, OneMoreDroplet
    <3> QED BY <1>N, <3>1, <3>2
  <2> QED BY <1>6, <1>T, CreateDropletFailsIs, <2>1, <2>2 DEF Born1, GoesTo
<1>7. CASE SaveId
  <2>1. pass.node \in FleetJobs
    BY <1>7 DEF SaveId, At
  <2>2. /\ \A j \in FleetJobs : job'[j].status = job[j].status
        /\ UNCHANGED <<growth, enrolment, providerVars, registered, fileVars, byHand, cut, raced>>
        /\ pass'.at = "jobs" /\ pass.at \in {"save", "lookup"}
    BY <1>7, <2>1, SaveIdIs DEF PassAtRest
  <2>3. KeptInv'
    BY <1>7, <1>T, <2>1, SaveIdIs DEF PassAtRest
  <2> HIDE DEF KeptInv, Protected
  <2> QED BY <1>T, <2>2, <2>3
<1>8. CASE ProvisionFails
  <2>1. pass.node \in FleetJobs
    BY <1>8 DEF ProvisionFails, At
  <2>2. KeptInv'
    BY <1>8, <1>T, <2>1, ProvisionFailsIs DEF PassAtRest, JobBecomes
  <2>3. (CreatedInv /\ ManifestKnown)'
    BY <1>8, <1>T, <2>1, ProvisionFailsIs DEF PassAtRest, JobBecomes
  <2> HIDE DEF KeptInv, Protected, CreatedInv, ManifestKnown
  <2> QED BY <1>8, <1>T, <2>1, <2>2, <2>3, ProvisionFailsIs DEF PassAtRest, JobBecomes
<1>9. CASE RunDeclared
  BY <1>9, <1>T, RunDeclaredIs DEF PassAtRest, GoesTo
<1>10. CASE NotEnrolled
  <2>1. pass.node \in FleetJobs
    BY <1>10 DEF NotEnrolled, At
  <2> QED BY <1>10, <1>T, NotEnrolledIs, <2>1 DEF PassAtRest, GoesTo, TokenBecomes
<1>11. CASE PinHost
  BY <1>11, <1>T, PinHostIs DEF GoesTo
<1>12. CASE WriteManifest \/ RestoreManifest
  BY <1>12, <1>T, WritesIs DEF GoesTo, Keeps
<1>13. CASE RunReconcile
  BY <1>13, <1>T, RunReconcileIs DEF GoesTo, Keeps
<1>14. CASE RestoreHosts
  BY <1>14, <1>T, NextJobIs DEF RestoreHosts, At
<1>15. CASE MarkConsumed
  <2>1. pass.node \in FleetJobs
    BY <1>15 DEF MarkConsumed, At
  <2> QED BY <1>15, <1>T, MarkConsumedIs, <2>1 DEF PassAtRest, GoesTo, TokenBecomes
<1>16. CASE MarkActivated
  <2>1. pass.node \in FleetJobs
    BY <1>16 DEF MarkActivated, At
  <2>2. (NodeInHand /\ CreatedInv /\ BudgetInv)'
    BY <1>16, <1>T, MarkActivatedIs, <2>1 DEF PassAtRest, JobBecomes
  <2>3. KeptInv'
    BY <1>16, <1>T, MarkActivatedIs, <2>1 DEF PassAtRest, JobBecomes
  <2>4. (FilesInHand /\ ManifestKnown /\ EnrolmentIsAllOrNothing)'
    BY <1>16, <1>T, MarkActivatedIs, <2>1 DEF PassAtRest, JobBecomes
  <2> QED BY <2>2, <2>3, <2>4
<1>17. ASSUME NEW j \in FleetJobs, ExecuteProvision(j) PROVE FleetInv'
  <2>1. BudgetInv'
    <3>1. KnownNodes(droplets) + 1 <= BudgetNodes /\ droplets' = droplets
      BY <1>17, ExecuteProvisionIs DEF Affordable
    <3>2. KnownNodes(droplets) \in Nat /\ KnownNodes(droplets) >= Cardinality(droplets)
      BY <1>T, KnownNodesNat
    <3> HIDE DEF KnownNodes
    <3> QED BY <1>N, <3>1, <3>2
  <2>2. (NodeInHand /\ CreatedInv)'
    BY <1>17, <1>T, ExecuteProvisionIs DEF JobBecomes, TokenBecomes, GoesTo
  <2>3. KeptInv'
    BY <1>17, <1>T, ExecuteProvisionIs DEF JobBecomes, TokenBecomes, GoesTo
  <2>4. (FilesInHand /\ ManifestKnown)'
    BY <1>17, <1>T, ExecuteProvisionIs DEF JobBecomes, TokenBecomes, GoesTo
  <2>5. EnrolmentIsAllOrNothing'
    BY <1>17, <1>T, ExecuteProvisionIs DEF JobBecomes, TokenBecomes, GoesTo
  <2> QED BY <2>1, <2>2, <2>3, <2>4, <2>5
<1>18. ASSUME NEW j \in FleetJobs, ActionErrored(j) PROVE FleetInv'
  <2>1. (NodeInHand /\ CreatedInv /\ BudgetInv)'
    BY <1>18, <1>T, ActionErroredIs DEF JobBecomes, GoesTo
  <2>2. KeptInv'
    BY <1>18, <1>T, ActionErroredIs DEF JobBecomes, GoesTo
  <2>3. (FilesInHand /\ ManifestKnown)'
    BY <1>18, <1>T, ActionErroredIs DEF JobBecomes, GoesTo
  <2>4. EnrolmentIsAllOrNothing'
    BY <1>18, <1>T, ActionErroredIs DEF JobBecomes, GoesTo
  <2> QED BY <2>1, <2>2, <2>3, <2>4
<1>19. ASSUME NEW j \in FleetJobs, DropletActive(j) PROVE FleetInv'
  <2>1. CreatedInv'
    <3>1. pass'.at # "create" /\ created' = created
      BY <1>19, DropletActiveIs DEF GoesTo
    <3>2. \A i \in FleetJobs : job'[i].status \in {"none", "pending"} => job[i].status \in {"none", "pending"}
      BY <1>19, DropletActiveIs DEF JobBecomes
    <3> QED BY <3>1, <3>2
  <2>2. (NodeInHand /\ BudgetInv)'
    BY <1>19, <1>T, DropletActiveIs DEF JobBecomes, GoesTo
  <2>3. KeptInv'
    BY <1>19, <1>T, DropletActiveIs DEF JobBecomes, GoesTo
  <2>4. (FilesInHand /\ ManifestKnown)'
    BY <1>19, <1>T, DropletActiveIs DEF JobBecomes, GoesTo
  <2>5. EnrolmentIsAllOrNothing'
    BY <1>19, <1>T, DropletActiveIs DEF JobBecomes, GoesTo
  <2> QED BY <2>1, <2>2, <2>3, <2>4, <2>5
<1>20. ASSUME NEW j \in FleetJobs, AwaitsVerification(j) PROVE FleetInv'
  <2>1. "enrol" \in Stages
    BY DEF Stages
  <2> QED BY <1>20, <1>T, TakesInPass, <2>1 DEF AwaitsVerification, Turn, At
<1>21. ASSUME NEW j \in FleetJobs, DropletBoots(j) PROVE FleetInv'
  BY <1>21, <1>T DEF DropletBoots
<1>22. ASSUME NEW j \in FleetJobs, ReceiveEnrolment(j) PROVE FleetInv'
  BY <1>22, <1>T, TokenIs
<1>23. ASSUME NEW j \in FleetJobs, TokenAges(j) PROVE FleetInv'
  BY <1>23, <1>T, TokenIs
<1>24. CASE Reconcile
  BY <1>24, <1>T, ReconcileIs
<1>25. CASE WorkerStops
  BY <1>25, <1>T, WorkerStopsIs DEF NoPass
<1>26. ASSUME NEW d \in Droplets, DeclareNode(d) PROVE FleetInv'
  BY <1>26, <1>T DEF DeclareNode
<1> QED
  BY <1>0, <1>1, <1>2, <1>3, <1>4, <1>5, <1>6, <1>7, <1>8, <1>9, <1>10, <1>11, <1>12, <1>13,
     <1>14, <1>15, <1>16, <1>17, <1>18, <1>19, <1>20, <1>21, <1>22, <1>23, <1>24, <1>25, <1>26
  DEF FleetNext, OrphanStep, CreateStep, EnrolStep, JobStep, NodeStep

(* The invariant holds of the first state. *)
LEMMA FleetInvInit == FleetInit => FleetInv
<1> SUFFICES ASSUME FleetInit PROVE FleetInv
  OBVIOUS
<1>1. Cardinality(droplets) = 1 /\ Cardinality(droplets) <= BudgetNodes
  <2>1. Cardinality({0}) = 1
    BY FS_Singleton
  <2> QED BY <2>1, FleetAssumption DEF FleetInit
<1>2. pass.at = "rest" /\ \A j \in FleetJobs : job[j].status = "none" /\ ~job[j].id
  BY DEF FleetInit, NoPass, NoJob
<1>3. BudgetInv
  BY <1>1, <1>2 DEF BudgetInv
<1>4. KeptInv /\ EnrolmentIsAllOrNothing
  BY <1>2 DEF FleetInit, KeptInv, EnrolmentIsAllOrNothing, Protected
<1> QED
  BY <1>2, <1>3, <1>4, FleetAssumption
  DEF FleetInit, FleetInv, NodeInHand, HandStages, CreatedInv, FilesInHand, OpenStages,
      ManifestKnown

(* The types and the invariant hold of every state of the fleet. *)
LEMMA FleetInvariance == FleetSpec => [](FleetTypes /\ FleetInv)
<1>1. FleetInv => NodeInHand
  BY DEF FleetInv
<1> QED
  BY <1>1, FleetTypesInit, FleetTypesStep, FleetInvInit, FleetInvStep, PTL DEF FleetSpec

(* The fleet keeps its types. *)
THEOREM FleetTypesSafety == FleetSpec => []FleetTypeOK
BY FleetInvariance, PTL DEF FleetTypes

(* No job ever pays for a second droplet: infrastructure.py never sends a create
   request again once the job is running, and what failed is not queued again. *)
THEOREM OneDropletSafety == FleetSpec => []OneDropletPerJob
<1>1. FleetInv => OneDropletPerJob
  BY DEF FleetInv, CreatedInv, OneDropletPerJob
<1> QED BY <1>1, FleetInvariance, PTL

(* The droplets never cost more than the budget: the count that admits a create is
   still true when the droplet is born, for only the worker creates. *)
THEOREM BudgetSafety == FleetSpec => []WithinBudget
<1>1. FleetInv => WithinBudget
  BY DEF FleetInv, BudgetInv, WithinBudget
<1> QED BY <1>1, FleetInvariance, PTL

(* Orphan cleanup deletes nothing in use, save what the operator registers while
   the request is under way. *)
THEOREM NodeInUseSafety == FleetSpec => []NodeInUseIsKept
<1>1. FleetInv => NodeInUseIsKept
  BY DEF FleetInv, KeptInv, NodeInUseIsKept
<1> QED BY <1>1, FleetInvariance, PTL

(* Enrolment is all or nothing, at whatever step it fails. *)
THEOREM EnrolmentSafety == FleetSpec => []EnrolmentIsAllOrNothing
<1>1. FleetInv => EnrolmentIsAllOrNothing
  BY DEF FleetInv
<1> QED BY <1>1, FleetInvariance, PTL
=============================================================================
