-------------------------------- MODULE Releases --------------------------------
(***************************************************************************)
(* The deployer (deploy/digitalocean_autodeploy.py).  A timer runs it, one *)
(* run at a time: it fetches the branch, waits for CI, builds the commit   *)
(* in a directory of its own, points the current link at it, restarts the  *)
(* bot and watches it start; a release that does not come up is taken back *)
(* to the one before.  Then the units are installed, the commit recorded   *)
(* and old releases removed.                                               *)
(*                                                                         *)
(* A run may be killed between any two steps; the next one starts from the *)
(* link, the directories and the recorded commit.                          *)
(***************************************************************************)
EXTENDS Naturals, FiniteSets

CONSTANTS
  Commits,       \* commits of the branch
  NoCommit,      \* no release yet
  Keep,          \* _cleanup_releases(keep)
  DeployCrashes  \* bound: killed runs explored

ASSUME ReleasesAssumption ==
  NoCommit \notin Commits /\ Keep \in Nat \ {0} /\ DeployCrashes \in Nat

VARIABLES
  head,      \* origin/main
  checks,    \* GitHub's verdict on each commit
  releases,  \* directories of RELEASES_DIR
  younger,   \* the directories made after each, as their mtimes tell
  current,   \* where CURRENT_LINK points
  recorded,  \* the deployed-sha file
  units,     \* the release the systemd units come from
  run,       \* the deployer: its step, the commit, the release before it
  killed,    \* runs killed so far
  passed,    \* history: releases that came up under the deployer's eyes
  unsure     \* history: releases whose check was cut short or had no way back

releasesVars == <<head, checks, releases, younger, current, recorded, units, run, killed, passed,
                  unsure>>
dirVars == <<releases, younger>>
branchVars == <<head, checks>>
outcomeVars == <<killed, passed, unsure>>

NoRun == [step |-> "rest", commit |-> NoCommit, old |-> NoCommit]

ReleasesInit ==
  /\ head \in Commits /\ checks = [c \in Commits |-> "pending"]
  /\ releases = {} /\ younger = [c \in Commits |-> {}]
  /\ current = NoCommit /\ recorded = NoCommit /\ units = NoCommit
  /\ run = NoRun /\ killed = 0 /\ passed = {} /\ unsure = {}

-----------------------------------------------------------------------------
Push(c) ==
  /\ c # head /\ head' = c
  /\ UNCHANGED <<checks, dirVars, current, recorded, units, run, outcomeVars>>

(* A commit's checks end, and may be run once more. *)
ChecksEnd(c, verdict) ==
  /\ checks[c] # "success" /\ checks[c] # verdict
  /\ checks' = [checks EXCEPT ![c] = verdict]
  /\ UNCHANGED <<head, dirVars, current, recorded, units, run, outcomeVars>>

DeployAt(step) == run.step = step
Goes(step) == run' = [run EXCEPT !.step = step]

(* deploy: what it finds decides what it does. *)
AlreadyCurrent ==
  /\ DeployAt("rest") /\ recorded = head /\ current # NoCommit
  /\ \/ units' = current \/ UNCHANGED units
  /\ UNCHANGED <<branchVars, dirVars, current, recorded, run, outcomeVars>>

(* The link already points at the commit: an interrupted run got that far. *)
Begins ==
  /\ DeployAt("rest") /\ ~(recorded = head /\ current # NoCommit)
  /\ checks[head] = "success"
  /\ run' = [step |-> IF current = head THEN "install" ELSE "build", commit |-> head,
             old |-> NoCommit]
  /\ UNCHANGED <<branchVars, dirVars, current, recorded, units, outcomeVars>>

Removed(gone) ==
  /\ releases' = releases \ gone
  /\ younger' = [c \in Commits |-> IF c \in gone THEN {} ELSE younger[c] \ gone]

(* What a failed activation left of the same commit is replaced. *)
Build ==
  /\ DeployAt("build") /\ Goes("link")
  /\ releases' = releases \cup {run.commit}
  /\ younger' = [c \in Commits |-> IF c \in releases \ {run.commit}
                                  THEN younger[c] \cup {run.commit} ELSE {}]
  /\ UNCHANGED <<branchVars, current, recorded, units, outcomeVars>>

BuildFails ==
  /\ DeployAt("build") /\ run' = NoRun /\ Removed({run.commit})
  /\ UNCHANGED <<branchVars, current, recorded, units, outcomeVars>>

Link ==
  /\ DeployAt("link")
  /\ run' = [run EXCEPT !.step = "watch", !.old = current] /\ current' = run.commit
  /\ UNCHANGED <<branchVars, dirVars, recorded, units, outcomeVars>>

ComesUp ==
  /\ DeployAt("watch") /\ Goes("install") /\ passed' = passed \cup {run.commit}
  /\ UNCHANGED <<branchVars, dirVars, current, recorded, units, killed, unsure>>

DoesNotComeUp_Stays ==                     \* mutant: no way back
  /\ DeployAt("watch") /\ run' = NoRun
  /\ UNCHANGED <<branchVars, dirVars, current, recorded, units, outcomeVars>>

DoesNotComeUp ==
  /\ DeployAt("watch") /\ run' = NoRun
  /\ IF run.old \in releases
     THEN current' = run.old /\ UNCHANGED unsure
     ELSE unsure' = unsure \cup {run.commit} /\ UNCHANGED current
  /\ UNCHANGED <<branchVars, dirVars, recorded, units, killed, passed>>

Install ==
  /\ DeployAt("install")
  /\ \/ units' = run.commit /\ Goes("record")
     \/ units' \in {units, run.commit} /\ run' = NoRun
  /\ UNCHANGED <<branchVars, dirVars, current, recorded, outcomeVars>>

Record ==
  /\ DeployAt("record") /\ recorded' = run.commit /\ Goes("clean")
  /\ UNCHANGED <<branchVars, dirVars, current, units, outcomeVars>>

(* The current release and the Keep - 1 youngest others stay. *)
Cleanup ==
  /\ DeployAt("clean") /\ run' = NoRun
  /\ Removed({c \in releases \ {current} : Cardinality(younger[c] \ {current}) + 1 >= Keep})
  /\ UNCHANGED <<branchVars, current, recorded, units, outcomeVars>>

Killed ==
  /\ killed < DeployCrashes /\ killed' = killed + 1 /\ ~DeployAt("rest")
  /\ unsure' = IF DeployAt("watch") THEN unsure \cup {run.commit} ELSE unsure
  /\ \/ DeployAt("build") /\ Removed({run.commit})
     \/ UNCHANGED dirVars
  /\ run' = NoRun
  /\ UNCHANGED <<branchVars, current, recorded, units, passed>>

ReleasesNext ==
  \/ \E c \in Commits : Push(c) \/ \E v \in {"success", "failed"} : ChecksEnd(c, v)
  \/ AlreadyCurrent \/ Begins \/ Build \/ BuildFails \/ Link \/ ComesUp \/ DoesNotComeUp
  \/ Install \/ Record \/ Cleanup \/ Killed

ReleasesSpec == ReleasesInit /\ [][ReleasesNext]_releasesVars

-----------------------------------------------------------------------------
ReleasesTypeOK ==
  /\ head \in Commits /\ checks \in [Commits -> {"pending", "success", "failed"}]
  /\ releases \subseteq Commits /\ younger \in [Commits -> SUBSET releases]
  /\ {current, recorded, units} \subseteq Commits \cup {NoCommit}
  /\ run.step \in {"rest", "build", "link", "watch", "install", "record", "clean"}

(* Between runs the bot runs a release that CI passed and that came up when
   it was activated, and its directory is there; the recorded commit is such
   a release as well.  Only a run killed while it watched, or a first release
   with nothing to go back to, leaves another: the next run installs and
   records it without a second look (deploy's comment, line 386, takes it to
   have passed). *)
FailedReleaseIsNotServed ==
  /\ current # NoCommit => current \in releases /\ checks[current] = "success"
  /\ DeployAt("rest") => {current, recorded} \subseteq passed \cup unsure \cup {NoCommit}
=============================================================================
