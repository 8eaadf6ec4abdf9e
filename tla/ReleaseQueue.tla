---------------------------- MODULE ReleaseQueue ----------------------------
(***************************************************************************)
(* The release queue: workflow runs of this repository                     *)
(* (.github/workflows/enqueue-release.yml) each append an entry to         *)
(* `pending` of one file on the main branch of the deploy repository, by a *)
(* pull request that is merged at once, by one that waits, or by a push.   *)
(* Nothing keeps the runs apart: one push here starts several of them.     *)
(*                                                                         *)
(* External are git, GitHub, the maintainers who merge by hand and the     *)
(* promoter that takes entries out of the queue, as the workflow uses      *)
(* them.  A run can be run again (an attempt): it keeps its run id and     *)
(* makes a new entry.                                                      *)
(***************************************************************************)
EXTENDS Integers, Sequences, SequencesExt

CONSTANTS
  Runs,          \* GITHUB_RUN_ID
  MaxAttempts,   \* bound on the attempts of a run
  None

Attempts == 1..MaxAttempts
Entries == Runs \X Attempts

\* What a branch holds: a commit that appends the entry to the base, made at a
\* head; mergedAt is the head that has this very commit.
Heads == [entry : Entries, base : Seq(Entries), head : Nat, mergedAt : Nat \cup {None}]

ASSUME ReleaseAssumption ==
  /\ MaxAttempts \in Nat \ {0}
  /\ None \notin Heads

\* open_pr FALSE; open_pr without auto_merge_pr; the merge methods.
Modes == {"direct", "offer", "merge", "squash"}

VARIABLES
  file,     \* pending of queue.yaml on the main branch
  head,     \* the number of commits on the main branch
  taken,    \* entries the promoter has taken out
  branch,   \* branch[b]: what the branch of the deploy repository holds
  pr,       \* pr[e]: the pull request of the attempt
  job

vars == <<file, head, taken, branch, pr, job>>

Active == {"clone", "push", "branch", "create", "merge", "delete", "view"}

TypeOK ==
  /\ file \in Seq(Entries) /\ head \in Nat /\ taken \subseteq Entries
  /\ pr \in [Entries -> {"none", "open", "merged", "closed"}]
  /\ branch \in [Entries -> Heads \cup {None}]
  /\ job \in [Runs -> [pc : Active \cup {"idle", "done", "failed"}, attempt : 0..MaxAttempts,
                       mode : Modes, base : Seq(Entries), head : Nat, merged : BOOLEAN]]

\* Mutant: a branch for each attempt.
BranchOfAttempt(e) == e

\* bot/queue-SERVICE-GITHUB_RUN_ID, named by the first entry of the run
BranchOf(e) == <<e[1], 1>>

Init ==
  /\ file = <<>> /\ head = 0 /\ taken = {}
  /\ branch = [b \in Entries |-> None]
  /\ pr = [e \in Entries |-> "none"]
  /\ job \in [Runs -> [pc : {"idle"}, attempt : {0}, mode : Modes,
                       base : {<<>>}, head : {0}, merged : {FALSE}]]

-----------------------------------------------------------------------------
Entry(r) == <<r, job[r].attempt>>
Branch(r) == BranchOf(Entry(r))

Step(r, from, to) == job[r].pc = from /\ job' = [job EXCEPT ![r].pc = to]

\* What a call does may be done although the step fails.
StepOrFail(r, from, to) == \E pc \in {to, "failed"} : Step(r, from, pc)

\* The first attempt, or another one.
Start(r) ==
  /\ job[r].pc \in {"idle", "done", "failed"} /\ job[r].attempt < MaxAttempts
  /\ job' = [job EXCEPT ![r].pc = "clone", ![r].attempt = @ + 1, ![r].merged = FALSE]
  /\ UNCHANGED <<file, head, taken, branch, pr>>

\* Invalid inputs, no queue file, the network, the end of the runner: the job
\* stops where it is.
Stop(r) ==
  /\ job[r].pc \in Active /\ Step(r, job[r].pc, "failed")
  /\ UNCHANGED <<file, head, taken, branch, pr>>

\* The clone, and the new entry at the end of its list.
Clone(r) ==
  /\ job[r].pc = "clone"
  /\ job' = [job EXCEPT ![r].pc = IF job[r].mode = "direct" THEN "push" ELSE "branch",
                        ![r].base = file, ![r].head = head]
  /\ UNCHANGED <<file, head, taken, branch, pr>>

Commit(list) == file' = list /\ head' = head + 1

\* Mutant: git push --force.
PushMainForced(r) ==
  /\ StepOrFail(r, "push", "done")
  /\ Commit(Append(job[r].base, Entry(r)))
  /\ UNCHANGED <<taken, branch, pr>>

\* git push: the whole file of the clone, refused when main has moved.
PushMain(r) ==
  /\ head = job[r].head
  /\ StepOrFail(r, "push", "done")
  /\ Commit(Append(job[r].base, Entry(r)))
  /\ UNCHANGED <<taken, branch, pr>>

\* A push to a branch that exists is refused, unless the clone has its commit:
\* an attempt before was merged with a merge commit and its branch not deleted.
PushBranch(r) ==
  /\ job[r].pc = "branch"
  /\ LET old == branch[Branch(r)] IN
     old # None => old.mergedAt # None /\ old.mergedAt <= job[r].head
  /\ StepOrFail(r, "branch", "create")
  /\ branch' = [branch EXCEPT ![Branch(r)] =
       [entry |-> Entry(r), base |-> job[r].base, head |-> job[r].head, mergedAt |-> None]]
  /\ UNCHANGED <<file, head, taken, pr>>

\* gh pr create: refused while a pull request of this branch is open.
CreatePr(r) ==
  /\ job[r].pc = "create"
  /\ \A e \in Entries : pr[e] = "open" => BranchOf(e) # Branch(r)
  /\ StepOrFail(r, "create", IF job[r].mode = "offer" THEN "view" ELSE "merge")
  /\ pr' = [pr EXCEPT ![Entry(r)] = "open"]
  /\ UNCHANGED <<file, head, taken, branch>>

\* git merges two changes of the list when they do not touch: the last entry is
\* still the one the clone had.
Clean(b) ==
  \/ head = b.head
  \/ file = <<>> /\ b.base = <<>>
  \/ file # <<>> /\ b.base # <<>> /\ Last(file) = Last(b.base)

\* Mutant: conflicts are resolved for the branch.
MergedForBranch(b) == Append(b.base, b.entry)

Merged(b) == Append(file, b.entry)

\* With a merge commit, main has the branch's commit from now on; a squash or a
\* rebase makes another one.
MergeEntry(e, method) ==
  /\ Commit(Merged(branch[BranchOf(e)]))
  /\ branch' = [branch EXCEPT ![BranchOf(e)].mergedAt =
       IF method = "merge" THEN head + 1 ELSE None]
  /\ pr' = [pr EXCEPT ![e] = "merged"]
  /\ UNCHANGED taken

\* Mutant: gh pr merge || true
MergePrOrGoOn(r) ==
  /\ job[r].pc = "merge" /\ pr[Entry(r)] = "open"
  /\ StepOrFail(r, "merge", "delete")
  /\ \/ Clean(branch[Branch(r)]) /\ MergeEntry(Entry(r), job[r].mode)
     \/ ~Clean(branch[Branch(r)]) /\ UNCHANGED <<file, head, taken, branch, pr>>

\* gh pr merge: a conflict fails the step and leaves the pull request open.
MergePr(r) ==
  /\ job[r].pc = "merge" /\ pr[Entry(r)] = "open" /\ Clean(branch[Branch(r)])
  /\ StepOrFail(r, "merge", "delete")
  /\ MergeEntry(Entry(r), job[r].mode)

\* Somebody has merged it already: only the branch is left to delete.
MergePrAgain(r) ==
  /\ job[r].pc = "merge" /\ pr[Entry(r)] = "merged"
  /\ Step(r, "merge", "delete")
  /\ UNCHANGED <<file, head, taken, branch, pr>>

\* --delete-branch, still part of gh pr merge; then merged=true.
DeleteBranch(r) ==
  /\ job[r].pc = "delete"
  /\ branch' = [branch EXCEPT ![Branch(r)] = None]
  /\ \/ job' = [job EXCEPT ![r].pc = "view", ![r].merged = TRUE]
     \/ job' = [job EXCEPT ![r].pc = "failed"]
  /\ UNCHANGED <<file, head, taken, pr>>

\* gh pr view, for the output deploy_commit.
View(r) ==
  /\ Step(r, "view", "done")
  /\ UNCHANGED <<file, head, taken, branch, pr>>

-----------------------------------------------------------------------------
(* Outside the workflow.                                                   *)

\* A maintainer merges what is open, with the conflict resolved if there is one.
MergeByHand(e) ==
  /\ pr[e] = "open"
  /\ \E method \in {"merge", "squash"} : MergeEntry(e, method)
  /\ UNCHANGED job

\* A maintainer deletes a branch: its pull request closes.
DeleteByHand(b) ==
  /\ branch[b] # None /\ job[b[1]].pc \in {"done", "failed"}
  /\ branch' = [branch EXCEPT ![b] = None]
  /\ pr' = [e \in Entries |->
              IF BranchOf(e) = b /\ pr[e] = "open" THEN "closed" ELSE pr[e]]
  /\ UNCHANGED <<file, head, taken, job>>

\* The promoter takes an entry of the queue.
Promote ==
  /\ \E i \in DOMAIN file :
       Commit(RemoveAt(file, i)) /\ taken' = taken \cup {file[i]}
  /\ UNCHANGED <<branch, pr, job>>

RunStep(r) ==
  \/ Start(r) \/ Stop(r) \/ Clone(r) \/ PushMain(r)
  \/ PushBranch(r) \/ CreatePr(r) \/ MergePr(r) \/ MergePrAgain(r)
  \/ DeleteBranch(r) \/ View(r)

Next ==
  \/ Promote \/ \E r \in Runs : RunStep(r)
  \/ \E e \in Entries : MergeByHand(e) \/ DeleteByHand(e)

Spec == Init /\ [][Next]_vars
-----------------------------------------------------------------------------
(* Properties.                                                             *)

Queued(e) == e \in taken \/ \E i \in DOMAIN file : file[i] = e

\* No run takes another's entry out of the queue, puts it in another place or
\* puts something before it, although each writes a file it has read before:
\* only the promoter takes entries out.
KeepsEntries == [][ taken' = taken => IsPrefix(file, file') ]_vars

\* An entry that was promoted does not come back, from whatever clone of the file
\* a run goes on: it would be deployed over the ones that came after it.  It is
\* the entry that stays out; another attempt of its run makes another entry, of
\* the same release.
PromotedStaysOut == \A i \in DOMAIN file : file[i] \notin taken

\* What a job tells its caller: with merged=true, and when a job of the direct
\* mode succeeds, its own entry is in the queue or was taken from there.
OutputsAreTrue ==
  \A r \in Runs :
    job[r].merged \/ (job[r].pc = "done" /\ job[r].mode = "direct") => Queued(Entry(r))

\* What an earlier attempt has left behind, its branch or its pull request, is not
\* queued behind the entry of a later attempt, by whoever merges: a release may be
\* queued again, but only by a repeat after the entry that is there.
NoLateEntry ==
  [][ \A r \in Runs : \A i, j \in Attempts :
        i < j /\ Queued(<<r, j>>) /\ ~Queued(<<r, i>>) => ~Queued(<<r, i>>)' ]_vars
=============================================================================
