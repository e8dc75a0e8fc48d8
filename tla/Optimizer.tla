------------------------------- MODULE Optimizer -------------------------------
(***************************************************************************)
(* scripts/auto_optimizer.py: for each failing invoice of a report, Gemini *)
(* proposes replacements for definitions of verifier.py; they are spliced  *)
(* in, tried by the test suite on a branch of their own, and offered as a  *)
(* pull request or rolled back. The program works in the developer's own   *)
(* checkout, and may die at any step and be run again.                     *)
(*                                                                         *)
(* A tree gives the version of each definition of verifier.py, and of all  *)
(* other files as one; a version is named by the branch it was written on. *)
(***************************************************************************)
EXTENDS Integers, Sequences, SequencesExt

CONSTANTS
  Invoices,    \* invoice ids
  Reports,     \* failing invoices a report may list, in order, repeats included
  Compact,     \* definitions whose end the splice finds
  Wrapped,     \* those it cuts short: the signature closes at column 0, or the
               \* value spans lines in brackets that are not parentheses
  Retries,     \* --gemini-retries
  Edited,      \* files the developer may edit
  MaxStarts,   \* bound on runs of the program
  MaxEdits     \* bound on what the developer does between runs

Definitions == Compact \cup Wrapped
Rest == "rest"
Files == Definitions \cup {Rest}

ASSUME OptimizerInputs ==
  /\ Reports \subseteq Seq(Invoices) /\ Edited \subseteq Files /\ Rest \notin Definitions
  /\ Retries \in Nat /\ MaxStarts \in Nat /\ MaxEdits \in Nat

Main == <<"main", 0>>
ByHand == <<"by hand", 0>>
Base == [f \in Files |-> Main]

VARIABLES
  branches,   \* the tree at the head of each local branch
  head,       \* the branch checked out
  tree,       \* the working tree
  staged,     \* whether an edit of the other files is staged
  remote,     \* branches pushed
  requests,   \* pull requests
  pc,         \* the program's next step; "down" when it does not run
  queue,      \* failures not processed yet, the current one first
  dry,        \* --dry-run
  orig,       \* original_branch
  code,       \* verifier_code, then patched_code
  attempt,    \* calls of Gemini for this failure
  starts,     \* runs of the program so far
  edits,      \* things the developer did so far
  tested,     \* history: trees the tests accepted, by branch
  before      \* history: branches and tree when this run started

repo == <<branches, head, tree, staged, remote, requests>>
run == <<queue, dry, orig, code, attempt>>
history == <<starts, edits, tested, before>>
vars == <<repo, pc, run, history>>

Init ==
  /\ branches = [b \in {Main} |-> Base] /\ head = Main
  /\ tree = Base /\ staged = FALSE
  /\ remote = {} /\ requests = {}
  /\ pc = "down" /\ queue = <<>> /\ dry = FALSE /\ orig = Main
  /\ code = Base /\ attempt = 0
  /\ starts = 0 /\ edits = 0 /\ tested = {}
  /\ before = [branches |-> branches, tree |-> tree]

-----------------------------------------------------------------------------

(* What the developer does between runs. *)
ByHandStep ==
  /\ pc = "down" /\ edits < MaxEdits /\ edits' = edits + 1
  /\ UNCHANGED <<branches, remote, requests, pc, run, starts, tested, before>>

Edit(f, stage) ==
  /\ ByHandStep
  /\ tree' = [tree EXCEPT ![f] = ByHand]
  /\ staged' = IF f = Rest THEN stage ELSE staged
  /\ UNCHANGED head

(* git checkout -f *)
SwitchTo(b) ==
  /\ ByHandStep
  /\ head' = b /\ tree' = branches[b] /\ staged' = FALSE

-----------------------------------------------------------------------------

(* The end of the program: done, an uncaught exception (a command that      *)
(* fails under check=True, an answer that cannot be used), or killed.       *)
End ==
  /\ pc' = "down"
  /\ queue' = <<>> /\ dry' = FALSE /\ orig' = Main /\ code' = Base /\ attempt' = 0
  /\ UNCHANGED <<repo, history>>

Die == pc # "down" /\ End

(* stage_triage_all: each failing invoice once. *)
TriageAll(report) ==
  FoldLeft(LAMBDA found, id : IF id \in ToSet(found) THEN found ELSE Append(found, id),
           <<>>, report)

FirstOf(s, n) == SubSeq(s, 1, IF n < Len(s) THEN n ELSE Len(s))

(* stage_triage: the first failure; or a sweep, up to a limit if there is one. *)
Failures(report, sweep, limit) ==
  IF ~sweep THEN FirstOf(report, 1)
  ELSE IF limit > 0 THEN FirstOf(TriageAll(report), limit)
  ELSE TriageAll(report)

Start(failures, dryRun) ==
  /\ pc = "down" /\ starts < MaxStarts
  /\ starts' = starts + 1
  /\ before' = [branches |-> branches, tree |-> tree]
  /\ orig' = head
  /\ queue' = failures /\ dry' = dryRun
  /\ pc' = "next"
  /\ UNCHANGED <<repo, code, attempt, edits, tested>>

(* "Always read fresh verifier code" *)
ReadCode ==
  /\ pc = "next" /\ queue # <<>>
  /\ code' = tree /\ attempt' = 1
  /\ pc' = "ask"
  /\ UNCHANGED <<repo, queue, dry, orig, history>>

Finish == pc = "next" /\ queue = <<>> /\ End

Goto(next) == pc' = next /\ UNCHANGED <<run, history>>

NextFailure ==
  /\ pc' = "next"
  /\ queue' = Tail(queue)
  /\ UNCHANGED <<dry, orig, code, attempt, history>>

(* A time stamp makes the name new. *)
Branch == <<Head(queue), starts>>

(* _apply_function_swap; names that are not found are skipped. *)
Swap(original, names) == [f \in Files |-> IF f \in names THEN Branch ELSE original[f]]

(* A swap that leaves half of a definition behind is no Python: ValueError. *)
GeminiAnswers ==
  /\ pc = "ask"
  /\ \E names \in SUBSET Definitions :
       IF names \cap Wrapped # {} THEN End
       ELSE IF dry THEN NextFailure /\ UNCHANGED repo
       ELSE /\ code' = Swap(code, names)
            /\ pc' = "branch"
            /\ UNCHANGED <<repo, queue, dry, orig, attempt, history>>

(* Bug the checks must notice: the attempts are not counted. *)
RetriedForEver == pc = "ask" /\ Retries > 0 /\ attempt' = 1 - attempt
                  /\ UNCHANGED <<repo, pc, queue, dry, orig, code, history>>

(* A connection error, or one of the five HTTP statuses that are retried.   *)
(* (Other statuses, and answers without a usable patch, raise: Die.)        *)
GeminiFails ==
  /\ pc = "ask"
  /\ IF attempt <= Retries
     THEN attempt' = attempt + 1 /\ UNCHANGED <<repo, pc, queue, dry, orig, code, history>>
     ELSE End

(* Bug the checks must notice: the branch is made but not checked out. *)
BranchNotEntered ==
  /\ pc = "branch"
  /\ branches' = [b \in DOMAIN branches \cup {Branch} |->
                    IF b = Branch THEN branches[head] ELSE branches[b]]
  /\ UNCHANGED <<head, tree, staged, remote, requests>>
  /\ Goto("write")

(* git checkout -b *)
CreateBranch ==
  /\ pc = "branch" /\ Branch \notin DOMAIN branches
  /\ branches' = [b \in DOMAIN branches \cup {Branch} |->
                    IF b = Branch THEN branches[head] ELSE branches[b]]
  /\ head' = Branch
  /\ UNCHANGED <<tree, staged, remote, requests>>
  /\ Goto("write")

WritePatch ==
  /\ pc = "write"
  /\ tree' = [f \in Files |-> IF f = Rest THEN tree[f] ELSE code[f]]
  /\ UNCHANGED <<branches, head, staged, remote, requests>>
  /\ Goto("test")

TestsPass ==
  /\ pc = "test"
  /\ tested' = tested \cup {[branch |-> Branch, tree |-> tree]}
  /\ pc' = "commit"
  /\ UNCHANGED <<repo, run, starts, edits, before>>

(* Bug the checks must notice: a timeout counts as success. *)
TimeoutPasses == pc = "test" /\ UNCHANGED repo /\ Goto("commit")

(* A failing test, or 60 seconds. *)
TestsFail == pc = "test" /\ UNCHANGED repo /\ Goto("reset")

(* Bug the checks must notice: the patch stays in the working tree. *)
NotReset == pc = "reset" /\ UNCHANGED repo /\ Goto("leave")

(* git reset --hard: what the developer had not committed goes too. *)
Reset ==
  /\ pc = "reset"
  /\ tree' = branches[head] /\ staged' = FALSE
  /\ UNCHANGED <<branches, head, remote, requests>>
  /\ Goto("leave")

(* git checkout: an uncommitted edit is carried along, unless the branches  *)
(* differ there, when the command fails.                                    *)
Checkout(b) ==
  /\ \A f \in Files : tree[f] = branches[head][f] \/ branches[head][f] = branches[b][f]
  /\ head' = b
  /\ tree' = [f \in Files |-> IF tree[f] = branches[head][f] THEN branches[b][f] ELSE tree[f]]
  /\ UNCHANGED <<branches, staged, remote, requests>>

Leave == pc = "leave" /\ Checkout(orig) /\ Goto("delete")

(* git branch -D *)
DeleteBranch ==
  /\ pc = "delete"
  /\ branches' = [b \in DOMAIN branches \ {Branch} |-> branches[b]]
  /\ UNCHANGED <<head, tree, staged, remote, requests>>
  /\ NextFailure

(* git add of verifier.py, and git commit, which takes whatever is staged.  *)
Committed ==
  [f \in Files |-> IF f = Rest /\ ~staged THEN branches[head][f] ELSE tree[f]]

(* It fails if that is nothing. *)
Commit ==
  /\ pc = "commit"
  /\ IF Committed = branches[head] THEN End
     ELSE /\ branches' = [branches EXCEPT ![head] = Committed]
          /\ staged' = FALSE
          /\ UNCHANGED <<head, tree, remote, requests>>
          /\ Goto("push")

Push ==
  /\ pc = "push"
  /\ remote' = remote \cup {Branch}
  /\ UNCHANGED <<branches, head, tree, staged, requests>>
  /\ Goto("request")

(* gh pr create *)
OpenRequest ==
  /\ pc = "request" /\ Branch \in remote
  /\ requests' = requests \cup
       {[head |-> Branch, base |-> orig, tree |-> branches[Branch], from |-> before.tree]}
  /\ UNCHANGED <<branches, head, tree, staged, remote>>
  /\ Goto("return")

(* Bug the checks must notice: the sweep goes on from the patch's branch. *)
NotReturned == pc = "return" /\ UNCHANGED repo /\ NextFailure

Return == pc = "return" /\ Checkout(orig) /\ NextFailure

Step ==
  \/ ReadCode \/ Finish \/ GeminiAnswers \/ GeminiFails
  \/ CreateBranch \/ WritePatch \/ TestsPass \/ TestsFail
  \/ Reset \/ Leave \/ DeleteBranch
  \/ Commit \/ Push \/ OpenRequest \/ Return

Next ==
  \/ \E f \in Edited, stage \in BOOLEAN : Edit(f, stage)
  \/ \E b \in DOMAIN branches : SwitchTo(b)
  \/ \E report \in Reports, sweep \in BOOLEAN, limit \in {0, 1}, dryRun \in BOOLEAN :
       Start(Failures(report, sweep, limit), dryRun)
  \/ Die \/ Step

SafeSpec == Init /\ [][Next]_vars

Spec == SafeSpec /\ WF_vars(Step)

-----------------------------------------------------------------------------

(* A pull request offers, in every definition of verifier.py, exactly what  *)
(* the tests accepted on its branch, through crashes, timeouts and reruns.  *)
(* (The tests ran with uncommitted edits of other files in place, which the *)
(* request does not have unless they were staged.)                          *)
RequestsWereTested ==
  \A r \in requests : \E t \in tested :
    t.branch = r.head /\ \A d \in Definitions : t.tree[d] = r.tree[d]

(* A pull request changes nothing but what was proposed for its invoice:    *)
(* the rest of it is its base, or, with the developer's edits of before     *)
(* this run, the tree the run started from. No other invoice's patch, tried *)
(* or offered earlier in the sweep, is in it.                               *)
OnePatchPerRequest ==
  \A r \in requests : \E from \in {branches[r.base], r.from} :
    \A f \in Definitions : r.tree[f] \in {r.head, from[f]}

(* Whatever fails, the branches that were there when the program was        *)
(* started are there, and where they were.                                  *)
ExistingBranchesKept ==
  pc # "down" => \A b \in DOMAIN before.branches :
                   b \in DOMAIN branches /\ branches[b] = before.branches[b]

(* Between two failures of a sweep, and at its end, the checkout is back on *)
(* the branch it started on, and each branch left over is a pull request's. *)
SandboxRestored ==
  pc = "next" =>
    /\ head = orig
    /\ \A b \in DOMAIN branches \ DOMAIN before.branches : \E r \in requests : r.head = b

(* A sweep ends: Gemini is not asked for ever, and commands return.         *)
SweepEnds == pc # "down" ~> pc = "down"
=============================================================================
