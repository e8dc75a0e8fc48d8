---------------------------- MODULE OptimizerProofs ----------------------------
(***************************************************************************)
(* What the optimizer leaves in the repository, for every report, every    *)
(* answer of Gemini, every outcome of the tests, wherever it dies and      *)
(* however often it is run again.                                          *)
(***************************************************************************)
EXTENDS Optimizer, TLAPS

(* The steps taken with the patch's branch checked out. *)
Sandbox == {"write", "test", "reset", "leave", "commit", "push", "request", "return"}

(* The checkout: on the patch's branch in the sandbox, back on the original *)
(* one outside, and no other new branch than those of pull requests.        *)
RepoInv ==
  /\ pc \in {"down", "next", "ask", "branch", "delete"} \cup Sandbox
  /\ head \in DOMAIN branches
  /\ pc # "down" => orig \in DOMAIN before.branches
  /\ ExistingBranchesKept
  /\ pc \in Sandbox \cup {"delete"} =>
       Branch \in DOMAIN branches /\ Branch \notin DOMAIN before.branches
  /\ pc \in Sandbox => head = Branch
  /\ pc \in {"next", "ask", "branch", "delete"} => head = orig
  /\ pc = "return" => \E r \in requests : r.head = Branch
  /\ pc # "down" => \A b \in DOMAIN branches \ DOMAIN before.branches :
       \/ pc \in Sandbox \cup {"delete"} /\ b = Branch
       \/ \E r \in requests : r.head = b

Accepted(t) == \E s \in tested : s.branch = Branch /\ \A d \in Definitions : s.tree[d] = t[d]

(* What is on its way to a pull request has passed the tests. *)
TestInv ==
  /\ RequestsWereTested
  /\ pc = "commit" => Accepted(tree)
  /\ pc \in {"push", "request"} => Accepted(branches[Branch])

(* t is the original branch's verifier.py or that of the start of the run;  *)
(* or one of the two with this failure's patch.                             *)
Fresh(t) == \E from \in {branches[orig], before.tree} :
              \A d \in Definitions : t[d] = from[d]

Patched(t) == \E from \in {branches[orig], before.tree} :
                \A d \in Definitions : t[d] \in {Branch, from[d]}

SameAs(b) == \A d \in Definitions : tree[d] = branches[b][d]

(* Where verifier.py stands at each step; and that the base of a request    *)
(* stays where it was.                                                      *)
PatchInv ==
  /\ OnePatchPerRequest
  /\ \A r \in requests : /\ r.base \in DOMAIN branches
                         /\ pc # "down" => r.base \in DOMAIN before.branches
  /\ pc \in {"next", "ask"} => Fresh(tree)
  /\ pc = "ask" => Fresh(code)
  /\ pc \in {"branch", "write"} => Patched(code)
  /\ pc \in {"test", "commit"} => Patched(tree)
  /\ pc \in {"push", "request"} => Patched(branches[Branch])
  /\ pc \in {"leave", "push", "request", "return"} => SameAs(Branch)
  /\ pc = "delete" => SameAs(orig)

IInv == RepoInv /\ TestInv /\ PatchInv

(* The initial states satisfy the invariant.                                *)
LEMMA InitIInv == Init => IInv
<1> SUFFICES ASSUME Init PROVE IInv
  OBVIOUS
<1>1. RepoInv
  BY DEF Init, RepoInv, ExistingBranchesKept, Sandbox
<1>2. TestInv
  BY DEF Init, TestInv, RequestsWereTested
<1>3. PatchInv
  BY DEF Init, PatchInv, OnePatchPerRequest
<1> QED
  BY <1>1, <1>2, <1>3 DEF IInv

(* The end of the program, wherever it comes, leaves all as it is.          *)
LEMMA EndStep == ASSUME IInv, End PROVE IInv'
<1>1. RepoInv'
  BY DEF IInv, RepoInv, End, repo, history, ExistingBranchesKept, Sandbox
<1>2. TestInv'
  BY DEF IInv, TestInv, End, repo, history, RequestsWereTested
<1>3. PatchInv'
  BY DEF IInv, PatchInv, End, repo, history, OnePatchPerRequest
<1> QED
  BY <1>1, <1>2, <1>3 DEF IInv

(* So does what the developer does between two runs.                        *)
LEMMA ByHandKeeps ==
  ASSUME IInv, ByHandStep, head' \in DOMAIN branches
  PROVE  IInv'
<1>1. RepoInv'
  BY DEF IInv, RepoInv, ByHandStep, run, ExistingBranchesKept, Sandbox
<1>2. TestInv'
  BY DEF IInv, TestInv, ByHandStep, RequestsWereTested
<1>3. PatchInv'
  BY DEF IInv, PatchInv, ByHandStep, OnePatchPerRequest
<1> QED
  BY <1>1, <1>2, <1>3 DEF IInv

(* A run starts from what is there.                                         *)
LEMMA StartStep ==
  ASSUME IInv, NEW failures, NEW dryRun, Start(failures, dryRun)
  PROVE  IInv'
<1>1. RepoInv'
  BY DEF IInv, RepoInv, Start, repo, ExistingBranchesKept, Sandbox
<1>2. TestInv'
  BY DEF IInv, TestInv, Start, repo, RequestsWereTested
<1>3. PatchInv'
  BY DEF IInv, PatchInv, Start, repo, OnePatchPerRequest, Fresh
<1> QED
  BY <1>1, <1>2, <1>3 DEF IInv

(* Reading the code and asking Gemini change nothing in the repository.     *)
LEMMA AskStep ==
  ASSUME IInv, UNCHANGED <<repo, queue, orig, history>>,
         \/ pc = "next" /\ pc' = "ask" /\ code' = tree
         \/ pc = "ask" /\ pc' = "ask" /\ code' = code
         \/ pc = "ask" /\ pc' = "branch"
            /\ \A d \in Definitions : code'[d] \in {Branch, code[d]}
  PROVE  IInv'
<1>1. Branch' = Branch
  BY DEF Branch, history
<1>2. RepoInv'
  BY <1>1 DEF IInv, RepoInv, repo, history, ExistingBranchesKept, Sandbox
<1>3. TestInv'
  BY <1>1 DEF IInv, TestInv, repo, history, RequestsWereTested
<1>4. PatchInv'
  <2>1. pc' = "branch" => Patched(code)'
    BY <1>1 DEF IInv, PatchInv, repo, history, Fresh, Patched
  <2>2. pc' = "ask" => Fresh(code)' /\ Fresh(tree)'
    BY DEF IInv, PatchInv, repo, history, Fresh
  <2> QED
    BY <2>1, <2>2 DEF IInv, PatchInv, repo, history, OnePatchPerRequest
<1> QED
  BY <1>2, <1>3, <1>4 DEF IInv

(* A dry run goes on to the next failure without touching anything.         *)
LEMMA DryStep ==
  ASSUME IInv, pc = "ask", NextFailure, UNCHANGED repo
  PROVE  IInv'
<1>1. RepoInv'
  BY DEF IInv, RepoInv, NextFailure, repo, history, ExistingBranchesKept, Sandbox
<1>2. TestInv'
  BY DEF IInv, TestInv, NextFailure, repo, history, RequestsWereTested
<1>3. PatchInv'
  BY DEF IInv, PatchInv, NextFailure, repo, history, OnePatchPerRequest, Fresh
<1> QED
  BY <1>1, <1>2, <1>3 DEF IInv

(* The sandbox is entered on a new branch.                                  *)
LEMMA CreateStep ==
  ASSUME IInv, CreateBranch
  PROVE  IInv'
<1>1. Branch' = Branch
  BY DEF Branch, CreateBranch, Goto, run, history
<1>2. RepoInv'
  BY <1>1 DEF IInv, RepoInv, CreateBranch, Goto, run, history, ExistingBranchesKept, Sandbox
<1>3. TestInv'
  BY DEF IInv, TestInv, CreateBranch, Goto, run, history, RequestsWereTested
<1>4. PatchInv'
  <2>1. orig \in DOMAIN branches /\ orig # Branch
    BY DEF IInv, RepoInv, CreateBranch, ExistingBranchesKept
  <2>2. \A b \in DOMAIN branches : branches'[b] = branches[b]
    BY DEF CreateBranch
  <2>3. OnePatchPerRequest'
    BY <2>2 DEF IInv, PatchInv, OnePatchPerRequest, CreateBranch
  <2>4. Patched(code)'
    BY <1>1, <2>1, <2>2 DEF IInv, PatchInv, Patched, CreateBranch, Goto, run, history
  <2> QED
    BY <2>3, <2>4 DEF IInv, PatchInv, CreateBranch, Goto, run, history
<1> QED
  BY <1>2, <1>3, <1>4 DEF IInv

(* Steps inside the sandbox that move no branch and open no request.        *)
LEMMA SandboxStep ==
  ASSUME IInv, Goto(pc'),
         UNCHANGED <<branches, head, requests>>,
         \/ pc = "write" /\ pc' = "test" /\ \A d \in Definitions : tree'[d] = code[d]
         \/ pc = "test" /\ pc' = "reset"
         \/ pc = "reset" /\ pc' = "leave" /\ tree' = branches[head]
         \/ pc = "push" /\ pc' = "request" /\ tree' = tree
  PROVE  IInv'
<1>1. Branch' = Branch
  BY DEF Branch, Goto, run, history
<1>2. RepoInv'
  BY <1>1 DEF IInv, RepoInv, Goto, run, history, ExistingBranchesKept, Sandbox
<1>3. TestInv'
  BY <1>1 DEF IInv, TestInv, Goto, history, RequestsWereTested, Accepted
<1>4. PatchInv'
  <2>1. OnePatchPerRequest'
    BY DEF IInv, PatchInv, OnePatchPerRequest
  <2>2. pc' = "test" => Patched(tree)'
    BY <1>1 DEF IInv, PatchInv, Patched, Goto, run, history
  <2>3. pc' = "leave" => SameAs(Branch)'
    BY <1>1 DEF IInv, RepoInv, SameAs, Sandbox
  <2>4. pc' = "request" => Patched(branches[Branch])' /\ SameAs(Branch)'
    BY <1>1 DEF IInv, PatchInv, Patched, SameAs, Goto, run, history
  <2> QED
    BY <2>1, <2>2, <2>3, <2>4 DEF IInv, PatchInv, Goto, history
<1> QED
  BY <1>2, <1>3, <1>4 DEF IInv

(* Tests that pass are on record for this tree.                             *)
LEMMA TestStep ==
  ASSUME IInv, TestsPass
  PROVE  IInv'
<1>1. Branch' = Branch
  BY DEF Branch, TestsPass, run
<1>2. RepoInv'
  BY <1>1 DEF IInv, RepoInv, TestsPass, repo, run, ExistingBranchesKept, Sandbox
<1>3. TestInv'
  <2>1. RequestsWereTested'
    BY DEF IInv, TestInv, TestsPass, repo, RequestsWereTested
  <2>2. Accepted(tree)'
    <3> DEFINE new == [branch |-> Branch, tree |-> tree]
    <3>1. new \in tested' /\ tree' = tree
      BY DEF TestsPass, repo
    <3>2. new.branch = Branch' /\ \A d \in Definitions : new.tree[d] = tree[d]
      BY <1>1
    <3> HIDE DEF new
    <3> QED
      BY <3>1, <3>2 DEF Accepted
  <2> QED
    BY <2>1, <2>2 DEF TestInv, TestsPass
<1>4. PatchInv'
  <2>1. OnePatchPerRequest'
    BY DEF IInv, PatchInv, OnePatchPerRequest, TestsPass, repo
  <2>2. Patched(tree)'
    BY <1>1 DEF IInv, PatchInv, Patched, TestsPass, repo, run
  <2> QED
    BY <2>1, <2>2 DEF IInv, PatchInv, TestsPass, repo
<1> QED
  BY <1>2, <1>3, <1>4 DEF IInv

(* A commit moves the patch's branch only, to the tree that was tested.     *)
LEMMA CommitStep ==
  ASSUME IInv, Commit
  PROVE  IInv'
<1>1. CASE End
  BY <1>1, EndStep
<1>2. CASE ~End
  <2>1. /\ pc = "commit" /\ pc' = "push"
        /\ branches' = [branches EXCEPT ![head] = Committed]
        /\ UNCHANGED <<head, tree, remote, requests, run, history>>
    BY <1>2 DEF Commit, Goto
  <2>2. Branch' = Branch /\ head = Branch /\ Branch \in DOMAIN branches
        /\ Branch \notin DOMAIN before.branches /\ orig \in DOMAIN before.branches
    BY <2>1 DEF Branch, run, history, IInv, RepoInv, Sandbox
  <2>3. DOMAIN branches' = DOMAIN branches /\ branches'[Branch] = Committed
        /\ \A b \in DOMAIN branches : b # Branch => branches'[b] = branches[b]
    BY <2>1, <2>2
  <2>4. orig \in DOMAIN branches /\ orig # Branch
    BY <2>1, <2>2 DEF IInv, RepoInv, ExistingBranchesKept
  <2>5. \A d \in Definitions : Committed[d] = tree[d]
    BY OptimizerInputs DEF Committed, Files
  <2> HIDE DEF Committed
  <2>6. RepoInv'
    <3>1. ExistingBranchesKept'
      BY <2>1, <2>2, <2>3 DEF IInv, RepoInv, ExistingBranchesKept, run, history
    <3> QED
      BY <3>1, <2>1, <2>2, <2>3 DEF IInv, RepoInv, run, history, Sandbox
  <2>7. TestInv'
    <3>1. Accepted(branches[Branch])'
      BY <2>1, <2>2, <2>3, <2>5 DEF IInv, TestInv, Accepted, history
    <3>2. RequestsWereTested'
      BY <2>1 DEF IInv, TestInv, RequestsWereTested, history
    <3> QED
      BY <3>1, <3>2, <2>1 DEF TestInv
  <2>8. PatchInv'
    <3>1. Patched(branches[Branch])' /\ SameAs(Branch)'
      <4>1. SameAs(Branch)'
        BY <2>1, <2>2, <2>3, <2>5 DEF SameAs
      <4>2. PICK from \in {branches[orig], before.tree} :
              \A d \in Definitions : tree[d] \in {Branch, from[d]}
        BY <2>1 DEF IInv, PatchInv, Patched
      <4>3. from \in {branches'[orig], before.tree}
        BY <4>2, <2>3, <2>4
      <4> QED
        BY <4>1, <4>2, <4>3, <2>1, <2>2, <2>3, <2>5 DEF Patched, run, history
    <3>2. \A r \in requests : r.base \in DOMAIN branches /\ r.base # Branch
      BY <2>1, <2>2 DEF IInv, PatchInv
    <3>3. OnePatchPerRequest'
      BY <3>2, <2>1, <2>3 DEF IInv, PatchInv, OnePatchPerRequest
    <3> QED
      BY <3>1, <3>2, <3>3, <2>1, <2>3 DEF IInv, PatchInv, history
  <2> QED
    BY <2>6, <2>7, <2>8 DEF IInv
<1> QED
  BY <1>1, <1>2

(* A request offers the branch as it was committed.                         *)
LEMMA RequestStep ==
  ASSUME IInv, OpenRequest
  PROVE  IInv'
<1> DEFINE new == [head |-> Branch, base |-> orig, tree |-> branches[Branch], from |-> before.tree]
<1>1. /\ pc = "request" /\ pc' = "return" /\ requests' = requests \cup {new}
      /\ UNCHANGED <<branches, head, tree, run, history>>
      /\ Branch' = Branch
  BY DEF OpenRequest, Goto, Branch, run, history
<1>2. new.head = Branch /\ new.base = orig /\ new.tree = branches[Branch] /\ new.from = before.tree
  OBVIOUS
<1> HIDE DEF new
<1>3. RepoInv'
  BY <1>1, <1>2 DEF IInv, RepoInv, run, history, ExistingBranchesKept, Sandbox
<1>4. TestInv'
  BY <1>1, <1>2 DEF IInv, TestInv, RequestsWereTested, Accepted, history
<1>5. PatchInv'
  <2>1. \E from \in {branches[new.base], new.from} :
          \A f \in Definitions : new.tree[f] \in {new.head, from[f]}
    BY <1>1, <1>2 DEF IInv, PatchInv, Patched
  <2>2. OnePatchPerRequest'
    BY <1>1, <2>1 DEF IInv, PatchInv, OnePatchPerRequest
  <2>3. orig \in DOMAIN branches /\ orig \in DOMAIN before.branches
    BY <1>1 DEF IInv, RepoInv, ExistingBranchesKept
  <2>4. SameAs(Branch)'
    BY <1>1 DEF IInv, PatchInv, SameAs
  <2> QED
    BY <1>1, <1>2, <2>2, <2>3, <2>4 DEF IInv, PatchInv, history
<1> QED
  BY <1>3, <1>4, <1>5 DEF IInv

(* Leaving the sandbox puts the original branch's definitions back.         *)
LEMMA CheckoutRestores ==
  ASSUME Checkout(orig), SameAs(head)
  PROVE  \A d \in Definitions : tree'[d] = branches[orig][d]
BY DEF Checkout, SameAs, Files

LEMMA LeaveStep ==
  ASSUME IInv, Leave
  PROVE  IInv'
<1>1. Branch' = Branch /\ pc = "leave" /\ pc' = "delete" /\ head' = orig
      /\ UNCHANGED <<branches, requests, run, history>>
  BY DEF Branch, Leave, Checkout, Goto, run, history
<1>2. RepoInv'
  BY <1>1 DEF IInv, RepoInv, run, history, ExistingBranchesKept, Sandbox
<1>3. TestInv'
  BY <1>1 DEF IInv, TestInv, RequestsWereTested, history
<1>4. PatchInv'
  <2>1. SameAs(head)
    BY <1>1 DEF IInv, RepoInv, PatchInv, Sandbox
  <2>2. SameAs(orig)'
    BY <1>1, <2>1, CheckoutRestores DEF SameAs, Leave, run
  <2> QED
    BY <1>1, <2>2 DEF IInv, PatchInv, OnePatchPerRequest, history
<1> QED
  BY <1>2, <1>3, <1>4 DEF IInv

LEMMA DeleteStep ==
  ASSUME IInv, DeleteBranch
  PROVE  IInv'
<1>1. /\ pc = "delete" /\ pc' = "next"
      /\ UNCHANGED <<head, tree, requests, orig, history>>
      /\ DOMAIN branches' = DOMAIN branches \ {Branch}
      /\ \A b \in DOMAIN branches : b # Branch => branches'[b] = branches[b]
  BY DEF DeleteBranch, NextFailure
<1>2. /\ Branch \notin DOMAIN before.branches /\ orig \in DOMAIN before.branches
      /\ DOMAIN before.branches \subseteq DOMAIN branches
  BY <1>1 DEF IInv, RepoInv, ExistingBranchesKept
<1>3. RepoInv'
  BY <1>1, <1>2 DEF IInv, RepoInv, ExistingBranchesKept, Sandbox, history
<1>4. TestInv'
  BY <1>1 DEF IInv, TestInv, RequestsWereTested, history
<1>5. PatchInv'
  <2>1. \A r \in requests : r.base \in DOMAIN branches /\ r.base # Branch
    BY <1>1, <1>2 DEF IInv, PatchInv
  <2>2. OnePatchPerRequest'
    BY <1>1, <2>1 DEF IInv, PatchInv, OnePatchPerRequest
  <2>3. Fresh(tree)'
    BY <1>1, <1>2 DEF IInv, PatchInv, SameAs, Fresh, history
  <2>4. \A r \in requests' : r.base \in DOMAIN branches' /\ r.base \in DOMAIN before'.branches
    BY <1>1, <2>1 DEF IInv, PatchInv, history
  <2> QED
    BY <1>1, <2>2, <2>3, <2>4 DEF PatchInv
<1> QED
  BY <1>3, <1>4, <1>5 DEF IInv

LEMMA ReturnStep ==
  ASSUME IInv, Return
  PROVE  IInv'
<1>1. pc = "return" /\ pc' = "next" /\ head' = orig
      /\ UNCHANGED <<branches, requests, orig, history>>
  BY DEF Return, Checkout, NextFailure
<1>2. RepoInv'
  BY <1>1 DEF IInv, RepoInv, ExistingBranchesKept, Sandbox, history
<1>3. TestInv'
  BY <1>1 DEF IInv, TestInv, RequestsWereTested, history
<1>4. PatchInv'
  <2>1. SameAs(head)
    BY <1>1 DEF IInv, RepoInv, PatchInv, Sandbox
  <2>2. Fresh(tree)'
    BY <1>1, <2>1, CheckoutRestores DEF Fresh, Return
  <2> QED
    BY <1>1, <2>2 DEF IInv, PatchInv, OnePatchPerRequest, history
<1> QED
  BY <1>2, <1>3, <1>4 DEF IInv

(* Every step of the program and of the developer keeps the invariant.      *)
LEMMA NextIInv == IInv /\ [Next]_vars => IInv'
<1> SUFFICES ASSUME IInv, [Next]_vars PROVE IInv'
  OBVIOUS
<1>1. ASSUME NEW f \in Files, NEW stage \in BOOLEAN, Edit(f, stage) PROVE IInv'
  BY <1>1, ByHandKeeps DEF Edit, IInv, RepoInv
<1>2. ASSUME NEW b \in DOMAIN branches, SwitchTo(b) PROVE IInv'
  BY <1>2, ByHandKeeps DEF SwitchTo
<1>3. ASSUME NEW failures, NEW dryRun, Start(failures, dryRun) PROVE IInv'
  BY <1>3, StartStep
<1>4. CASE Die \/ Finish
  BY <1>4, EndStep DEF Die, Finish
<1>5. CASE ReadCode
  BY <1>5, AskStep DEF ReadCode
<1>6. CASE GeminiAnswers
  <2>1. CASE End
    BY <2>1, EndStep
  <2>2. CASE NextFailure /\ UNCHANGED repo
    BY <1>6, <2>2, DryStep DEF GeminiAnswers
  <2>3. ASSUME NEW names \in SUBSET Definitions,
               code' = Swap(code, names), pc' = "branch",
               UNCHANGED <<repo, queue, dry, orig, attempt, history>>
        PROVE  IInv'
    <3>1. \A d \in Definitions : code'[d] \in {Branch, code[d]}
      BY <2>3 DEF Swap, Files
    <3>2. pc = "ask"
      BY <1>6 DEF GeminiAnswers
    <3> QED
      BY <2>3, <3>1, <3>2, AskStep
  <2> QED
    BY <1>6, <2>1, <2>2, <2>3 DEF GeminiAnswers
<1>7. CASE GeminiFails
  BY <1>7, EndStep, AskStep DEF GeminiFails
<1>8. CASE CreateBranch
  BY <1>8, CreateStep
<1>9. CASE WritePatch
  <2>1. \A d \in Definitions : tree'[d] = code[d]
    BY <1>9, OptimizerInputs DEF WritePatch, Files
  <2> QED
    BY <1>9, <2>1, SandboxStep DEF WritePatch, Goto
<1>10. CASE TestsPass
  BY <1>10, TestStep
<1>11. CASE TestsFail
  BY <1>11, SandboxStep DEF TestsFail, Goto, repo
<1>12. CASE Reset
  BY <1>12, SandboxStep DEF Reset, Goto
<1>13. CASE Leave
  BY <1>13, LeaveStep
<1>14. CASE DeleteBranch
  BY <1>14, DeleteStep
<1>15. CASE Commit
  BY <1>15, CommitStep
<1>16. CASE Push
  BY <1>16, SandboxStep DEF Push, Goto
<1>17. CASE OpenRequest
  BY <1>17, RequestStep
<1>18. CASE Return
  BY <1>18, ReturnStep
<1>19. CASE UNCHANGED vars
  <2>1. RepoInv'
    BY <1>19 DEF IInv, RepoInv, vars, repo, run, history, ExistingBranchesKept, Branch
  <2>2. TestInv'
    BY <1>19 DEF IInv, TestInv, vars, repo, run, history, RequestsWereTested, Accepted, Branch
  <2>3. PatchInv'
    BY <1>19 DEF IInv, PatchInv, vars, repo, run, history, OnePatchPerRequest, Fresh, Patched,
                 SameAs, Branch
  <2> QED
    BY <2>1, <2>2, <2>3 DEF IInv
<1>20. CASE Next
  <2>1. CASE \E f \in Edited, stage \in BOOLEAN : Edit(f, stage)
    BY <2>1, <1>1, OptimizerInputs
  <2>2. CASE \E b \in DOMAIN branches : SwitchTo(b)
    BY <2>2, <1>2
  <2>3. CASE \E report \in Reports, sweep \in BOOLEAN, limit \in {0, 1}, dryRun \in BOOLEAN :
               Start(Failures(report, sweep, limit), dryRun)
    BY <2>3, <1>3
  <2>4. CASE Die \/ Step
    BY <2>4, <1>4, <1>5, <1>6, <1>7, <1>8, <1>9, <1>10, <1>11, <1>12, <1>13, <1>14, <1>15,
       <1>16, <1>17, <1>18 DEF Step
  <2> QED
    BY <1>20, <2>1, <2>2, <2>3, <2>4 DEF Next
<1> QED
  BY <1>19, <1>20

LEMMA Invariant == SafeSpec => []IInv
BY InitIInv, NextIInv, PTL DEF SafeSpec

(* What a pull request offers is what the tests accepted on its branch.     *)
THEOREM RequestsTested == SafeSpec => []RequestsWereTested
<1>1. IInv => RequestsWereTested
  BY DEF IInv, TestInv
<1> QED
  BY <1>1, Invariant, PTL

(* It changes nothing but its own invoice's patch.                          *)
THEOREM RequestsSeparate == SafeSpec => []OnePatchPerRequest
<1>1. IInv => OnePatchPerRequest
  BY DEF IInv, PatchInv
<1> QED
  BY <1>1, Invariant, PTL

(* No step of the program moves or removes a branch it found.               *)
THEOREM BranchesKept == SafeSpec => []ExistingBranchesKept
<1>1. IInv => ExistingBranchesKept
  BY DEF IInv, RepoInv
<1> QED
  BY <1>1, Invariant, PTL

(* Each failure is left on the original branch, with no stray patch branch. *)
THEOREM SandboxLeft == SafeSpec => []SandboxRestored
<1>1. IInv => SandboxRestored
  BY DEF IInv, RepoInv, SandboxRestored, Sandbox
<1> QED
  BY <1>1, Invariant, PTL
=============================================================================
