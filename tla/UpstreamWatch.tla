--------------------------- MODULE UpstreamWatch ----------------------------
(***************************************************************************)
(* The watch on the reference implementation: the program of               *)
(* tools/check-upstream and the workflow that runs it, every week or by    *)
(* hand, and opens an issue when it fails.  GitLab and GitHub may fail to  *)
(* answer, upstream may change at any moment, and maintainers may close an *)
(* issue.                                                                  *)
(***************************************************************************)
EXTENDS Naturals, FiniteSets

CONSTANTS Run,          \* runs of the workflow; two may overlap
          Tag,          \* tags upstream may push
          Prefixed,     \* those whose name begins with v
          SortsAfter,   \* those whose name follows pinnedTag as a string
          PerPage       \* tags in an answer, per_page of tagsURL

ASSUME WatchAssumption ==
    /\ IsFiniteSet(Run)
    /\ Prefixed \subseteq Tag
    /\ SortsAfter \subseteq Tag
    /\ PerPage \in Nat \ {0}

VARIABLES tags,     \* the tags upstream has
          page,     \* those GitLab lists first, which the program is shown
          advanced, \* its branch is past pinnedCommit
          pc, changed, code,    \* the program's control, variable and exit code
          met,      \* history: what the program met on its way
          issues    \* how many issues of the watch are open

vars == <<tags, page, advanced, pc, changed, code, met, issues>>
upstream == <<tags, page, advanced>>

Meeting == {"newer", "advanced", "trouble"}

TypeOK ==
    /\ tags \subseteq Tag
    /\ page \subseteq tags
    /\ advanced \in BOOLEAN
    /\ pc \in [Run -> {"idle", "tags", "branch", "exit", "list", "create"}]
    /\ changed \in [Run -> BOOLEAN]
    /\ code \in [Run -> 0 .. 2]
    /\ met \in [Run -> SUBSET Meeting]
    /\ issues \in 0 .. Cardinality(Run)

Init ==
    /\ tags = {}
    /\ page = {}
    /\ advanced = FALSE
    /\ pc = [r \in Run |-> "idle"]
    /\ changed = [r \in Run |-> FALSE]
    /\ code = [r \in Run |-> 0]
    /\ met = [r \in Run |-> {}]
    /\ issues = 0

Goto(r, here, there) ==
    /\ pc[r] = here
    /\ pc' = [pc EXCEPT ![r] = there]

Meets(r, what) == met' = [met EXCEPT ![r] = @ \cup what]

Only(what, condition) == IF condition THEN {what} ELSE {}

-----------------------------------------------------------------------------
(* The program.                                                            *)

Start(r) ==
    /\ Goto(r, "idle", "tags")
    /\ changed' = [changed EXCEPT ![r] = FALSE]
    /\ code' = [code EXCEPT ![r] = 0]
    /\ met' = [met EXCEPT ![r] = {}]
    /\ UNCHANGED <<upstream, issues>>

\* No answer, a status other than 200, or an answer that does not parse.
TagsFail(r) ==
    /\ Goto(r, "tags", "exit")
    /\ code' = [code EXCEPT ![r] = 2]
    /\ Meets(r, {"trouble"})
    /\ UNCHANGED <<upstream, changed, issues>>

newer == page \cap Prefixed \cap SortsAfter

TagsAnswer(r) ==
    /\ Goto(r, "tags", "branch")
    /\ changed' = [changed EXCEPT ![r] = newer # {}]
    /\ Meets(r, Only("newer", newer # {}))
    /\ UNCHANGED <<upstream, code, issues>>

\* No answer, one that does not parse, or one whose commit is too short to be
\* printed: the slice expression panics, with the same exit status.
BranchFails(r) ==
    /\ Goto(r, "branch", "exit")
    /\ code' = [code EXCEPT ![r] = 2]
    /\ Meets(r, {"trouble"})
    /\ UNCHANGED <<upstream, changed, issues>>

Verdict(c) == IF c THEN 1 ELSE 0

\* A status other than 200: the branch is passed over.
BranchRefused(r) ==
    /\ Goto(r, "branch", "exit")
    /\ code' = [code EXCEPT ![r] = Verdict(changed[r])]
    /\ Meets(r, {"trouble"})
    /\ UNCHANGED <<upstream, changed, issues>>

\* Mutant of BranchAnswers: the branch decides alone.
BranchDecides(r) ==
    /\ Goto(r, "branch", "exit")
    /\ changed' = [changed EXCEPT ![r] = advanced]
    /\ code' = [code EXCEPT ![r] = Verdict(changed'[r])]
    /\ Meets(r, Only("advanced", advanced))
    /\ UNCHANGED <<upstream, issues>>

BranchAnswers(r) ==
    /\ Goto(r, "branch", "exit")
    /\ changed' = [changed EXCEPT ![r] = @ \/ advanced]
    /\ code' = [code EXCEPT ![r] = Verdict(changed'[r])]
    /\ Meets(r, Only("advanced", advanced))
    /\ UNCHANGED <<upstream, issues>>

-----------------------------------------------------------------------------
(* The workflow: the step that opens an issue runs if the program failed,  *)
(* or a step before it.                                                    *)

\* checkout or setup-go fails: the program does not run.
SetupFails(r) ==
    /\ Goto(r, "idle", "list")
    /\ UNCHANGED <<upstream, changed, code, met, issues>>

\* Mutant of Judge: only an exit code of 2 opens an issue.
JudgeErrors(r) ==
    /\ Goto(r, "exit", IF code[r] = 2 THEN "list" ELSE "idle")
    /\ UNCHANGED <<upstream, changed, code, met, issues>>

Judge(r) ==
    /\ Goto(r, "exit", IF code[r] = 0 THEN "idle" ELSE "list")
    /\ UNCHANGED <<upstream, changed, code, met, issues>>

\* Mutant of List: the issues that are open are not looked at.
ListIgnored(r) ==
    /\ Goto(r, "list", "create")
    /\ UNCHANGED <<upstream, changed, code, met, issues>>

\* An open issue of the same title ends the step.
List(r) ==
    /\ Goto(r, "list", IF issues > 0 THEN "idle" ELSE "create")
    /\ UNCHANGED <<upstream, changed, code, met, issues>>

Create(r) ==
    /\ Goto(r, "create", "idle")
    /\ issues' = issues + 1
    /\ UNCHANGED <<upstream, changed, code, met>>

GitHubFails(r) ==
    /\ pc[r] \in {"list", "create"}
    /\ pc' = [pc EXCEPT ![r] = "idle"]
    /\ UNCHANGED <<upstream, changed, code, met, issues>>

-----------------------------------------------------------------------------
(* The others.                                                             *)

\* GitLab lists the new tag first; when the page is full, another leaves it.
Push(t) ==
    /\ t \notin tags
    /\ tags' = tags \cup {t}
    /\ IF Cardinality(page) < PerPage
       THEN page' = page \cup {t}
       ELSE \E last \in page : page' = (page \ {last}) \cup {t}
    /\ UNCHANGED <<advanced, pc, changed, code, met, issues>>

Advance ==
    /\ ~advanced
    /\ advanced' = TRUE
    /\ UNCHANGED <<tags, page, pc, changed, code, met, issues>>

Close ==
    /\ issues > 0
    /\ issues' = issues - 1
    /\ UNCHANGED <<upstream, pc, changed, code, met>>

Begins(r) == Start(r) \/ SetupFails(r)

Proceeds(r) ==
    \/ TagsFail(r) \/ TagsAnswer(r) \/ BranchFails(r) \/ BranchRefused(r) \/ BranchAnswers(r)
    \/ Judge(r) \/ List(r) \/ Create(r) \/ GitHubFails(r)

Next ==
    \/ \E r \in Run : Begins(r) \/ Proceeds(r)
    \/ \E t \in Tag : Push(t)
    \/ Advance
    \/ Close

Spec == Init /\ [][Next]_vars

\* The schedule starts a run every week, a run that has started ends, and no
\* service refuses for ever what it is asked again and again.
Fairness ==
    \A r \in Run :
        /\ WF_vars(Begins(r)) /\ WF_vars(Proceeds(r))
        /\ SF_vars(TagsAnswer(r)) /\ SF_vars(BranchAnswers(r))
        /\ SF_vars(List(r)) /\ SF_vars(Create(r))

FairSpec == Spec /\ Fairness

-----------------------------------------------------------------------------
(* Properties.                                                             *)

\* The exit code sums up both requests: a run that saw a tag sorting after the pin,
\* or the branch advanced, never exits with 0.
ChangeSeenIsReported ==
    \A r \in Run :
        (pc[r] = "exit" /\ met[r] \cap {"newer", "advanced"} # {}) => code[r] # 0

\* Issues do not pile up week after week: there are never more than the runs that
\* overlapped when the first was opened.
NoPileUp ==
    issues + Cardinality({r \in Run : pc[r] = "create"}) <= Cardinality(Run)

\* A change upstream eventually leads to an open issue, whatever requests or steps
\* fail and whatever maintainers close in between, unless tags pushed later crowd it
\* off the page before a run gets to see it.
ChangeLeadsToIssue ==
    (newer # {} \/ advanced) ~> (issues > 0 \/ (newer = {} /\ ~advanced))

\* main.go: exit 2 on a network or API error.
ErrorExitsTwo ==
    \A r \in Run : (pc[r] = "exit" /\ "trouble" \in met[r]) => code[r] = 2

=============================================================================
