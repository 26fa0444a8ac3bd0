------------------------ MODULE UpstreamWatchProofs -------------------------
(***************************************************************************)
(* Safety of the watch on the reference implementation, for any tags and   *)
(* any finite number of overlapping runs.                                  *)
(***************************************************************************)
EXTENDS UpstreamWatch, FiniteSetTheorems, TLAPS

\* What the variable changed says of what the run has met so far.
Faithful(r) ==
    /\ pc[r] = "tags" => met[r] = {}
    /\ pc[r] = "branch" => /\ "advanced" \notin met[r]
                           /\ "newer" \in met[r] => changed[r]

FaithfulInv == \A r \in Run : Faithful(r)

IInv == TypeOK /\ NoPileUp /\ FaithfulInv /\ ChangeSeenIsReported

\* The runs that found no issue open and are about to open one.
Creators == {r \in Run : pc[r] = "create"}

-----------------------------------------------------------------------------
LEMMA CreatorsFact ==
    /\ IsFiniteSet(Creators)
    /\ Cardinality(Creators) \in Nat
    /\ Cardinality(Run) \in Nat
    /\ Cardinality(Creators) <= Cardinality(Run)
  <1>1. IsFiniteSet(Run) /\ Creators \subseteq Run
    BY WatchAssumption DEF Creators
  <1> QED
    BY <1>1, FS_Subset, FS_CardinalityType

LEMMA CreatorsFactNext ==
    /\ IsFiniteSet(Creators')
    /\ Cardinality(Creators') \in Nat
    /\ Cardinality(Creators') <= Cardinality(Run)
  <1>1. IsFiniteSet(Run) /\ Creators' \subseteq Run
    BY WatchAssumption DEF Creators
  <1> QED
    BY <1>1, FS_Subset, FS_CardinalityType

(* A step that makes nobody a creator and opens nothing cannot pile up.    *)
LEMMA FewerCreators ==
    ASSUME IInv, Creators' \subseteq Creators,
           issues' \in Nat, issues' <= issues
    PROVE  NoPileUp' /\ issues' \in 0 .. Cardinality(Run)
  <1>1. Cardinality(Creators') <= Cardinality(Creators)
    BY CreatorsFact, FS_Subset
  <1>2. issues + Cardinality(Creators) <= Cardinality(Run)
    BY DEF IInv, NoPileUp, Creators
  <1>3. issues' + Cardinality(Creators') <= Cardinality(Run)
    BY <1>1, <1>2, CreatorsFact, CreatorsFactNext DEF IInv, TypeOK
  <1>4. NoPileUp'
    BY <1>3 DEF NoPileUp, Creators
  <1> QED
    BY <1>3, <1>4, CreatorsFact, CreatorsFactNext DEF IInv, TypeOK

(* Create: one creator becomes one issue.                                  *)
LEMMA CreateStep ==
    ASSUME IInv, NEW r \in Run, Create(r)
    PROVE  NoPileUp' /\ issues' \in 0 .. Cardinality(Run)
  <1>1. r \in Creators /\ Creators' = Creators \ {r}
    BY DEF Create, Goto, Creators, IInv, TypeOK
  <1>2. Cardinality(Creators') = Cardinality(Creators) - 1
    BY <1>1, CreatorsFact, FS_RemoveElement
  <1>3. issues + Cardinality(Creators) <= Cardinality(Run)
    BY DEF IInv, NoPileUp, Creators
  <1>4. issues' = issues + 1 /\ issues \in Nat
    BY DEF Create, IInv, TypeOK
  <1>5. issues' + Cardinality(Creators') <= Cardinality(Run)
    BY <1>2, <1>3, <1>4, CreatorsFact
  <1>6. NoPileUp'
    BY <1>5 DEF NoPileUp, Creators
  <1> QED
    BY <1>4, <1>5, <1>6, CreatorsFact, CreatorsFactNext

(* List lets a run become a creator only when no issue is open; however    *)
(* many runs do so, they are at most all of them.                          *)
LEMMA ListStep ==
    ASSUME IInv, NEW r \in Run, List(r)
    PROVE  NoPileUp' /\ issues' \in 0 .. Cardinality(Run)
  <1>1. issues' = issues /\ issues \in 0 .. Cardinality(Run)
    BY DEF List, IInv, TypeOK
  <1>2. CASE issues = 0
    <2>1. issues' + Cardinality(Creators') <= Cardinality(Run)
      BY <1>1, <1>2, CreatorsFactNext
    <2> QED
      BY <1>1, <2>1 DEF NoPileUp, Creators
  <1>3. CASE issues # 0
    <2>1. Creators' \subseteq Creators
      BY <1>1, <1>3, CreatorsFact DEF List, Goto, Creators, IInv, TypeOK
    <2> QED
      BY <1>1, <2>1, CreatorsFact, FewerCreators
  <1> QED
    BY <1>2, <1>3

LEMMA PileStep ==
    IInv /\ [Next]_vars => NoPileUp' /\ issues' \in 0 .. Cardinality(Run)
  <1> SUFFICES ASSUME IInv, [Next]_vars
               PROVE  NoPileUp' /\ issues' \in 0 .. Cardinality(Run)
    OBVIOUS
  <1>0. issues \in Nat
    BY CreatorsFact DEF IInv, TypeOK
  <1>1. ASSUME NEW r \in Run, Create(r)
        PROVE  NoPileUp' /\ issues' \in 0 .. Cardinality(Run)
    BY <1>1, CreateStep
  <1>2. ASSUME NEW r \in Run, List(r)
        PROVE  NoPileUp' /\ issues' \in 0 .. Cardinality(Run)
    BY <1>2, ListStep
  <1>3. ASSUME NEW r \in Run,
               \/ Start(r) \/ SetupFails(r) \/ TagsFail(r) \/ TagsAnswer(r) \/ BranchFails(r)
               \/ BranchRefused(r) \/ BranchAnswers(r) \/ Judge(r) \/ GitHubFails(r)
        PROVE  NoPileUp' /\ issues' \in 0 .. Cardinality(Run)
    <2>1. issues' = issues
      BY <1>3 DEF Start, SetupFails, TagsFail, TagsAnswer, BranchFails, BranchRefused,
                  BranchAnswers, Judge, GitHubFails
    <2>2. Creators' \subseteq Creators
      BY <1>3 DEF Creators, IInv, TypeOK, Goto, Start, SetupFails, TagsFail, TagsAnswer,
                  BranchFails, BranchRefused, BranchAnswers, Judge, GitHubFails
    <2> QED
      BY <1>0, <2>1, <2>2, FewerCreators
  <1>4. ASSUME UNCHANGED pc, issues' \in {issues, issues - 1}, issues' \in Nat
        PROVE  NoPileUp' /\ issues' \in 0 .. Cardinality(Run)
    <2>1. Creators' = Creators
      BY <1>4 DEF Creators
    <2> QED
      BY <1>0, <1>4, <2>1, FewerCreators
  <1>5. CASE UNCHANGED vars \/ Advance \/ Close \/ \E t \in Tag : Push(t)
    BY <1>0, <1>4, <1>5 DEF vars, Advance, Close, Push
  <1> QED
    BY <1>1, <1>2, <1>3, <1>5 DEF Next, Begins, Proceeds

LEMMA TypeStep ==
    IInv /\ [Next]_vars => TypeOK'
  <1> SUFFICES ASSUME IInv, [Next]_vars PROVE TypeOK'
    OBVIOUS
  <1>1. issues' \in 0 .. Cardinality(Run)
    BY PileStep
  <1> USE DEF IInv, TypeOK, Goto, upstream, Meets, Only, Verdict, Meeting
  <1>2. CASE UNCHANGED vars
    BY <1>1, <1>2 DEF vars
  <1>3. ASSUME NEW r \in Run, Start(r) PROVE TypeOK'
    BY <1>1, <1>3 DEF Start
  <1>4. ASSUME NEW r \in Run, TagsFail(r) PROVE TypeOK'
    BY <1>1, <1>4 DEF TagsFail
  <1>5. ASSUME NEW r \in Run, TagsAnswer(r) PROVE TypeOK'
    BY <1>1, <1>5 DEF TagsAnswer
  <1>6. ASSUME NEW r \in Run, BranchFails(r) \/ BranchRefused(r) PROVE TypeOK'
    BY <1>1, <1>6 DEF BranchFails, BranchRefused
  <1>7. ASSUME NEW r \in Run, BranchAnswers(r) PROVE TypeOK'
    BY <1>1, <1>7 DEF BranchAnswers
  <1>8. ASSUME NEW r \in Run, SetupFails(r) \/ Judge(r) \/ List(r) \/ Create(r) \/ GitHubFails(r)
        PROVE  TypeOK'
    BY <1>1, <1>8 DEF SetupFails, Judge, List, Create, GitHubFails
  <1>9. CASE Advance \/ Close \/ \E t \in Tag : Push(t)
    BY <1>1, <1>9 DEF Advance, Close, Push
  <1> QED
    BY <1>2, <1>3, <1>4, <1>5, <1>6, <1>7, <1>8, <1>9 DEF Next, Begins, Proceeds

LEMMA ReportStep ==
    IInv /\ [Next]_vars => FaithfulInv' /\ ChangeSeenIsReported'
  <1> SUFFICES ASSUME IInv, [Next]_vars PROVE FaithfulInv' /\ ChangeSeenIsReported'
    OBVIOUS
  <1> USE DEF IInv, TypeOK, Goto, upstream, Meets, Only, Verdict,
              FaithfulInv, Faithful, ChangeSeenIsReported
  <1>2. CASE UNCHANGED vars
    BY <1>2 DEF vars
  <1>3. ASSUME NEW r \in Run, Start(r) PROVE FaithfulInv' /\ ChangeSeenIsReported'
    BY <1>3 DEF Start
  <1>4. ASSUME NEW r \in Run, TagsFail(r) PROVE FaithfulInv' /\ ChangeSeenIsReported'
    BY <1>4 DEF TagsFail
  <1>5. ASSUME NEW r \in Run, TagsAnswer(r) PROVE FaithfulInv' /\ ChangeSeenIsReported'
    BY <1>5 DEF TagsAnswer
  <1>6. ASSUME NEW r \in Run, BranchFails(r) PROVE FaithfulInv' /\ ChangeSeenIsReported'
    BY <1>6 DEF BranchFails
  <1>7. ASSUME NEW r \in Run, BranchRefused(r) PROVE FaithfulInv' /\ ChangeSeenIsReported'
    BY <1>7 DEF BranchRefused
  <1>8. ASSUME NEW r \in Run, BranchAnswers(r) PROVE FaithfulInv' /\ ChangeSeenIsReported'
    BY <1>8 DEF BranchAnswers
  <1>9. ASSUME NEW r \in Run, SetupFails(r) \/ Judge(r) \/ List(r) \/ Create(r) \/ GitHubFails(r)
        PROVE  FaithfulInv' /\ ChangeSeenIsReported'
    BY <1>9 DEF SetupFails, Judge, List, Create, GitHubFails
  <1>10. CASE Advance \/ Close \/ \E t \in Tag : Push(t)
    BY <1>10 DEF Advance, Close, Push
  <1> QED
    BY <1>2, <1>3, <1>4, <1>5, <1>6, <1>7, <1>8, <1>9, <1>10 DEF Next, Begins, Proceeds

LEMMA Initially == Init => IInv
  <1> SUFFICES ASSUME Init PROVE IInv
    OBVIOUS
  <1>1. Creators = {}
    BY DEF Init, Creators
  <1>2. NoPileUp /\ issues \in 0 .. Cardinality(Run)
    BY <1>1, CreatorsFact, FS_EmptySet DEF Init, NoPileUp, Creators
  <1>3. changed \in [Run -> BOOLEAN]
    BY Zenon DEF Init
  <1>4. TypeOK
    <2>1. tags \subseteq Tag /\ page \subseteq tags /\ advanced \in BOOLEAN
      BY Zenon DEF Init
    <2>2. /\ pc \in [Run -> {"idle", "tags", "branch", "exit", "list", "create"}]
          /\ code \in [Run -> 0 .. 2]
          /\ met \in [Run -> SUBSET Meeting]
      BY DEF Init
    <2> QED
      BY <1>2, <1>3, <2>1, <2>2 DEF TypeOK
  <1>5. FaithfulInv /\ ChangeSeenIsReported
    BY DEF Init, FaithfulInv, Faithful, ChangeSeenIsReported
  <1> QED
    BY <1>2, <1>4, <1>5 DEF IInv

LEMMA Always == Spec => []IInv
  <1>1. IInv /\ [Next]_vars => IInv'
    BY PileStep, TypeStep, ReportStep DEF IInv
  <1> QED
    BY Initially, <1>1, PTL DEF Spec

-----------------------------------------------------------------------------
(* Every variable keeps its type; the number of open issues is at most the *)
(* number of runs that can overlap.                                        *)
THEOREM WatchTypes == Spec => []TypeOK
  <1>1. IInv => TypeOK
    BY DEF IInv
  <1> QED
    BY <1>1, Always, PTL

(* A run of check-upstream that saw a newer tag or the branch advanced     *)
(* exits with a failure, whichever of its requests failed.                 *)
THEOREM ChangesAreReported == Spec => []ChangeSeenIsReported
  <1>1. IInv => ChangeSeenIsReported
    BY DEF IInv
  <1> QED
    BY <1>1, Always, PTL

(* The list-then-create of the workflow is not atomic, and still opens no  *)
(* more issues than there are runs that overlap.                           *)
THEOREM IssuesAreBounded == Spec => []NoPileUp
  <1>1. IInv => NoPileUp
    BY DEF IInv
  <1> QED
    BY <1>1, Always, PTL

=============================================================================
