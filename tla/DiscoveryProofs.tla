-------------------------- MODULE DiscoveryProofs ---------------------------
(***************************************************************************)
(* Proofs about Discovery for every set of devices, assets, runners and    *)
(* reviewers and every number of faults: a run holds its job to itself,    *)
(* and an absence is told once, plus once for every fault.  As long as no  *)
(* two reviews overlap, a device has one asset, a verdict stays, and       *)
(* without faults an asset is reported as offboarded only when its device  *)
(* was missing from Threshold collections in a row.  The last part takes   *)
(* the theorems of AssetsProofs over to the run that checks both.          *)
(***************************************************************************)
EXTENDS MCDiscoveryAssets, TLAPS, WellFoundedInduction

-----------------------------------------------------------------------------
(* The inductive invariant *)

\* TypeOK but for the bound of told, with the ranges of a runner at work.
Shape ==
    /\ present \in SUBSET Devices
    /\ status \in {"idle", "running", "failed"}
    /\ due \in BOOLEAN
    /\ run \in [Runners -> Run]
    /\ assets \in [AssetIds -> Asset]
    /\ tracked \in [AssetIds -> Tracked]
    /\ cands \in [CandIds -> Candidate]
    /\ review \in [Reviewers -> Review]
    /\ told \in [AssetIds -> Nat]
    /\ streak \in [Devices -> 0..Threshold]
    /\ faults \in 0..MaxFaults

\* A run has an asset and a device where it uses them.
RunAims ==
    \A r \in Runners :
        /\ run[r].pc \in {"apply", "emitted"} => run[r].asset \in AssetIds
        /\ run[r].pc \in {"apply", "queue"} => run[r].device \in Devices

\* A review has a candidate, and an asset to merge into.
ReviewAims ==
    \A v \in Reviewers :
        /\ review[v].pc # "idle" => review[v].cand \in CandIds
        /\ review[v].pc = "merge" => review[v].asset \in AssetIds

\* A run at work has its job in status running.
WorkingIsMarked == \A r \in Runners : Working(r) => status = "running"

\* A run between the event and the flag of an asset has told its absence.
TellingTold == \A r \in Runners : run[r].pc = "emitted" => told[run[r].asset] > 0

\* Some run is between the event and the flag of asset a.
Telling(a) == \E r \in Runners : run[r].pc = "emitted" /\ run[r].asset = a

\* Every event beyond the faults is flagged, or about to be.
ToldIsCovered ==
    \A a \in AssetIds :
        \/ told[a] <= faults
        \/ told[a] <= 1 + faults /\ (tracked[a].emitted \/ Telling(a))

TypeInv == Shape /\ RunAims /\ ReviewAims
RunInv == RunIsExclusive /\ WorkingIsMarked /\ RunningIsOwned
ToldInv == EmittedWasTold /\ TellingTold /\ ToldIsCovered
IInv == TypeInv /\ RunInv /\ ToldInv
-----------------------------------------------------------------------------
(* The numbers *)

\* A nonempty set of naturals has a least element.
LEMMA Least ==
    ASSUME NEW S \in SUBSET Nat, S # {}
    PROVE  Min(S) \in S
<1>1. PICK x \in S : \A y \in S : <<y, x>> \notin OpToRel(<, Nat)
  BY NatLessThanWellFounded, WFMin
<1>2. ASSUME NEW y \in S PROVE x <= y
  <2>1. x \in Nat /\ y \in Nat
    OBVIOUS
  <2>2. ~(y < x)
    BY <1>1, <2>1 DEF OpToRel
  <2> QED BY <2>1, <2>2
<1> QED BY <1>2 DEF Min

\* A nonempty set of naturals up to n has a greatest element: n less the
\* least of what its elements leave of n.
LEMMA Greatest ==
    ASSUME NEW n \in Nat, NEW S \in SUBSET (0..n), S # {}
    PROVE  Max(S) \in S
<1> DEFINE T == {k \in Nat : k <= n /\ n - k \in S}
<1>1. T \in SUBSET Nat /\ T # {}
  <2>1. PICK s \in S : TRUE
    OBVIOUS
  <2> QED BY <2>1, n - s \in T
<1>2. PICK x \in T : \A y \in S : <<n - y, x>> \notin OpToRel(<, Nat)
  <2>1. PICK x \in T : \A k \in T : <<k, x>> \notin OpToRel(<, Nat)
    <3> HIDE DEF T
    <3> QED BY <1>1, NatLessThanWellFounded, WFMin
  <2>2. \A y \in S : n - y \in T
    OBVIOUS
  <2> QED BY <2>1, <2>2
<1>3. ASSUME NEW y \in S PROVE y <= n - x
  <2>1. x \in Nat /\ n - y \in Nat /\ y \in Nat
    OBVIOUS
  <2>2. ~(n - y < x)
    BY <1>2, <2>1 DEF OpToRel
  <2> QED BY <2>1, <2>2
<1>4. n - x \in S
  OBVIOUS
<1> QED BY <1>3, <1>4 DEF Max

\* A count that saturates at its limit stays in its range.
LEMMA Saturation ==
    ASSUME NEW limit \in Nat, NEW n \in 0..limit
    PROVE  Min({n + 1, limit}) \in 0..limit
<1>1. CASE n + 1 <= limit
  BY <1>1 DEF Min
<1>2. CASE n = limit
  BY <1>2 DEF Min
<1> QED BY <1>1, <1>2

LEMMA NextMissedType ==
    ASSUME Shape, NEW a \in AssetIds
    PROVE  NextMissed(a) \in 0..MissedLimit
<1>1. tracked[a].missed \in 0..MissedLimit
  BY DEF Shape, Tracked
<1> QED BY <1>1, Saturation, ThresholdAssumption DEF NextMissed

\* The asset a device is matched with exists.
LEMMA MatchExists ==
    ASSUME NEW d, Matches(d) # {}
    PROVE  Max(Matches(d)) \in AssetIds
<1>1. Matches(d) \in SUBSET (0..MaxAssets)
  BY BoundsAssumption DEF Matches, Existing, AssetIds
<1>2. Max(Matches(d)) \in Matches(d)
  BY <1>1, Greatest, BoundsAssumption
<1> QED BY <1>2 DEF Matches, Existing
-----------------------------------------------------------------------------
LEMMA InitInv == Init => IInv
<1> SUFFICES ASSUME Init PROVE IInv
  OBVIOUS
<1>1. /\ \A r \in Runners : run[r] = IdleRun
      /\ \A v \in Reviewers : review[v] = IdleReview
      /\ \A a \in AssetIds : tracked[a] = Untracked /\ told[a] = 0
      /\ status = "idle" /\ faults = 0
  BY DEF Init
<1>2. Entered \in [AssetIds -> Asset]
  BY FullAssumption DEF Entered, Asset, NoAsset
<1>3. Shape
  <2>1. present \in SUBSET Devices /\ status \in {"idle", "running", "failed"}
    BY DEF Init
  <2>2. due \in BOOLEAN
    BY DEF Init
  <2>3. run \in [Runners -> Run]
    BY BoundsAssumption DEF Init, Run, IdleRun
  <2>4. review \in [Reviewers -> Review]
    BY BoundsAssumption DEF Init, Review, IdleReview
  <2>5. cands \in [CandIds -> Candidate]
    BY BoundsAssumption DEF Init, Candidate, NoCandidate
  <2>6. tracked \in [AssetIds -> Tracked] /\ told \in [AssetIds -> Nat]
    BY ThresholdAssumption DEF Init, Tracked, Untracked
  <2>7. streak \in [Devices -> 0..Threshold] /\ faults \in 0..MaxFaults
    BY ThresholdAssumption, BoundsAssumption DEF Init
  <2>8. assets \in [AssetIds -> Asset]
    BY <1>2 DEF Init
  <2> QED BY <2>1, <2>2, <2>3, <2>4, <2>5, <2>6, <2>7, <2>8 DEF Shape
<1>4. RunAims /\ ReviewAims
  BY <1>1 DEF RunAims, ReviewAims, IdleRun, IdleReview
<1>5. RunInv /\ ToldInv
  BY <1>1 DEF RunInv, ToldInv, RunIsExclusive, WorkingIsMarked, RunningIsOwned, EmittedWasTold,
     TellingTold, ToldIsCovered, Working, Untracked, IdleRun
<1> QED BY <1>3, <1>4, <1>5 DEF IInv, TypeInv
-----------------------------------------------------------------------------
(* Types *)

\* A step that gives runner r the local state x.
LEMMA RunUpdate ==
    ASSUME Shape, NEW r \in Runners, NEW x \in Run, run' = [run EXCEPT ![r] = x]
    PROVE  /\ run' \in [Runners -> Run]
           /\ run'[r] = x
           /\ \A s \in Runners \ {r} : run'[s] = run[s]
  BY DEF Shape

LEMMA RunTypes ==
    ASSUME TypeInv, NEW r \in Runners, RunStep(r)
    PROVE  TypeInv'
<1> USE DEF TypeInv, reviewVars
<1>1. ASSUME UNCHANGED <<present, assets, review>>, run' \in [Runners -> Run],
             \A s \in Runners \ {r} : run'[s] = run[s],
             run'[r].pc \in {"apply", "emitted"} => run'[r].asset \in AssetIds,
             run'[r].pc \in {"apply", "queue"} => run'[r].device \in Devices,
             status' \in {"idle", "running", "failed"}, due' \in BOOLEAN,
             tracked' \in [AssetIds -> Tracked], told' \in [AssetIds -> Nat],
             cands' \in [CandIds -> Candidate], streak' \in [Devices -> 0..Threshold],
             faults' = faults
      PROVE  TypeInv'
  <2>1. Shape'
    BY <1>1 DEF Shape
  <2>2. RunAims'
    BY <1>1 DEF RunAims
  <2>3. ReviewAims'
    BY <1>1 DEF ReviewAims
  <2> QED BY <2>1, <2>2, <2>3
<1>2. CASE MarkRunning(r)
  <2>1. status' \in {"idle", "running", "failed"}
    BY <1>2 DEF MarkRunning, Shape
  <2>2. due' \in BOOLEAN
    BY <1>2 DEF MarkRunning, Shape
  <2>3. /\ run' \in [Runners -> Run] /\ run'[r].pc \in {"collect", "idle"}
        /\ \A s \in Runners \ {r} : run'[s] = run[s]
    BY <1>2 DEF MarkRunning, Goto, Shape, Run
  <2> QED BY <1>1, <1>2, <2>1, <2>2, <2>3 DEF MarkRunning, Shape
<1>3. CASE Collect(r)
  <2>1. \A d \in Devices : streak'[d] \in 0..Threshold
    BY <1>3, Saturation, ThresholdAssumption DEF Collect, Shape
  <2>2. streak' \in [Devices -> 0..Threshold]
    BY <1>3, <2>1 DEF Collect
  <2> DEFINE x == [IdleRun EXCEPT !.pc = "items", !.items = present]
  <2>3. 0 \in 0..MaxAssets /\ present \in SUBSET Devices
    BY BoundsAssumption DEF Shape
  <2>4. x \in Run /\ x.pc = "items"
    BY <2>3 DEF Run, IdleRun
  <2>5. run' = [run EXCEPT ![r] = x]
    BY <1>3 DEF Collect
  <2> HIDE DEF x
  <2>6. run' \in [Runners -> Run] /\ run'[r] = x /\ \A s \in Runners \ {r} : run'[s] = run[s]
    BY <2>4, <2>5, RunUpdate
  <2> QED BY <1>1, <1>3, <2>2, <2>4, <2>6 DEF Collect, Shape
<1>4. CASE ReadItem(r)
  <2>1. PICK d \in run[r].items :
          run' = [run EXCEPT ![r] =
            [run[r] EXCEPT !.device = d,
                      !.pc = IF Matches(d) = {} THEN "queue" ELSE "apply",
                      !.asset = IF Matches(d) = {} THEN 0 ELSE Max(Matches(d))]]
    BY <1>4 DEF ReadItem
  <2>2. d \in Devices
    BY DEF Shape, Run
  <2>3. Matches(d) # {} => Max(Matches(d)) \in AssetIds
    BY MatchExists
  <2> DEFINE x == [run[r] EXCEPT !.device = d,
                      !.pc = IF Matches(d) = {} THEN "queue" ELSE "apply",
                      !.asset = IF Matches(d) = {} THEN 0 ELSE Max(Matches(d))]
  <2>4. run[r] \in Run /\ 0 \in 0..MaxAssets /\ (Matches(d) # {} => Max(Matches(d)) \in 0..MaxAssets)
    BY <2>3, BoundsAssumption DEF Shape, AssetIds
  <2>5. /\ x \in Run /\ x.device = d
        /\ x.pc = "queue" \/ (x.pc = "apply" /\ x.asset \in AssetIds)
    <3>1. CASE Matches(d) = {}
      <4>1. x = [run[r] EXCEPT !.device = d, !.pc = "queue", !.asset = 0]
        BY <3>1
      <4> QED BY <2>2, <2>4, <4>1 DEF Run
    <3>2. CASE Matches(d) # {}
      <4>1. x = [run[r] EXCEPT !.device = d, !.pc = "apply", !.asset = Max(Matches(d))]
        BY <3>2
      <4> QED BY <2>2, <2>3, <2>4, <3>2, <4>1 DEF Run
    <3> QED BY <3>1, <3>2
  <2>6. run' = [run EXCEPT ![r] = x]
    BY <2>1
  <2> HIDE DEF x
  <2>7. run' \in [Runners -> Run] /\ run'[r] = x /\ \A s \in Runners \ {r} : run'[s] = run[s]
    BY <2>5, <2>6, RunUpdate
  <2> QED BY <1>1, <1>4, <2>2, <2>5, <2>7 DEF ReadItem, Shape
<1>5. CASE ApplyMatch(r)
  <2>1. run[r].asset \in AssetIds
    BY <1>5 DEF ApplyMatch, RunAims
  <2>2. tracked' \in [AssetIds -> Tracked] /\ told' \in [AssetIds -> Nat]
    BY <1>5, <2>1, ThresholdAssumption DEF ApplyMatch, Shape, Tracked
  <2> DEFINE x == [run[r] EXCEPT !.pc = "items", !.items = run[r].items \ {run[r].device},
                              !.seen = run[r].seen \cup {run[r].asset}]
  <2>3. run[r] \in Run /\ x \in Run /\ x.pc = "items"
    BY <2>1 DEF Shape, Run
  <2>4. run' = [run EXCEPT ![r] = x]
    BY <1>5 DEF ApplyMatch
  <2>5. /\ run' \in [Runners -> Run] /\ run'[r] = x
        /\ \A s \in Runners \ {r} : run'[s] = run[s]
    <3> HIDE DEF x
    <3> QED BY <2>3, <2>4, RunUpdate
  <2> HIDE DEF x
  <2> QED BY <1>1, <1>5, <2>2, <2>3, <2>5 DEF ApplyMatch, Shape
<1>6. CASE QueueCandidate(r)
  <2>1. run[r].device \in Devices
    BY <1>6 DEF QueueCandidate, RunAims
  <2>2. cands' \in [CandIds -> Candidate]
    BY <1>6, <2>1, BoundsAssumption DEF QueueCandidate, Shape, Candidate
  <2> DEFINE x == [run[r] EXCEPT !.pc = "items", !.items = run[r].items \ {run[r].device}]
  <2>3. run[r] \in Run /\ x \in Run /\ x.pc = "items"
    BY DEF Shape, Run
  <2>4. run' = [run EXCEPT ![r] = x]
    BY <1>6 DEF QueueCandidate
  <2>5. /\ run' \in [Runners -> Run] /\ run'[r] = x
        /\ \A s \in Runners \ {r} : run'[s] = run[s]
    <3> HIDE DEF x
    <3> QED BY <2>3, <2>4, RunUpdate
  <2> HIDE DEF x
  <2> QED BY <1>1, <1>6, <2>2, <2>3, <2>5 DEF QueueCandidate, Shape
<1>7. CASE LoadStates(r)
  <2> DEFINE x == [run[r] EXCEPT !.pc = "missing",
                 !.left = {a \in AssetIds : tracked[a].known} \ run[r].seen]
  <2>1. run[r] \in Run /\ x \in Run /\ x.pc = "missing"
    BY DEF Shape, Run
  <2>2. run' = [run EXCEPT ![r] = x]
    BY <1>7 DEF LoadStates
  <2>3. /\ run' \in [Runners -> Run] /\ run'[r] = x
        /\ \A s \in Runners \ {r} : run'[s] = run[s]
    <3> HIDE DEF x
    <3> QED BY <2>1, <2>2, RunUpdate
  <2> HIDE DEF x
  <2> QED BY <1>1, <1>7, <2>1, <2>3 DEF LoadStates, Shape
<1>8. ASSUME NEW a \in AssetIds, EmitMissing(r, a) PROVE TypeInv'
  <2>1. told' \in [AssetIds -> Nat]
    BY <1>8 DEF EmitMissing, Shape
  <2> DEFINE x == [run[r] EXCEPT !.pc = "emitted", !.asset = a]
  <2>2. a \in 0..MaxAssets
    BY BoundsAssumption DEF AssetIds
  <2>3. run[r] \in Run /\ x \in Run /\ x.pc = "emitted" /\ x.asset = a
    BY <2>2 DEF Shape, Run
  <2>4. run' = [run EXCEPT ![r] = x]
    BY <1>8 DEF EmitMissing
  <2>5. /\ run' \in [Runners -> Run] /\ run'[r] = x
        /\ \A s \in Runners \ {r} : run'[s] = run[s]
    <3> HIDE DEF x
    <3> QED BY <2>3, <2>4, RunUpdate
  <2> HIDE DEF x
  <2> QED BY <1>1, <1>8, <2>1, <2>3, <2>5 DEF EmitMissing, Shape
<1>9. ASSUME NEW a \in AssetIds, CountMissing(r, a) PROVE TypeInv'
  <2>1. NextMissed(a) \in 0..MissedLimit
    BY NextMissedType
  <2>2. tracked' \in [AssetIds -> Tracked]
    BY <1>9, <2>1 DEF CountMissing, Shape, Tracked
  <2> DEFINE x == [run[r] EXCEPT !.left = run[r].left \ {a}]
  <2>3. run[r] \in Run /\ x \in Run /\ x.pc = "missing"
    BY <1>9 DEF CountMissing, Shape, Run
  <2>4. run' = [run EXCEPT ![r] = x]
    BY <1>9 DEF CountMissing
  <2>5. /\ run' \in [Runners -> Run] /\ run'[r] = x
        /\ \A s \in Runners \ {r} : run'[s] = run[s]
    <3> HIDE DEF x
    <3> QED BY <2>3, <2>4, RunUpdate
  <2> HIDE DEF x
  <2> QED BY <1>1, <1>9, <2>2, <2>3, <2>5 DEF CountMissing, Shape
<1>10. CASE FlagMissing(r)
  <2>1. run[r].asset \in AssetIds
    BY <1>10 DEF FlagMissing, RunAims
  <2>2. NextMissed(run[r].asset) \in 0..MissedLimit
    BY <2>1, NextMissedType
  <2>3. tracked' \in [AssetIds -> Tracked]
    BY <1>10, <2>1, <2>2 DEF FlagMissing, Shape, Tracked
  <2> DEFINE x == [run[r] EXCEPT !.pc = "missing", !.left = run[r].left \ {run[r].asset}]
  <2>4. run[r] \in Run /\ x \in Run /\ x.pc = "missing"
    BY DEF Shape, Run
  <2>5. run' = [run EXCEPT ![r] = x]
    BY <1>10 DEF FlagMissing
  <2>6. /\ run' \in [Runners -> Run] /\ run'[r] = x
        /\ \A s \in Runners \ {r} : run'[s] = run[s]
    <3> HIDE DEF x
    <3> QED BY <2>4, <2>5, RunUpdate
  <2> HIDE DEF x
  <2> QED BY <1>1, <1>10, <2>3, <2>4, <2>6 DEF FlagMissing, Shape
<1>11. CASE Finish(r)
  <2>1. /\ run' \in [Runners -> Run] /\ run'[r].pc = "idle"
        /\ \A s \in Runners \ {r} : run'[s] = run[s]
    BY <1>11, BoundsAssumption DEF Finish, Shape, Run, IdleRun
  <2> QED BY <1>1, <1>11, <2>1 DEF Finish, Shape
<1> QED
  BY <1>2, <1>3, <1>4, <1>5, <1>6, <1>7, <1>8, <1>9, <1>10, <1>11 DEF RunStep

\* The least free asset number is one.
LEMMA FreeAsset ==
    ASSUME Existing # AssetIds
    PROVE  Min(AssetIds \ Existing) \in AssetIds \ Existing
<1>1. AssetIds \ Existing \in SUBSET Nat /\ AssetIds \ Existing # {}
  BY DEF AssetIds, Existing
<1> QED BY <1>1, Least

LEMMA ReviewUpdate ==
    ASSUME Shape, NEW v \in Reviewers, NEW x \in Review, review' = [review EXCEPT ![v] = x]
    PROVE  /\ review' \in [Reviewers -> Review]
           /\ review'[v] = x
           /\ \A w \in Reviewers \ {v} : review'[w] = review[w]
  BY DEF Shape

LEMMA IdleReviewType == IdleReview \in Review
  BY BoundsAssumption DEF IdleReview, Review

LEMMA ReviewTypes ==
    ASSUME TypeInv, NEW v \in Reviewers, ReviewStep(v)
    PROVE  TypeInv'
<1> USE DEF TypeInv
<1> DEFINE me == review[v]
<1>0. me \in Review
  BY DEF Shape
<1>1. ASSUME NEW x \in Review, review' = [review EXCEPT ![v] = x],
             x.pc # "idle" => x.cand \in CandIds,
             x.pc = "merge" => x.asset \in AssetIds,
             UNCHANGED <<present, runVars>>,
             assets' \in [AssetIds -> Asset], cands' \in [CandIds -> Candidate],
             faults' \in 0..MaxFaults
      PROVE  TypeInv'
  <2>1. /\ review' \in [Reviewers -> Review] /\ review'[v] = x
        /\ \A w \in Reviewers \ {v} : review'[w] = review[w]
    BY <1>1, ReviewUpdate
  <2>2. Shape'
    BY <1>1, <2>1 DEF Shape, runVars
  <2>3. RunAims'
    BY <1>1 DEF RunAims, runVars
  <2>4. ReviewAims'
    BY <1>1, <2>1 DEF ReviewAims
  <2> QED BY <2>2, <2>3, <2>4
<1>2. ASSUME NEW c \in CandIds, ReadCandidate(v, c) PROVE TypeInv'
  <2> DEFINE x == [me EXCEPT !.pc = "match", !.cand = c]
  <2>0. c \in 0..MaxCandidates
    BY BoundsAssumption DEF CandIds
  <2>1. x \in Review /\ x.pc = "match" /\ x.cand = c
    BY <1>0, <2>0 DEF Review
  <2>2. review' = [review EXCEPT ![v] = x]
    BY <1>2 DEF ReadCandidate
  <2> HIDE DEF x
  <2> QED BY <1>1, <1>2, <2>1, <2>2 DEF ReadCandidate, Shape
<1>3. ASSUME NEW pc \in {"create", "close"}, NEW verdict \in {"created", "merged", "rejected"},
             NEW a \in 0..MaxAssets,
             me.pc # "idle",
             review' = [review EXCEPT ![v] = [me EXCEPT !.pc = pc, !.asset = a, !.verdict = verdict]],
             UNCHANGED <<present, runVars, cands, faults>>, assets' \in [AssetIds -> Asset]
      PROVE  TypeInv'
  <2> DEFINE x == [me EXCEPT !.pc = pc, !.asset = a, !.verdict = verdict]
  <2>1. x \in Review /\ x.pc # "merge" /\ x.cand = me.cand
    BY <1>0 DEF Review
  <2>2. x.cand \in CandIds
    BY <1>3, <2>1 DEF ReviewAims
  <2>3. review' = [review EXCEPT ![v] = x]
    BY <1>3
  <2> HIDE DEF x
  <2> QED BY <1>1, <1>3, <2>1, <2>2, <2>3 DEF Shape
<1>4. CASE DecideCreate(v)
  <2>1. [me EXCEPT !.pc = "create"]
          = [me EXCEPT !.pc = "create", !.asset = me.asset, !.verdict = me.verdict]
    BY <1>0 DEF Review
  <2>2. review' = [review EXCEPT ![v] = [me EXCEPT !.pc = "create"]]
    BY <1>4 DEF DecideCreate
  <2>3. me.pc # "idle" /\ me.asset \in 0..MaxAssets
        /\ me.verdict \in {"created", "merged", "rejected"}
    BY <1>0, <1>4 DEF DecideCreate, Review
  <2>4. UNCHANGED <<present, runVars, cands, faults>> /\ assets' \in [AssetIds -> Asset]
    BY <1>4 DEF DecideCreate, Shape
  <2> HIDE DEF me
  <2> QED BY <1>3, <2>1, <2>2, <2>3, <2>4
<1>5. ASSUME NEW a \in AssetIds, DecideMerge(v, a) PROVE TypeInv'
  <2> DEFINE x == [me EXCEPT !.pc = "merge", !.asset = a]
  <2>0. a \in 0..MaxAssets
    BY BoundsAssumption DEF AssetIds
  <2>1. x \in Review /\ x.pc = "merge" /\ x.cand = me.cand /\ x.asset = a
    BY <1>0, <2>0 DEF Review
  <2>2. x.cand \in CandIds
    BY <1>5, <2>1 DEF ReviewAims, DecideMerge
  <2>3. review' = [review EXCEPT ![v] = x]
    BY <1>5 DEF DecideMerge
  <2> HIDE DEF x
  <2> QED BY <1>1, <1>5, <2>1, <2>2, <2>3 DEF DecideMerge, Shape
<1>6. CASE DecideReject(v)
  <2>1. [me EXCEPT !.pc = "close", !.verdict = "rejected"]
          = [me EXCEPT !.pc = "close", !.asset = me.asset, !.verdict = "rejected"]
    BY <1>0 DEF Review
  <2>2. review' = [review EXCEPT ![v] = [me EXCEPT !.pc = "close", !.verdict = "rejected"]]
    BY <1>6 DEF DecideReject
  <2>3. me.pc # "idle" /\ me.asset \in 0..MaxAssets
    BY <1>0, <1>6 DEF DecideReject, Review
  <2>4. UNCHANGED <<present, runVars, cands, faults>> /\ assets' \in [AssetIds -> Asset]
    BY <1>6 DEF DecideReject, Shape
  <2> HIDE DEF me
  <2> QED BY <1>3, <2>1, <2>2, <2>3, <2>4
<1>7. CASE CreateAsset(v)
  <2> DEFINE a == Min(AssetIds \ Existing)
  <2>1. a \in AssetIds /\ a \in 0..MaxAssets
    BY <1>7, FreeAsset, BoundsAssumption DEF CreateAsset, AssetIds
  <2>2. me.pc = "create" /\ me.cand \in CandIds
    BY <1>7 DEF CreateAsset, ReviewAims
  <2>3. cands[me.cand].device \in Devices \cup {NoDevice}
    BY <2>2 DEF Shape, Candidate
  <2>4. assets' \in [AssetIds -> Asset]
    <3> DEFINE new == [ident |-> IF cands[me.cand].device \in Full
                                 THEN cands[me.cand].device ELSE NoDevice,
                       fingerprint |-> cands[me.cand].device]
    <3>1. new \in Asset
      BY <2>3 DEF Asset
    <3>2. assets' = [assets EXCEPT ![a] = new]
      BY <1>7 DEF CreateAsset
    <3> HIDE DEF new
    <3> QED BY <3>1, <3>2 DEF Shape
  <2>5. review' = [review EXCEPT ![v] =
                     [me EXCEPT !.pc = "close", !.asset = a, !.verdict = "created"]]
    BY <1>7 DEF CreateAsset
  <2>6. UNCHANGED <<present, runVars, cands, faults>>
    BY <1>7 DEF CreateAsset
  <2> HIDE DEF me, a
  <2> QED BY <1>3, <2>1, <2>2, <2>4, <2>5, <2>6
<1>8. CASE MergeAsset(v)
  <2>1. me.pc = "merge" /\ me.cand \in CandIds /\ me.asset \in 0..MaxAssets
    BY <1>0, <1>8 DEF MergeAsset, ReviewAims, Review
  <2>2. cands[me.cand].device \in Devices \cup {NoDevice}
    BY <2>1 DEF Shape, Candidate
  <2>3. assets' \in [AssetIds -> Asset]
    BY <1>8, <2>2 DEF MergeAsset, Shape, Asset
  <2>4. [me EXCEPT !.pc = "close", !.verdict = "merged"]
          = [me EXCEPT !.pc = "close", !.asset = me.asset, !.verdict = "merged"]
    BY <1>0 DEF Review
  <2>5. review' = [review EXCEPT ![v] = [me EXCEPT !.pc = "close", !.verdict = "merged"]]
    BY <1>8 DEF MergeAsset
  <2>6. UNCHANGED <<present, runVars, cands, faults>>
    BY <1>8 DEF MergeAsset
  <2> HIDE DEF me
  <2> QED BY <1>3, <2>1, <2>3, <2>4, <2>5, <2>6
<1>9. CASE CloseCandidate(v)
  <2>1. me.asset \in 0..MaxAssets /\ me.verdict \in {"created", "merged", "rejected"}
    BY <1>0 DEF Review
  <2>2. cands' \in [CandIds -> Candidate]
    BY <1>9, <2>1 DEF CloseCandidate, Shape, Candidate
  <2>3. review' = [review EXCEPT ![v] = IdleReview] /\ IdleReview.pc = "idle"
    BY <1>9 DEF CloseCandidate, IdleReview
  <2> QED BY <1>1, <1>9, <2>2, <2>3, IdleReviewType DEF CloseCandidate, Shape
<1>10. CASE Refuse(v) \/ ReviewAborts(v)
  <2>1. faults' \in 0..MaxFaults
    BY <1>10, BoundsAssumption DEF Refuse, ReviewAborts, Shape
  <2>2. review' = [review EXCEPT ![v] = IdleReview] /\ IdleReview.pc = "idle"
    BY <1>10 DEF Refuse, ReviewAborts, IdleReview
  <2>3. UNCHANGED <<present, runVars, assets, cands>>
    BY <1>10 DEF Refuse, ReviewAborts
  <2> QED BY <1>1, <2>1, <2>2, <2>3, IdleReviewType DEF Shape
<1> QED
  BY <1>2, <1>4, <1>5, <1>6, <1>7, <1>8, <1>9, <1>10 DEF ReviewStep

\* A step of the environment, or one that starts or breaks off a run.
OtherStep ==
    \/ \E d \in Devices : SourceChanges(d)
    \/ IntervalElapses
    \/ SchedulerPicks
    \/ \E r \in Runners : RunByHand(r) \/ RunFails(r) \/ RunIsCutOff(r)

LEMMA IdleRunType == IdleRun \in Run
  BY BoundsAssumption DEF IdleRun, Run

LEMMA OtherTypes ==
    ASSUME TypeInv, OtherStep
    PROVE  TypeInv'
<1> USE DEF TypeInv
<1>1. ASSUME NEW d \in Devices, SourceChanges(d) PROVE TypeInv'
  <2>1. Shape'
    BY <1>1 DEF SourceChanges, Shape, runVars, reviewVars
  <2>2. RunAims' /\ ReviewAims'
    BY <1>1 DEF SourceChanges, RunAims, ReviewAims, runVars, reviewVars
  <2> QED BY <2>1, <2>2
<1>2. CASE IntervalElapses
  <2>1. due' \in BOOLEAN
    BY <1>2 DEF IntervalElapses
  <2>2. Shape'
    BY <1>2, <2>1 DEF IntervalElapses, Shape, reviewVars
  <2>3. RunAims' /\ ReviewAims'
    BY <1>2 DEF IntervalElapses, RunAims, ReviewAims, reviewVars
  <2> QED BY <2>2, <2>3
<1>3. ASSUME NEW r \in Runners, NEW x \in Run, run' = [run EXCEPT ![r] = x],
             x.pc \in {"idle", "mark"}, status' \in {"idle", "running", "failed"},
             UNCHANGED <<present, due, tracked, told, streak, reviewVars, cands>>,
             faults' \in 0..MaxFaults
      PROVE  TypeInv'
  <2>1. run' \in [Runners -> Run] /\ run'[r] = x /\ \A s \in Runners \ {r} : run'[s] = run[s]
    BY <1>3, RunUpdate
  <2>2. Shape'
    BY <1>3, <2>1 DEF Shape, reviewVars
  <2>3. RunAims' /\ ReviewAims'
    BY <1>3, <2>1 DEF RunAims, ReviewAims, reviewVars
  <2> QED BY <2>2, <2>3
<1>4. ASSUME NEW r \in Runners, run' = [run EXCEPT ![r] = [run[r] EXCEPT !.pc = "mark"]],
             UNCHANGED <<present, status, due, tracked, told, streak, reviewVars, cands, faults>>
      PROVE  TypeInv'
  <2> DEFINE x == [run[r] EXCEPT !.pc = "mark"]
  <2>1. x \in Run /\ x.pc = "mark"
    BY DEF Shape, Run
  <2>2. run' = [run EXCEPT ![r] = x]
    BY <1>4
  <2> HIDE DEF x
  <2> QED BY <1>3, <1>4, <2>1, <2>2 DEF Shape
<1>5. CASE SchedulerPicks
  <2>1. run' = [run EXCEPT ![Scheduler] = [run[Scheduler] EXCEPT !.pc = "mark"]]
    BY <1>5 DEF SchedulerPicks, Goto
  <2> QED BY <1>4, <1>5, <2>1, SchedulerAssumption DEF SchedulerPicks
<1>6. ASSUME NEW r \in Runners, RunByHand(r) PROVE TypeInv'
  <2>1. run' = [run EXCEPT ![r] = [run[r] EXCEPT !.pc = "mark"]]
    BY <1>6 DEF RunByHand, Goto
  <2> QED BY <1>4, <1>6, <2>1 DEF RunByHand
<1>7. ASSUME NEW r \in Runners, RunFails(r) \/ RunIsCutOff(r) PROVE TypeInv'
  <2>1. faults' \in 0..MaxFaults
    BY <1>7, BoundsAssumption DEF RunFails, RunIsCutOff, Shape
  <2>2. status' \in {"idle", "running", "failed"}
    BY <1>7 DEF RunFails, RunIsCutOff, Shape
  <2>3. run' = [run EXCEPT ![r] = IdleRun] /\ IdleRun.pc = "idle"
    BY <1>7 DEF RunFails, RunIsCutOff, IdleRun
  <2>4. UNCHANGED <<present, due, tracked, told, streak, reviewVars, cands>>
    BY <1>7 DEF RunFails, RunIsCutOff
  <2> QED BY <1>3, <2>1, <2>2, <2>3, <2>4, IdleRunType
<1> QED BY <1>1, <1>2, <1>5, <1>6, <1>7 DEF OtherStep
-----------------------------------------------------------------------------
(* The places a step takes its runner to *)

\* What a step of runner r does to the places of the runners, the status,
\* the tracked assets and the events. Every case of RunStep and of
\* OtherStep is one of these.
Moves(r, from, to) ==
    /\ run[r].pc \in from /\ run'[r].pc \in to
    /\ \A s \in Runners \ {r} : run'[s] = run[s]

AtWork == {"collect", "items", "apply", "queue", "missing"}

LEMMA Places ==
    ASSUME TypeInv, NEW r \in Runners, RunStep(r)
    PROVE  \/ /\ Moves(r, {"mark"}, {"idle"}) /\ UNCHANGED <<status, tracked, told, faults>>
           \/ /\ Moves(r, {"mark"}, {"collect"}) /\ status # "running" /\ status' = "running"
              /\ UNCHANGED <<tracked, told, faults>>
           \/ /\ Moves(r, AtWork, AtWork) /\ UNCHANGED <<status, tracked, told, faults>>
           \/ /\ Moves(r, {"apply"}, {"items"}) /\ ApplyMatch(r)
           \/ \E a \in AssetIds : Moves(r, {"missing"}, {"emitted"}) /\ EmitMissing(r, a)
           \/ \E a \in AssetIds : Moves(r, {"missing"}, {"missing"}) /\ CountMissing(r, a)
           \/ /\ Moves(r, {"emitted"}, {"missing"}) /\ FlagMissing(r)
           \/ /\ Moves(r, {"missing"}, {"idle"}) /\ status' = "idle"
              /\ UNCHANGED <<tracked, told, faults>>
<1> USE DEF TypeInv, Shape, Run, Moves
<1>1. CASE MarkRunning(r)
  BY <1>1 DEF MarkRunning, Goto
<1>2. CASE Collect(r)
  BY <1>2 DEF Collect, AtWork, IdleRun
<1>3. CASE ReadItem(r)
  <2>1. run[r].pc = "items" /\ run'[r].pc \in {"apply", "queue"}
        /\ (\A s \in Runners \ {r} : run'[s] = run[s])
        /\ UNCHANGED <<status, tracked, told, faults>>
    <3>1. PICK d \in run[r].items :
            run' = [run EXCEPT ![r] =
              [run[r] EXCEPT !.device = d,
                        !.pc = IF Matches(d) = {} THEN "queue" ELSE "apply",
                        !.asset = IF Matches(d) = {} THEN 0 ELSE Max(Matches(d))]]
      BY <1>3 DEF ReadItem
    <3> DEFINE x == [run[r] EXCEPT !.device = d,
                        !.pc = IF Matches(d) = {} THEN "queue" ELSE "apply",
                        !.asset = IF Matches(d) = {} THEN 0 ELSE Max(Matches(d))]
    <3>2. x.pc \in {"apply", "queue"} /\ run' = [run EXCEPT ![r] = x]
      BY <3>1
    <3> HIDE DEF x
    <3> QED BY <1>3, <3>2 DEF ReadItem
  <2> QED BY <2>1 DEF AtWork
<1>4. CASE ApplyMatch(r)
  BY <1>4 DEF ApplyMatch
<1>5. CASE QueueCandidate(r)
  BY <1>5 DEF QueueCandidate, AtWork
<1>6. CASE LoadStates(r)
  BY <1>6 DEF LoadStates, AtWork
<1>7. ASSUME NEW a \in AssetIds, EmitMissing(r, a)
      PROVE  Moves(r, {"missing"}, {"emitted"})
  BY <1>7 DEF EmitMissing
<1>8. ASSUME NEW a \in AssetIds, CountMissing(r, a)
      PROVE  Moves(r, {"missing"}, {"missing"})
  BY <1>8 DEF CountMissing
<1>9. CASE FlagMissing(r)
  BY <1>9 DEF FlagMissing
<1>10. CASE Finish(r)
  BY <1>10 DEF Finish, IdleRun
<1> QED
  BY <1>1, <1>2, <1>3, <1>4, <1>5, <1>6, <1>7, <1>8, <1>9, <1>10 DEF RunStep
-----------------------------------------------------------------------------
(* Exclusive runs *)

LEMMA RunExclusion ==
    ASSUME TypeInv, RunInv, NEW r \in Runners, RunStep(r)
    PROVE  RunInv'
<1> USE DEF RunInv, RunIsExclusive, WorkingIsMarked, RunningIsOwned, Working
<1>1. ASSUME Moves(r, {"mark"}, {"idle"}), UNCHANGED <<status, faults>> PROVE RunInv'
  BY <1>1 DEF Moves
<1>2. ASSUME Moves(r, {"mark"}, {"collect"}), status # "running", status' = "running"
      PROVE  RunInv'
  BY <1>2 DEF Moves
<1>3. ASSUME NEW from, NEW to, Moves(r, from, to), UNCHANGED <<status, faults>>,
             from \cap {"idle", "mark"} = {}, to \cap {"idle", "mark"} = {}
      PROVE  RunInv'
  <2>1. \A s \in Runners : Working(s)' <=> Working(s)
    BY <1>3 DEF Moves
  <2> QED BY <1>3, <2>1
<1>4. ASSUME Moves(r, {"missing"}, {"idle"}), status' = "idle" PROVE RunInv'
  <2>1. \A s \in Runners : ~Working(s)'
    BY <1>4 DEF Moves
  <2> QED BY <1>4, <2>1
<1>5. ASSUME Moves(r, AtWork, AtWork), UNCHANGED <<status, faults>> PROVE RunInv'
  BY <1>3, <1>5 DEF AtWork
<1>6. ASSUME Moves(r, {"apply"}, {"items"}), ApplyMatch(r) PROVE RunInv'
  BY <1>3, <1>6 DEF ApplyMatch
<1>7. ASSUME NEW a \in AssetIds, Moves(r, {"missing"}, {"emitted"}), EmitMissing(r, a)
      PROVE  RunInv'
  BY <1>3, <1>7 DEF EmitMissing
<1>8. ASSUME NEW a \in AssetIds, Moves(r, {"missing"}, {"missing"}), CountMissing(r, a)
      PROVE  RunInv'
  BY <1>3, <1>8 DEF CountMissing
<1>9. ASSUME Moves(r, {"emitted"}, {"missing"}), FlagMissing(r) PROVE RunInv'
  BY <1>3, <1>9 DEF FlagMissing
<1> HIDE DEF RunInv
<1> QED
  BY <1>1, <1>2, <1>4, <1>5, <1>6, <1>7, <1>8, <1>9, Places

LEMMA OtherExclusion ==
    ASSUME TypeInv, RunInv, OtherStep
    PROVE  RunInv'
<1> USE DEF RunInv, RunIsExclusive, WorkingIsMarked, RunningIsOwned, Working
<1>1. ASSUME NEW r \in Runners, RunFails(r) PROVE RunInv'
  <2>1. \A s \in Runners : ~Working(s)'
    BY <1>1 DEF RunFails, TypeInv, Shape, IdleRun
  <2> QED BY <1>1, <2>1 DEF RunFails
<1>2. ASSUME NEW r \in Runners, RunIsCutOff(r) PROVE RunInv'
  <2>1. \A s \in Runners : Working(s)' => Working(s)
    BY <1>2 DEF RunIsCutOff, TypeInv, Shape, IdleRun
  <2>2. faults' > 0 /\ status' = status
    BY <1>2, BoundsAssumption DEF RunIsCutOff, TypeInv, Shape
  <2> QED BY <2>1, <2>2
<1>3. ASSUME NEW r \in Runners, run[r].pc = "idle", Goto(r, "mark"), UNCHANGED <<status, faults>>
      PROVE  RunInv'
  <2>1. \A s \in Runners : Working(s)' <=> Working(s)
    BY <1>3 DEF Goto, TypeInv, Shape, Run
  <2> QED BY <1>3, <2>1
<1>4. ASSUME UNCHANGED <<status, run, faults>> PROVE RunInv'
  BY <1>4
<1> QED
  BY <1>1, <1>2, <1>3, <1>4, SchedulerAssumption
  DEF OtherStep, SourceChanges, IntervalElapses, SchedulerPicks, RunByHand, runVars
-----------------------------------------------------------------------------
(* Events about missing assets *)

LEMMA RunTold ==
    ASSUME TypeInv, RunInv, ToldInv, NEW r \in Runners, RunStep(r)
    PROVE  ToldInv'
<1> USE DEF ToldInv, EmittedWasTold, TellingTold, ToldIsCovered, Telling
<1>0. \A s \in Runners : run[s].pc = "emitted" => run[s].asset \in AssetIds
  BY DEF TypeInv, RunAims
<1>1. ASSUME NEW from, NEW to, Moves(r, from, to), UNCHANGED <<tracked, told, faults>>,
             "emitted" \notin from, "emitted" \notin to
      PROVE  ToldInv'
  <2>1. \A s \in Runners : /\ run'[s].pc = "emitted" <=> run[s].pc = "emitted"
                           /\ run'[s].pc = "emitted" => run'[s] = run[s]
    BY <1>1 DEF Moves
  <2> QED BY <1>1, <2>1
<1>2. ASSUME NEW from, NEW to, Moves(r, from, to), from \cap {"idle", "mark", "emitted"} = {}
      PROVE  \A s \in Runners : run[s].pc # "emitted"
  BY <1>2 DEF Moves, RunInv, RunIsExclusive, Working
<1>3. ASSUME Moves(r, {"apply"}, {"items"}), ApplyMatch(r) PROVE ToldInv'
  <2>1. \A s \in Runners : run[s].pc # "emitted" /\ run'[s].pc # "emitted"
    BY <1>2, <1>3 DEF Moves
  <2>2. \A a \in AssetIds : \/ told'[a] = 0 /\ tracked'[a].emitted = FALSE
                            \/ told'[a] = told[a] /\ tracked'[a] = tracked[a]
    BY <1>3 DEF ApplyMatch, TypeInv, Shape, RunAims
  <2>3. faults' = faults /\ faults \in Nat
    BY <1>3, BoundsAssumption DEF ApplyMatch, TypeInv, Shape
  <2> QED BY <2>1, <2>2, <2>3
<1>4. ASSUME NEW a \in AssetIds, Moves(r, {"missing"}, {"emitted"}), EmitMissing(r, a)
      PROVE  ToldInv'
  <2>1. \A s \in Runners : run[s].pc # "emitted" /\ (run'[s].pc = "emitted" <=> s = r)
    BY <1>2, <1>4 DEF Moves
  <2>2. run'[r].asset = a
    BY <1>4 DEF EmitMissing, TypeInv, Shape, Run
  <2>3. /\ told'[a] = told[a] + 1 /\ told[a] \in Nat /\ faults \in Nat
        /\ \A b \in AssetIds \ {a} : told'[b] = told[b]
        /\ tracked' = tracked /\ faults' = faults
        /\ ~tracked[a].emitted
    BY <1>4, BoundsAssumption DEF EmitMissing, Offboards, TypeInv, Shape
  <2> QED BY <2>1, <2>2, <2>3
<1>5. ASSUME NEW a \in AssetIds, Moves(r, {"missing"}, {"missing"}), CountMissing(r, a)
      PROVE  ToldInv'
  <2>1. \A s \in Runners : run[s].pc # "emitted" /\ run'[s].pc # "emitted"
    BY <1>2, <1>5 DEF Moves
  <2>2. \A b \in AssetIds : tracked'[b].emitted = tracked[b].emitted
    BY <1>5 DEF CountMissing, TypeInv, Shape, Tracked
  <2>3. told' = told /\ faults' = faults
    BY <1>5 DEF CountMissing
  <2> QED BY <2>1, <2>2, <2>3
<1>6. ASSUME Moves(r, {"emitted"}, {"missing"}), FlagMissing(r) PROVE ToldInv'
  <2>1. \A s \in Runners : /\ run[s].pc = "emitted" => s = r
                           /\ run'[s].pc # "emitted"
    BY <1>6 DEF Moves, RunInv, RunIsExclusive, Working
  <2>2. /\ run[r].asset \in AssetIds
        /\ \A b \in AssetIds : tracked'[b].emitted =
                                 (IF b = run[r].asset THEN TRUE ELSE tracked[b].emitted)
    BY <1>0, <1>6 DEF FlagMissing, TypeInv, Shape, Tracked
  <2>3. told' = told /\ faults' = faults /\ told[run[r].asset] > 0
    BY <1>6 DEF FlagMissing
  <2> QED BY <2>1, <2>2, <2>3
<1> QED
  BY <1>1, <1>3, <1>4, <1>5, <1>6, Places DEF AtWork

LEMMA OtherTold ==
    ASSUME TypeInv, ToldInv, OtherStep
    PROVE  ToldInv'
<1> USE DEF ToldInv, EmittedWasTold, TellingTold, ToldIsCovered, Telling
<1>1. ASSUME NEW r \in Runners, RunFails(r) \/ RunIsCutOff(r) PROVE ToldInv'
  <2>1. /\ \A s \in Runners \ {r} : run'[s] = run[s]
        /\ run'[r].pc = "idle"
    BY <1>1 DEF RunFails, RunIsCutOff, TypeInv, Shape, IdleRun
  <2>2. /\ tracked' = tracked /\ told' = told /\ faults' = faults + 1 /\ faults \in Nat
        /\ \A a \in AssetIds : told[a] \in Nat
    BY <1>1, BoundsAssumption DEF RunFails, RunIsCutOff, TypeInv, Shape
  <2>3. \A a \in AssetIds : told'[a] <= faults'
    BY <2>2
  <2> QED BY <2>1, <2>2, <2>3
<1>2. ASSUME NEW r \in Runners, run[r].pc = "idle", Goto(r, "mark"),
             UNCHANGED <<tracked, told, faults>>
      PROVE  ToldInv'
  <2>1. \A s \in Runners : /\ run'[s].pc = "emitted" <=> run[s].pc = "emitted"
                           /\ run'[s].asset = run[s].asset
    BY <1>2 DEF Goto, TypeInv, Shape, Run
  <2> QED BY <1>2, <2>1
<1>3. ASSUME UNCHANGED <<run, tracked, told, faults>> PROVE ToldInv'
  BY <1>3
<1> QED
  BY <1>1, <1>2, <1>3, SchedulerAssumption
  DEF OtherStep, SourceChanges, IntervalElapses, SchedulerPicks, RunByHand, runVars
-----------------------------------------------------------------------------
\* A reviewer touches no run, no tracked asset and no event.
LEMMA ReviewFrame ==
    ASSUME TypeInv, RunInv, ToldInv, NEW v \in Reviewers, ReviewStep(v)
    PROVE  RunInv' /\ ToldInv'
<1>1. UNCHANGED runVars /\ faults' \in {faults, faults + 1}
  BY DEF ReviewStep, ReadCandidate, DecideCreate, DecideMerge, DecideReject, Refuse,
     CreateAsset, MergeAsset, CloseCandidate, ReviewAborts
<1>2. faults \in Nat /\ told \in [AssetIds -> Nat]
  BY BoundsAssumption DEF TypeInv, Shape
<1>3. RunInv'
  BY <1>1, <1>2 DEF RunInv, RunIsExclusive, WorkingIsMarked, RunningIsOwned, Working, runVars
<1>4. ToldInv'
  BY <1>1, <1>2 DEF ToldInv, EmittedWasTold, TellingTold, ToldIsCovered, Telling, runVars
<1> QED BY <1>3, <1>4

LEMMA NextInv == IInv /\ [Next]_vars => IInv'
<1> SUFFICES ASSUME IInv, [Next]_vars PROVE IInv'
  OBVIOUS
<1> USE DEF IInv
<1>1. CASE OtherStep
  BY <1>1, OtherTypes, OtherExclusion, OtherTold
<1>2. ASSUME NEW r \in Runners, RunStep(r) PROVE IInv'
  BY <1>2, RunTypes, RunExclusion, RunTold
<1>3. ASSUME NEW v \in Reviewers, ReviewStep(v) PROVE IInv'
  BY <1>3, ReviewTypes, ReviewFrame
<1>4. CASE UNCHANGED vars
  BY <1>4 DEF vars, TypeInv, Shape, RunAims, ReviewAims, RunInv, RunIsExclusive,
     WorkingIsMarked, RunningIsOwned, Working, ToldInv, EmittedWasTold, TellingTold,
     ToldIsCovered, Telling
<1> QED BY <1>1, <1>2, <1>3, <1>4 DEF Next, OtherStep

\* The invariant the theorems below follow from.
THEOREM Invariance == Spec => []IInv
<1> QED BY InitInv, NextInv, PTL DEF Spec

\* Every variable of the discovery model keeps its type.
THEOREM TypeCorrect == Spec => []TypeOK
<1>1. IInv => TypeOK
  <2> SUFFICES ASSUME IInv PROVE TypeOK
    OBVIOUS
  <2>1. \A a \in AssetIds : told[a] \in 0..(1 + MaxFaults)
    <3>1. faults \in 0..MaxFaults /\ told \in [AssetIds -> Nat]
      BY DEF IInv, TypeInv, Shape
    <3>2. \A a \in AssetIds : told[a] <= 1 + faults
      BY <3>1 DEF IInv, ToldInv, ToldIsCovered
    <3> QED BY <3>1, <3>2, BoundsAssumption
  <2>2. told \in [AssetIds -> 0..(1 + MaxFaults)]
    BY <2>1 DEF IInv, TypeInv, Shape
  <2> QED BY <2>2 DEF IInv, TypeInv, Shape, TypeOK
<1> QED BY <1>1, Invariance, PTL

\* No two runs of a discovery job are at work at once.
THEOREM ExclusiveRunsTheorem == Spec => []RunIsExclusive
<1>1. IInv => RunIsExclusive
  BY DEF IInv, RunInv
<1> QED BY <1>1, Invariance, PTL

\* A job in status running has a run at work, unless there was a fault.
THEOREM OwnedRunTheorem == Spec => []RunningIsOwned
<1>1. IInv => RunningIsOwned
  BY DEF IInv, RunInv
<1> QED BY <1>1, Invariance, PTL

\* A flagged asset had its event, and an absence has one event and at most
\* one more for every fault.
THEOREM ToldOnceTheorem == Spec => [](EmittedWasTold /\ ToldOnce)
<1>1. IInv => EmittedWasTold /\ ToldOnce
  <2> SUFFICES ASSUME IInv PROVE EmittedWasTold /\ ToldOnce
    OBVIOUS
  <2>1. faults \in Nat /\ told \in [AssetIds -> Nat]
    BY BoundsAssumption DEF IInv, TypeInv, Shape
  <2> QED BY <2>1 DEF IInv, ToldInv, ToldIsCovered, ToldOnce
<1> QED BY <1>1, Invariance, PTL
-----------------------------------------------------------------------------
(* Reviews, as long as no two of them overlap *)

\* No two reviews are under way at once.  Without it two reviewers of one
\* candidate create two assets, as a run of the project shows.
OneReviewAtATime ==
    \A v, w \in Reviewers : review[v].pc # "idle" /\ review[w].pc # "idle" => v = w

\* The candidate under review is pending until its verdict is written.
ReviewedIsPending ==
    \A v \in Reviewers : review[v].pc # "idle" => cands[review[v].cand].status = "pending"

\* No asset has the identity of the one that a reviewer is about to create.
NewIsUnknown ==
    \A v \in Reviewers :
        review[v].pc = "create" => SameIdentity(cands[review[v].cand].device) = {}

ReviewInv == ReviewedIsPending /\ NewIsUnknown /\ OneAssetPerDevice

\* An asset that was entered by hand has the device of its number.
LEMMA InitReview == Init => ReviewInv
<1> SUFFICES ASSUME Init PROVE ReviewInv
  OBVIOUS
<1>1. ReviewedIsPending /\ NewIsUnknown
  BY DEF Init, ReviewedIsPending, NewIsUnknown, IdleReview
<1>2. OneAssetPerDevice
  <2> DEFINE number == CHOOSE f \in [Known -> AssetIds] : IsInjective(f)
  <2>1. ASSUME NEW a \in AssetIds, assets[a].ident # NoDevice
        PROVE  number[assets[a].ident] = a
    <3>1. assets[a] = IF \E d \in Known : number[d] = a
                      THEN [ident |-> CHOOSE d \in Known : number[d] = a, fingerprint |-> NoDevice]
                      ELSE NoAsset
      BY DEF Init, Entered
    <3> HIDE DEF number
    <3> QED BY <2>1, <3>1 DEF NoAsset
  <2> HIDE DEF number
  <2> QED BY <2>1 DEF OneAssetPerDevice, Existing
<1> QED BY <1>1, <1>2 DEF ReviewInv

\* What a run that reads an item holds afterwards.
LEMMA ReadItemEffect ==
    ASSUME TypeInv, NEW r \in Runners, ReadItem(r)
    PROVE  /\ run[r].pc = "items"
           /\ UNCHANGED <<assets, tracked, told, streak, reviewVars, cands, faults>>
           /\ \A s \in Runners \ {r} : run'[s] = run[s]
           /\ \E d \in run[r].items :
                /\ run'[r].device = d
                /\ run'[r].items = run[r].items
                /\ run'[r].seen = run[r].seen
                /\ run'[r].left = run[r].left
                /\ \/ /\ Matches(d) = {}
                      /\ run'[r].pc = "queue"
                   \/ /\ Matches(d) # {}
                      /\ run'[r].pc = "apply" /\ run'[r].asset = Max(Matches(d))
<1>1. PICK d \in run[r].items :
        run' = [run EXCEPT ![r] =
          [run[r] EXCEPT !.device = d,
                    !.pc = IF Matches(d) = {} THEN "queue" ELSE "apply",
                    !.asset = IF Matches(d) = {} THEN 0 ELSE Max(Matches(d))]]
  BY Zenon DEF ReadItem
<1>2. run[r].pc = "items"
      /\ UNCHANGED <<present, status, due, tracked, told, streak, reviewVars, cands, faults>>
  BY Zenon DEF ReadItem
<1> DEFINE x == [run[r] EXCEPT !.device = d,
                    !.pc = IF Matches(d) = {} THEN "queue" ELSE "apply",
                    !.asset = IF Matches(d) = {} THEN 0 ELSE Max(Matches(d))]
<1>3. run[r] \in Run /\ run \in [Runners -> Run]
  BY DEF TypeInv, Shape
<1>4. /\ x.items = run[r].items /\ x.seen = run[r].seen /\ x.left = run[r].left /\ x.device = d
      /\ x.pc = IF Matches(d) = {} THEN "queue" ELSE "apply"
      /\ x.asset = IF Matches(d) = {} THEN 0 ELSE Max(Matches(d))
  BY <1>3 DEF Run
<1>5. run' = [run EXCEPT ![r] = x]
  BY <1>1, Zenon
<1> HIDE DEF x
<1>6. run'[r] = x /\ \A s \in Runners \ {r} : run'[s] = run[s]
  BY <1>3, <1>5
<1>7. UNCHANGED <<assets, tracked, told, streak, reviewVars, cands, faults>>
  BY <1>2 DEF reviewVars
<1>8. run[r].pc = "items"
  BY <1>2, Zenon
<1>9. d \in run[r].items
  BY <1>1, Zenon
<1> QED BY <1>4, <1>6, <1>7, <1>8, <1>9

\* A run writes no asset and no review, and of the candidates only free ones.
LEMMA RunWrites ==
    ASSUME TypeInv, NEW r \in Runners, RunStep(r)
    PROVE  /\ UNCHANGED <<assets, review>>
           /\ \A c \in CandIds : cands[c].status # "none" => cands'[c] = cands[c]
<1>1. CASE MarkRunning(r) \/ Collect(r)
  BY <1>1 DEF MarkRunning, Collect, reviewVars
<1>2. CASE ApplyMatch(r) \/ LoadStates(r)
  BY <1>2 DEF ApplyMatch, LoadStates, reviewVars
<1>3. ASSUME NEW a \in AssetIds, EmitMissing(r, a) \/ CountMissing(r, a)
      PROVE  UNCHANGED <<assets, review, cands>>
  BY <1>3 DEF EmitMissing, CountMissing, reviewVars
<1>4. CASE FlagMissing(r) \/ Finish(r)
  BY <1>4 DEF FlagMissing, Finish, reviewVars
<1>5. CASE QueueCandidate(r)
  <2> DEFINE free == {c \in CandIds : cands[c].status = "none"}
  <2>1. free \in SUBSET Nat /\ UNCHANGED <<assets, review>>
    BY <1>5 DEF CandIds, QueueCandidate, reviewVars
  <2>2. CASE cands' = cands
    BY <2>1, <2>2
  <2>3. CASE free # {} /\ cands' = [cands EXCEPT ![Min(free)] =
                                      [device |-> run[r].device, status |-> "pending", asset |-> 0]]
    <3>1. Min(free) \in free
      <4> HIDE DEF free
      <4> QED BY <2>1, <2>3, Least
    <3>2. cands[Min(free)].status = "none"
      BY <3>1
    <3>3. cands \in [CandIds -> Candidate]
      BY DEF TypeInv, Shape
    <3> HIDE DEF free
    <3> QED BY <2>1, <2>3, <3>2, <3>3
  <2> QED BY <1>5, <2>2, <2>3 DEF QueueCandidate
<1>6. CASE ReadItem(r)
  BY <1>6, ReadItemEffect DEF reviewVars
<1> QED BY <1>1, <1>2, <1>3, <1>4, <1>5, <1>6 DEF RunStep

LEMMA OtherWrites ==
    ASSUME OtherStep
    PROVE  UNCHANGED <<assets, review, cands, told>>
  BY DEF OtherStep, SourceChanges, IntervalElapses, SchedulerPicks, RunByHand, RunFails,
     RunIsCutOff, reviewVars, runVars

LEMMA ReviewKept ==
    ASSUME TypeInv, ReviewInv, UNCHANGED <<assets, review>>,
           \A c \in CandIds : cands[c].status # "none" => cands'[c] = cands[c]
    PROVE  ReviewInv'
<1>1. \A v \in Reviewers :
        review[v].pc # "idle" => cands'[review[v].cand] = cands[review[v].cand]
  BY DEF TypeInv, ReviewAims, ReviewInv, ReviewedIsPending
<1> QED BY <1>1 DEF ReviewInv, ReviewedIsPending, NewIsUnknown, OneAssetPerDevice, SameIdentity,
           Existing

\* What becomes of the candidate and of the assets in a step of a reviewer.
LEMMA ReviewNext ==
    ASSUME TypeInv, ReviewInv, OneReviewAtATime, NEW v \in Reviewers, ReviewStep(v)
    PROVE  ReviewInv'
<1> USE DEF ReviewInv
<1> DEFINE me == review[v]
<1>0. me \in Review /\ review \in [Reviewers -> Review]
  BY DEF TypeInv, Shape
<1>1. ASSUME NEW x \in Review, review' = [review EXCEPT ![v] = x],
             x.pc # "idle" => cands[x.cand].status = "pending",
             x.pc = "create" => SameIdentity(cands[x.cand].device) = {},
             UNCHANGED <<assets, cands>>
      PROVE  ReviewInv'
  <2>1. review'[v] = x /\ \A w \in Reviewers \ {v} : review'[w] = review[w]
    BY <1>0, <1>1
  <2>2. ReviewedIsPending'
    BY <1>1, <2>1 DEF ReviewedIsPending
  <2>3. \A d : SameIdentity(d)' = SameIdentity(d)
    BY <1>1 DEF SameIdentity, Existing
  <2>4. NewIsUnknown'
    BY <1>1, <2>1, <2>3 DEF NewIsUnknown
  <2>5. OneAssetPerDevice'
    BY <1>1 DEF OneAssetPerDevice, Existing
  <2> QED BY <2>2, <2>4, <2>5
<1>2. ASSUME NEW c \in CandIds, ReadCandidate(v, c) PROVE ReviewInv'
  <2> DEFINE x == [me EXCEPT !.pc = "match", !.cand = c]
  <2>1. c \in 0..MaxCandidates
    BY BoundsAssumption DEF CandIds
  <2>2. x \in Review /\ x.pc = "match" /\ x.cand = c
    BY <1>0, <2>1 DEF Review
  <2>3. review' = [review EXCEPT ![v] = x] /\ cands[c].status = "pending"
    BY <1>2 DEF ReadCandidate, Pending
  <2> HIDE DEF x
  <2> QED BY <1>1, <1>2, <2>2, <2>3 DEF ReadCandidate
<1>3. CASE DecideCreate(v)
  <2> DEFINE x == [me EXCEPT !.pc = "create"]
  <2>1. x \in Review /\ x.pc = "create" /\ x.cand = me.cand
    BY <1>0 DEF Review
  <2>2. review' = [review EXCEPT ![v] = x] /\ cands[me.cand].status = "pending"
        /\ SameIdentity(cands[me.cand].device) = {}
    BY <1>3 DEF DecideCreate, ReviewedIsPending
  <2> HIDE DEF x
  <2> QED BY <1>1, <1>3, <2>1, <2>2 DEF DecideCreate
<1>4. ASSUME NEW a \in AssetIds, DecideMerge(v, a) PROVE ReviewInv'
  <2> DEFINE x == [me EXCEPT !.pc = "merge", !.asset = a]
  <2>1. a \in 0..MaxAssets
    BY BoundsAssumption DEF AssetIds
  <2>2. x \in Review /\ x.pc = "merge" /\ x.cand = me.cand
    BY <1>0, <2>1 DEF Review
  <2>3. review' = [review EXCEPT ![v] = x] /\ cands[me.cand].status = "pending"
    BY <1>4 DEF DecideMerge, ReviewedIsPending
  <2> HIDE DEF x
  <2> QED BY <1>1, <1>4, <2>2, <2>3 DEF DecideMerge
<1>5. CASE DecideReject(v)
  <2> DEFINE x == [me EXCEPT !.pc = "close", !.verdict = "rejected"]
  <2>1. x \in Review /\ x.pc = "close" /\ x.cand = me.cand
    BY <1>0 DEF Review
  <2>2. review' = [review EXCEPT ![v] = x] /\ cands[me.cand].status = "pending"
    BY <1>5 DEF DecideReject, ReviewedIsPending
  <2> HIDE DEF x
  <2> QED BY <1>1, <1>5, <2>1, <2>2 DEF DecideReject
<1>6. CASE Refuse(v) \/ ReviewAborts(v)
  <2>1. review' = [review EXCEPT ![v] = IdleReview] /\ IdleReview.pc = "idle"
        /\ UNCHANGED <<assets, cands>>
    BY <1>6 DEF Refuse, ReviewAborts, IdleReview
  <2> QED BY <1>1, <2>1, IdleReviewType
<1>7. ASSUME me.pc # "idle"
      PROVE  \A w \in Reviewers \ {v} : review[w].pc = "idle"
  BY <1>7 DEF OneReviewAtATime
<1>8. CASE CreateAsset(v)
  <2> DEFINE a == Min(AssetIds \ Existing)
             d == cands[me.cand].device
             new == [ident |-> IF d \in Full THEN d ELSE NoDevice, fingerprint |-> d]
             x == [me EXCEPT !.pc = "close", !.asset = a, !.verdict = "created"]
  <2>1. a \in AssetIds /\ a \notin Existing
    BY <1>8, FreeAsset DEF CreateAsset
  <2>2. me.pc = "create" /\ cands[me.cand].status = "pending" /\ SameIdentity(d) = {}
    BY <1>8 DEF CreateAsset, ReviewedIsPending, NewIsUnknown
  <2>3. x.pc = "close" /\ x.cand = me.cand
    BY <1>0 DEF Review
  <2>4. review' = [review EXCEPT ![v] = x] /\ assets' = [assets EXCEPT ![a] = new]
        /\ cands' = cands
    BY <1>8 DEF CreateAsset
  <2>5. new.ident \in {d, NoDevice} /\ assets \in [AssetIds -> Asset]
    BY DEF TypeInv, Shape
  <2>6. \A b \in Existing : d # assets[b].ident
    BY <2>2 DEF SameIdentity
  <2> HIDE DEF a, d, new, x
  <2>7. review'[v] = x /\ \A w \in Reviewers \ {v} : review'[w] = review[w]
    BY <1>0, <2>4
  <2>8. ReviewedIsPending' /\ NewIsUnknown'
    BY <1>7, <2>2, <2>3, <2>4, <2>7 DEF ReviewedIsPending, NewIsUnknown
  <2>9. assets'[a] = new /\ \A b \in AssetIds \ {a} : assets'[b] = assets[b]
    BY <2>1, <2>4, <2>5
  <2>10. \A b \in AssetIds \ {a} : b \in Existing' => b \in Existing
    BY <2>9 DEF Existing
  <2>11. OneAssetPerDevice'
    <3> SUFFICES ASSUME NEW p \in AssetIds, NEW q \in AssetIds, p \in Existing', q \in Existing',
                        assets'[p].ident = assets'[q].ident, assets'[p].ident # NoDevice, p # q
                 PROVE  FALSE
      BY DEF OneAssetPerDevice, Existing
    <3>1. CASE p # a /\ q # a
      <4>1. p \in Existing /\ q \in Existing /\ assets[p].ident = assets[q].ident
            /\ assets[p].ident # NoDevice
        BY <2>9, <2>10, <3>1
      <4> QED BY <4>1 DEF OneAssetPerDevice
    <3>2. CASE p = a
      <4>1. q \in Existing /\ assets[q].ident = d
        BY <2>5, <2>9, <2>10, <3>2
      <4> QED BY <2>6, <4>1
    <3>3. CASE q = a
      <4>1. p \in Existing /\ assets[p].ident = d
        BY <2>5, <2>9, <2>10, <3>3
      <4> QED BY <2>6, <4>1
    <3> QED BY <3>1, <3>2, <3>3
  <2> QED BY <2>8, <2>11
<1>9. CASE MergeAsset(v)
  <2> DEFINE x == [me EXCEPT !.pc = "close", !.verdict = "merged"]
  <2>1. me.pc = "merge" /\ cands[me.cand].status = "pending"
    BY <1>9 DEF MergeAsset, ReviewedIsPending
  <2>2. x.pc = "close" /\ x.cand = me.cand
    BY <1>0 DEF Review
  <2>3. review' = [review EXCEPT ![v] = x] /\ cands' = cands
    BY <1>9 DEF MergeAsset
  <2>4. \A b \in AssetIds : assets'[b].ident = assets[b].ident
    BY <1>9 DEF MergeAsset, TypeInv, Shape, Asset
  <2> HIDE DEF x
  <2>5. review'[v] = x /\ \A w \in Reviewers \ {v} : review'[w] = review[w]
    BY <1>0, <2>3
  <2>6. ReviewedIsPending' /\ NewIsUnknown'
    BY <1>7, <2>1, <2>2, <2>3, <2>5 DEF ReviewedIsPending, NewIsUnknown
  <2>7. \A b \in AssetIds : assets[b].ident # NoDevice => b \in Existing
    BY DEF Existing, NoAsset
  <2>8. OneAssetPerDevice'
    BY <2>4, <2>7 DEF OneAssetPerDevice, Existing
  <2> QED BY <2>6, <2>8
<1>10. CASE CloseCandidate(v)
  <2>1. review' = [review EXCEPT ![v] = IdleReview] /\ IdleReview.pc = "idle" /\ assets' = assets
    BY <1>10 DEF CloseCandidate, IdleReview
  <2>2. \A w \in Reviewers : review'[w].pc = "idle"
    BY <1>0, <1>7, <1>10, <2>1 DEF CloseCandidate
  <2> QED BY <2>1, <2>2 DEF ReviewedIsPending, NewIsUnknown, OneAssetPerDevice, Existing
<1> QED
  BY <1>2, <1>3, <1>4, <1>5, <1>6, <1>8, <1>9, <1>10 DEF ReviewStep
-----------------------------------------------------------------------------
(* Missing assets: what is counted against an asset, its device missed *)

KnownAssets == {a \in AssetIds : tracked[a].known}

\* With n more, the count of asset a is no more than the collections that its
\* device has missed in a row, as far as these are counted.
Missed(a, n) ==
    \/ streak[assets[a].ident] = Threshold
    \/ tracked[a].missed + n <= streak[assets[a].ident]

KnownIsMatched == \A a \in KnownAssets : assets[a].ident \in Devices

\* What a run holds of the asset and the device it is at.
RunTargets ==
    \A r \in Runners :
        /\ run[r].left \subseteq KnownAssets
        /\ run[r].pc \in {"apply", "queue"} => run[r].device \in run[r].items
        /\ run[r].pc = "apply" => assets[run[r].asset].ident = run[r].device
        /\ run[r].pc = "queue" => \A a \in KnownAssets : assets[a].ident # run[r].device
        /\ run[r].pc = "emitted" => run[r].asset \in run[r].left

Collected(r) == run[r].pc \in {"items", "apply", "queue"}
Counting(r) == run[r].pc \in {"missing", "emitted"}

\* A device that a run collected is among its items until its asset is
\* matched; every other known asset is owed one count, and gets it once.
RunCounts(r) ==
    \A a \in KnownAssets :
        /\ Collected(r) => \/ assets[a].ident \in run[r].items
                           \/ a \in run[r].seen /\ Missed(a, 0)
                           \/ Missed(a, 1)
        /\ Counting(r) => Missed(a, IF a \in run[r].left THEN 1 ELSE 0)

CountsFollowStreaks ==
    /\ (\A r \in Runners : ~Collected(r) /\ ~Counting(r)) => \A a \in KnownAssets : Missed(a, 0)
    /\ \A r \in Runners : RunCounts(r)

CountInv == KnownIsMatched /\ RunTargets /\ (faults = 0 => CountsFollowStreaks)

LEMMA InitCount == Init => CountInv
  BY DEF Init, CountInv, KnownIsMatched, RunTargets, CountsFollowStreaks, RunCounts, KnownAssets,
     Collected, Counting, IdleRun, Untracked

\* The asset that a device is matched with has the device's hostname and IP.
LEMMA MatchHasIdent ==
    ASSUME NEW d, Matches(d) # {}
    PROVE  Max(Matches(d)) \in Existing /\ assets[Max(Matches(d))].ident = d
<1>1. Matches(d) \in SUBSET (0..MaxAssets)
  BY BoundsAssumption DEF Matches, Existing, AssetIds
<1>2. Max(Matches(d)) \in Matches(d)
  BY <1>1, Greatest, BoundsAssumption
<1> QED BY <1>2 DEF Matches

LEMMA KnownExists ==
    ASSUME KnownIsMatched, NEW a \in KnownAssets
    PROVE  a \in Existing
  BY FullAssumption DEF KnownIsMatched, KnownAssets, Existing, NoAsset

\* A step that leaves the counts alone and takes a run to a place of the same
\* sort.
LEMMA CountsKept ==
    ASSUME TypeInv, CountInv, UNCHANGED <<assets, tracked, streak, faults>>,
           NEW r \in Runners, \A s \in Runners \ {r} : run'[s] = run[s],
           ~Collected(r), ~Counting(r), run'[r].pc \in {"idle", "mark", "collect"},
           run'[r].left \in {{}, run[r].left}
    PROVE  CountInv'
<1>1. KnownAssets' = KnownAssets /\ \A a, n : Missed(a, n)' = Missed(a, n)
  BY DEF KnownAssets, Missed
<1>2. KnownIsMatched'
  BY <1>1 DEF CountInv, KnownIsMatched
<1>3. RunTargets'
  BY <1>1 DEF CountInv, RunTargets
<1>4. /\ \A s \in Runners : Collected(s)' = Collected(s) /\ Counting(s)' = Counting(s)
      /\ ~Collected(r)' /\ ~Counting(r)'
  BY DEF Collected, Counting
<1>5. CountsFollowStreaks => CountsFollowStreaks'
  BY <1>1, <1>4 DEF CountsFollowStreaks, RunCounts
<1> QED BY <1>2, <1>3, <1>5 DEF CountInv

\* While run r is at work, every other run is before its collection.
LEMMA Aside ==
    ASSUME RunInv, NEW r \in Runners, Working(r)
    PROVE  \A s \in Runners \ {r} : run[s].pc \in {"idle", "mark"}
  BY DEF RunInv, RunIsExclusive, Working

\* A step of the run at work keeps the invariant if it does so for this run.
LEMMA CountsMoved ==
    ASSUME TypeInv, RunInv, CountInv, UNCHANGED <<assets, faults>>,
           NEW r \in Runners, Working(r), \A s \in Runners \ {r} : run'[s] = run[s],
           KnownIsMatched', KnownAssets \subseteq KnownAssets',
           run'[r].left \subseteq KnownAssets',
           run'[r].pc \in {"apply", "queue"} => run'[r].device \in run'[r].items,
           run'[r].pc = "apply" => assets[run'[r].asset].ident = run'[r].device,
           run'[r].pc = "queue" => \A a \in KnownAssets' : assets[a].ident # run'[r].device,
           run'[r].pc = "emitted" => run'[r].asset \in run'[r].left,
           CountsFollowStreaks => RunCounts(r)' /\ (Collected(r)' \/ Counting(r)')
    PROVE  CountInv'
<1>1. \A s \in Runners \ {r} : run'[s].pc \in {"idle", "mark"}
  BY Aside
<1>2. RunTargets'
  <2> SUFFICES ASSUME NEW s \in Runners, s # r
               PROVE  run'[s].left \subseteq KnownAssets'
    BY <1>1 DEF RunTargets
  <2> QED BY DEF CountInv, RunTargets
<1>3. CountsFollowStreaks => CountsFollowStreaks'
  <2>1. \A s \in Runners \ {r} : RunCounts(s)'
    BY <1>1 DEF RunCounts, Collected, Counting
  <2> QED BY <2>1 DEF CountsFollowStreaks
<1> QED BY <1>2, <1>3 DEF CountInv

\* A count that saturates, and the one it was before.
LEMMA SaturationStep ==
    ASSUME NEW limit \in Nat, NEW n \in 0..limit
    PROVE  Min({n + 1, limit}) = IF n = limit THEN limit ELSE n + 1
<1>1. CASE n = limit
  BY <1>1 DEF Min
<1>2. CASE n # limit
  BY <1>2 DEF Min
<1> QED BY <1>1, <1>2

LEMMA CollectCounts ==
    ASSUME TypeInv, RunInv, CountInv, NEW r \in Runners, Collect(r)
    PROVE  CountInv'
<1>1. Working(r) /\ run[r].pc = "collect"
  BY DEF Collect, Working
<1>2. /\ run'[r].pc = "items" /\ run'[r].items = present /\ run'[r].left = {}
      /\ \A s \in Runners \ {r} : run'[s] = run[s]
  BY DEF Collect, TypeInv, Shape, IdleRun
<1>3. UNCHANGED <<assets, tracked, faults>>
  BY DEF Collect, reviewVars
<1>4. KnownAssets' = KnownAssets /\ KnownIsMatched'
  BY <1>3 DEF KnownAssets, CountInv, KnownIsMatched
<1>5. ASSUME CountsFollowStreaks, NEW a \in KnownAssets, assets[a].ident \notin present
      PROVE  Missed(a, 1)'
  <2> DEFINE d == assets[a].ident
  <2>1. d \in Devices /\ a \in AssetIds
    BY DEF CountInv, KnownIsMatched, KnownAssets
  <2>2. streak'[d] = Min({streak[d] + 1, Threshold})
    BY <1>5, <2>1 DEF Collect
  <2>3. streak[d] \in 0..Threshold /\ tracked[a].missed \in Nat
    BY <2>1, ThresholdAssumption DEF TypeInv, Shape, Tracked
  <2>4. \A s \in Runners : ~Collected(s) /\ ~Counting(s)
    BY <1>1, Aside DEF Collected, Counting
  <2>5. Missed(a, 0)
    BY <1>5, <2>4 DEF CountsFollowStreaks
  <2>6. streak'[d] = IF streak[d] = Threshold THEN Threshold ELSE streak[d] + 1
    BY <2>2, <2>3, SaturationStep, ThresholdAssumption
  <2>7. streak[d] = Threshold \/ tracked[a].missed <= streak[d]
    BY <2>3, <2>5 DEF Missed
  <2>8. streak'[d] = Threshold \/ tracked[a].missed + 1 <= streak'[d]
    BY <2>3, <2>6, <2>7, ThresholdAssumption
  <2> QED BY <1>3, <2>8 DEF Missed
<1>6. CountsFollowStreaks => RunCounts(r)' /\ Collected(r)'
  BY <1>2, <1>3, <1>4, <1>5 DEF RunCounts, Collected, Counting
<1> QED BY <1>1, <1>2, <1>3, <1>4, <1>6, CountsMoved

LEMMA ReadItemCounts ==
    ASSUME TypeInv, RunInv, CountInv, NEW r \in Runners, ReadItem(r)
    PROVE  CountInv'
<1>1. PICK d \in run[r].items :
        /\ run'[r].device = d /\ run'[r].items = run[r].items
        /\ run'[r].seen = run[r].seen /\ run'[r].left = run[r].left
        /\ \/ Matches(d) = {} /\ run'[r].pc = "queue"
           \/ Matches(d) # {} /\ run'[r].pc = "apply" /\ run'[r].asset = Max(Matches(d))
  BY ReadItemEffect
<1>2. /\ UNCHANGED <<assets, tracked, streak, faults>> /\ run[r].pc = "items" /\ Working(r)
      /\ \A s \in Runners \ {r} : run'[s] = run[s]
  BY ReadItemEffect DEF Working
<1>3. KnownAssets' = KnownAssets /\ KnownIsMatched' /\ \A a, n : Missed(a, n)' = Missed(a, n)
  BY <1>2 DEF KnownAssets, CountInv, KnownIsMatched, Missed
<1>4. run'[r].pc = "apply" => assets[run'[r].asset].ident = d
  BY <1>1, MatchHasIdent
<1>5. run'[r].pc = "queue" => \A a \in KnownAssets : assets[a].ident # d
  BY <1>1, KnownExists DEF Matches, CountInv
<1>6. CountsFollowStreaks => RunCounts(r)' /\ Collected(r)'
  <2>1. CountsFollowStreaks => RunCounts(r)
    BY DEF CountsFollowStreaks
  <2> QED BY <1>1, <1>2, <1>3, <2>1 DEF RunCounts, Collected, Counting
<1>7. run'[r].left \subseteq KnownAssets /\ run'[r].pc # "emitted"
  BY <1>1 DEF CountInv, RunTargets
<1> QED BY <1>1, <1>2, <1>3, <1>4, <1>5, <1>6, <1>7, CountsMoved

\* The asset that is matched is the only one of its device.
LEMMA ApplyCounts ==
    ASSUME TypeInv, RunInv, CountInv, OneAssetPerDevice, NEW r \in Runners, ApplyMatch(r)
    PROVE  CountInv'
<1> SUFFICES ASSUME NEW m, NEW d, m = run[r].asset, d = run[r].device
             PROVE  CountInv'
  OBVIOUS
<1>1. UNCHANGED <<assets, streak, faults>> /\ run[r].pc = "apply" /\ Working(r)
  BY DEF ApplyMatch, reviewVars, Working
<1>2. m \in AssetIds /\ d \in Devices /\ d \in run[r].items /\ assets[m].ident = d
  BY <1>1 DEF TypeInv, RunAims, CountInv, RunTargets
<1>3. /\ tracked'[m] = [missed |-> 0, emitted |-> FALSE, known |-> TRUE]
      /\ \A a \in AssetIds \ {m} : tracked'[a] = tracked[a]
  BY <1>2 DEF ApplyMatch, TypeInv, Shape
<1>4. /\ run'[r].pc = "items" /\ run'[r].items = run[r].items \ {d}
      /\ run'[r].seen = run[r].seen \cup {m} /\ run'[r].left = run[r].left
      /\ \A s \in Runners \ {r} : run'[s] = run[s]
  BY DEF ApplyMatch, TypeInv, Shape, Run
<1>5. KnownAssets' = KnownAssets \cup {m}
  BY <1>2, <1>3 DEF KnownAssets
<1>6. KnownIsMatched'
  BY <1>1, <1>2, <1>5 DEF CountInv, KnownIsMatched
<1>7. m \in Existing
  BY <1>2, FullAssumption DEF Existing, NoAsset
<1>8. ASSUME NEW a \in KnownAssets, a # m PROVE assets[a].ident # d
  BY <1>2, <1>7, <1>8, KnownExists, FullAssumption DEF CountInv, OneAssetPerDevice
<1>9. \A a \in KnownAssets : a # m => \A n : Missed(a, n)' = Missed(a, n)
  BY <1>1, <1>3 DEF Missed, KnownAssets
<1>10. Missed(m, 0)'
  <2>1. streak[d] \in 0..Threshold
    BY <1>2 DEF TypeInv, Shape
  <2>2. tracked'[m].missed + 0 <= streak[d]
    BY <1>3, <2>1, ThresholdAssumption
  <2> QED BY <1>1, <1>2, <2>2 DEF Missed
<1>11. CountsFollowStreaks => RunCounts(r)' /\ Collected(r)'
  <2> SUFFICES ASSUME CountsFollowStreaks PROVE RunCounts(r)' /\ Collected(r)'
    OBVIOUS
  <2>1. ASSUME NEW a \in KnownAssets'
        PROVE  \/ assets'[a].ident \in run'[r].items
               \/ a \in run'[r].seen /\ Missed(a, 0)'
               \/ Missed(a, 1)'
    <3>1. CASE a = m
      BY <1>4, <1>10, <3>1
    <3>2. CASE a # m
      <4>1. \/ assets[a].ident \in run[r].items
            \/ a \in run[r].seen /\ Missed(a, 0)
            \/ Missed(a, 1)
        BY <1>1, <1>5, <2>1, <3>2 DEF CountsFollowStreaks, RunCounts, Collected
      <4> QED BY <1>1, <1>4, <1>5, <1>8, <1>9, <2>1, <3>2, <4>1
    <3> QED BY <3>1, <3>2
  <2> QED BY <1>4, <2>1 DEF RunCounts, Collected, Counting
<1>12. run'[r].left \subseteq KnownAssets'
  BY <1>4, <1>5 DEF CountInv, RunTargets
<1> QED BY <1>1, <1>4, <1>5, <1>6, <1>11, <1>12, CountsMoved

\* No known asset has the device that is queued.
LEMMA QueueCounts ==
    ASSUME TypeInv, RunInv, CountInv, NEW r \in Runners, QueueCandidate(r)
    PROVE  CountInv'
<1>1. /\ UNCHANGED <<assets, tracked, streak, faults>> /\ run[r].pc = "queue" /\ Working(r)
  BY DEF QueueCandidate, reviewVars, Working, RunStep
<1>2. /\ run'[r].pc = "items" /\ run'[r].items = run[r].items \ {run[r].device}
      /\ run'[r].seen = run[r].seen /\ run'[r].left = run[r].left
      /\ \A s \in Runners \ {r} : run'[s] = run[s]
  BY DEF QueueCandidate, TypeInv, Shape, Run
<1>3. KnownAssets' = KnownAssets /\ KnownIsMatched' /\ \A a, n : Missed(a, n)' = Missed(a, n)
  BY <1>1 DEF KnownAssets, CountInv, KnownIsMatched, Missed
<1>4. \A a \in KnownAssets : assets[a].ident # run[r].device
  BY <1>1 DEF CountInv, RunTargets
<1>5. CountsFollowStreaks => RunCounts(r)' /\ Collected(r)'
  <2>1. CountsFollowStreaks => RunCounts(r)
    BY DEF CountsFollowStreaks
  <2> QED BY <1>1, <1>2, <1>3, <1>4, <2>1 DEF RunCounts, Collected, Counting
<1>6. run'[r].left \subseteq KnownAssets
  BY <1>2 DEF CountInv, RunTargets
<1> QED BY <1>1, <1>2, <1>3, <1>5, <1>6, CountsMoved

\* Every item is done: what was not matched is owed its count.
LEMMA LoadCounts ==
    ASSUME TypeInv, RunInv, CountInv, NEW r \in Runners, LoadStates(r)
    PROVE  CountInv'
<1>1. /\ UNCHANGED <<assets, tracked, streak, faults>> /\ Working(r)
      /\ run[r].pc = "items" /\ run[r].items = {}
  BY DEF LoadStates, reviewVars, Working
<1>2. /\ run'[r].pc = "missing" /\ run'[r].left = KnownAssets \ run[r].seen
      /\ \A s \in Runners \ {r} : run'[s] = run[s]
  BY DEF LoadStates, KnownAssets, TypeInv, Shape, Run
<1>3. KnownAssets' = KnownAssets /\ KnownIsMatched' /\ \A a, n : Missed(a, n)' = Missed(a, n)
  BY <1>1 DEF KnownAssets, CountInv, KnownIsMatched, Missed
<1>4. ASSUME NEW a \in KnownAssets, Missed(a, 1) PROVE Missed(a, 0)
  <2>1. assets[a].ident \in Devices /\ a \in AssetIds
    BY DEF CountInv, KnownIsMatched, KnownAssets
  <2>2. streak[assets[a].ident] \in 0..Threshold /\ tracked[a].missed \in 0..MissedLimit
    BY <2>1 DEF TypeInv, Shape, Tracked
  <2> QED BY <1>4, <2>2, ThresholdAssumption DEF Missed
<1>5. CountsFollowStreaks => RunCounts(r)' /\ Counting(r)'
  <2>1. CountsFollowStreaks => RunCounts(r)
    BY DEF CountsFollowStreaks
  <2> QED BY <1>1, <1>2, <1>3, <1>4, <2>1 DEF RunCounts, Collected, Counting
<1> QED BY <1>1, <1>2, <1>3, <1>5, CountsMoved

LEMMA EmitCounts ==
    ASSUME TypeInv, RunInv, CountInv, NEW r \in Runners, NEW a \in AssetIds, EmitMissing(r, a)
    PROVE  CountInv'
<1>1. /\ UNCHANGED <<assets, tracked, streak, faults>> /\ Working(r)
      /\ run[r].pc = "missing" /\ a \in run[r].left
  BY DEF EmitMissing, reviewVars, Working
<1>2. /\ run'[r].pc = "emitted" /\ run'[r].left = run[r].left /\ run'[r].asset = a
      /\ \A s \in Runners \ {r} : run'[s] = run[s]
  BY DEF EmitMissing, TypeInv, Shape, Run
<1>3. KnownAssets' = KnownAssets /\ KnownIsMatched' /\ \A b, n : Missed(b, n)' = Missed(b, n)
  BY <1>1 DEF KnownAssets, CountInv, KnownIsMatched, Missed
<1>4. CountsFollowStreaks => RunCounts(r)' /\ Counting(r)'
  <2>1. CountsFollowStreaks => RunCounts(r)
    BY DEF CountsFollowStreaks
  <2> QED BY <1>1, <1>2, <1>3, <2>1 DEF RunCounts, Collected, Counting
<1>5. run'[r].left \subseteq KnownAssets
  BY <1>2 DEF CountInv, RunTargets
<1> QED BY <1>1, <1>2, <1>3, <1>4, <1>5, CountsMoved

\* The count of asset a is written, and what the asset was owed is paid.
LEMMA CountPaid ==
    ASSUME TypeInv, RunInv, CountInv, NEW r \in Runners, Counting(r),
           NEW a \in AssetIds, a \in run[r].left,
           UNCHANGED <<assets, streak, faults>>,
           tracked'[a].missed = NextMissed(a), tracked'[a].known = tracked[a].known,
           \A b \in AssetIds \ {a} : tracked'[b] = tracked[b],
           run'[r].pc = "missing", run'[r].left = run[r].left \ {a},
           \A s \in Runners \ {r} : run'[s] = run[s]
    PROVE  CountInv'
<1>1. Working(r)
  BY DEF Counting, Working
<1>2. KnownAssets' = KnownAssets /\ KnownIsMatched'
  BY DEF KnownAssets, CountInv, KnownIsMatched
<1>3. \A b \in KnownAssets : b # a => \A n : Missed(b, n)' = Missed(b, n)
  BY DEF Missed, KnownAssets
<1>4. a \in KnownAssets
  BY DEF CountInv, RunTargets
<1>5. ASSUME Missed(a, 1) PROVE Missed(a, 0)'
  <2>1. assets[a].ident \in Devices
    BY <1>4 DEF CountInv, KnownIsMatched
  <2>2. streak[assets[a].ident] \in 0..Threshold /\ tracked[a].missed \in 0..MissedLimit
    BY <2>1 DEF TypeInv, Shape, Tracked
  <2>3. NextMissed(a) = IF tracked[a].missed = MissedLimit THEN MissedLimit
                                                           ELSE tracked[a].missed + 1
    BY <2>2, SaturationStep, ThresholdAssumption DEF NextMissed
  <2>4. CASE streak[assets[a].ident] = Threshold
    BY <2>4 DEF Missed
  <2>5. CASE tracked[a].missed + 1 <= streak[assets[a].ident]
    <3>1. NextMissed(a) + 0 <= streak[assets[a].ident]
      BY <2>2, <2>3, <2>5, ThresholdAssumption
    <3> QED BY <3>1 DEF Missed
  <2> QED BY <1>5, <2>4, <2>5 DEF Missed
<1>6. CountsFollowStreaks => RunCounts(r)' /\ Counting(r)'
  <2> SUFFICES ASSUME CountsFollowStreaks PROVE RunCounts(r)' /\ Counting(r)'
    OBVIOUS
  <2>1. RunCounts(r)
    BY DEF CountsFollowStreaks
  <2>2. Missed(a, 1)
    BY <1>4, <2>1 DEF RunCounts
  <2>3. ASSUME NEW b \in KnownAssets PROVE Missed(b, IF b \in run[r].left THEN 1 ELSE 0)'
    <3>1. CASE b = a
      <4>1. Missed(a, 0)'
        BY <1>5, <2>2
      <4> QED BY <3>1, <4>1 DEF Missed
    <3>2. CASE b # a
      <4>1. Missed(b, IF b \in run[r].left THEN 1 ELSE 0)
        BY <2>1 DEF RunCounts
      <4>2. b \in run'[r].left <=> b \in run[r].left
        BY <3>2
      <4> QED BY <1>3, <3>2, <4>1, <4>2 DEF Missed
    <3> QED BY <3>1, <3>2
  <2> QED BY <1>2, <2>3 DEF RunCounts, Collected, Counting
<1>7. run'[r].left \subseteq KnownAssets
  BY DEF CountInv, RunTargets
<1> QED BY <1>1, <1>2, <1>6, <1>7, CountsMoved

LEMMA CountMissingCounts ==
    ASSUME TypeInv, RunInv, CountInv, NEW r \in Runners, NEW a \in AssetIds, CountMissing(r, a)
    PROVE  CountInv'
<1>1. UNCHANGED <<assets, streak, faults>> /\ Counting(r) /\ a \in run[r].left
  BY DEF CountMissing, reviewVars, Counting
<1>2. /\ tracked'[a].missed = NextMissed(a) /\ tracked'[a].known = tracked[a].known
      /\ \A b \in AssetIds \ {a} : tracked'[b] = tracked[b]
  BY DEF CountMissing, TypeInv, Shape, Tracked
<1>3. /\ run'[r].pc = "missing" /\ run'[r].left = run[r].left \ {a}
      /\ \A s \in Runners \ {r} : run'[s] = run[s]
  BY DEF CountMissing, TypeInv, Shape, Run
<1> QED BY <1>1, <1>2, <1>3, CountPaid

LEMMA FlagMissingCounts ==
    ASSUME TypeInv, RunInv, CountInv, NEW r \in Runners, FlagMissing(r)
    PROVE  CountInv'
<1> SUFFICES ASSUME NEW a, a = run[r].asset PROVE CountInv'
  OBVIOUS
<1>1. /\ UNCHANGED <<assets, streak, faults>> /\ Counting(r)
      /\ a \in AssetIds /\ a \in run[r].left
  BY DEF FlagMissing, reviewVars, Counting, TypeInv, RunAims, CountInv, RunTargets
<1>2. /\ tracked'[a].missed = NextMissed(a) /\ tracked'[a].known = tracked[a].known
      /\ \A b \in AssetIds \ {a} : tracked'[b] = tracked[b]
  BY <1>1 DEF FlagMissing, TypeInv, Shape, Tracked
<1>3. /\ run'[r].pc = "missing" /\ run'[r].left = run[r].left \ {a}
      /\ \A s \in Runners \ {r} : run'[s] = run[s]
  BY DEF FlagMissing, TypeInv, Shape, Run
<1> QED BY <1>1, <1>2, <1>3, CountPaid

\* Every count is paid when the run gives the job back.
LEMMA FinishCounts ==
    ASSUME TypeInv, RunInv, CountInv, NEW r \in Runners, Finish(r)
    PROVE  CountInv'
<1>1. /\ UNCHANGED <<assets, tracked, streak, faults>> /\ Working(r)
      /\ run[r].pc = "missing" /\ run[r].left = {}
  BY DEF Finish, reviewVars, Working
<1>2. /\ run'[r].pc = "idle" /\ run'[r].left = {}
      /\ \A s \in Runners \ {r} : run'[s] = run[s]
  BY DEF Finish, TypeInv, Shape, IdleRun
<1>3. KnownAssets' = KnownAssets /\ KnownIsMatched' /\ \A a, n : Missed(a, n)' = Missed(a, n)
  BY <1>1 DEF KnownAssets, CountInv, KnownIsMatched, Missed
<1>4. RunTargets'
  BY <1>1, <1>2, <1>3 DEF CountInv, RunTargets
<1>5. \A s \in Runners : ~Collected(s)' /\ ~Counting(s)'
  BY <1>1, <1>2, Aside DEF Collected, Counting
<1>6. CountsFollowStreaks => CountsFollowStreaks'
  <2>1. CountsFollowStreaks => \A a \in KnownAssets : Missed(a, 0)
    BY <1>1 DEF CountsFollowStreaks, RunCounts, Counting
  <2> QED BY <1>3, <1>5, <2>1 DEF CountsFollowStreaks, RunCounts
<1> QED BY <1>1, <1>3, <1>4, <1>6 DEF CountInv

LEMMA MarkCounts ==
    ASSUME TypeInv, CountInv, NEW r \in Runners, MarkRunning(r)
    PROVE  CountInv'
<1>1. UNCHANGED <<assets, tracked, streak, faults>> /\ ~Collected(r) /\ ~Counting(r)
  BY DEF MarkRunning, reviewVars, Collected, Counting
<1>2. /\ run'[r].pc \in {"idle", "collect"} /\ run'[r].left = run[r].left
      /\ \A s \in Runners \ {r} : run'[s] = run[s]
  BY DEF MarkRunning, Goto, TypeInv, Shape, Run
<1> QED BY <1>1, <1>2, CountsKept

LEMMA RunStepCounts ==
    ASSUME TypeInv, RunInv, CountInv, OneAssetPerDevice, NEW r \in Runners, RunStep(r)
    PROVE  CountInv'
  BY MarkCounts, CollectCounts, ReadItemCounts, ApplyCounts, QueueCounts, LoadCounts, EmitCounts,
     CountMissingCounts, FlagMissingCounts, FinishCounts DEF RunStep

LEMMA OtherCounts ==
    ASSUME TypeInv, CountInv, OtherStep
    PROVE  CountInv'
<1>1. ASSUME NEW r \in Runners, run[r].pc = "idle", Goto(r, "mark"),
             UNCHANGED <<assets, tracked, streak, faults>>
      PROVE  CountInv'
  <2>1. /\ run'[r].pc = "mark" /\ run'[r].left = run[r].left
        /\ \A s \in Runners \ {r} : run'[s] = run[s]
    BY <1>1 DEF Goto, TypeInv, Shape, Run
  <2> QED BY <1>1, <2>1, CountsKept DEF Collected, Counting
<1>2. ASSUME UNCHANGED <<run, assets, tracked, streak, faults>> PROVE CountInv'
  BY <1>2 DEF CountInv, KnownIsMatched, RunTargets, CountsFollowStreaks, RunCounts, KnownAssets,
     Collected, Counting, Missed
<1>3. ASSUME NEW r \in Runners, RunFails(r) \/ RunIsCutOff(r) PROVE CountInv'
  <2>1. /\ UNCHANGED <<assets, tracked, streak>> /\ faults' # 0
        /\ run'[r].pc = "idle" /\ run'[r].left = {}
        /\ \A s \in Runners \ {r} : run'[s] = run[s]
    BY <1>3, BoundsAssumption
    DEF RunFails, RunIsCutOff, reviewVars, TypeInv, Shape, IdleRun
  <2>2. KnownIsMatched' /\ RunTargets'
    BY <2>1 DEF KnownIsMatched, RunTargets, CountInv, KnownAssets
  <2> QED BY <2>1, <2>2 DEF CountInv
<1> QED
  BY <1>1, <1>2, <1>3, SchedulerAssumption
  DEF OtherStep, SourceChanges, IntervalElapses, SchedulerPicks, RunByHand, runVars, reviewVars

\* A reviewer changes neither the counts nor the device of an asset there is.
LEMMA ReviewKeepsIdents ==
    ASSUME TypeInv, NEW v \in Reviewers, ReviewStep(v)
    PROVE  /\ \A a \in Existing : assets'[a].ident = assets[a].ident
           /\ UNCHANGED runVars /\ faults' \in {faults, faults + 1}
<1>0. assets \in [AssetIds -> Asset] /\ \A a \in Existing : a \in AssetIds
  BY DEF TypeInv, Shape, Existing
<1>1. CASE CreateAsset(v)
  <2>1. Min(AssetIds \ Existing) \notin Existing
    BY <1>1, FreeAsset DEF CreateAsset
  <2> HIDE DEF Existing
  <2> QED BY <1>0, <1>1, <2>1 DEF CreateAsset
<1>2. CASE MergeAsset(v)
  BY <1>0, <1>2 DEF MergeAsset, Asset
<1>3. ASSUME NEW c \in CandIds, ReadCandidate(v, c)
      PROVE  UNCHANGED <<runVars, assets, faults>>
  BY <1>3 DEF ReadCandidate
<1>4. ASSUME NEW a \in AssetIds, DecideMerge(v, a)
      PROVE  UNCHANGED <<runVars, assets, faults>>
  BY <1>4 DEF DecideMerge
<1>5. CASE DecideCreate(v) \/ DecideReject(v) \/ Refuse(v)
  BY <1>5 DEF DecideCreate, DecideReject, Refuse
<1>6. CASE CloseCandidate(v) \/ ReviewAborts(v)
  BY <1>6 DEF CloseCandidate, ReviewAborts
<1> QED BY <1>1, <1>2, <1>3, <1>4, <1>5, <1>6 DEF ReviewStep

LEMMA ReviewCounts ==
    ASSUME TypeInv, CountInv, NEW v \in Reviewers, ReviewStep(v)
    PROVE  CountInv'
<1>1. /\ \A a \in Existing : assets'[a].ident = assets[a].ident
      /\ UNCHANGED <<run, tracked, streak>> /\ faults' \in {faults, faults + 1}
  BY ReviewKeepsIdents DEF runVars
<1>2. /\ KnownAssets' = KnownAssets
      /\ \A a \in KnownAssets : assets'[a].ident = assets[a].ident
  BY <1>1, KnownExists DEF KnownAssets, CountInv
<1>3. \A a \in KnownAssets : \A n : Missed(a, n)' = Missed(a, n)
  BY <1>1, <1>2 DEF Missed
<1>4. KnownIsMatched'
  BY <1>2 DEF KnownIsMatched, CountInv
<1>5. RunTargets'
  <2>1. ASSUME NEW r \in Runners, run[r].pc = "apply"
        PROVE  assets'[run[r].asset].ident = run[r].device
    <3>1. /\ run[r].asset \in AssetIds /\ run[r].device \in Devices
          /\ assets[run[r].asset].ident = run[r].device
      BY <2>1 DEF TypeInv, RunAims, CountInv, RunTargets
    <3>2. run[r].asset \in Existing
      BY <3>1, FullAssumption DEF Existing, NoAsset
    <3> QED BY <1>1, <3>1, <3>2
  <2> QED BY <1>1, <1>2, <2>1 DEF RunTargets, CountInv
<1>6. CountsFollowStreaks => CountsFollowStreaks'
  BY <1>1, <1>2, <1>3 DEF CountsFollowStreaks, RunCounts, Collected, Counting
<1>7. faults' = 0 => faults = 0
  BY <1>1, BoundsAssumption DEF TypeInv, Shape
<1> QED BY <1>4, <1>5, <1>6, <1>7 DEF CountInv
-----------------------------------------------------------------------------
LEMMA ReviewedNext ==
    IInv /\ ReviewInv /\ CountInv /\ OneReviewAtATime /\ [Next]_vars => ReviewInv' /\ CountInv'
<1> SUFFICES ASSUME IInv, ReviewInv, CountInv, OneReviewAtATime, [Next]_vars
             PROVE  ReviewInv' /\ CountInv'
  OBVIOUS
<1>0. TypeInv /\ RunInv /\ OneAssetPerDevice
  BY DEF IInv, ReviewInv
<1>1. CASE OtherStep
  BY <1>0, <1>1, OtherWrites, ReviewKept, OtherCounts
<1>2. ASSUME NEW r \in Runners, RunStep(r) PROVE ReviewInv' /\ CountInv'
  BY <1>0, <1>2, RunWrites, ReviewKept, RunStepCounts
<1>3. ASSUME NEW v \in Reviewers, ReviewStep(v) PROVE ReviewInv' /\ CountInv'
  BY <1>0, <1>3, ReviewNext, ReviewCounts
<1>4. CASE UNCHANGED vars
  <2>1. ReviewInv'
    BY <1>0, <1>4, ReviewKept DEF vars
  <2>2. CountInv'
    BY <1>4 DEF vars, CountInv, KnownIsMatched, RunTargets, CountsFollowStreaks, RunCounts,
       KnownAssets, Collected, Counting, Missed
  <2> QED BY <2>1, <2>2
<1> QED BY <1>1, <1>2, <1>3, <1>4 DEF Next, OtherStep

LEMMA ReviewedInvariance == Spec /\ []OneReviewAtATime => [](ReviewInv /\ CountInv)
<1>1. Init => ReviewInv /\ CountInv
  BY InitReview, InitCount
<1> QED BY <1>1, ReviewedNext, Invariance, PTL DEF Spec

\* As long as no two reviews overlap, runs that start, fail and are cut off
\* and reviewers in any number leave no two assets for one device.
THEOREM OneAssetTheorem == Spec /\ []OneReviewAtATime => []OneAssetPerDevice
<1>1. ReviewInv => OneAssetPerDevice
  BY DEF ReviewInv
<1> QED BY <1>1, ReviewedInvariance, PTL

\* As long as no two reviews overlap, a verdict stays: neither a run nor a
\* later review changes a candidate that has one.
THEOREM VerdictTheorem == Spec /\ []OneReviewAtATime => ReviewIsFinal
<1> DEFINE Final == \A c \in CandIds : cands[c].status \in {"created", "merged", "rejected"}
                                         => cands'[c] = cands[c]
<1>1. IInv /\ ReviewInv /\ [Next]_vars => [Final]_vars
  <2> SUFFICES ASSUME IInv, ReviewInv, [Next]_vars PROVE Final
    OBVIOUS
  <2>0. TypeInv /\ cands \in [CandIds -> Candidate]
    BY DEF IInv, TypeInv, Shape
  <2>1. CASE OtherStep
    BY <2>1, OtherWrites
  <2>2. ASSUME NEW r \in Runners, RunStep(r) PROVE Final
    BY <2>0, <2>2, RunWrites
  <2>3. ASSUME NEW v \in Reviewers, ReviewStep(v) PROVE Final
    <3>1. CASE CloseCandidate(v)
      <4>1. cands[review[v].cand].status = "pending"
        BY <3>1 DEF CloseCandidate, ReviewInv, ReviewedIsPending
      <4> QED BY <2>0, <3>1, <4>1 DEF CloseCandidate
    <3>2. ASSUME NEW c \in CandIds, ReadCandidate(v, c) PROVE UNCHANGED cands
      BY <3>2 DEF ReadCandidate
    <3>3. ASSUME NEW a \in AssetIds, DecideMerge(v, a) PROVE UNCHANGED cands
      BY <3>3 DEF DecideMerge
    <3>4. CASE DecideCreate(v) \/ DecideReject(v) \/ Refuse(v)
      BY <3>4 DEF DecideCreate, DecideReject, Refuse
    <3>5. CASE CreateAsset(v) \/ MergeAsset(v) \/ ReviewAborts(v)
      BY <3>5 DEF CreateAsset, MergeAsset, ReviewAborts
    <3> QED BY <2>3, <3>1, <3>2, <3>3, <3>4, <3>5 DEF ReviewStep
  <2>4. CASE UNCHANGED vars
    BY <2>4 DEF vars
  <2> QED BY <2>1, <2>2, <2>3, <2>4 DEF Next, OtherStep
<1>2. Spec /\ []OneReviewAtATime => [][Final]_vars
  <2> HIDE DEF Final
  <2> QED BY <1>1, ReviewedInvariance, Invariance, PTL DEF Spec
<1> QED BY <1>2 DEF ReviewIsFinal

\* As long as no two reviews overlap and nothing failed, an asset is reported
\* as offboarded only after its device was missing from Threshold collections
\* in a row, however runs and reviews interleave.
THEOREM OffboardTheorem == Spec /\ []OneReviewAtATime => OffboardIsJustified
<1> DEFINE Justified == \A a \in AssetIds :
             told'[a] > told[a] /\ faults = 0 => streak[assets[a].ident] >= Threshold
<1>1. IInv /\ CountInv /\ [Next]_vars => [Justified]_vars
  <2> SUFFICES ASSUME IInv, CountInv, [Next]_vars PROVE Justified
    OBVIOUS
  <2>0. TypeInv /\ told \in [AssetIds -> Nat]
    BY DEF IInv, TypeInv, Shape
  <2>1. ASSUME UNCHANGED told PROVE Justified
    BY <2>0, <2>1
  <2>2. CASE OtherStep
    BY <2>1, <2>2, OtherWrites
  <2>3. ASSUME NEW r \in Runners, NEW a \in AssetIds, EmitMissing(r, a) PROVE Justified
    <3>1. told' = [told EXCEPT ![a] = told[a] + 1] /\ run[r].pc = "missing" /\ a \in run[r].left
          /\ NextMissed(a) >= Threshold
      BY <2>3 DEF EmitMissing, Offboards
    <3>2. a \in KnownAssets
      BY <3>1 DEF CountInv, RunTargets
    <3>3. assets[a].ident \in Devices
      BY <3>2 DEF CountInv, KnownIsMatched
    <3>4. streak[assets[a].ident] \in 0..Threshold /\ tracked[a].missed \in 0..MissedLimit
      BY <2>0, <3>3 DEF TypeInv, Shape, Tracked
    <3>5. tracked[a].missed + 1 >= Threshold
      <4>1. NextMissed(a) = IF tracked[a].missed = MissedLimit THEN MissedLimit
                                                               ELSE tracked[a].missed + 1
        BY <3>4, SaturationStep, ThresholdAssumption DEF NextMissed
      <4> QED BY <3>1, <3>4, <4>1, ThresholdAssumption
    <3>6. faults = 0 => Missed(a, 1)
      BY <3>1, <3>2 DEF CountInv, CountsFollowStreaks, RunCounts, Counting
    <3>7. faults = 0 => streak[assets[a].ident] >= Threshold
      BY <3>4, <3>5, <3>6, ThresholdAssumption DEF Missed
    <3>8. \A b \in AssetIds \ {a} : told'[b] = told[b] /\ told[b] \in Nat
      BY <2>0, <3>1
    <3> QED BY <3>7, <3>8
  <2>4. ASSUME NEW r \in Runners, ApplyMatch(r) PROVE Justified
    <3>1. \A a \in AssetIds : told'[a] \in {0, told[a]}
      BY <2>0, <2>4 DEF ApplyMatch
    <3> QED BY <2>0, <3>1
  <2>5. ASSUME NEW r \in Runners, RunStep(r) PROVE Justified
    <3>1. CASE MarkRunning(r) \/ Collect(r) \/ QueueCandidate(r)
      BY <2>1, <3>1 DEF MarkRunning, Collect, QueueCandidate
    <3>2. CASE LoadStates(r) \/ FlagMissing(r) \/ Finish(r)
      BY <2>1, <3>2 DEF LoadStates, FlagMissing, Finish
    <3>3. CASE ReadItem(r)
      BY <2>0, <2>1, <3>3, ReadItemEffect
    <3>4. ASSUME NEW a \in AssetIds, CountMissing(r, a) PROVE Justified
      BY <2>1, <3>4 DEF CountMissing
    <3> QED BY <2>3, <2>4, <2>5, <3>1, <3>2, <3>3, <3>4 DEF RunStep
  <2>6. ASSUME NEW v \in Reviewers, ReviewStep(v) PROVE Justified
    BY <2>0, <2>1, <2>6, ReviewKeepsIdents DEF runVars
  <2>7. CASE UNCHANGED vars
    BY <2>1, <2>7 DEF vars
  <2> QED BY <2>2, <2>5, <2>6, <2>7 DEF Next, OtherStep
<1>2. Spec /\ []OneReviewAtATime => [][Justified]_vars
  <2> HIDE DEF Justified
  <2> QED BY <1>1, ReviewedInvariance, Invariance, PTL DEF Spec
<1> QED BY <1>2 DEF OffboardIsJustified
-----------------------------------------------------------------------------
(* Relations: what is below an asset *)

\* The children of a node and of what is below it are below it.
LEMMA BelowClosed ==
    ASSUME NEW n, NEW edges, NEW g \in edges, g.dst \in Nodes,
           g.src = n \/ g.src \in Relating!Below(n, edges)
    PROVE  g.dst \in Relating!Below(n, edges)
<1> DEFINE Children(S) == {r.dst : r \in {r \in edges : r.src \in S}}
<1>1. ASSUME NEW S \in SUBSET Nodes, Children({n} \cup S) \subseteq S
      PROVE  g.dst \in S
  <2>1. g.src \in {n} \cup S
    BY <1>1 DEF Relating!Below
  <2>2. g.dst \in Children({n} \cup S)
    BY <2>1
  <2> QED BY <1>1, <2>2
<1> QED BY <1>1 DEF Relating!Below

\* Nothing else is.
LEMMA BelowLeast ==
    ASSUME NEW n, NEW edges, NEW S \in SUBSET Nodes,
           \A g \in edges : g.src = n \/ g.src \in S => g.dst \in S
    PROVE  Relating!Below(n, edges) \subseteq S
<1> DEFINE Children(T) == {r.dst : r \in {r \in edges : r.src \in T}}
<1>1. Children({n} \cup S) \subseteq S
  OBVIOUS
<1> QED BY <1>1 DEF Relating!Below

LEMMA BelowIn == \A n, edges : Relating!Below(n, edges) \subseteq Nodes
BY DEF Relating!Below

\* Relations between the assets.
Between(edges) == \A g \in edges : g.dst \in Nodes

LEMMA BelowBelow ==
    ASSUME NEW edges, Between(edges), NEW n, NEW m,
           m = n \/ m \in Relating!Below(n, edges)
    PROVE  Relating!Below(m, edges) \subseteq Relating!Below(n, edges)
<1>1. ASSUME NEW g \in edges, g.src = m \/ g.src \in Relating!Below(n, edges)
      PROVE  g.dst \in Relating!Below(n, edges)
  BY <1>1, BelowClosed DEF Between
<1>2. Relating!Below(n, edges) \in SUBSET Nodes
  BY BelowIn
<1> QED BY <1>1, <1>2, BelowLeast

LEMMA BelowFewer ==
    ASSUME NEW edges, Between(edges), NEW fewer \in SUBSET edges, NEW n
    PROVE  Relating!Below(n, fewer) \subseteq Relating!Below(n, edges)
<1>1. ASSUME NEW g \in fewer, g.src = n \/ g.src \in Relating!Below(n, edges)
      PROVE  g.dst \in Relating!Below(n, edges)
  BY <1>1, BelowClosed DEF Between
<1>2. Relating!Below(n, edges) \in SUBSET Nodes
  BY BelowIn
<1> QED BY <1>1, <1>2, BelowLeast

\* On a circle through e there is a relation which e did not see, if without
\* e and the relations it did not see there is no way back from e.
LEMMA CircleUnseen ==
    ASSUME NEW H, Between(H), NEW seen \in SUBSET H, NEW top, NEW e \in H,
           e.src # e.dst, e.src \in Relating!Below(top, H), e.src \in Nodes,
           e.src \in Relating!Below(e.dst, H), e.src \notin Relating!Below(e.dst, seen)
    PROVE  \E f \in H : /\ f # e /\ f \notin seen
                        /\ f.src \in Relating!Below(f.dst, H)
                        /\ f.src \in Relating!Below(top, H)
<1> SUFFICES ASSUME \A f \in H : /\ f # e
                                 /\ f.src \in Relating!Below(f.dst, H)
                                 /\ f.src \in Relating!Below(top, H)
                                 => f \in seen
             PROVE  FALSE
  OBVIOUS
<1> DEFINE Back(n) == n = e.src \/ e.src \in Relating!Below(n, H)
           First == {n \in Nodes : n = e.dst \/ n \in Relating!Below(e.dst, seen)}
           S == First \cup {n \in Nodes : ~Back(n)}
<1>1. e.dst \in Nodes /\ Between(seen)
  BY DEF Between
<1>2. e.src \notin First
  OBVIOUS
<1>3. ASSUME NEW g \in H, g.src = e.dst \/ g.src \in S
      PROVE  g.dst \in S
  <2>1. g.dst \in Nodes
    BY DEF Between
  <2>2. CASE ~Back(g.dst)
    BY <2>1, <2>2
  <2>3. CASE Back(g.dst)
    <3>1. Back(g.src)
      <4>1. g.dst \in Relating!Below(g.src, H)
        BY <2>1, BelowClosed
      <4>2. Relating!Below(g.dst, H) \subseteq Relating!Below(g.src, H)
        BY <4>1, BelowBelow
      <4> QED BY <2>3, <4>1, <4>2
    <3>2. g.src = e.dst \/ g.src \in First
      BY <1>3, <3>1
    <3>3. g.src = e.dst \/ g.src \in Relating!Below(e.dst, seen)
      BY <3>2
    <3>4. g.src = e.dst \/ g.src \in Relating!Below(e.dst, H)
      BY <3>3, BelowFewer
    <3>5. g # e
      BY <3>3
    <3>6. e.dst \in Relating!Below(g.dst, H)
      BY <1>1, <2>3, BelowClosed
    <3>7. g.src \in Relating!Below(g.dst, H)
      <4>1. Relating!Below(e.dst, H) \subseteq Relating!Below(g.dst, H)
        BY <3>6, BelowBelow
      <4> QED BY <3>4, <3>6, <4>1
    <3>8. g.src \in Relating!Below(top, H)
      <4>1. e.dst \in Relating!Below(top, H)
        BY <1>1, BelowClosed
      <4>2. Relating!Below(e.dst, H) \subseteq Relating!Below(top, H)
        BY <4>1, BelowBelow
      <4> QED BY <3>4, <4>1, <4>2
    <3>9. g \in seen
      BY <3>5, <3>7, <3>8
    <3>10. g.dst \in Relating!Below(e.dst, seen)
      BY <2>1, <3>3, <3>9, BelowClosed
    <3> QED BY <2>1, <3>10
  <2> QED BY <2>2, <2>3
<1>4. S \in SUBSET Nodes
  OBVIOUS
<1>5. Relating!Below(e.dst, H) \subseteq S
  <2> HIDE DEF S
  <2> QED BY <1>3, <1>4, BelowLeast
<1>6. e.src \in S
  BY <1>5
<1> QED BY <1>2, <1>6
-----------------------------------------------------------------------------
(* The invariant of the relations *)

RelationRow == [id : Nat, src : Nodes, dst : Nodes, type : RelationTypes, saw : SUBSET Nat]

RelationCall == {Relating!Idle} \cup
    [pc : {"parent", "cycle", "insert"}, src : Nodes, dst : Nodes, type : RelationTypes,
     saw : SUBSET Nat]

\* Of the hierarchy, what is in `saw`.
SeenBy(saw) == {g \in Relating!Hierarchy : g.id \in saw}

\* Ids come from a sequence, and a row has seen ids that were drawn before.
RowsDrawn ==
    /\ lastId \in Nat
    /\ \A r \in relations :
         /\ r \in RelationRow /\ r.id \in 1..lastId
         /\ \A i \in r.saw : i < r.id
         /\ r.type = "contains" => r.src # r.dst
    /\ \A r, s \in relations : r.id = s.id => r = s

\* An asset has one parent.
OneParent == \A r, s \in Relating!Hierarchy : r.dst = s.dst => r.src = s.src

\* What a relation saw does not lead back from its child to its parent.
NoWayBack == \A r \in Relating!Hierarchy : r.src \notin Relating!Below(r.dst, SeenBy(r.saw))

CallsLooked ==
    \A c \in Requests :
        /\ calls[c] \in RelationCall
        /\ calls[c] # Relating!Idle =>
             /\ \A i \in calls[c].saw : i <= lastId
             /\ calls[c].type = "contains" => calls[c].src # calls[c].dst
             /\ calls[c].type = "contains" /\ calls[c].pc = "insert" =>
                  calls[c].src \notin Relating!Below(calls[c].dst, SeenBy(calls[c].saw))

RelateInv == RowsDrawn /\ OneParent /\ NoWayBack /\ CallsLooked /\ DOMAIN calls = Requests

LEMMA Relate0 == Relating!Init => RelateInv
<1> SUFFICES ASSUME Relating!Init PROVE RelateInv
  OBVIOUS
<1>1. relations = {} /\ lastId = 0 /\ calls = [c \in Requests |-> Relating!Idle]
  BY DEF Relating!Init
<1>2. Relating!Hierarchy = {}
  BY <1>1 DEF Relating!Hierarchy
<1> QED BY <1>1, <1>2 DEF RelateInv, RowsDrawn, OneParent, NoWayBack, CallsLooked, RelationCall

LEMMA HierarchyBetween ==
    ASSUME RowsDrawn
    PROVE  /\ Between(Relating!Hierarchy)
           /\ \A saw : Between(SeenBy(saw)) /\ SeenBy(saw) \subseteq Relating!Hierarchy
           /\ \A r \in Relating!Hierarchy : r \in relations /\ r.type = "contains"
BY DEF RowsDrawn, Between, SeenBy, Relating!Hierarchy, RelationRow

\* What has been seen becomes less, as relations go.
LEMMA SeenShrinks ==
    ASSUME RowsDrawn, NEW saw,
           \A r \in relations' : r \in relations \/ r.id \notin saw
    PROVE  \A n : Relating!Below(n, SeenBy(saw))' \subseteq Relating!Below(n, SeenBy(saw))
<1>1. SeenBy(saw)' \subseteq SeenBy(saw)
  BY DEF SeenBy, Relating!Hierarchy
<1>2. PICK fewer, edges : fewer = SeenBy(saw)' /\ edges = SeenBy(saw)
  OBVIOUS
<1>3. \A n : Relating!Below(n, fewer) \subseteq Relating!Below(n, edges)
  BY <1>1, <1>2, HierarchyBetween, BelowFewer
<1>4. ASSUME NEW n
      PROVE  Relating!Below(n, SeenBy(saw))' = Relating!Below(n, SeenBy(saw)')
  BY DEF Relating!Below
<1> QED BY <1>2, <1>3, <1>4

\* Steps that leave the rows.
LEMMA LookKeeps ==
    ASSUME RelateInv, UNCHANGED <<relations, lastId>>, NEW c \in Requests, NEW call \in RelationCall,
           calls' = [calls EXCEPT ![c] = call],
           call # Relating!Idle =>
             /\ \A i \in call.saw : i <= lastId
             /\ call.type = "contains" => call.src # call.dst
             /\ call.type = "contains" /\ call.pc = "insert" =>
                  call.src \notin Relating!Below(call.dst, SeenBy(call.saw))
    PROVE  RelateInv'
<1>1. RowsDrawn' /\ OneParent' /\ NoWayBack'
  BY DEF RelateInv, RowsDrawn, OneParent, NoWayBack, SeenBy, Relating!Hierarchy, Relating!Below
<1>2. \A saw, n : Relating!Below(n, SeenBy(saw))' = Relating!Below(n, SeenBy(saw))
  BY DEF SeenBy, Relating!Hierarchy, Relating!Below
<1>3. DOMAIN calls' = Requests /\ \A d \in Requests : calls'[d] = IF d = c THEN call ELSE calls[d]
  BY DEF RelateInv
<1>4. ASSUME NEW d \in Requests
      PROVE  /\ calls'[d] \in RelationCall
             /\ calls'[d] # Relating!Idle =>
                  /\ \A i \in calls'[d].saw : i <= lastId'
                  /\ calls'[d].type = "contains" => calls'[d].src # calls'[d].dst
                  /\ calls'[d].type = "contains" /\ calls'[d].pc = "insert" =>
                       calls'[d].src \notin Relating!Below(calls[d].dst, SeenBy(calls[d].saw))'
  <2>1. CASE d = c
    <3>1. calls'[d] = call
      BY <1>3, <2>1
    <3> QED BY <1>2, <1>3, <2>1, <3>1
  <2>2. CASE d # c
    <3>1. calls'[d] = calls[d]
      BY <1>3, <2>2
    <3> QED BY <1>2, <3>1 DEF RelateInv, CallsLooked
  <2> QED BY <2>1, <2>2
<1> QED BY <1>1, <1>3, <1>4 DEF RelateInv, CallsLooked

LEMMA RelateKept == ASSUME RelateInv, UNCHANGED <<relations, lastId, calls>> PROVE RelateInv'
<1>1. RowsDrawn' /\ OneParent' /\ NoWayBack' /\ DOMAIN calls' = Requests
  BY DEF RelateInv, RowsDrawn, OneParent, NoWayBack, SeenBy, Relating!Hierarchy, Relating!Below
<1>2. CallsLooked'
  BY DEF RelateInv, CallsLooked, SeenBy, Relating!Hierarchy, Relating!Below
<1> QED BY <1>1, <1>2 DEF RelateInv

\* What a relation or a request has seen does not come back.
LEMMA StaysUnseen ==
    ASSUME RelateInv, \A r \in relations' : r \in relations \/ r.id > lastId
    PROVE  /\ \A s \in relations : s.type = "contains" =>
                s.src \notin Relating!Below(s.dst, SeenBy(s.saw))'
           /\ \A c \in Requests, k \in RelationCall :
                k = calls[c] /\ k # Relating!Idle /\ k.type = "contains" /\ k.pc = "insert" =>
                  k.src \notin Relating!Below(k.dst, SeenBy(k.saw))'
<1>1. ASSUME NEW saw \in SUBSET Nat, \A i \in saw : i <= lastId
      PROVE  \A n : Relating!Below(n, SeenBy(saw))' \subseteq Relating!Below(n, SeenBy(saw))
  <2>1. ASSUME NEW r \in relations', r.id \in saw PROVE r \in relations
    <3>1. r.id \in Nat /\ r.id <= lastId
      BY <1>1, <2>1
    <3>2. lastId \in Nat
      BY DEF RelateInv, RowsDrawn
    <3>3. ~(r.id > lastId)
      BY <3>1, <3>2
    <3> QED BY <3>3, <2>1
  <2> QED BY <2>1, SeenShrinks DEF RelateInv
<1>2. ASSUME NEW s \in relations, s.type = "contains"
      PROVE  s.src \notin Relating!Below(s.dst, SeenBy(s.saw))'
  <2>1. s.saw \in SUBSET Nat /\ \A i \in s.saw : i <= lastId
    BY <1>2 DEF RelateInv, RowsDrawn, RelationRow
  <2>2. s \in Relating!Hierarchy
    BY <1>2 DEF Relating!Hierarchy
  <2>3. s.src \notin Relating!Below(s.dst, SeenBy(s.saw))
    BY <2>2 DEF RelateInv, NoWayBack
  <2> QED BY <1>1, <2>1, <2>3
<1>3. ASSUME NEW c \in Requests, NEW k \in RelationCall, k = calls[c], k # Relating!Idle,
             k.type = "contains", k.pc = "insert"
      PROVE  k.src \notin Relating!Below(k.dst, SeenBy(k.saw))'
  <2>1. k.saw \in SUBSET Nat /\ \A i \in k.saw : i <= lastId
    BY <1>3 DEF RelateInv, CallsLooked, RelationCall
  <2>2. k.src \notin Relating!Below(k.dst, SeenBy(k.saw))
    BY <1>3 DEF RelateInv, CallsLooked
  <2> QED BY <1>1, <2>1, <2>2
<1> QED BY <1>2, <1>3

LEMMA DeleteKeeps == ASSUME RelateInv, Relating!Delete PROVE RelateInv'
<1>1. relations' \subseteq relations /\ UNCHANGED <<lastId, calls>>
  BY DEF Relating!Delete
<1>2. RowsDrawn'
  BY <1>1 DEF RelateInv, RowsDrawn
<1>3. OneParent'
  BY <1>1 DEF RelateInv, OneParent, Relating!Hierarchy
<1>4. NoWayBack'
  <2>1. ASSUME NEW r \in Relating!Hierarchy'
        PROVE  r.src \notin Relating!Below(r.dst, SeenBy(r.saw))'
    <3>1. r \in relations /\ r.type = "contains"
      BY <1>1, <2>1 DEF Relating!Hierarchy
    <3> QED BY <1>1, <3>1, StaysUnseen
  <2> QED BY <2>1 DEF NoWayBack
<1>5. CallsLooked'
  <2>1. ASSUME NEW c \in Requests, NEW k, k = calls[c]
        PROVE  /\ k \in RelationCall
               /\ k # Relating!Idle =>
                    /\ \A i \in k.saw : i <= lastId
                    /\ k.type = "contains" => k.src # k.dst
                    /\ k.type = "contains" /\ k.pc = "insert" =>
                         k.src \notin Relating!Below(k.dst, SeenBy(k.saw))'
    <3>1. k \in RelationCall
      BY <2>1 DEF RelateInv, CallsLooked
    <3> QED BY <1>1, <2>1, <3>1, StaysUnseen DEF RelateInv, CallsLooked
  <2>2. calls' = calls /\ lastId' = lastId
    BY <1>1
  <2> QED BY <2>1, <2>2 DEF CallsLooked
<1> QED BY <1>1, <1>2, <1>3, <1>4, <1>5 DEF RelateInv

LEMMA InsertKeeps == ASSUME RelateInv, NEW c \in Requests, Relating!Insert(c) PROVE RelateInv'
<1> DEFINE row == [id |-> lastId + 1, src |-> calls[c].src, dst |-> calls[c].dst,
                   type |-> calls[c].type, saw |-> calls[c].saw]
<1>1. /\ calls[c].pc = "insert" /\ Relating!Free(calls[c].src, calls[c].dst, calls[c].type)
      /\ lastId' = lastId + 1 /\ relations' = relations \cup {row}
      /\ calls' = [calls EXCEPT ![c] = Relating!Idle]
  BY DEF Relating!Insert
<1>2. calls[c] # Relating!Idle
  BY <1>1 DEF Relating!Idle
<1>3. /\ calls[c].src \in Nodes /\ calls[c].dst \in Nodes /\ calls[c].type \in RelationTypes
      /\ calls[c].saw \in SUBSET Nat /\ \A i \in calls[c].saw : i <= lastId
      /\ calls[c].type = "contains" => calls[c].src # calls[c].dst
      /\ lastId \in Nat
  BY <1>2 DEF RelateInv, CallsLooked, RelationCall, RowsDrawn
<1>4. PICK new : new = row
  OBVIOUS
<1>5. /\ new.id = lastId + 1 /\ new.src = calls[c].src /\ new.dst = calls[c].dst
      /\ new.type = calls[c].type /\ new.saw = calls[c].saw /\ relations' = relations \cup {new}
  BY <1>1, <1>4
<1>6. new \in RelationRow
  BY <1>3, <1>4 DEF RelationRow
<1>7. RowsDrawn'
  BY <1>1, <1>3, <1>5, <1>6 DEF RelateInv, RowsDrawn
<1>8. OneParent'
  <2>1. new.type = "contains" => \A r \in Relating!Hierarchy : r.dst # new.dst
    BY <1>1, <1>5 DEF Relating!Free, Relating!ParentsOf
  <2> QED BY <1>5, <2>1 DEF RelateInv, OneParent, Relating!Hierarchy
<1>9. \A r \in relations' : r \in relations \/ r.id > lastId
  BY <1>3, <1>5
<1>10. NoWayBack'
  <2>1. ASSUME NEW r \in Relating!Hierarchy'
        PROVE  r.src \notin Relating!Below(r.dst, SeenBy(r.saw))'
    <3>1. r.type = "contains" /\ (r \in relations \/ r = new)
      BY <1>5, <2>1 DEF Relating!Hierarchy
    <3>2. CASE r \in relations
      BY <1>9, <3>1, <3>2, StaysUnseen
    <3>3. CASE r = new
      <4>1. calls[c].src \notin Relating!Below(calls[c].dst, SeenBy(calls[c].saw))
        BY <1>1, <1>2, <1>5, <3>1, <3>3 DEF RelateInv, CallsLooked
      <4>2. Relating!Below(new.dst, SeenBy(new.saw))' \subseteq Relating!Below(new.dst, SeenBy(new.saw))
        <5>1. \A s \in relations' : s \in relations \/ s.id \notin new.saw
          BY <1>3, <1>5
        <5> QED BY <5>1, SeenShrinks DEF RelateInv
      <4> QED BY <1>5, <3>3, <4>1, <4>2
    <3> QED BY <3>1, <3>2, <3>3
  <2> QED BY <2>1 DEF NoWayBack
<1>11. CallsLooked'
  <2>1. ASSUME NEW d \in Requests
        PROVE  /\ calls'[d] \in RelationCall
               /\ calls'[d] # Relating!Idle =>
                    /\ \A i \in calls'[d].saw : i <= lastId'
                    /\ calls'[d].type = "contains" => calls'[d].src # calls'[d].dst
                    /\ calls'[d].type = "contains" /\ calls'[d].pc = "insert" =>
                         (calls[d].src \notin Relating!Below(calls[d].dst, SeenBy(calls[d].saw)))'
    <3>1. CASE d = c
      <4>1. calls'[d] = Relating!Idle
        BY <1>1, <3>1 DEF RelateInv
      <4> QED BY <4>1 DEF RelationCall
    <3>2. CASE d # c
      <4>1. calls'[d] = calls[d]
        BY <1>1, <3>2 DEF RelateInv
      <4>2. calls[d] # Relating!Idle /\ calls[d].type = "contains" /\ calls[d].pc = "insert" =>
             (calls[d].src \notin Relating!Below(calls[d].dst, SeenBy(calls[d].saw)))'
        <5>1. PICK k : k = calls[d]
          OBVIOUS
        <5>2. k \in RelationCall
          BY <5>1 DEF RelateInv, CallsLooked
        <5>3. k # Relating!Idle /\ k.type = "contains" /\ k.pc = "insert" =>
                k.src \notin Relating!Below(k.dst, SeenBy(k.saw))'
          BY <1>9, <5>1, <5>2, StaysUnseen
        <5> QED BY <4>1, <5>1, <5>3
      <4>3. lastId' >= lastId /\ lastId \in Nat
        BY <1>1, <1>3
      <4>4. ASSUME calls[d] # Relating!Idle, NEW i \in calls[d].saw PROVE i <= lastId'
        <5>1. i \in Nat /\ i <= lastId
          BY <4>4 DEF RelateInv, CallsLooked, RelationCall
        <5> QED BY <1>1, <4>3, <5>1
      <4> QED BY <4>1, <4>2, <4>4 DEF RelateInv, CallsLooked
    <3> QED BY <3>1, <3>2
  <2> QED BY <2>1 DEF CallsLooked
<1> QED BY <1>1, <1>7, <1>8, <1>10, <1>11 DEF RelateInv

LEMMA RelateNext == ASSUME RelateInv, Relating!Next PROVE RelateInv'
<1>1. ASSUME NEW c \in Requests, Relating!BeginCreate(c) PROVE RelateInv'
  <2>1. PICK src \in Nodes, dst \in Nodes, type \in RelationTypes :
          /\ Relating!LoopAllowed(src, dst, type)
          /\ calls' = [calls EXCEPT ![c] =
               [pc |-> IF type = "contains" THEN "parent" ELSE "insert",
                src |-> src, dst |-> dst, type |-> type, saw |-> {}]]
    BY <1>1 DEF Relating!BeginCreate
  <2>2. UNCHANGED <<relations, lastId>>
    BY <1>1 DEF Relating!BeginCreate
  <2>3. PICK call : call = [pc |-> IF type = "contains" THEN "parent" ELSE "insert",
                            src |-> src, dst |-> dst, type |-> type, saw |-> {}]
    OBVIOUS
  <2>4. /\ call \in RelationCall /\ call.saw = {}
        /\ call.type = "contains" => call.src # call.dst /\ call.pc # "insert"
    BY <2>1, <2>3 DEF RelationCall, Relating!LoopAllowed
  <2> QED BY <2>1, <2>2, <2>3, <2>4, LookKeeps
<1>2. ASSUME NEW c \in Requests, Relating!CheckParent(c) PROVE RelateInv'
  <2>1. /\ calls[c].pc = "parent" /\ calls' = [calls EXCEPT ![c].pc = "cycle"]
        /\ UNCHANGED <<relations, lastId>>
    BY <1>2 DEF Relating!CheckParent
  <2>2. calls[c] \in RelationCall /\ calls[c] # Relating!Idle
    BY <2>1 DEF RelateInv, CallsLooked, Relating!Idle
  <2>3. PICK call : call = [calls[c] EXCEPT !.pc = "cycle"]
    OBVIOUS
  <2>4. /\ call \in RelationCall /\ call.pc = "cycle" /\ calls' = [calls EXCEPT ![c] = call]
        /\ call.saw = calls[c].saw /\ call.src = calls[c].src /\ call.dst = calls[c].dst
        /\ call.type = calls[c].type
    BY <2>1, <2>2, <2>3 DEF RelationCall
  <2>5. /\ \A i \in call.saw : i <= lastId
        /\ call.type = "contains" => call.src # call.dst
    BY <2>2, <2>4 DEF RelateInv, CallsLooked
  <2> QED BY <2>1, <2>4, <2>5, LookKeeps
<1>3. ASSUME NEW c \in Requests, Relating!CheckCycle(c) PROVE RelateInv'
  <2>1. /\ calls[c].pc = "cycle" /\ ~Relating!CreatesCycle(calls[c].src, calls[c].dst)
        /\ calls' = [calls EXCEPT ![c].pc = "insert",
                                  ![c].saw = {r.id : r \in Relating!Hierarchy}]
        /\ UNCHANGED <<relations, lastId>>
    BY <1>3 DEF Relating!CheckCycle
  <2>2. calls[c] \in RelationCall /\ calls[c] # Relating!Idle
    BY <2>1 DEF RelateInv, CallsLooked, Relating!Idle
  <2>3. PICK seen : seen = {r.id : r \in Relating!Hierarchy}
    OBVIOUS
  <2>4. \A i \in seen : i \in Nat /\ i <= lastId
    BY <2>3, HierarchyBetween DEF RelateInv, RowsDrawn
  <2>5. PICK call : call = [calls[c] EXCEPT !.pc = "insert", !.saw = seen]
    OBVIOUS
  <2>6. /\ call \in RelationCall /\ calls' = [calls EXCEPT ![c] = call]
        /\ call.saw = seen /\ call.src = calls[c].src /\ call.dst = calls[c].dst
        /\ call.type = calls[c].type
    BY <2>1, <2>2, <2>3, <2>4, <2>5 DEF RelationCall
  <2>7. SeenBy(seen) = Relating!Hierarchy
    BY <2>3 DEF SeenBy
  <2>8. call.src \notin Relating!Below(call.dst, SeenBy(call.saw))
    BY <2>1, <2>6, <2>7 DEF Relating!CreatesCycle
  <2>9. call.type = "contains" => call.src # call.dst
    BY <2>2, <2>6 DEF RelateInv, CallsLooked
  <2> QED BY <2>1, <2>4, <2>6, <2>8, <2>9, LookKeeps
<1>4. ASSUME NEW c \in Requests, Relating!Refuse(c) PROVE RelateInv'
  <2>1. calls' = [calls EXCEPT ![c] = Relating!Idle] /\ UNCHANGED <<relations, lastId>>
    BY <1>4 DEF Relating!Refuse
  <2>2. Relating!Idle \in RelationCall
    BY DEF RelationCall
  <2> QED BY <2>1, <2>2, LookKeeps
<1> QED BY <1>1, <1>2, <1>3, <1>4, InsertKeeps, DeleteKeeps DEF Relating!Next
-----------------------------------------------------------------------------
(* The hierarchy *)

\* The last of some relations by their ids.
LEMMA LastById ==
    ASSUME NEW C, C # {}, NEW n \in Nat, \A r \in C : r.id \in 1..n
    PROVE  \E e \in C : \A f \in C : f.id <= e.id
<1> DEFINE S == {i \in Nat : \E r \in C : r.id = n - i}
<1>1. S \subseteq Nat /\ S # {}
  <2>1. PICK r \in C : TRUE
    OBVIOUS
  <2>2. n - r.id \in Nat /\ r.id = n - (n - r.id)
    OBVIOUS
  <2> QED BY <2>2
<1>2. PICK i \in S : \A j \in S : <<j, i>> \notin OpToRel(<, Nat)
  <2> HIDE DEF S
  <2> QED BY <1>1, NatLessThanWellFounded, WFMin
<1>3. PICK e \in C : e.id = n - i
  OBVIOUS
<1>4. ASSUME NEW f \in C PROVE f.id <= e.id
  <2>1. n - f.id \in S /\ n - f.id \in Nat /\ i \in Nat
    <3>1. n - f.id \in Nat /\ f.id = n - (n - f.id)
      OBVIOUS
    <3> QED BY <3>1
  <2>2. ~(n - f.id < i)
    BY <1>2, <2>1 DEF OpToRel
  <2> QED BY <1>3, <2>1, <2>2
<1> QED BY <1>4

LEMMA ForestHolds == ASSUME RelateInv PROVE Relating!HierarchyIsForest
<1> DEFINE H == Relating!Hierarchy
<1>0. RowsDrawn
  BY DEF RelateInv
<1>1. \A n \in Nodes : \A p, q \in Relating!ParentsOf(n) : p = q
  BY DEF RelateInv, OneParent, Relating!ParentsOf
<1>2. ASSUME NEW r \in Relating!OnCycle
      PROVE  \E e, f \in {g \in Relating!OnCycle : g.src \in Relating!Below(r.dst, H)} :
               e.id \notin f.saw /\ f.id \notin e.saw /\ e # f
  <2>1. PICK C : C = {g \in Relating!OnCycle : g.src \in Relating!Below(r.dst, H)}
    OBVIOUS
  <2>2. \A g \in H : /\ g \in relations /\ g.src # g.dst /\ g.id \in 1..lastId /\ g.src \in Nodes
                     /\ g.saw \in SUBSET Nat /\ \A i \in g.saw : i < g.id
    BY <1>0, HierarchyBetween DEF RowsDrawn, RelationRow
  <2>3. \A g : g \in C <=> /\ g \in H /\ g.src \in Relating!Below(g.dst, H)
                           /\ g.src \in Relating!Below(r.dst, H)
    BY <2>1, <2>2 DEF Relating!OnCycle
  <2>4. r \in C
    BY <2>2, <2>3 DEF Relating!OnCycle
  <2>5. lastId \in Nat /\ \A g \in C : g.id \in 1..lastId
    BY <1>0, <2>2, <2>3 DEF RowsDrawn
  <2>6. PICK e \in C : \A f \in C : f.id <= e.id
    BY <2>4, <2>5, LastById
  <2>7. SeenBy(e.saw) \subseteq H /\ Between(H)
    BY <1>0, HierarchyBetween
  <2>8. e.src \notin Relating!Below(e.dst, SeenBy(e.saw))
    BY <2>3, <2>6 DEF RelateInv, NoWayBack
  <2>9. PICK f \in H : /\ f # e /\ f \notin SeenBy(e.saw)
                       /\ f.src \in Relating!Below(f.dst, H)
                       /\ f.src \in Relating!Below(r.dst, H)
    <3> HIDE DEF H
    <3> QED BY <2>2, <2>3, <2>6, <2>7, <2>8, CircleUnseen
  <2>10. f \in C /\ f.id \notin e.saw
    BY <2>3, <2>9 DEF SeenBy
  <2>11. e.id \notin f.saw
    BY <2>2, <2>3, <2>6, <2>10
  <2> QED BY <2>1, <2>6, <2>9, <2>10, <2>11
<1> QED BY <1>1, <1>2 DEF Relating!HierarchyIsForest
-----------------------------------------------------------------------------
(* The impact *)

Start(root) == [nodes |-> [n \in {root} |-> 0], edges |-> <<>>, frontier |-> {root}]

\* The rounds are what their recursion says.
LEMMA RoundsAre ==
    ASSUME NEW root, NEW limit \in Nat, NEW types, NEW dir
    PROVE  /\ Relating!Rounds(root, limit, types, dir)[0] = Start(root)
           /\ \A d \in 0..limit - 1 :
                Relating!Rounds(root, limit, types, dir)[d + 1]
                  = Relating!Round(Relating!Rounds(root, limit, types, dir)[d], d + 1, types, dir)
<1> DEFINE Is(f, l) == f = [d \in 0..l |-> IF d = 0 THEN Start(root)
                                           ELSE Relating!Round(f[d - 1], d, types, dir)]
           T == {l \in Nat : ~\E f : Is(f, l)}
<1>1. \E f : Is(f, limit)
  <2>1. SUFFICES ASSUME T # {} PROVE FALSE
    OBVIOUS
  <2>2. PICK l \in T : \A j \in T : <<j, l>> \notin OpToRel(<, Nat)
    <3>1. T \subseteq Nat
      OBVIOUS
    <3> HIDE DEF T
    <3> QED BY <2>1, <3>1, NatLessThanWellFounded, WFMin
  <2>3. l # 0
    <3>1. Is([d \in 0..0 |-> Start(root)], 0)
      OBVIOUS
    <3> QED BY <3>1
  <2>4. l - 1 \in Nat /\ l - 1 \notin T
    <3>1. l - 1 \in Nat /\ l - 1 < l
      BY <2>3
    <3> QED BY <2>2, <3>1 DEF OpToRel
  <2>5. PICK f : Is(f, l - 1)
    BY <2>4
  <2>6. PICK g : g = [d \in 0..l |-> IF d \in 0..l - 1 THEN f[d]
                                     ELSE Relating!Round(f[l - 1], l, types, dir)]
    OBVIOUS
  <2>7. ASSUME NEW d \in 0..l
        PROVE  g[d] = IF d = 0 THEN Start(root) ELSE Relating!Round(g[d - 1], d, types, dir)
    <3>1. CASE d = 0
      BY <2>3, <2>5, <2>6, <3>1
    <3>2. CASE d # 0 /\ d \in 0..l - 1
      <4>1. g[d] = f[d] /\ g[d - 1] = f[d - 1]
        BY <2>6, <3>2
      <4> QED BY <2>5, <3>2, <4>1
    <3>3. CASE d = l
      <4>1. g[d] = Relating!Round(f[l - 1], l, types, dir) /\ g[d - 1] = f[l - 1]
        BY <2>3, <2>4, <2>6, <3>3
      <4> QED BY <2>3, <3>3, <4>1
    <3> QED BY <3>1, <3>2, <3>3
  <2>8. Is(g, l)
    BY <2>6, <2>7
  <2> QED BY <2>8
<1>2. PICK F : F = Relating!Rounds(root, limit, types, dir)
  OBVIOUS
<1>3. Is(F, limit)
  BY <1>1, <1>2 DEF Relating!Rounds, Start
<1>4. F[0] = Start(root)
  BY <1>3
<1>5. ASSUME NEW d \in 0..limit - 1
      PROVE  F[d + 1] = Relating!Round(F[d], d + 1, types, dir)
  <2>1. d + 1 \in 0..limit /\ d + 1 # 0 /\ (d + 1) - 1 = d
    OBVIOUS
  <2> QED BY <1>3, <2>1
<1> QED BY <1>2, <1>4, <1>5

\* Where a walk of one more relation leads to.
OneFurther(nodes, types, dir) == {Relating!Target(r, dir) : r \in Relating!Leaving(nodes, types, dir)}

\* And so are the walks.
LEMMA WalksAre ==
    ASSUME NEW root, NEW limit \in Nat, NEW types, NEW dir
    PROVE  /\ Relating!Walks(root, limit, types, dir)[0] = {root}
           /\ \A d \in 0..limit - 1 :
                Relating!Walks(root, limit, types, dir)[d + 1]
                  = OneFurther(Relating!Walks(root, limit, types, dir)[d], types, dir)
<1> DEFINE Is(f, l) == f = [d \in 0..l |-> IF d = 0 THEN {root}
                                           ELSE OneFurther(f[d - 1], types, dir)]
           T == {l \in Nat : ~\E f : Is(f, l)}
<1>1. \E f : Is(f, limit)
  <2>1. SUFFICES ASSUME T # {} PROVE FALSE
    OBVIOUS
  <2>2. PICK l \in T : \A j \in T : <<j, l>> \notin OpToRel(<, Nat)
    <3>1. T \subseteq Nat
      OBVIOUS
    <3> HIDE DEF T
    <3> QED BY <2>1, <3>1, NatLessThanWellFounded, WFMin
  <2>3. l # 0
    <3>1. Is([d \in 0..0 |-> {root}], 0)
      OBVIOUS
    <3> QED BY <3>1
  <2>4. l - 1 \in Nat /\ l - 1 \notin T
    <3>1. l - 1 \in Nat /\ l - 1 < l
      BY <2>3
    <3> QED BY <2>2, <3>1 DEF OpToRel
  <2>5. PICK f : Is(f, l - 1)
    BY <2>4
  <2>6. PICK g : g = [d \in 0..l |-> IF d \in 0..l - 1 THEN f[d]
                                     ELSE OneFurther(f[l - 1], types, dir)]
    OBVIOUS
  <2>7. ASSUME NEW d \in 0..l
        PROVE  g[d] = IF d = 0 THEN {root} ELSE OneFurther(g[d - 1], types, dir)
    <3>1. CASE d = 0
      BY <2>3, <2>5, <2>6, <3>1
    <3>2. CASE d # 0 /\ d \in 0..l - 1
      <4>1. g[d] = f[d] /\ g[d - 1] = f[d - 1]
        BY <2>6, <3>2
      <4> QED BY <2>5, <3>2, <4>1
    <3>3. CASE d = l
      <4>1. g[d] = OneFurther(f[l - 1], types, dir) /\ g[d - 1] = f[l - 1]
        BY <2>3, <2>4, <2>6, <3>3
      <4> QED BY <2>3, <3>3, <4>1
    <3> QED BY <3>1, <3>2, <3>3
  <2>8. Is(g, l)
    BY <2>6, <2>7
  <2> QED BY <2>8
<1>2. PICK F : F = Relating!Walks(root, limit, types, dir)
  OBVIOUS
<1>3. Is(F, limit)
  BY <1>1, <1>2 DEF Relating!Walks, OneFurther
<1>4. F[0] = {root}
  BY <1>3
<1>5. ASSUME NEW d \in 0..limit - 1
      PROVE  F[d + 1] = OneFurther(F[d], types, dir)
  <2>1. d + 1 \in 0..limit /\ d + 1 # 0 /\ (d + 1) - 1 = d
    OBVIOUS
  <2> QED BY <1>3, <2>1
<1> QED BY <1>2, <1>4, <1>5

\* What `found` says after d rounds of the walks `at`: every node that a walk
\* of d relations or fewer leads to, at the least number; and their relations.
FoundWithin(found, at, d, types, dir) ==
    /\ DOMAIN found.nodes = {n \in Nodes : \E k \in 0..d : n \in at[k]}
    /\ \A n \in DOMAIN found.nodes :
         /\ found.nodes[n] \in 0..d /\ n \in at[found.nodes[n]]
         /\ \A k \in 0..d : n \in at[k] => found.nodes[n] <= k
    /\ found.frontier = {n \in DOMAIN found.nodes : found.nodes[n] = d}
    /\ DOMAIN found.edges =
         {<<r.id, dir>> : r \in {r \in relations :
             r.type \in types /\ \E k \in 0..d - 1 : Relating!Source(r, dir) \in at[k]}}

LEMMA RoundFinds ==
    ASSUME RowsDrawn, NEW found, NEW at, NEW d \in Nat, NEW types, NEW dir,
           \A k \in 0..d : at[k + 1] = OneFurther(at[k], types, dir),
           FoundWithin(found, at, d, types, dir)
    PROVE  FoundWithin(Relating!Round(found, d + 1, types, dir), at, d + 1, types, dir)
<1> DEFINE Left == Relating!Leaving(found.frontier, types, dir)
           New == {Relating!Target(r, dir) : r \in Left} \ DOMAIN found.nodes
           next == Relating!Round(found, d + 1, types, dir)
<1>1. /\ next.frontier = New
      /\ next.nodes = Relating!Met(found.nodes, New, d + 1)
      /\ next.edges = Relating!Met(found.edges, {<<r.id, dir>> : r \in Left}, d + 1)
  BY DEF Relating!Round
<1>2. /\ DOMAIN next.nodes = DOMAIN found.nodes \cup New
      /\ \A n \in DOMAIN next.nodes :
           next.nodes[n] = IF n \in DOMAIN found.nodes THEN found.nodes[n] ELSE d + 1
      /\ DOMAIN next.edges = DOMAIN found.edges \cup {<<r.id, dir>> : r \in Left}
  BY <1>1 DEF Relating!Met
<1>3. \A r \in relations : Relating!Target(r, dir) \in Nodes /\ Relating!Source(r, dir) \in Nodes
  BY DEF RowsDrawn, RelationRow, Relating!Target, Relating!Source
<1>4. \A r : r \in Left <=> /\ r \in relations /\ r.type \in types
                            /\ Relating!Source(r, dir) \in DOMAIN found.nodes
                            /\ found.nodes[Relating!Source(r, dir)] = d
  BY DEF FoundWithin, Relating!Leaving
<1>5. \A k \in 0..d : \A n : n \in at[k + 1] <=>
         \E r \in relations : /\ r.type \in types /\ Relating!Source(r, dir) \in at[k]
                              /\ n = Relating!Target(r, dir)
  BY DEF OneFurther, Relating!Leaving
<1>6. \A n : n \in DOMAIN found.nodes <=> n \in Nodes /\ \E k \in 0..d : n \in at[k]
  BY DEF FoundWithin
\* A relation that leaves a node met in an earlier round has been followed.
<1>7. ASSUME NEW r \in relations, r.type \in types, NEW k \in 0..d, Relating!Source(r, dir) \in at[k]
      PROVE  \/ r \in Left
             \/ \E j \in 0..d - 1 : Relating!Source(r, dir) \in at[j]
  <2>1. PICK n : n = Relating!Source(r, dir)
    OBVIOUS
  <2>2. n \in DOMAIN found.nodes
    BY <1>3, <1>6, <1>7, <2>1
  <2>3. PICK j : j = found.nodes[n]
    OBVIOUS
  <2>4. j \in 0..d /\ n \in at[j]
    BY <2>2, <2>3 DEF FoundWithin
  <2>5. CASE j = d
    BY <1>4, <1>7, <2>1, <2>2, <2>3, <2>5
  <2>6. CASE j # d
    <3>1. j \in 0..d - 1
      BY <2>4, <2>6
    <3> QED BY <2>1, <2>4, <3>1
  <2> QED BY <2>5, <2>6
<1>8. ASSUME NEW n \in New
      PROVE  n \in Nodes /\ n \in at[d + 1] /\ n \notin DOMAIN found.nodes
  <2>1. PICK r \in Left : n = Relating!Target(r, dir)
    OBVIOUS
  <2>2. Relating!Source(r, dir) \in at[d]
    BY <1>4 DEF FoundWithin
  <2>3. d \in 0..d
    OBVIOUS
  <2> QED BY <1>3, <1>4, <1>5, <2>1, <2>2, <2>3
<1>9. ASSUME NEW n \in at[d + 1], n \notin DOMAIN found.nodes
      PROVE  n \in New
  <2>1. PICK r \in relations : /\ r.type \in types /\ Relating!Source(r, dir) \in at[d]
                               /\ n = Relating!Target(r, dir)
    <3>1. d \in 0..d
      OBVIOUS
    <3> QED BY <1>5, <1>9, <3>1
  <2>2. ASSUME NEW j \in 0..d - 1, Relating!Source(r, dir) \in at[j] PROVE FALSE
    <3>1. j \in 0..d /\ j + 1 \in 0..d
      BY <2>2
    <3>2. n \in at[j + 1] /\ n \in Nodes
      BY <1>3, <1>5, <2>1, <2>2, <3>1
    <3> QED BY <1>6, <1>9, <3>1, <3>2
  <2>3. r \in Left
    <3>1. d \in 0..d
      OBVIOUS
    <3> QED BY <1>7, <2>1, <2>2, <3>1
  <2> QED BY <1>9, <2>1, <2>3
<1>10. 0..d + 1 = (0..d) \cup {d + 1}
  OBVIOUS
<1>11. \A n : n \in DOMAIN next.nodes <=> n \in Nodes /\ \E k \in 0..d + 1 : n \in at[k]
  <2> HIDE DEF New, next, Left
  <2> QED BY <1>2, <1>6, <1>8, <1>9, <1>10
<1>12. ASSUME NEW n \in DOMAIN next.nodes
       PROVE  /\ next.nodes[n] \in 0..d + 1 /\ n \in at[next.nodes[n]]
              /\ \A k \in 0..d + 1 : n \in at[k] => next.nodes[n] <= k
              /\ next.nodes[n] = d + 1 <=> n \in New
  <2> HIDE DEF New, next, Left
  <2>1. CASE n \in DOMAIN found.nodes
    <3>1. PICK j : j = found.nodes[n]
      OBVIOUS
    <3>2. j \in 0..d /\ n \in at[j] /\ \A k \in 0..d : n \in at[k] => j <= k
      BY <2>1, <3>1 DEF FoundWithin
    <3>3. next.nodes[n] = j /\ j # d + 1 /\ j \in 0..d + 1 /\ j <= d + 1
      BY <1>2, <2>1, <3>1, <3>2
    <3> QED BY <1>8, <1>10, <2>1, <3>2, <3>3
  <2>2. CASE n \notin DOMAIN found.nodes
    <3>1. next.nodes[n] = d + 1 /\ n \in New
      BY <1>2, <2>2
    <3>2. \A k \in 0..d : n \notin at[k]
      BY <1>6, <1>8, <3>1
    <3> QED BY <1>8, <1>10, <3>1, <3>2
  <2> QED BY <2>1, <2>2
<1>13. next.frontier = {n \in DOMAIN next.nodes : next.nodes[n] = d + 1}
  <2> HIDE DEF New, next, Left
  <2> QED BY <1>1, <1>2, <1>12
<1>14. DOMAIN next.edges =
         {<<r.id, dir>> : r \in {r \in relations :
             r.type \in types /\ \E k \in 0..(d + 1) - 1 : Relating!Source(r, dir) \in at[k]}}
  <2>1. (d + 1) - 1 = d
    OBVIOUS
  <2>2. \A r \in relations :
           r.type \in types /\ (\E k \in 0..d : Relating!Source(r, dir) \in at[k]) <=>
             \/ r \in Left
             \/ r.type \in types /\ \E k \in 0..d - 1 : Relating!Source(r, dir) \in at[k]
    <3>1. ASSUME NEW r \in Left PROVE r.type \in types /\ Relating!Source(r, dir) \in at[d]
      BY <1>4 DEF FoundWithin
    <3>2. d \in 0..d /\ 0..d - 1 \subseteq 0..d
      OBVIOUS
    <3> HIDE DEF Left
    <3> QED BY <1>7, <3>1, <3>2
  <2>3. \A r \in Left : r \in relations
    BY <1>4
  <2> HIDE DEF Left, next
  <2> QED BY <1>2, <2>1, <2>2, <2>3 DEF FoundWithin
<1> HIDE DEF New, Left, next
<1>15. FoundWithin(next, at, d + 1, types, dir)
  BY <1>11, <1>12, <1>13, <1>14 DEF FoundWithin
<1> QED BY <1>15 DEF next

\* The traversal finds what the walks lead to.
LEMMA TraverseFinds ==
    ASSUME RowsDrawn, NEW root \in Nodes, NEW limit \in Nat, NEW types, NEW dir
    PROVE  FoundWithin(Relating!Traverse(root, limit, types, dir),
                       Relating!Walks(root, limit, types, dir), limit, types, dir)
<1>1. PICK F, at : /\ F = Relating!Rounds(root, limit, types, dir)
                   /\ at = Relating!Walks(root, limit, types, dir)
  OBVIOUS
<1>2. /\ F[0] = Start(root) /\ at[0] = {root}
      /\ \A d \in 0..limit - 1 : /\ F[d + 1] = Relating!Round(F[d], d + 1, types, dir)
                                 /\ at[d + 1] = OneFurther(at[d], types, dir)
  <2>1. F[0] = Start(root) /\ \A d \in 0..limit - 1 : F[d + 1] = Relating!Round(F[d], d + 1, types, dir)
    BY <1>1, RoundsAre
  <2>2. at[0] = {root} /\ \A d \in 0..limit - 1 : at[d + 1] = OneFurther(at[d], types, dir)
    <3>1. /\ Relating!Walks(root, limit, types, dir)[0] = {root}
          /\ \A d \in 0..limit - 1 :
               Relating!Walks(root, limit, types, dir)[d + 1]
                 = OneFurther(Relating!Walks(root, limit, types, dir)[d], types, dir)
      BY WalksAre, SMT
    <3> QED BY <1>1, <3>1, Zenon
  <2> QED BY <2>1, <2>2
<1> DEFINE T == {d \in 0..limit : ~FoundWithin(F[d], at, d, types, dir)}
<1>3. SUFFICES ASSUME T # {} PROVE FALSE
  BY <1>1 DEF Relating!Traverse
<1>4. PICK d \in T : \A j \in T : <<j, d>> \notin OpToRel(<, Nat)
  <2>1. T \subseteq Nat
    OBVIOUS
  <2> HIDE DEF T
  <2> QED BY <1>3, <2>1, NatLessThanWellFounded, WFMin
<1>5. d # 0
  <2>1. FoundWithin(Start(root), at, 0, types, dir)
    BY <1>2 DEF FoundWithin, Start
  <2> QED BY <1>2, <2>1
<1>6. d - 1 \in 0..limit - 1 /\ d - 1 \in 0..limit /\ (d - 1) + 1 = d /\ d - 1 \in Nat /\ d - 1 < d
  BY <1>5
<1>7. FoundWithin(F[d - 1], at, d - 1, types, dir)
  <2>1. <<d - 1, d>> \in OpToRel(<, Nat)
    BY <1>6 DEF OpToRel
  <2>2. d - 1 \notin T
    BY <1>4, <2>1
  <2> QED BY <1>6, <2>2
<1>8. F[d] = Relating!Round(F[d - 1], d, types, dir)
  BY <1>2, <1>6
<1>9. \A k \in 0..d - 1 : at[k + 1] = OneFurther(at[k], types, dir)
  BY <1>2, <1>6
<1>10. FoundWithin(F[d], at, d, types, dir)
  BY <1>6, <1>7, <1>8, <1>9, RoundFinds
<1> QED BY <1>4, <1>10

\* Between requests an impact is complete, however the relations are circular.
LEMMA ImpactHolds == ASSUME RelateInv PROVE Relating!ImpactIsComplete
<1>0. RowsDrawn
  BY DEF RelateInv
<1> SUFFICES ASSUME NEW root \in Nodes, NEW depth \in AskedDepths,
                    NEW mode \in {"downstream", "upstream", "both"}, NEW types \in SUBSET RelationTypes
             PROVE
        LET impact == Relating!Impact(root, depth, types, mode)
            limit == Relating!Limit(depth)
            of == IF types = {} THEN Relating!DefaultTypes ELSE types
            reached == [dir \in Relating!Directions(mode) |-> Relating!Walks(root, limit, of, dir)]
            Depths(n) == {k \in 0..limit : \E dir \in Relating!Directions(mode) : n \in reached[dir][k]}
        IN /\ DOMAIN impact.nodes = {n \in Nodes : Depths(n) # {}}
           /\ \A n \in DOMAIN impact.nodes :
                impact.nodes[n] \in Depths(n) /\ \A k \in Depths(n) : impact.nodes[n] <= k
           /\ \A r \in relations, dir \in Relating!Directions(mode) :
                <<r.id, dir>> \in DOMAIN impact.edges <=>
                  r.type \in of /\ \E k \in 0..limit - 1 : Relating!Source(r, dir) \in reached[dir][k]
           /\ impact.services = {r.dst : r \in {r \in relations : r.type = "runs_service"
                                 /\ \E dir \in Relating!Directions(mode) : <<r.id, dir>> \in DOMAIN impact.edges}}
           /\ impact.owners = {r.dst : r \in {r \in relations : r.type = "owned_by"
                                 /\ \E dir \in Relating!Directions(mode) : <<r.id, dir>> \in DOMAIN impact.edges}}
  BY DEF Relating!ImpactIsComplete
<1> DEFINE impact == Relating!Impact(root, depth, types, mode)
           Dirs == Relating!Directions(mode)
<1>1. PICK limit, of : /\ limit = Relating!Limit(depth)
                       /\ of = IF types = {} THEN Relating!DefaultTypes ELSE types
  OBVIOUS
<1>2. limit \in Nat
  BY <1>1, DepthsAssumption DEF Relating!Limit
<1> DEFINE At(dir) == Relating!Walks(root, limit, of, dir)
           Found(dir) == Relating!Traverse(root, limit, of, dir)
           reached == [dir \in Dirs |-> At(dir)]
           Depths(n) == {k \in 0..limit : \E dir \in Dirs : n \in reached[dir][k]}
<1>3. Dirs \subseteq {"downstream", "upstream"} /\ (mode = "both" => Dirs = {"downstream", "upstream"})
      /\ (mode # "both" => Dirs = {mode})
  BY DEF Relating!Directions
<1>4. \A dir : FoundWithin(Found(dir), At(dir), limit, of, dir)
  BY <1>0, <1>2, TraverseFinds
<1>5. /\ mode # "both" => impact.nodes = Found(mode).nodes /\ impact.edges = Found(mode).edges
      /\ mode = "both" =>
           /\ impact.nodes = Relating!Least(Found("downstream").nodes, Found("upstream").nodes)
           /\ impact.edges = Relating!Least(Found("downstream").edges, Found("upstream").edges)
      /\ impact.services = {r.dst : r \in {r \in relations : r.type = "runs_service"
                                 /\ \E dir \in Dirs : <<r.id, dir>> \in DOMAIN impact.edges}}
      /\ impact.owners = {r.dst : r \in {r \in relations : r.type = "owned_by"
                                 /\ \E dir \in Dirs : <<r.id, dir>> \in DOMAIN impact.edges}}
  BY <1>1 DEF Relating!Impact
<1>6. /\ DOMAIN impact.nodes = UNION {DOMAIN Found(dir).nodes : dir \in Dirs}
      /\ DOMAIN impact.edges = UNION {DOMAIN Found(dir).edges : dir \in Dirs}
  BY <1>3, <1>5 DEF Relating!Least
<1>7. \A n, k : k \in Depths(n) <=> k \in 0..limit /\ \E dir \in Dirs : n \in At(dir)[k]
  OBVIOUS
<1>8. DOMAIN impact.nodes = {n \in Nodes : Depths(n) # {}}
  <2> HIDE DEF impact, Dirs, Depths, At, Found
  <2>1. \A dir \in Dirs : \A n : n \in DOMAIN Found(dir).nodes
           <=> n \in Nodes /\ \E k \in 0..limit : n \in At(dir)[k]
    BY <1>4 DEF FoundWithin
  <2>2. \A n : n \in DOMAIN impact.nodes <=> \E dir \in Dirs : n \in DOMAIN Found(dir).nodes
    BY <1>6
  <2>3. \A n : n \in DOMAIN impact.nodes <=> n \in Nodes /\ \E k : k \in Depths(n)
    BY <1>7, <2>1, <2>2
  <2> QED BY <2>3
<1>9. ASSUME NEW n \in DOMAIN impact.nodes
      PROVE  impact.nodes[n] \in Depths(n) /\ \A k \in Depths(n) : impact.nodes[n] <= k
  <2>1. \E dir \in Dirs :
           /\ n \in DOMAIN Found(dir).nodes /\ impact.nodes[n] = Found(dir).nodes[n]
           /\ \A other \in Dirs : n \in DOMAIN Found(other).nodes =>
                 impact.nodes[n] <= Found(other).nodes[n]
    <3>1. \A dir \in Dirs : n \in DOMAIN Found(dir).nodes => Found(dir).nodes[n] \in Nat
      <4> HIDE DEF At, Found, Dirs, impact
      <4> QED BY <1>4, <1>2 DEF FoundWithin
    <3>2. CASE mode # "both"
      BY <1>3, <1>5, <1>9, <3>1, <3>2
    <3>3. CASE mode = "both"
      <4>1. PICK f, g : f = Found("downstream").nodes /\ g = Found("upstream").nodes
        OBVIOUS
      <4>2. impact.nodes[n] = (IF n \notin DOMAIN g \/ (n \in DOMAIN f /\ f[n] < g[n]) THEN f[n] ELSE g[n])
            /\ n \in DOMAIN f \cup DOMAIN g
        BY <1>5, <1>9, <3>3, <4>1 DEF Relating!Least
      <4>3. (n \in DOMAIN f => f[n] \in Nat) /\ (n \in DOMAIN g => g[n] \in Nat)
        BY <1>3, <3>1, <3>3, <4>1
      <4> HIDE DEF impact, Found, Dirs
      <4>4. CASE n \notin DOMAIN g \/ (n \in DOMAIN f /\ f[n] < g[n])
        <5>1. n \in DOMAIN f /\ impact.nodes[n] = f[n] /\ (n \in DOMAIN g => f[n] <= g[n])
              /\ f[n] <= f[n]
          BY <4>2, <4>3, <4>4
        <5> QED BY <1>3, <3>3, <4>1, <5>1
      <4>5. CASE ~(n \notin DOMAIN g \/ (n \in DOMAIN f /\ f[n] < g[n]))
        <5>1. n \in DOMAIN g /\ impact.nodes[n] = g[n] /\ (n \in DOMAIN f => g[n] <= f[n])
              /\ g[n] <= g[n]
          BY <4>2, <4>3, <4>5
        <5> QED BY <1>3, <3>3, <4>1, <5>1
      <4> QED BY <4>4, <4>5
    <3> QED BY <3>2, <3>3
  <2>2. PICK dir \in Dirs :
           /\ n \in DOMAIN Found(dir).nodes /\ impact.nodes[n] = Found(dir).nodes[n]
           /\ \A other \in Dirs : n \in DOMAIN Found(other).nodes =>
                 impact.nodes[n] <= Found(other).nodes[n]
    BY <2>1
  <2> HIDE DEF impact, Dirs, Depths, At, Found
  <2>3. impact.nodes[n] \in 0..limit /\ n \in At(dir)[impact.nodes[n]]
    BY <1>4, <2>2 DEF FoundWithin
  <2>4. ASSUME NEW k \in Depths(n) PROVE impact.nodes[n] <= k
    <3>1. PICK other \in Dirs : k \in 0..limit /\ n \in At(other)[k]
      BY <1>7, <2>4
    <3>2. n \in DOMAIN Found(other).nodes
      <4>1. n \in Nodes
        BY <1>4, <2>2 DEF FoundWithin
      <4> QED BY <1>4, <3>1, <4>1 DEF FoundWithin
    <3>3. Found(other).nodes[n] \in 0..limit /\ Found(other).nodes[n] <= k
      BY <1>4, <3>1, <3>2 DEF FoundWithin
    <3>4. impact.nodes[n] <= Found(other).nodes[n]
      BY <2>2, <3>2
    <3> QED BY <1>2, <2>3, <3>1, <3>3, <3>4
  <2> QED BY <1>7, <2>3, <2>4
<1>10. ASSUME NEW r \in relations, NEW dir \in Dirs
       PROVE  <<r.id, dir>> \in DOMAIN impact.edges <=>
                r.type \in of /\ \E k \in 0..limit - 1 : Relating!Source(r, dir) \in reached[dir][k]
  <2>1. reached[dir] = At(dir)
    OBVIOUS
  <2> HIDE DEF impact, Dirs, At, Found, reached
  <2>2. ASSUME NEW s \in relations, s.id = r.id PROVE s = r
    BY <1>0, <2>2 DEF RowsDrawn
  <2>3. <<r.id, dir>> \in DOMAIN Found(dir).edges <=>
          r.type \in of /\ \E k \in 0..limit - 1 : Relating!Source(r, dir) \in At(dir)[k]
    BY <1>4, <2>2 DEF FoundWithin
  <2>4. \A other \in Dirs : <<r.id, dir>> \in DOMAIN Found(other).edges => other = dir
    BY <1>4 DEF FoundWithin
  <2> QED BY <1>6, <2>1, <2>3, <2>4
<1>11. /\ DOMAIN impact.nodes = {n \in Nodes : Depths(n) # {}}
       /\ \A n \in DOMAIN impact.nodes :
            impact.nodes[n] \in Depths(n) /\ \A k \in Depths(n) : impact.nodes[n] <= k
       /\ \A r \in relations, dir \in Dirs :
            <<r.id, dir>> \in DOMAIN impact.edges <=>
              r.type \in of /\ \E k \in 0..limit - 1 : Relating!Source(r, dir) \in reached[dir][k]
       /\ impact.services = {r.dst : r \in {r \in relations : r.type = "runs_service"
                                 /\ \E dir \in Dirs : <<r.id, dir>> \in DOMAIN impact.edges}}
       /\ impact.owners = {r.dst : r \in {r \in relations : r.type = "owned_by"
                                 /\ \E dir \in Dirs : <<r.id, dir>> \in DOMAIN impact.edges}}
  <2> HIDE DEF impact, Dirs, Depths, At, Found, reached
  <2> QED BY <1>5, <1>8, <1>9, <1>10
<1> QED BY <1>1, <1>11
-----------------------------------------------------------------------------
(* The assets, in the behaviours of MCDiscoveryAssets: the theorems of       *)
(* AssetsProofs, instantiated as that module instantiates Assets, and the    *)
(* steps of each focus mapped to those of the instance.                      *)

LP == INSTANCE AssetsProofs WITH
    assets <- assetRows, Calls <- Requests, Keys <- {}, Types <- {}, Values <- {}, Limits <- {},
    Departments <- {"ops"}, Services <- {"shop"}, Owners <- {"ann"}, Codes <- {}, MaxAssets <- 1,
    Entered <- {"idle"}, Sought <- {"operational", "retired"}

DP == INSTANCE AssetsProofs WITH
    assets <- assetRows, Calls <- Requests, Keys <- {"discovery_source_type"}, Types <- {"enum"},
    Limits <- {1}, Departments <- {}, Services <- {}, Owners <- {}, Codes <- {}, MaxAssets <- 1,
    Entered <- {"idle"}, Sought <- {},
    Values <- {[form |-> "string", length |-> 1, reads |-> "word"],
               [form |-> "string", length |-> 2, reads |-> "date"]}

CP == INSTANCE AssetsProofs WITH
    assets <- assetRows, Calls <- Requests, Keys <- {}, Types <- {}, Values <- {}, Limits <- {},
    Departments <- {}, Services <- {}, Owners <- {}, Codes <- {"code"}, MaxAssets <- 2,
    Entered <- {"idle"}, Sought <- {}

\* The inductive invariant of the instance that is in focus.
AllInv == /\ focus = "living" => LP!IInv
          /\ focus = "defining" => DP!IInv
          /\ focus = "coding" => CP!IInv
          /\ focus = "relating" => RelateInv

LEMMA LivingStep ==
    ASSUME Living!NextAssets
    PROVE  LP!NextAssets
<1>1. ASSUME NEW c, Living!CreateRead(c) PROVE LP!CreateRead(c)
  BY <1>1, Zenon DEF Living!CreateRead, LP!CreateRead, Living!Idle, LP!Idle, Living!FieldSets,
     LP!FieldSets, Living!Goto, LP!Goto, Living!ValidFields, LP!ValidFields,
     Living!EnabledKeys, LP!EnabledKeys, Living!Fits, LP!Fits, Living!HasLength, LP!HasLength,
     Living!WithinLimit, LP!WithinLimit
<1>2. ASSUME NEW c, Living!CreateAsset(c) PROVE LP!CreateAsset(c)
  BY <1>2, Zenon DEF Living!CreateAsset, LP!CreateAsset, Living!Settable, LP!Settable,
     Living!FreeCode, LP!FreeCode, Living!Unbound, LP!Unbound, Living!Kinds, LP!Kinds,
     Living!Goto, LP!Goto, Living!Idle, LP!Idle
<1>3. ASSUME NEW c, Living!UpdateRead(c) PROVE LP!UpdateRead(c)
  BY <1>3, Zenon DEF Living!UpdateRead, LP!UpdateRead, Living!Idle, LP!Idle, Living!Goto,
     LP!Goto
<1>4. ASSUME NEW c, Living!UpdateCheck(c) PROVE LP!UpdateCheck(c)
  BY <1>4, Zenon DEF Living!UpdateCheck, LP!UpdateCheck, Living!FieldSets, LP!FieldSets,
     Living!Goto, LP!Goto, Living!ValidFields, LP!ValidFields, Living!EnabledKeys,
     LP!EnabledKeys, Living!Fits, LP!Fits, Living!HasLength, LP!HasLength, Living!WithinLimit,
     LP!WithinLimit
<1>5. ASSUME NEW c, Living!UpdateAsset(c) PROVE LP!UpdateAsset(c)
  BY <1>5, Zenon DEF Living!UpdateAsset, LP!UpdateAsset, Living!Settable, LP!Settable,
     Living!GivenFor, LP!GivenFor, Living!Rewritten, LP!Rewritten, Living!Given, LP!Given,
     Living!FreeCode, LP!FreeCode, Living!Goto, LP!Goto, Living!Idle, LP!Idle
<1>6. ASSUME NEW c, Living!TransitionRead(c) PROVE LP!TransitionRead(c)
  BY <1>6, Zenon DEF Living!TransitionRead, LP!TransitionRead, Living!Idle, LP!Idle,
     Living!Goto, LP!Goto
<1>7. ASSUME NEW c, Living!CountBindings(c) PROVE LP!CountBindings(c)
  BY <1>7, Zenon DEF Living!CountBindings, LP!CountBindings, Living!Kinds, LP!Kinds,
     Living!Missing, LP!Missing, Living!NextKind, LP!NextKind, Living!Goto, LP!Goto
<1>8. ASSUME NEW c, Living!Transition(c) PROVE LP!Transition(c)
  BY <1>8, Zenon DEF Living!Transition, LP!Transition, Living!Goto, LP!Goto, Living!Idle,
     LP!Idle
<1>9. ASSUME NEW c, Living!Refuse(c) PROVE LP!Refuse(c)
  BY <1>9, Zenon DEF Living!Refuse, LP!Refuse, Living!Goto, LP!Goto, Living!Idle, LP!Idle
<1>10. ASSUME Living!UpsertBindings PROVE LP!UpsertBindings
  BY <1>10, Zenon DEF Living!UpsertBindings, LP!UpsertBindings, Living!Kinds, LP!Kinds,
     Living!Given, LP!Given
<1>11. ASSUME Living!FieldStep PROVE LP!FieldStep
  BY <1>11, Zenon DEF Living!FieldStep, LP!FieldStep, Living!ReadDefinition, LP!ReadDefinition,
     Living!CreateDefinition, LP!CreateDefinition, Living!UpdateDefinition,
     LP!UpdateDefinition, Living!Recheck, LP!Recheck, Living!Idle, LP!Idle, Living!Goto,
     LP!Goto, Living!Options, LP!Options, Living!Filled, LP!Filled, Living!Given, LP!Given,
     Living!NewRow, LP!NewRow, Living!WellFormed, LP!WellFormed, Living!HasLength,
     LP!HasLength, Living!WithinLimit, LP!WithinLimit
<1>12. ASSUME Living!CreateDiscovered PROVE LP!CreateDiscovered
  BY <1>12, Zenon DEF Living!CreateDiscovered, LP!CreateDiscovered, Living!FieldSets,
     LP!FieldSets, Living!Marks, LP!Marks, Living!Marked, LP!Marked, Living!Stamp, LP!Stamp,
     Living!Unbound, LP!Unbound, Living!Kinds, LP!Kinds
<1>13. ASSUME Living!MergeDiscovered PROVE LP!MergeDiscovered
  BY <1>13, Zenon DEF Living!MergeDiscovered, LP!MergeDiscovered, Living!Marks, LP!Marks,
     Living!Marked, LP!Marked, Living!Stamp, LP!Stamp
<1> QED
  BY <1>1, <1>2, <1>3, <1>4, <1>5, <1>6, <1>7, <1>8, <1>9, <1>10, <1>11, <1>12, <1>13
     DEF Living!NextAssets, LP!NextAssets

LEMMA DefiningStep ==
    ASSUME Defining!NextAssets
    PROVE  DP!NextAssets
<1>1. ASSUME NEW c, Defining!CreateRead(c) PROVE DP!CreateRead(c)
  BY <1>1, Zenon DEF Defining!CreateRead, DP!CreateRead, Defining!Idle, DP!Idle,
     Defining!FieldSets, DP!FieldSets, Defining!Goto, DP!Goto, Defining!ValidFields,
     DP!ValidFields, Defining!EnabledKeys, DP!EnabledKeys, Defining!Fits, DP!Fits,
     Defining!HasLength, DP!HasLength, Defining!WithinLimit, DP!WithinLimit
<1>2. ASSUME NEW c, Defining!CreateAsset(c) PROVE DP!CreateAsset(c)
  BY <1>2, Zenon DEF Defining!CreateAsset, DP!CreateAsset, Defining!Settable, DP!Settable,
     Defining!FreeCode, DP!FreeCode, Defining!Unbound, DP!Unbound, Defining!Kinds, DP!Kinds,
     Defining!Goto, DP!Goto, Defining!Idle, DP!Idle
<1>3. ASSUME NEW c, Defining!UpdateRead(c) PROVE DP!UpdateRead(c)
  BY <1>3, Zenon DEF Defining!UpdateRead, DP!UpdateRead, Defining!Idle, DP!Idle, Defining!Goto,
     DP!Goto
<1>4. ASSUME NEW c, Defining!UpdateCheck(c) PROVE DP!UpdateCheck(c)
  BY <1>4, Zenon DEF Defining!UpdateCheck, DP!UpdateCheck, Defining!FieldSets, DP!FieldSets,
     Defining!Goto, DP!Goto, Defining!ValidFields, DP!ValidFields, Defining!EnabledKeys,
     DP!EnabledKeys, Defining!Fits, DP!Fits, Defining!HasLength, DP!HasLength,
     Defining!WithinLimit, DP!WithinLimit
<1>5. ASSUME NEW c, Defining!UpdateAsset(c) PROVE DP!UpdateAsset(c)
  BY <1>5, Zenon DEF Defining!UpdateAsset, DP!UpdateAsset, Defining!Settable, DP!Settable,
     Defining!GivenFor, DP!GivenFor, Defining!Rewritten, DP!Rewritten, Defining!Given,
     DP!Given, Defining!FreeCode, DP!FreeCode, Defining!Goto, DP!Goto, Defining!Idle, DP!Idle
<1>6. ASSUME NEW c, Defining!TransitionRead(c) PROVE DP!TransitionRead(c)
  BY <1>6, Zenon DEF Defining!TransitionRead, DP!TransitionRead, Defining!Idle, DP!Idle,
     Defining!Goto, DP!Goto
<1>7. ASSUME NEW c, Defining!CountBindings(c) PROVE DP!CountBindings(c)
  BY <1>7, Zenon DEF Defining!CountBindings, DP!CountBindings, Defining!Kinds, DP!Kinds,
     Defining!Missing, DP!Missing, Defining!NextKind, DP!NextKind, Defining!Goto, DP!Goto
<1>8. ASSUME NEW c, Defining!Transition(c) PROVE DP!Transition(c)
  BY <1>8, Zenon DEF Defining!Transition, DP!Transition, Defining!Goto, DP!Goto, Defining!Idle,
     DP!Idle
<1>9. ASSUME NEW c, Defining!Refuse(c) PROVE DP!Refuse(c)
  BY <1>9, Zenon DEF Defining!Refuse, DP!Refuse, Defining!Goto, DP!Goto, Defining!Idle,
     DP!Idle
<1>10. ASSUME Defining!UpsertBindings PROVE DP!UpsertBindings
  BY <1>10, Zenon DEF Defining!UpsertBindings, DP!UpsertBindings, Defining!Kinds, DP!Kinds,
     Defining!Given, DP!Given
<1>11. ASSUME Defining!FieldStep PROVE DP!FieldStep
  BY <1>11, Zenon DEF Defining!FieldStep, DP!FieldStep, Defining!ReadDefinition,
     DP!ReadDefinition, Defining!CreateDefinition, DP!CreateDefinition,
     Defining!UpdateDefinition, DP!UpdateDefinition, Defining!Recheck, DP!Recheck,
     Defining!Idle, DP!Idle, Defining!Goto, DP!Goto, Defining!Options, DP!Options,
     Defining!Filled, DP!Filled, Defining!Given, DP!Given, Defining!NewRow, DP!NewRow,
     Defining!WellFormed, DP!WellFormed, Defining!HasLength, DP!HasLength,
     Defining!WithinLimit, DP!WithinLimit
<1>12. ASSUME Defining!CreateDiscovered PROVE DP!CreateDiscovered
  BY <1>12, Zenon DEF Defining!CreateDiscovered, DP!CreateDiscovered, Defining!FieldSets,
     DP!FieldSets, Defining!Marks, DP!Marks, Defining!Marked, DP!Marked, Defining!Stamp,
     DP!Stamp, Defining!Unbound, DP!Unbound, Defining!Kinds, DP!Kinds
<1>13. ASSUME Defining!MergeDiscovered PROVE DP!MergeDiscovered
  BY <1>13, Zenon DEF Defining!MergeDiscovered, DP!MergeDiscovered, Defining!Marks, DP!Marks,
     Defining!Marked, DP!Marked, Defining!Stamp, DP!Stamp
<1> QED
  BY <1>1, <1>2, <1>3, <1>4, <1>5, <1>6, <1>7, <1>8, <1>9, <1>10, <1>11, <1>12, <1>13
     DEF Defining!NextAssets, DP!NextAssets

LEMMA CodingStep ==
    ASSUME Coding!NextAssets
    PROVE  CP!NextAssets
<1>1. ASSUME NEW c, Coding!CreateRead(c) PROVE CP!CreateRead(c)
  BY <1>1, Zenon DEF Coding!CreateRead, CP!CreateRead, Coding!Idle, CP!Idle, Coding!FieldSets,
     CP!FieldSets, Coding!Goto, CP!Goto, Coding!ValidFields, CP!ValidFields,
     Coding!EnabledKeys, CP!EnabledKeys, Coding!Fits, CP!Fits, Coding!HasLength, CP!HasLength,
     Coding!WithinLimit, CP!WithinLimit
<1>2. ASSUME NEW c, Coding!CreateAsset(c) PROVE CP!CreateAsset(c)
  BY <1>2, Zenon DEF Coding!CreateAsset, CP!CreateAsset, Coding!Settable, CP!Settable,
     Coding!FreeCode, CP!FreeCode, Coding!Unbound, CP!Unbound, Coding!Kinds, CP!Kinds,
     Coding!Goto, CP!Goto, Coding!Idle, CP!Idle
<1>3. ASSUME NEW c, Coding!UpdateRead(c) PROVE CP!UpdateRead(c)
  BY <1>3, Zenon DEF Coding!UpdateRead, CP!UpdateRead, Coding!Idle, CP!Idle, Coding!Goto,
     CP!Goto
<1>4. ASSUME NEW c, Coding!UpdateCheck(c) PROVE CP!UpdateCheck(c)
  BY <1>4, Zenon DEF Coding!UpdateCheck, CP!UpdateCheck, Coding!FieldSets, CP!FieldSets,
     Coding!Goto, CP!Goto, Coding!ValidFields, CP!ValidFields, Coding!EnabledKeys,
     CP!EnabledKeys, Coding!Fits, CP!Fits, Coding!HasLength, CP!HasLength, Coding!WithinLimit,
     CP!WithinLimit
<1>5. ASSUME NEW c, Coding!UpdateAsset(c) PROVE CP!UpdateAsset(c)
  BY <1>5, Zenon DEF Coding!UpdateAsset, CP!UpdateAsset, Coding!Settable, CP!Settable,
     Coding!GivenFor, CP!GivenFor, Coding!Rewritten, CP!Rewritten, Coding!Given, CP!Given,
     Coding!FreeCode, CP!FreeCode, Coding!Goto, CP!Goto, Coding!Idle, CP!Idle
<1>6. ASSUME NEW c, Coding!TransitionRead(c) PROVE CP!TransitionRead(c)
  BY <1>6, Zenon DEF Coding!TransitionRead, CP!TransitionRead, Coding!Idle, CP!Idle,
     Coding!Goto, CP!Goto
<1>7. ASSUME NEW c, Coding!CountBindings(c) PROVE CP!CountBindings(c)
  BY <1>7, Zenon DEF Coding!CountBindings, CP!CountBindings, Coding!Kinds, CP!Kinds,
     Coding!Missing, CP!Missing, Coding!NextKind, CP!NextKind, Coding!Goto, CP!Goto
<1>8. ASSUME NEW c, Coding!Transition(c) PROVE CP!Transition(c)
  BY <1>8, Zenon DEF Coding!Transition, CP!Transition, Coding!Goto, CP!Goto, Coding!Idle,
     CP!Idle
<1>9. ASSUME NEW c, Coding!Refuse(c) PROVE CP!Refuse(c)
  BY <1>9, Zenon DEF Coding!Refuse, CP!Refuse, Coding!Goto, CP!Goto, Coding!Idle, CP!Idle
<1>10. ASSUME Coding!UpsertBindings PROVE CP!UpsertBindings
  BY <1>10, Zenon DEF Coding!UpsertBindings, CP!UpsertBindings, Coding!Kinds, CP!Kinds,
     Coding!Given, CP!Given
<1>11. ASSUME Coding!FieldStep PROVE CP!FieldStep
  BY <1>11, Zenon DEF Coding!FieldStep, CP!FieldStep, Coding!ReadDefinition, CP!ReadDefinition,
     Coding!CreateDefinition, CP!CreateDefinition, Coding!UpdateDefinition,
     CP!UpdateDefinition, Coding!Recheck, CP!Recheck, Coding!Idle, CP!Idle, Coding!Goto,
     CP!Goto, Coding!Options, CP!Options, Coding!Filled, CP!Filled, Coding!Given, CP!Given,
     Coding!NewRow, CP!NewRow, Coding!WellFormed, CP!WellFormed, Coding!HasLength,
     CP!HasLength, Coding!WithinLimit, CP!WithinLimit
<1>12. ASSUME Coding!CreateDiscovered PROVE CP!CreateDiscovered
  BY <1>12, Zenon DEF Coding!CreateDiscovered, CP!CreateDiscovered, Coding!FieldSets,
     CP!FieldSets, Coding!Marks, CP!Marks, Coding!Marked, CP!Marked, Coding!Stamp, CP!Stamp,
     Coding!Unbound, CP!Unbound, Coding!Kinds, CP!Kinds
<1>13. ASSUME Coding!MergeDiscovered PROVE CP!MergeDiscovered
  BY <1>13, Zenon DEF Coding!MergeDiscovered, CP!MergeDiscovered, Coding!Marks, CP!Marks,
     Coding!Marked, CP!Marked, Coding!Stamp, CP!Stamp
<1> QED
  BY <1>1, <1>2, <1>3, <1>4, <1>5, <1>6, <1>7, <1>8, <1>9, <1>10, <1>11, <1>12, <1>13
     DEF Coding!NextAssets, CP!NextAssets

LEMMA AllInitInv ==
    ASSUME AllInit
    PROVE  AllInv
<1>1. Living!InitAssets => LP!InitAssets /\ CP!InitAssets
  BY Zenon DEF Living!InitAssets, LP!InitAssets, CP!InitAssets, Living!InitFields, LP!InitFields,
     CP!InitFields, Living!Idle, LP!Idle, CP!Idle
<1>2. Defining!InitAssets => DP!InitAssets
  BY Zenon DEF Defining!InitAssets, DP!InitAssets, Defining!InitFields, DP!InitFields,
     Defining!Idle, DP!Idle
<1>3. CASE focus = "discovering"
  BY <1>3 DEF AllInv
<1>4. CASE focus = "living"
  BY <1>1, <1>4, LP!InitInv DEF AllInv, AllInit
<1>5. CASE focus = "defining"
  BY <1>2, <1>5, DP!InitInv DEF AllInv, AllInit
<1>6. CASE focus = "coding"
  BY <1>1, <1>6, CP!InitInv DEF AllInv, AllInit
<1>7. CASE focus = "relating"
  BY <1>7, Relate0 DEF AllInv, AllInit
<1> QED BY <1>3, <1>4, <1>5, <1>6, <1>7 DEF AllInit

LEMMA AllNextInv ==
    ASSUME AllInv, [AllNext]_allVars
    PROVE  AllInv'
<1>1. UNCHANGED focus
  BY DEF AllNext, allVars
<1>2. CASE focus = "living"
  <2>1. LP!IInv /\ [LP!NextAssets]_LP!assetVars
    BY <1>2, LivingStep DEF AllInv, AllNext, allVars, assetVars, LP!assetVars
  <2>2. LP!IInv'
    BY <2>1, LP!NextInv
  <2> QED BY <1>1, <1>2, <2>2 DEF AllInv
<1>3. CASE focus = "defining"
  <2>1. DP!IInv /\ [DP!NextAssets]_DP!assetVars
    BY <1>3, DefiningStep DEF AllInv, AllNext, allVars, assetVars, DP!assetVars
  <2>2. DP!IInv'
    BY <2>1, DP!NextInv
  <2> QED BY <1>1, <1>3, <2>2 DEF AllInv
<1>4. CASE focus = "coding"
  <2>1. CP!IInv /\ [CP!NextAssets]_CP!assetVars
    BY <1>4, CodingStep DEF AllInv, AllNext, allVars, assetVars, CP!assetVars
  <2>2. CP!IInv'
    BY <2>1, CP!NextInv
  <2> QED BY <1>1, <1>4, <2>2 DEF AllInv
<1>5. CASE focus = "relating"
  <2>1. RelateInv /\ (Relating!Next \/ UNCHANGED <<relations, lastId, calls>>)
    BY <1>5 DEF AllInv, AllNext, allVars, relationVars
  <2>2. RelateInv'
    BY <2>1, RelateNext, RelateKept
  <2> QED BY <1>1, <1>5, <2>2 DEF AllInv
<1> QED BY <1>1, <1>2, <1>3, <1>4, <1>5 DEF AllInv

LEMMA AllInductive == AllSpec => []AllInv
<1>1. AllInit => AllInv
  BY AllInitInv
<1>2. AllInv /\ [AllNext]_allVars => AllInv'
  BY AllNextInv
<1> QED BY <1>1, <1>2, PTL DEF AllSpec

\* An operational asset had its bindings when they were counted, and has them
\* while they stay as they were; no update gives that status by itself.
THEOREM OperationalInRun == AllSpec => []OperationalWasReady
<1>1. AllInv => OperationalWasReady
  BY LP!ReadyWhenOperational, Zenon DEF AllInv, OperationalWasReady, Living!OperationalWasReady,
     LP!OperationalWasReady, Living!Buckets, LP!Buckets
<1> QED BY <1>1, AllInductive, PTL

\* The options of an enumeration can be chosen; what a definition requires is
\* there, and what stands under a key fits its definition, unless a definition
\* has changed since or discovery wrote the value; and a code finds its asset.
THEOREM FieldsAndCodesInRun == AllSpec => []FieldsAndCodesHold
<1>1. DP!OptionsAreUsable => Defining!OptionsAreUsable
  BY Zenon DEF DP!OptionsAreUsable, Defining!OptionsAreUsable, DP!Fits, Defining!Fits,
     DP!HasLength, Defining!HasLength, DP!WithinLimit, Defining!WithinLimit
<1>2. DP!RequiredIsPresent => Defining!RequiredIsPresent
  BY Zenon DEF DP!RequiredIsPresent, Defining!RequiredIsPresent, DP!Fits, Defining!Fits,
     DP!HasLength, Defining!HasLength, DP!WithinLimit, Defining!WithinLimit, DP!Stamp,
     Defining!Stamp
<1>3. CP!CodesIdentify => Coding!CodesIdentify
  BY Zenon DEF CP!CodesIdentify, Coding!CodesIdentify, CP!ByCode, Coding!ByCode
<1>4. AllInv => FieldsAndCodesHold
  BY <1>1, <1>2, <1>3, DP!OptionsFit, DP!CheckedIsPresent, CP!CodesFound
     DEF AllInv, FieldsAndCodesHold
<1> QED BY <1>4, AllInductive, PTL

\* An asset has one parent; two relations of every circle were each checked
\* before the other was there; and an impact is what the walks within the
\* limit lead to, at their least length.
THEOREM RelationsInRun == AllSpec => []RelationsHold
<1>1. AllInv => RelationsHold
  BY ForestHolds, ImpactHolds DEF AllInv, RelationsHold
<1> QED BY <1>1, AllInductive, PTL
=============================================================================
