----------------------------- MODULE Retention -----------------------------
(***************************************************************************)
(* The retention of a tenant's stored backups (retention.py): a plan says  *)
(* which daily backups are beyond the newest Keep, and an execution, which *)
(* may come much later, be repeated after a failure or run beside another, *)
(* assesses everything again and deletes object by object.                 *)
(*                                                                         *)
(* `flag` is what the caller's records say of a backup; `plans` the plans  *)
(* of the engine with their progress, `run` the executions.  The deletion  *)
(* of an object is the one of LocalStore.                                  *)
(***************************************************************************)
EXTENDS LocalStore, Sequences

CONSTANTS Keep, Batch,
          Age,             \* stored_at
          MostPlans,       \* bound on plans
          MostReflagged    \* bound on changes of the caller's records

ASSUME RetentionAssumption == /\ Keep \in Nat \ {0} /\ Batch \in Nat \ {0}
                              /\ Age \in [Objects -> Nat] /\ IsFiniteSet(Objects)

VARIABLES flag, plans, run, reflagged

retentionVars == <<storeVars, flag, plans, run, reflagged>>

(* Pinned, protected and active backups and all other classes than daily   *)
(* are spared; failed, incomplete or unverified ones are not counted.      *)
Flags == {"daily", "pinned", "weekly", "unfit"}

NoRun == NoCall

RetentionInit ==
  /\ StoreInit
  /\ flag = [o \in Objects |-> "daily"]
  /\ plans = <<>> /\ run = [w \in Threads |-> NoRun] /\ reflagged = 0

(* The registry after the backups of one process were all stored.          *)
AllStored(S) ==
  /\ disk = [o \in Objects |-> IF o \in S THEN Exact ELSE {}]
  /\ bytes = [o \in Objects |-> IF o \in S THEN "whole" ELSE "none"]
  /\ evidence = [o \in Objects |-> IF o \in S THEN "stored" ELSE "none"]
  /\ attested = {} /\ sealed = {} /\ told = S
  /\ call = [w \in Threads |-> NoCall]
  /\ asked = {} /\ gone = {} /\ faults = 0
  /\ flag = [o \in Objects |-> "daily"]
  /\ plans = <<>> /\ run = [w \in Threads |-> NoRun] /\ reflagged = 0

---------------------------------------------------------------------------
(* _assess_candidates: a daily candidate that the provider does not know   *)
(* at all is an error, one that does not validate is left out.             *)

Counted(cand, flags, deleted) ==
  {o \in cand \ deleted : flags[o] = "daily"}
Assessable(cand, flags, deleted) ==
  \A o \in Counted(cand, flags, deleted) : evidence[o] \in Registered
Eligible(cand, flags, deleted) ==
  {o \in Counted(cand, flags, deleted) : StoredHolds(o)}

Newer(o, S) == {p \in S : Age[p] > Age[o]}
Older(o, S) == {p \in S : Age[p] < Age[o]}
Newest(S) == {o \in S : Cardinality(Newer(o, S)) < Keep}
Beyond(S) == S \ Newest(S)

(* build_retention_plan: at most Batch of the oldest; the same candidates  *)
(* give the plan that is there already.                                    *)
Doomed(S) == {o \in Beyond(S) : Cardinality(Older(o, Beyond(S))) < Batch}

Candidates == {told, told \ gone}

BuildPlan(cand) ==
  /\ Len(plans) < MostPlans
  /\ Assessable(cand, flag, {})
  /\ \A i \in DOMAIN plans : plans[i].cand # cand \/ plans[i].flags # flag
  /\ plans' = Append(plans,
       [cand |-> cand, flags |-> flag,
        deletes |-> Doomed(Eligible(cand, flag, {})),
        deleted |-> {}, pending |-> {}, skipped |-> {}, done |-> FALSE])
  /\ UNCHANGED <<storeVars, flag, run, reflagged>>

---------------------------------------------------------------------------
(* execute_retention_plan                                                  *)

Advance(i, progress) == plans' = [plans EXCEPT ![i] = progress]
Stop(w) == run' = [run EXCEPT ![w] = NoRun]

(* Deletions that an earlier execution began: they are finished, or still  *)
(* the provider's, or the execution stops.                                 *)
Finished(i) == {o \in plans[i].pending : ConfirmAbsent(o)}
Unclear(i, cand) ==
  {o \in plans[i].pending :
     \/ o \notin cand
     \/ (flag[o] = "weekly") # (plans[i].flags[o] = "weekly")
     \/ o \notin Finished(i) /\ evidence[o] \notin Registered}
Settled(i, done) == [plans[i] EXCEPT !.deleted = @ \cup done,
                                     !.pending = @ \ done]

(* What is beyond the newest now, not when the plan was made.              *)
PlannedSet(i, now) == plans[i].deletes
CurrentSet(i, now) == Beyond(now)

TenantIsFree == \A w \in Threads : run[w] = NoRun

BeginRetention(w, i, cand) ==
  /\ run[w] = NoRun /\ call[w] = NoCall
  /\ TenantIsFree
  /\ ~plans[i].done
  /\ IF Unclear(i, cand) # {}
     THEN /\ \E done \in SUBSET Finished(i) : Advance(i, Settled(i, done))
          /\ UNCHANGED run
     ELSE /\ Advance(i, Settled(i, Finished(i)))
          /\ LET deleted == plans[i].deleted \cup Finished(i)
                 now == Eligible(cand, flag, deleted)
             IN run' = IF Assessable(cand, flag, deleted)
                       THEN [run EXCEPT ![w] = [plan |-> i, cand |-> cand,
                               flags |-> flag, beyond |-> CurrentSet(i, now)]]
                       ELSE run
  /\ UNCHANGED <<storeVars, flag, reflagged>>

Todo(w) == LET p == plans[run[w].plan]
           IN p.deletes \ (p.deleted \cup p.skipped)
NextOf(w) == CHOOSE o \in Todo(w) : Newer(o, Todo(w)) = {}

Running(w) == run[w] # NoRun /\ call[w] = NoCall

(* The state of an unfinished deletion cannot be told from damage.         *)
Ambiguous(w, o) == /\ o \in plans[run[w].plan].pending
                   /\ run[w].flags[o] = "daily"

SkipOrStop(w) ==
  /\ Running(w) /\ Todo(w) # {}
  /\ LET o == NextOf(w)
         i == run[w].plan
     IN /\ o \notin run[w].beyond
        /\ IF o \notin run[w].cand \/ Ambiguous(w, o)
           THEN Stop(w) /\ UNCHANGED plans
           ELSE /\ Advance(i, [plans[i] EXCEPT !.pending = @ \ {o},
                                               !.skipped = @ \cup {o}])
                /\ UNCHANGED run
  /\ UNCHANGED <<storeVars, flag, reflagged>>

DeleteNext(w) ==
  /\ Running(w) /\ Todo(w) # {}
  /\ LET o == NextOf(w)
         i == run[w].plan
     IN /\ o \in run[w].beyond
        /\ IF StoredHolds(o)
           THEN /\ Advance(i, [plans[i] EXCEPT !.pending = @ \cup {o}])
                /\ asked' = asked \cup {o}
                /\ Enter(w, o, "delete", "look")
                /\ UNCHANGED run
           ELSE Stop(w) /\ UNCHANGED <<plans, asked, call>>
  /\ UNCHANGED <<OnDisk, evidence, told, gone, Rest, faults, flag, reflagged>>

AfterDelete(w) ==
  /\ run[w] # NoRun
  /\ DeleteReturns(w)
  /\ LET o == call[w].of
         i == run[w].plan
     IN IF o \in gone'
        THEN Advance(i, Settled(i, {o})) /\ UNCHANGED run
        ELSE Stop(w) /\ UNCHANGED plans
  /\ UNCHANGED <<flag, reflagged>>

FinishRetention(w) ==
  /\ Running(w) /\ Todo(w) = {}
  /\ Advance(run[w].plan, [plans[run[w].plan] EXCEPT !.done = TRUE])
  /\ Stop(w)
  /\ UNCHANGED <<storeVars, flag, reflagged>>

---------------------------------------------------------------------------
Reflag(o) ==
  /\ reflagged < MostReflagged /\ reflagged' = reflagged + 1
  /\ \E f \in Flags \ {flag[o]} : flag' = [flag EXCEPT ![o] = f]
  /\ UNCHANGED <<storeVars, plans, run>>

Restart ==
  /\ Crash
  /\ plans' = <<>> /\ run' = [w \in Threads |-> NoRun]
  /\ UNCHANGED <<flag, reflagged>>

RetentionNext ==
  \/ \E w \in Threads :
       \/ \E i \in DOMAIN plans, cand \in Candidates : BeginRetention(w, i, cand)
       \/ SkipOrStop(w) \/ DeleteNext(w) \/ AfterDelete(w) \/ FinishRetention(w)
       \/ (Delete(w) \/ DeleteBreaks(w)) /\ UNCHANGED <<flag, plans, run, reflagged>>
  \/ \E cand \in Candidates : BuildPlan(cand)
  \/ \E o \in Objects : \/ Reflag(o)
                        \/ Decay(o) /\ UNCHANGED <<flag, plans, run, reflagged>>
  \/ Restart

RetentionSpec == AllStored(Objects) /\ [][RetentionNext]_retentionVars

---------------------------------------------------------------------------
(* However plans grow old, are repeated after failures or follow each      *)
(* other, for every backup that retention set out to delete there are Keep *)
(* newer ones that it did not, it was a daily one in the records the       *)
(* execution was given, and nothing beyond a plan's set is ever deleted.   *)
KeepsNewest ==
  /\ \A o \in asked : Cardinality(Newer(o, told \ asked)) >= Keep
  /\ \A i \in DOMAIN plans :
       plans[i].pending \cup plans[i].deleted \subseteq plans[i].deletes
  /\ \A w \in Threads : run[w] # NoRun /\ call[w] # NoCall =>
        run[w].flags[call[w].of] = "daily"
=============================================================================
