----------------------------- MODULE Readiness -----------------------------
(***************************************************************************)
(* /health/ready (Health/health.go).  A request takes the mutex; if the    *)
(* cached answer is too old it probes the upstreams while it has it, group *)
(* after group, the targets of a group at once, until one of each group    *)
(* has answered.  The groups share one deadline.  What is left of a group  *)
(* that is decided is cancelled, and its goroutines send what they have to *)
(* a channel nobody reads any more.                                        *)
(*                                                                         *)
(* Time passes only when no goroutine can go on: locks, channels and       *)
(* cancellations take none, an answer of a target may.                     *)
(***************************************************************************)
EXTENDS Integers, Sequences, FiniteSets

CONSTANTS Requests,
          Groups,  \* the targets of each HTTP upstream: a sequence of sets
          Timeout, \* probeTimeout
          TTL,     \* cacheTTL
          None

Targets  == UNION {Groups[g] : g \in DOMAIN Groups}

\* Without an HTTP upstream the answer is always ok.
ASSUME ReadinessAssumption ==
  /\ Groups \in Seq(SUBSET Targets) /\ Groups # <<>>
  /\ \A g \in DOMAIN Groups : IsFiniteSet(Groups[g])
  /\ \A g, h \in DOMAIN Groups : g # h => Groups[g] \cap Groups[h] = {}
  /\ Timeout \in Nat \ {0} /\ TTL \in Nat \ {0} /\ None \notin Requests

GroupOf(t) == CHOOSE g \in DOMAIN Groups : t \in Groups[g]
Least(a, b) == IF a <= b THEN a ELSE b

\* Ages from here on make no difference.
Old == TTL + Timeout

VARIABLES stage,           \* of a request: it waits for the mutex, or probes
          holder,          \* of the mutex: a request, while it probes
          group, left,     \* its group; time left to its deadline
          probing,         \* the targets whose probe runs
          channel, failed, \* channel[g]: results not received; how many received failed
          cached, checked, \* the answer, and how old it is; Old when there is none
          health,          \* "ok": answers at once; "slow": later, or never; "bad": no, or never
          wellAge, illAge, \* history: time since a target was last not bad, last not ok
          waited           \* history: time since a request came

cache         == <<cached, checked>>
probes        == <<group, left, probing, channel, failed>>
world         == <<health, wellAge, illAge>>
readinessVars == <<stage, holder, probes, cache, world, waited>>

ReadinessInit ==
  /\ stage = [r \in Requests |-> "idle"] /\ holder = None
  /\ group = 0 /\ left = 0 /\ probing = {}
  /\ channel = [g \in DOMAIN Groups |-> <<>>] /\ failed = 0
  /\ cached = FALSE /\ checked = Old
  /\ health = [t \in Targets |-> "ok"]
  /\ wellAge = [t \in Targets |-> 0] /\ illAge = [t \in Targets |-> Old]
  /\ waited = [r \in Requests |-> 0]

\* A probe nobody waits for any more; its context is cancelled.
Cancelled(t) == GroupOf(t) # group
Fresh == checked < TTL
-----------------------------------------------------------------------------
Arrive(r) == /\ stage[r] = "idle"
             /\ stage' = [stage EXCEPT ![r] = "lock"]
             /\ waited' = [waited EXCEPT ![r] = 0]
             /\ UNCHANGED <<holder, probes, cache, world>>

\* groupReady starts a probe of every target.
Starts(g) == /\ group' = g /\ failed' = 0
             /\ probing' = probing \cup Groups[g]
             /\ channel' = [channel EXCEPT ![g] = <<>>]

FinishesLocked(result) == \* mutant of Finishes: the mutex is not given back when the answer is no
  /\ cached' = result /\ checked' = 0
  /\ stage' = [stage EXCEPT ![holder] = "idle"]
  /\ holder' = IF result THEN None ELSE holder
  /\ group' = 0 /\ left' = 0 /\ failed' = 0
  /\ UNCHANGED <<probing, channel>>
\* The holder leaves with its result, which is cached.
Finishes(result) == /\ cached' = result /\ checked' = 0
                    /\ stage' = [stage EXCEPT ![holder] = "idle"]
                    /\ holder' = None /\ group' = 0 /\ left' = 0 /\ failed' = 0
                    /\ UNCHANGED <<probing, channel>>

LockRenews(r) == \* mutant of Lock: an answer from the cache counts as checked
  /\ stage[r] = "lock" /\ holder = None
  /\ IF Fresh
     THEN /\ stage' = [stage EXCEPT ![r] = "idle"] /\ checked' = 0
          /\ UNCHANGED <<holder, probes, cached>>
     ELSE /\ holder' = r /\ stage' = [stage EXCEPT ![r] = "probe"]
          /\ left' = Timeout /\ Starts(1)
          /\ UNCHANGED cache
  /\ UNCHANGED <<world, waited>>
LockTrustsOk(r) == \* mutant of Lock: an answer that is not ok is not used again
  /\ stage[r] = "lock" /\ holder = None
  /\ IF Fresh /\ cached
     THEN /\ stage' = [stage EXCEPT ![r] = "idle"]
          /\ UNCHANGED <<holder, probes, cache>>
     ELSE /\ holder' = r /\ stage' = [stage EXCEPT ![r] = "probe"]
          /\ left' = Timeout /\ Starts(1)
          /\ UNCHANGED cache
  /\ UNCHANGED <<world, waited>>
Lock(r) == /\ stage[r] = "lock" /\ holder = None
           /\ IF Fresh
              THEN /\ stage' = [stage EXCEPT ![r] = "idle"]
                   /\ UNCHANGED <<holder, probes, cache>>
              ELSE /\ holder' = r /\ stage' = [stage EXCEPT ![r] = "probe"]
                   /\ left' = Timeout /\ Starts(1)
                   /\ UNCHANGED cache
           /\ UNCHANGED <<world, waited>>

\* The end of a probe: the target's answer, or the deadline's or the cancellation's error.
Results(t) == (IF health[t] # "bad" /\ left > 0 THEN {TRUE} ELSE {})
              \cup (IF health[t] = "bad" \/ left = 0 \/ Cancelled(t) THEN {FALSE} ELSE {})

UnbufferedRoom(g) == \* mutant of HasRoom: the channel has no buffer
  g = group /\ channel[g] = <<>>
\* The channel is made for as many results as the group has targets.
HasRoom(g) == Len(channel[g]) < Cardinality(Groups[g])

Send(t) == /\ t \in probing /\ HasRoom(GroupOf(t))
           /\ \E result \in Results(t) :
                channel' = [channel EXCEPT ![GroupOf(t)] = Append(@, result)]
           /\ probing' = probing \ {t}
           /\ UNCHANGED <<stage, holder, group, left, failed, cache, world, waited>>

GroupIs(ready) == IF ready /\ group < Len(Groups)
                  THEN Starts(group + 1) /\ UNCHANGED <<stage, holder, left, cache>>
                  ELSE Finishes(ready)

ReceiveFirst == \* mutant of Receive: the first result decides
  /\ holder # None /\ channel[group] # <<>>
  /\ GroupIs(Head(channel[group]))
  /\ UNCHANGED <<world, waited>>
ReceiveSuccess == \* mutant of Receive: it waits until a target answers
  /\ holder # None /\ channel[group] # <<>>
  /\ IF Head(channel[group]) THEN GroupIs(TRUE)
     ELSE /\ channel' = [channel EXCEPT ![group] = Tail(@)]
          /\ failed' = failed + 1
          /\ UNCHANGED <<stage, holder, group, left, probing, cache>>
  /\ UNCHANGED <<world, waited>>
\* The first success decides the group, and so does the last failure.
Receive == /\ holder # None
           /\ \/ /\ channel[group] # <<>> /\ Head(channel[group])
                 /\ GroupIs(TRUE)
              \/ /\ channel[group] # <<>> /\ ~Head(channel[group])
                 /\ channel' = [channel EXCEPT ![group] = Tail(@)]
                 /\ failed' = failed + 1
                 /\ UNCHANGED <<stage, holder, group, left, probing, cache>>
              \/ /\ failed = Cardinality(Groups[group])
                 /\ GroupIs(FALSE)
           /\ UNCHANGED <<world, waited>>
-----------------------------------------------------------------------------
Change(t, h) == /\ health' = [health EXCEPT ![t] = h]
                /\ wellAge' = IF h # "bad" THEN [wellAge EXCEPT ![t] = 0] ELSE wellAge
                /\ illAge' = IF h # "ok" THEN [illAge EXCEPT ![t] = 0] ELSE illAge
                /\ UNCHANGED <<stage, holder, probes, cache, waited>>

Older(age) == Least(age + 1, Old)
Tick == /\ \A r \in Requests : stage[r] # "lock" \/ holder # None
        /\ holder # None => channel[group] = <<>> /\ failed < Cardinality(Groups[group])
        /\ \A t \in probing : health[t] # "ok" /\ left > 0 /\ ~Cancelled(t)
        /\ left' = IF holder # None THEN left - 1 ELSE 0
        /\ checked' = Older(checked)
        /\ wellAge' = [t \in Targets |-> IF health[t] # "bad" THEN 0 ELSE Older(wellAge[t])]
        /\ illAge' = [t \in Targets |-> IF health[t] # "ok" THEN 0 ELSE Older(illAge[t])]
        /\ waited' = [r \in Requests |-> IF stage[r] \in {"lock", "probe"} THEN waited[r] + 1 ELSE 0]
        /\ channel' = [g \in DOMAIN Groups |-> <<>>] \* those of groups decided are collected
        /\ UNCHANGED <<stage, holder, group, probing, failed, cached, health>>

ReadinessNext ==
  \/ \E r \in Requests : Arrive(r) \/ Lock(r)
  \/ \E t \in Targets : Send(t) \/ \E h \in {"ok", "slow", "bad"} : Change(t, h)
  \/ Receive \/ Tick

ReadinessSpec == ReadinessInit /\ [][ReadinessNext]_readinessVars

\* Goroutines go on and time passes; the mutex is fair to those that wait.  Targets owe
\* nothing, but for those that answer at once.
Prompt(t) == Send(t) /\ (health[t] = "ok" \/ left = 0 \/ Cancelled(t))
ReadinessFairSpec ==
  /\ ReadinessSpec
  /\ \A r \in Requests : SF_readinessVars(Lock(r))
  /\ SF_readinessVars(\E t \in Targets : Prompt(t))
  /\ WF_readinessVars(Receive) /\ WF_readinessVars(Tick)
-----------------------------------------------------------------------------
ReadinessTypeOK ==
  /\ stage \in [Requests -> {"idle", "lock", "probe"}]
  /\ \A r \in Requests : holder = r <=> stage[r] = "probe"
  /\ group \in 0..Len(Groups) /\ left \in 0..Timeout
  /\ group # 0 <=> holder # None
  /\ probing \subseteq Targets
  /\ \A g \in DOMAIN Groups : channel[g] \in UNION {[1..n -> BOOLEAN] : n \in 0..Cardinality(Groups[g])}
  /\ cached \in BOOLEAN /\ checked \in 0..Old

\* A request is answered, with what is in the cache then.
Given(ready) == cached' = ready /\ \E r \in Requests : stage[r] # "idle" /\ stage'[r] = "idle"

\* Ready is said only if every upstream had a target that answers, less than cacheTTL and
\* probeTimeout ago.
ReadyJustified ==
  [][Given(TRUE) => \A g \in DOMAIN Groups : \E t \in Groups[g] : wellAge[t] < TTL + Timeout]_readinessVars

\* health_test.go, TestReadinessRequiresOneAvailableTargetPerGroup: unavailable is said
\* only if an upstream had no target that answered at once all that time.
UnavailableJustified ==
  [][Given(FALSE) =>
       \E g \in DOMAIN Groups : \A t \in Groups[g] : illAge[t] < TTL + Timeout]_readinessVars

\* The answers given agree with how the targets were lately, both ways.
AnswersJustified == ReadyJustified /\ UnavailableJustified

\* However many requests wait for the mutex, none waits longer than one round of probes.
WaitBounded == \A r \in Requests : waited[r] <= Timeout

\* Every request is answered, whatever becomes of the targets.
EveryRequestAnswered == \A r \in Requests : stage[r] = "lock" ~> stage[r] = "idle"

\* The goroutine of a probe can always leave its result and end, also when its group was
\* decided without it and nobody receives any more.
ProbesEnd == \A t \in probing : HasRoom(GroupOf(t)) /\ Results(t) # {}

\* Neither a request nor a probe is held up by the mutex or by a channel nobody reads.
NobodyStuck == ReadinessTypeOK /\ WaitBounded /\ ProbesEnd
=============================================================================
