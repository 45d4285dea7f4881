------------------------- MODULE LoadBalancerProofs -------------------------
(***************************************************************************)
(* LoadBalancer proved for any number of targets and requests: what one    *)
(* request may rely on while the others move the counter and the health    *)
(* map under it.                                                           *)
(***************************************************************************)
EXTENDS LoadBalancer, TLAPS

USE LoadBalancerAssumption
-----------------------------------------------------------------------------
FailsOver(r) == pc[r] \in {"scan", "retry", "retryFailed"}

\* Where r is in RoundTrip tells which upstreams failed it and why it goes on.
Course(r) ==
  /\ pc[r] = "check" => tries[r] > 0
  /\ pc[r] \in {"idle", "next", "check", "send", "failed"} => scan[r] = 0
  /\ pc[r] \in {"idle", "next", "check", "send"} => failedOn[r] = {}
  /\ pc[r] = "failed" => failedOn[r] = {KeyOf[target[r]]}
  /\ pc[r] \in {"failed", "scan", "retry", "retryFailed"} => cause[r] # "none"
  /\ cause[r] = "client" => canceled[r]
  /\ FailsOver(r) => retryable[r] /\ KeyOf[target[r]] \in failedOn[r]
  /\ pc[r] = "retry" => KeyOf[scan[r]] # KeyOf[target[r]]
  /\ pc[r] = "retryFailed" => KeyOf[scan[r]] \in failedOn[r]

\* The loop looked at every target before scan[r]: those in rotation all the while failed r.
Covered(r) == FailsOver(r) => \A j \in Indices : j < scan[r] =>
                                KeyOf[j] \in failedOn[r] \/ KeyOf[j] \notin steady[r]

\* Only the target r went to first and those before scan[r] failed it.
Behind(r) == FailsOver(r) => \A k \in failedOn[r] :
               \/ k = KeyOf[target[r]]
               \/ \E j \in Indices : j < scan[r] /\ k = KeyOf[j]
               \/ pc[r] = "retryFailed" /\ k = KeyOf[scan[r]]

Sound(r) == Course(r) /\ Covered(r) /\ Behind(r)
IInv == TypeOK /\ \A r \in Requests : Sound(r)

Same(r) == /\ pc'[r] = pc[r] /\ retryable'[r] = retryable[r] /\ tries'[r] = tries[r]
           /\ target'[r] = target[r] /\ scan'[r] = scan[r] /\ cause'[r] = cause[r]
           /\ failedOn'[r] = failedOn[r]

\* Whatever the others do, the targets in rotation since r began only get fewer.
LEMMA SteadyShrinks ==
  ASSUME Watched, TypeOK, NEW r \in Requests, pc[r] # "idle"
  PROVE  steady'[r] \subseteq steady[r]
BY DEF Watched

LEMMA SteadyType ==
  ASSUME Watched, TypeOK PROVE steady' \in [Requests -> SUBSET Keys]
<1>1. \A r \in Requests : steady[r] \subseteq Keys
  BY DEF TypeOK
<1> QED BY <1>1 DEF Watched

\* A step that is not r's leaves r sound, though its client may leave meanwhile.
LEMMA OthersKeep ==
  ASSUME Watched, TypeOK, NEW r \in Requests, Sound(r), Same(r),
         canceled'[r] = canceled[r] \/ canceled'[r]
  PROVE  Sound(r)'
<1>1. Course(r)'
  BY DEF Sound, Course, Same, FailsOver
<1>2. Covered(r)'
  BY SteadyShrinks DEF Sound, Covered, Same, FailsOver
<1>3. Behind(r)'
  BY DEF Sound, Behind, Same, FailsOver
<1> QED BY <1>1, <1>2, <1>3 DEF Sound

\* The next request finds nothing of the last one.
LEMMA EndIsSound ==
  ASSUME TypeOK, NEW r \in Requests, Ends(r)
  PROVE  /\ Sound(r)'
         /\ \A s \in Requests : s # r => Same(s) /\ canceled'[s] = canceled[s]
<1>1. pc'[r] = "idle" /\ cause'[r] = "none"
  BY DEF TypeOK, Ends
<1> QED BY <1>1 DEF TypeOK, Ends, Same, Sound, Course, Covered, Behind, FailsOver

LEMMA EndType ==
  ASSUME TypeOK, NEW r \in Requests, Ends(r), UNCHANGED counter, down' \subseteq Keys, Watched
  PROVE  TypeOK'
<1>1. 0 \in Indices /\ 0 \in 0..N
  BY DEF Indices
<1>2. pc'[r] = "idle" /\ \A s \in Requests : s # r => pc'[s] = pc[s] /\ scan'[s] = scan[s]
  BY DEF TypeOK, Ends
<1> QED BY <1>1, <1>2, SteadyType DEF TypeOK, Ends

LEMMA KeysOf == \A i \in Indices : KeyOf[i] \in Keys
BY DEF Keys
-----------------------------------------------------------------------------
\* One lemma for each step of a request: it keeps the types and leaves r sound.
LEMMA StartSound ==
  ASSUME IInv, NEW r \in Requests, NEW safe \in BOOLEAN, Start(r, safe)
  PROVE  IInv'
<1>0. TypeOK /\ \A s \in Requests : Sound(s)
  BY DEF IInv
<1>1. N \in 0..N /\ N > 0
  OBVIOUS
<1>2. TypeOK'
  BY <1>0, <1>1, SteadyType DEF TypeOK, Start, Goes
<1>3. Sound(r)'
  BY <1>0, <1>1 DEF TypeOK, Start, Goes, Sound, Course, Covered, Behind, FailsOver
<1>4. \A s \in Requests : s # r => Same(s) /\ canceled'[s] = canceled[s]
  BY <1>0 DEF TypeOK, Start, Goes, Same
<1> QED BY <1>0, <1>2, <1>3, <1>4, OthersKeep DEF Start, IInv

LEMMA PickSound ==
  ASSUME IInv, NEW r \in Requests, Pick(r)
  PROVE  IInv'
<1>0. TypeOK /\ \A s \in Requests : Sound(s)
  BY DEF IInv
<1>1. counter \in Indices /\ counter' \in Indices
  BY <1>0 DEF TypeOK, Pick, Indices
<1>2. TypeOK'
  BY <1>0, <1>1, SteadyType DEF TypeOK, Pick
<1>3. Sound(r)'
  BY <1>0 DEF TypeOK, Pick, Sound, Course, Covered, Behind, FailsOver
<1>4. \A s \in Requests : s # r => Same(s) /\ canceled'[s] = canceled[s]
  BY <1>0 DEF TypeOK, Pick, Same
<1> QED BY <1>0, <1>2, <1>3, <1>4, OthersKeep DEF Pick, IInv

LEMMA CheckSound ==
  ASSUME IInv, NEW r \in Requests, Check(r)
  PROVE  IInv'
<1>0. TypeOK /\ \A s \in Requests : Sound(s)
  BY DEF IInv
<1>1. tries[r] - 1 \in 0..N /\ 0 \in Indices /\ pc[r] = "check"
  BY <1>0 DEF TypeOK, Check, Goes, Sound, Course, Indices
<1>2. TypeOK'
  BY <1>0, <1>1, SteadyType DEF TypeOK, Check, Goes
<1>3. Sound(r)'
  BY <1>0, <1>1 DEF TypeOK, Check, Goes, Sound, Course, Covered, Behind, FailsOver
<1>4. \A s \in Requests : s # r => Same(s) /\ canceled'[s] = canceled[s]
  BY <1>0 DEF TypeOK, Check, Goes, Same
<1> QED BY <1>0, <1>2, <1>3, <1>4, OthersKeep DEF Check, IInv

\* The answer ends the request; the error is remembered with its cause.
LEMMA Fails ==
  ASSUME IInv, NEW r \in Requests, NEW k \in Keys, NEW next \in {"failed", "retryFailed"},
         pc[r] \in {"send", "retry"}, next = "retryFailed" => pc[r] = "retry",
         RoundTripTo(r, k, next), ~Ends(r)
  PROVE  /\ TypeOK' /\ pc'[r] = next /\ failedOn'[r] = failedOn[r] \cup {k}
         /\ cause'[r] # "none" /\ (cause'[r] = "client" => canceled'[r])
         /\ canceled'[r] = canceled[r] /\ retryable'[r] = retryable[r]
         /\ target'[r] = target[r] /\ scan'[r] = scan[r]
         /\ steady'[r] \subseteq steady[r]
         /\ \A s \in Requests : s # r => Same(s) /\ canceled'[s] = canceled[s]
<1>0. TypeOK /\ Watched
  BY DEF IInv, RoundTripTo
<1>1. PICK c \in {"upstream", "client"} :
        /\ cause' = [cause EXCEPT ![r] = c] /\ (c = "client" => canceled[r])
        /\ pc' = [pc EXCEPT ![r] = next]
        /\ failedOn' = [failedOn EXCEPT ![r] = @ \cup {k}]
        /\ UNCHANGED <<counter, down, canceled, retryable, tries, target, scan>>
  BY DEF RoundTripTo
<1>2. TypeOK'
  BY <1>0, <1>1, SteadyType DEF TypeOK
<1>3. \A s \in Requests : s # r => Same(s) /\ canceled'[s] = canceled[s]
  BY <1>0, <1>1 DEF TypeOK, Same
<1>4. steady'[r] \subseteq steady[r]
  BY <1>0, SteadyShrinks
<1> QED BY <1>0, <1>1, <1>2, <1>3, <1>4 DEF TypeOK

LEMMA SendSound ==
  ASSUME IInv, NEW r \in Requests, Send(r)
  PROVE  IInv'
<1>0. /\ TypeOK /\ \A s \in Requests : Sound(s)
      /\ pc[r] = "send" /\ RoundTripTo(r, KeyOf[target[r]], "failed") /\ Watched
  BY DEF IInv, Send, RoundTripTo
<1>1. CASE Ends(r)
  <2>1. TypeOK'
    <3>1. UNCHANGED <<counter, down>>
      BY <1>0, <1>1 DEF RoundTripTo, Ends, TypeOK
    <3> QED BY <1>0, <1>1, <3>1, EndType DEF TypeOK
  <2> QED BY <1>0, <1>1, <2>1, EndIsSound, OthersKeep DEF IInv
<1>2. CASE ~Ends(r)
  <2>1. KeyOf[target[r]] \in Keys
    BY <1>0, KeysOf DEF TypeOK
  <2>2. /\ TypeOK' /\ pc'[r] = "failed" /\ failedOn'[r] = failedOn[r] \cup {KeyOf[target[r]]}
        /\ cause'[r] # "none" /\ (cause'[r] = "client" => canceled'[r])
        /\ target'[r] = target[r] /\ scan'[r] = scan[r]
        /\ \A s \in Requests : s # r => Same(s) /\ canceled'[s] = canceled[s]
    BY <1>0, <1>2, <2>1, Fails
  <2>3. Sound(r)'
    BY <1>0, <2>2 DEF Sound, Course, Covered, Behind, FailsOver
  <2> QED BY <1>0, <2>2, <2>3, OthersKeep DEF IInv
<1> QED BY <1>1, <1>2

LEMMA RetrySound ==
  ASSUME IInv, NEW r \in Requests, Retry(r)
  PROVE  IInv'
<1>0. /\ TypeOK /\ \A s \in Requests : Sound(s)
      /\ pc[r] = "retry" /\ RoundTripTo(r, KeyOf[scan[r]], "retryFailed") /\ Watched
  BY DEF IInv, Retry, RoundTripTo
<1>1. CASE Ends(r)
  <2>1. TypeOK'
    <3>1. UNCHANGED <<counter, down>>
      BY <1>0, <1>1 DEF RoundTripTo, Ends, TypeOK
    <3> QED BY <1>0, <1>1, <3>1, EndType DEF TypeOK
  <2> QED BY <1>0, <1>1, <2>1, EndIsSound, OthersKeep DEF IInv
<1>2. CASE ~Ends(r)
  <2>1. KeyOf[scan[r]] \in Keys
    BY <1>0, KeysOf DEF TypeOK
  <2>2. /\ TypeOK' /\ pc'[r] = "retryFailed" /\ failedOn'[r] = failedOn[r] \cup {KeyOf[scan[r]]}
        /\ cause'[r] # "none" /\ (cause'[r] = "client" => canceled'[r])
        /\ target'[r] = target[r] /\ scan'[r] = scan[r] /\ retryable'[r] = retryable[r]
        /\ steady'[r] \subseteq steady[r]
        /\ \A s \in Requests : s # r => Same(s) /\ canceled'[s] = canceled[s]
    BY <1>0, <1>2, <2>1, Fails
  <2>3. Sound(r)'
    <3>1. Course(r)'
      BY <1>0, <2>2 DEF Sound, Course, FailsOver
    <3>2. Covered(r)'
      BY <1>0, <2>2 DEF Sound, Covered, FailsOver
    <3>3. Behind(r)'
      BY <1>0, <2>2 DEF Sound, Behind, FailsOver
    <3> QED BY <3>1, <3>2, <3>3 DEF Sound
  <2> QED BY <1>0, <2>2, <2>3, OthersKeep DEF IInv
<1> QED BY <1>1, <1>2

LEMMA FailedSound ==
  ASSUME IInv, NEW r \in Requests, Failed(r)
  PROVE  IInv'
<1>0. /\ TypeOK /\ \A s \in Requests : Sound(s)
      /\ pc[r] = "failed" /\ Watched /\ counter' = counter
  BY DEF IInv, Failed
<1>1. down' \subseteq Keys
  <2>1. KeyOf[target[r]] \in Keys /\ down \subseteq Keys
    BY <1>0, KeysOf DEF TypeOK
  <2> QED BY <2>1 DEF Failed, MarkUnlessCanceled
<1>2. CASE Ends(r)
  BY <1>0, <1>1, <1>2, EndType, EndIsSound, OthersKeep DEF IInv
<1>3. CASE retryable[r] /\ Goes(r, "failed", "scan") /\ UNCHANGED <<canceled, locals>>
  <2>1. TypeOK'
    BY <1>0, <1>1, <1>3, SteadyType DEF TypeOK, Goes, locals
  <2>2. Sound(r)'
    <3>1. /\ pc'[r] = "scan" /\ scan'[r] = 0 /\ failedOn'[r] = {KeyOf[target[r]]}
          /\ target'[r] = target[r] /\ retryable'[r] = retryable[r] /\ cause'[r] = cause[r]
          /\ canceled'[r] = canceled[r]
      BY <1>0, <1>3 DEF TypeOK, Goes, locals, Sound, Course
    <3>2. \A j \in Indices : ~(j < 0)
      BY DEF Indices
    <3>3. Course(r)'
      BY <1>0, <1>3, <3>1 DEF Sound, Course, FailsOver
    <3> QED BY <3>1, <3>2, <3>3 DEF Sound, Covered, Behind, FailsOver
  <2>3. \A s \in Requests : s # r => Same(s) /\ canceled'[s] = canceled[s]
    BY <1>0, <1>3 DEF TypeOK, Goes, locals, Same
  <2> QED BY <1>0, <2>1, <2>2, <2>3, OthersKeep DEF IInv
<1> QED BY <1>2, <1>3 DEF Failed

\* A target the loop passes over is not in rotation, or it failed r first of all.
LEMMA ScanSound ==
  ASSUME IInv, NEW r \in Requests, Scan(r)
  PROVE  IInv'
<1>0. /\ TypeOK /\ \A s \in Requests : Sound(s)
      /\ pc[r] = "scan" /\ Watched /\ counter' = counter /\ down' = down /\ down \subseteq Keys
      /\ scan[r] \in Nat /\ Indices = 0..(N - 1)
  BY DEF IInv, Scan, Goes, TypeOK, Indices
<1>1. CASE Ends(r)
  BY <1>0, <1>1, EndType, EndIsSound, OthersKeep DEF IInv
<1>2. CASE /\ scan[r] < N /\ Passed(r) /\ scan' = [scan EXCEPT ![r] = @ + 1]
           /\ UNCHANGED <<pc, canceled, retryable, tries, target, cause, failedOn>>
  <2>1. scan[r] \in Indices /\ scan[r] + 1 \in 0..N /\ scan'[r] = scan[r] + 1
    BY <1>0, <1>2 DEF TypeOK
  <2>2. TypeOK'
    BY <1>0, <1>2, <2>1, SteadyType DEF TypeOK
  <2>3. steady'[r] \subseteq steady[r] /\ steady'[r] = steady[r] \ down
    BY <1>0, <1>2, SteadyShrinks DEF Watched
  <2>4. KeyOf[scan[r]] \in failedOn[r] \/ KeyOf[scan[r]] \notin steady'[r]
    BY <1>0, <1>2, <2>3 DEF Passed, Sound, Course, FailsOver
  <2>5. \A j \in Indices : j < scan[r] + 1 => j < scan[r] \/ j = scan[r]
    BY <1>0 DEF Indices
  <2>6. \A j \in Indices : j < scan[r] => j < scan[r] + 1
    BY <1>0 DEF Indices
  <2>7. Course(r)'
    BY <1>0, <1>2 DEF Sound, Course, FailsOver
  <2>8. Covered(r)'
    BY <1>0, <1>2, <2>1, <2>3, <2>4, <2>5 DEF Sound, Covered, FailsOver
  <2>9. Behind(r)'
    BY <1>0, <1>2, <2>1, <2>6 DEF Sound, Behind, FailsOver
  <2>10. \A s \in Requests : s # r => Same(s) /\ canceled'[s] = canceled[s]
    BY <1>0, <1>2 DEF TypeOK, Same
  <2> QED BY <1>0, <2>2, <2>7, <2>8, <2>9, <2>10, OthersKeep DEF IInv, Sound
<1>3. CASE /\ Goes(r, "scan", "retry") /\ scan[r] < N /\ ~Passed(r)
           /\ UNCHANGED <<canceled, locals>>
  <2>1. scan[r] \in Indices
    BY <1>0, <1>3 DEF TypeOK
  <2>2. /\ pc' = [pc EXCEPT ![r] = "retry"] /\ pc'[r] = "retry"
        /\ retryable' = retryable /\ tries' = tries /\ target' = target /\ scan' = scan
        /\ cause' = cause /\ failedOn' = failedOn /\ canceled' = canceled
    BY <1>0, <1>3 DEF Goes, locals, TypeOK
  <2>3. TypeOK'
    BY <1>0, <2>1, <2>2, SteadyType DEF TypeOK
  <2>4. steady'[r] \subseteq steady[r]
    BY <1>0, SteadyShrinks
  <2>5. Course(r)'
    BY <1>0, <1>3, <2>2 DEF Sound, Course, FailsOver, Passed
  <2>6. Covered(r)' /\ Behind(r)'
    BY <1>0, <2>2, <2>4 DEF Sound, Covered, Behind, FailsOver
  <2>7. \A s \in Requests : s # r => Same(s) /\ canceled'[s] = canceled[s]
    BY <1>0, <2>2 DEF TypeOK, Same
  <2> QED BY <1>0, <2>3, <2>5, <2>6, <2>7, OthersKeep DEF IInv, Sound
<1> QED BY <1>1, <1>2, <1>3 DEF Scan

LEMMA RetryFailedSound ==
  ASSUME IInv, NEW r \in Requests, RetryFailed(r)
  PROVE  IInv'
<1>0. /\ TypeOK /\ \A s \in Requests : Sound(s)
      /\ pc[r] = "retryFailed" /\ Watched /\ counter' = counter
      /\ scan[r] \in Indices /\ scan[r] \in Nat /\ Indices = 0..(N - 1)
  BY DEF IInv, RetryFailed, TypeOK, Indices
<1>1. down' \subseteq Keys
  <2>1. KeyOf[scan[r]] \in Keys /\ down \subseteq Keys
    BY <1>0, KeysOf DEF TypeOK
  <2> QED BY <2>1 DEF RetryFailed, MarkUnlessCanceled
<1>2. CASE Ends(r)
  BY <1>0, <1>1, <1>2, EndType, EndIsSound, OthersKeep DEF IInv
<1>3. CASE /\ Goes(r, "retryFailed", "scan") /\ scan' = [scan EXCEPT ![r] = @ + 1]
           /\ UNCHANGED <<canceled, retryable, tries, target, cause, failedOn>>
  <2>1. scan[r] + 1 \in 0..N /\ scan'[r] = scan[r] + 1 /\ pc'[r] = "scan"
    BY <1>0, <1>3 DEF TypeOK, Goes
  <2>2. TypeOK'
    BY <1>0, <1>1, <1>3, <2>1, SteadyType DEF TypeOK, Goes
  <2>3. steady'[r] \subseteq steady[r]
    BY <1>0, SteadyShrinks
  <2>4. \A j \in Indices : j < scan[r] + 1 => j < scan[r] \/ j = scan[r]
    BY <1>0 DEF Indices
  <2>5. scan[r] < scan[r] + 1 /\ \A j \in Indices : j < scan[r] => j < scan[r] + 1
    BY <1>0 DEF Indices
  <2>6. Course(r)'
    BY <1>0, <1>3, <2>1 DEF Sound, Course, FailsOver
  <2>7. Covered(r)'
    BY <1>0, <1>3, <2>1, <2>3, <2>4 DEF Sound, Course, Covered, FailsOver
  <2>8. Behind(r)'
    BY <1>0, <1>3, <2>1, <2>5 DEF Sound, Behind, FailsOver
  <2>9. \A s \in Requests : s # r => Same(s) /\ canceled'[s] = canceled[s]
    BY <1>0, <1>3 DEF TypeOK, Goes, Same
  <2> QED BY <1>0, <2>2, <2>6, <2>7, <2>8, <2>9, OthersKeep DEF IInv, Sound
<1> QED BY <1>2, <1>3 DEF RetryFailed

\* Clients that leave and cooldowns that end disturb no request.
LEMMA EnvironmentSound ==
  ASSUME IInv, (\E r \in Requests : Cancel(r)) \/ (\E k \in Keys : Expire(k))
  PROVE  IInv'
<1>0. TypeOK /\ \A s \in Requests : Sound(s)
  BY DEF IInv
<1>1. /\ Watched /\ UNCHANGED <<counter, pc, locals>> /\ down' \subseteq down
      /\ canceled' \in [Requests -> BOOLEAN]
      /\ \A s \in Requests : canceled'[s] = canceled[s] \/ canceled'[s]
  BY <1>0 DEF Cancel, Expire, TypeOK
<1>2. TypeOK'
  BY <1>0, <1>1, SteadyType DEF TypeOK, locals
<1>3. \A s \in Requests : Same(s)
  BY <1>1 DEF Same, locals
<1> QED BY <1>0, <1>1, <1>2, <1>3, OthersKeep DEF IInv

LEMMA NextSound == IInv /\ [Next]_vars => IInv'
<1>1. IInv /\ UNCHANGED vars => IInv'
  BY DEF IInv, vars, locals, TypeOK, Sound, Course, Covered, Behind, FailsOver
<1>2. IInv /\ Next => IInv'
  BY StartSound, PickSound, CheckSound, SendSound, FailedSound, ScanSound, RetrySound,
     RetryFailedSound, EnvironmentSound DEF Next, Step
<1> QED BY <1>1, <1>2

LEMMA InvHolds == Spec => []IInv
<1>1. Init => IInv
  <2> SUFFICES ASSUME Init PROVE IInv
    OBVIOUS
  <2>1. 0 \in Indices /\ 0 \in 0..N
    BY DEF Indices
  <2> QED BY <2>1 DEF Init, IInv, TypeOK, Sound, Course, Covered, Behind, FailsOver
<1> QED BY <1>1, NextSound, PTL DEF Spec
-----------------------------------------------------------------------------
\* The counter stays an index, the health map holds configured upstreams only, and the
\* failover loop never runs past the last target, for any number of targets and requests.
THEOREM TypeCorrect == Spec => []TypeOK
<1>1. IInv => TypeOK
  BY DEF IInv
<1> QED BY <1>1, InvHolds, PTL

\* With targets on distinct upstreams the failover of RoundTrip never sends a request to
\* an upstream that failed it, though its cooldown may end while the loop runs; and what
\* is not safe to repeat is sent once.
THEOREM NoSecondTime ==
  ASSUME \A i, j \in Indices : KeyOf[i] = KeyOf[j] => i = j
  PROVE  Spec => []NeverSentTwice
<1>1. IInv => NeverSentTwice
  <2> SUFFICES ASSUME IInv, NEW r \in Requests
               PROVE  /\ pc[r] = "send"  => failedOn[r] = {}
                      /\ pc[r] = "retry" => KeyOf[scan[r]] \notin failedOn[r] /\ retryable[r]
    BY DEF NeverSentTwice
  <2>1. Sound(r) /\ TypeOK
    BY DEF IInv
  <2>2. ASSUME pc[r] = "retry" PROVE KeyOf[scan[r]] \notin failedOn[r]
    <3>1. scan[r] \in Indices /\ \A j \in Indices : j < scan[r] => j # scan[r]
      BY <2>1, <2>2 DEF TypeOK, Indices
    <3>2. KeyOf[scan[r]] # KeyOf[target[r]] /\ FailsOver(r)
      BY <2>1, <2>2 DEF Sound, Course, FailsOver
    <3> QED BY <2>1, <2>2, <3>1, <3>2 DEF Sound, Behind
  <2> QED BY <2>1, <2>2 DEF Sound, Course, FailsOver
<1> QED BY <1>1, InvHolds, PTL

\* RoundTrip gives up on a request that may be repeated only after every target failed it
\* that was in rotation all the while, for any number of targets and requests that mark
\* them: neither the shared counter nor the marks of others can hide one from it.
THEOREM FailureUnavoidable == Spec => NoAvoidableFailure
<1>1. IInv /\ [Next]_vars =>
        [\A r \in Requests :
           BadGateway(r) /\ retryable[r] /\ ~canceled[r] => steady[r] \subseteq failedOn[r]]_vars
  <2> SUFFICES ASSUME IInv, Next, NEW r \in Requests,
                      BadGateway(r), retryable[r], ~canceled[r]
               PROVE  steady[r] \subseteq failedOn[r]
    OBVIOUS
  <2>0. TypeOK /\ Sound(r) /\ pc'[r] # pc[r] /\ pc'[r] = "idle" /\ steady[r] \subseteq Keys
    BY DEF IInv, TypeOK, BadGateway
  <2>1. Failed(r) \/ Scan(r) \/ RetryFailed(r)
    <3>1. ASSUME NEW s \in Requests, Step(s) \/ Cancel(s) \/ \E safe \in BOOLEAN : Start(s, safe)
          PROVE  s = r
      <4> SUFFICES ASSUME s # r PROVE FALSE
        OBVIOUS
      <4>1. pc' = pc \/ \E p : pc' = [pc EXCEPT ![s] = p]
        BY <3>1 DEF Step, Pick, Check, Send, Failed, Scan, Retry, RetryFailed, RoundTripTo, Ends,
                    Goes, Cancel, Start
      <4> QED BY <2>0, <4>1 DEF TypeOK
    <3>2. Step(r)
      BY <2>0, <3>1 DEF Next, Cancel, Expire, Start, Goes, BadGateway
    <3> QED BY <3>2 DEF Step, Pick, Check, Send, Retry, Goes, BadGateway
  <2>2. CASE Failed(r)
    <3>1. N < 2 /\ pc[r] = "failed"
      BY <2>0, <2>2 DEF Failed, Goes, TypeOK
    <3>2. Indices = {0}
      BY <3>1 DEF Indices
    <3>3. Keys = {KeyOf[0]} /\ target[r] = 0
      BY <2>0, <3>2 DEF Keys, TypeOK
    <3> QED BY <2>0, <3>1, <3>3 DEF Sound, Course
  <2>3. CASE Scan(r)
    <3>1. scan[r] = N /\ pc[r] = "scan"
      BY <2>0, <2>3 DEF Scan, Goes, TypeOK
    <3>2. \A j \in Indices : j < N
      BY DEF Indices
    <3>3. \A j \in Indices : KeyOf[j] \in failedOn[r] \/ KeyOf[j] \notin steady[r]
      BY <2>0, <3>1, <3>2 DEF Sound, Covered, FailsOver
    <3> QED BY <2>0, <3>3 DEF Keys
  <2>4. CASE RetryFailed(r)
    BY <2>0, <2>4 DEF RetryFailed, Goes, TypeOK
  <2> QED BY <2>1, <2>2, <2>3, <2>4
<1> QED BY <1>1, InvHolds, PTL DEF Spec, NoAvoidableFailure

\* markDown takes an upstream out of rotation only in the step of a request it failed
\* whose client still waited, for any number of requests and clients that leave.
THEOREM MarksHaveCause == Spec => MarkedForCause
<1>1. IInv /\ [Next]_vars => [\A k \in down' \ down : \E r \in Requests : MarkedBy(r, k)]_vars
  <2> SUFFICES ASSUME IInv, Next, NEW k \in down', k \notin down
               PROVE  \E r \in Requests : MarkedBy(r, k)
    OBVIOUS
  <2>1. PICK r \in Requests : Failed(r) \/ RetryFailed(r)
    BY DEF Next, Step, Start, Pick, Check, Send, Scan, Retry, RoundTripTo, Cancel, Expire
  <2>2. TypeOK /\ Sound(r)
    BY DEF IInv
  <2>3. ~canceled[r]
    BY <2>1 DEF Failed, RetryFailed, MarkUnlessCanceled
  <2>4. cause[r] = "upstream" /\ pc[r] \in {"failed", "retryFailed"}
    BY <2>1, <2>2, <2>3 DEF Failed, RetryFailed, Sound, Course, TypeOK
  <2>5. pc'[r] # pc[r]
    BY <2>1, <2>2, <2>4 DEF Failed, RetryFailed, Goes, Ends, TypeOK
  <2>6. CASE Failed(r)
    BY <2>3, <2>4, <2>5, <2>6 DEF Failed, MarkUnlessCanceled, MarkedBy
  <2>7. CASE RetryFailed(r)
    <3>1. retryable[r] /\ pc[r] = "retryFailed"
      BY <2>2, <2>7 DEF RetryFailed, Sound, Course, FailsOver
    <3> QED BY <2>3, <2>4, <2>5, <2>7, <3>1 DEF RetryFailed, MarkUnlessCanceled, MarkedBy
  <2> QED BY <2>1, <2>6, <2>7
<1> QED BY <1>1, InvHolds, PTL DEF Spec, MarkedForCause
=============================================================================
