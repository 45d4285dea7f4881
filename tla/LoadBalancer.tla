---------------------------- MODULE LoadBalancer ----------------------------
(***************************************************************************)
(* The HTTP load balancer of one upstream (proxy/load_balancer.go): the    *)
(* round-robin counter, the health map with its cooldown, and the failover *)
(* of RoundTrip, used by any number of requests at a time.  A request is a *)
(* goroutine of net/http; it takes one step between two accesses to what   *)
(* it shares with the others:                                              *)
(*                                                                         *)
(*   next, check   pickTarget: one atomic addition, one look at the health *)
(*   send          the first base.RoundTrip                                *)
(*   failed        its error: mark the target, give up or fail over        *)
(*   scan          the failover loop: skip a target, or                    *)
(*   retry         send to it (the second base.RoundTrip)                  *)
(*   retryFailed   its error: mark it, or give up because the client left  *)
(*                                                                         *)
(* An entry of downUntil that has expired is as good as no entry (isDown   *)
(* deletes it); down holds the keys whose cooldown lasts, and Expire ends  *)
(* one at any time after it started.  Any round trip may fail (refused,    *)
(* lost, timed out), whatever the upstream does for other requests.        *)
(***************************************************************************)
EXTENDS Naturals

CONSTANTS N,         \* number of configured targets
          KeyOf,     \* KeyOf[i]: scheme and host of target i
          Requests

Indices == 0..(N - 1)
Keys    == {KeyOf[i] : i \in Indices}

ASSUME LoadBalancerAssumption == N \in Nat \ {0} /\ DOMAIN KeyOf = Indices

VARIABLES counter,    \* next, modulo N: it stays far below the 2^63 an int holds
          down,       \* the keys that cool down
          pc, retryable, canceled,
          tries,      \* tries[r]: picks that remain before pickTarget gives up choosing
          target,     \* target[r]: the target picked, which r.URL keeps naming
          scan,       \* scan[r]: position of the failover loop
          cause,      \* cause[r]: what the last error was
          failedOn,   \* history: failedOn[r], the upstreams that failed the request
          steady      \* history: steady[r], the targets in rotation since r began

locals == <<retryable, tries, target, scan, cause, failedOn>>
vars == <<counter, down, pc, canceled, locals, steady>>

\* The history steady follows every step of anyone while a request is served.
Watched == steady' = [r \in Requests |->
                        IF pc'[r] = "idle" THEN {}
                        ELSE IF pc[r] = "idle" THEN Keys \ down
                        ELSE steady[r] \ down']

Init == /\ counter = 0 /\ down = {} 
        /\ pc = [r \in Requests |-> "idle"]
        /\ retryable = [r \in Requests |-> FALSE]
        /\ canceled = [r \in Requests |-> FALSE]
        /\ tries = [r \in Requests |-> 0]
        /\ target = [r \in Requests |-> 0]
        /\ scan = [r \in Requests |-> 0]
        /\ cause = [r \in Requests |-> "none"]
        /\ failedOn = [r \in Requests |-> {}]
        /\ steady = [r \in Requests |-> {}]

Goes(r, from, to) == pc[r] = from /\ pc' = [pc EXCEPT ![r] = to]

\* The end of ServeHTTP: the locals are gone.
Ends(r) == /\ pc' = [pc EXCEPT ![r] = "idle"]
           /\ retryable' = [retryable EXCEPT ![r] = FALSE]
           /\ canceled' = [canceled EXCEPT ![r] = FALSE]
           /\ failedOn' = [failedOn EXCEPT ![r] = {}]
           /\ tries' = [tries EXCEPT ![r] = 0]
           /\ target' = [target EXCEPT ![r] = 0]
           /\ scan' = [scan EXCEPT ![r] = 0]
           /\ cause' = [cause EXCEPT ![r] = "none"]
-----------------------------------------------------------------------------
\* A request arrives.  It may be sent again if its method is safe and it has no
\* body (an incoming request has no GetBody).
Start(r, safe) == /\ Goes(r, "idle", "next")
                  /\ retryable' = [retryable EXCEPT ![r] = safe]
                  /\ tries' = [tries EXCEPT ![r] = N]
                  /\ UNCHANGED <<counter, down, canceled, target, scan, cause, failedOn>>
                  /\ Watched

\* atomic.AddUint64 and the index; the pick after N refused ones is not examined.
Pick(r) == /\ pc[r] = "next"
            /\ target' = [target EXCEPT ![r] = counter]
            /\ counter' = (counter + 1) % N
            /\ pc' = [pc EXCEPT ![r] = IF tries[r] > 0 THEN "check" ELSE "send"]
            /\ UNCHANGED <<down, canceled, retryable, tries, scan, cause, failedOn>>
            /\ Watched

Check(r) == /\ \/ /\ KeyOf[target[r]] \in down /\ Goes(r, "check", "next")
                  /\ target' = [target EXCEPT ![r] = 0]
               \/ /\ KeyOf[target[r]] \notin down /\ Goes(r, "check", "send")
                  /\ UNCHANGED target
            /\ tries' = [tries EXCEPT ![r] = @ - 1]
            /\ UNCHANGED <<counter, down, canceled, retryable, scan, cause, failedOn>>
            /\ Watched

\* base.RoundTrip to upstream k: the client gets the answer, or the error is looked
\* at in step `next'.
RoundTripTo(r, k, next) ==
  \/ /\ Ends(r)
     /\ UNCHANGED <<counter, down>>
     /\ Watched
  \/ /\ \E c \in {"upstream"} \cup (IF canceled[r] THEN {"client"} ELSE {}) :
          cause' = [cause EXCEPT ![r] = c]
     /\ pc' = [pc EXCEPT ![r] = next]
     /\ failedOn' = [failedOn EXCEPT ![r] = @ \cup {k}]
     /\ UNCHANGED <<counter, down, canceled, retryable, tries, target, scan>>
     /\ Watched

Send(r) == pc[r] = "send" /\ RoundTripTo(r, KeyOf[target[r]], "failed")

\* Mutant: the target is marked whoever is to blame.
MarkAlways(r, k) == down' = down \cup {k}

MarkUnlessCanceled(r, k) ==
  down' = IF canceled[r] THEN down ELSE down \cup {k}

Failed(r) ==
  /\ pc[r] = "failed"
  /\ IF retryable[r] THEN MarkUnlessCanceled(r, KeyOf[target[r]]) ELSE UNCHANGED down
  /\ \/ /\ N < 2 \/ ~retryable[r]
        /\ Ends(r)
     \/ /\ N >= 2 /\ retryable[r]
        /\ Goes(r, "failed", "scan")
        /\ UNCHANGED <<canceled, locals>>
  /\ UNCHANGED <<counter>>
  /\ Watched

\* Mutant: only the targets that cool are passed over.
PassedCooling(r) == KeyOf[scan[r]] \in down

\* The loop passes over the target the request went to first and those that cool.
Passed(r) == LET k == KeyOf[scan[r]] IN k = KeyOf[target[r]] \/ k \in down

\* Mutant: the loop stops at a target that cools.
ScanStops(r) ==
  /\ \/ /\ pc[r] = "scan" /\ (scan[r] = N \/ KeyOf[scan[r]] \in down \ {KeyOf[target[r]]})
        /\ Ends(r)
     \/ /\ pc[r] = "scan" /\ scan[r] < N /\ KeyOf[scan[r]] = KeyOf[target[r]]
        /\ scan' = [scan EXCEPT ![r] = @ + 1]
        /\ UNCHANGED <<pc, canceled, retryable, tries, target, cause, failedOn>>
     \/ /\ Goes(r, "scan", "retry") /\ scan[r] < N /\ ~Passed(r)
        /\ UNCHANGED <<canceled, locals>>
  /\ UNCHANGED <<counter, down>>
  /\ Watched

Scan(r) ==
  /\ \/ /\ pc[r] = "scan" /\ scan[r] = N
        /\ Ends(r)
     \/ /\ pc[r] = "scan" /\ scan[r] < N /\ Passed(r)
        /\ scan' = [scan EXCEPT ![r] = @ + 1]
        /\ UNCHANGED <<pc, canceled, retryable, tries, target, cause, failedOn>>
     \/ /\ Goes(r, "scan", "retry") /\ scan[r] < N /\ ~Passed(r)
        /\ UNCHANGED <<canceled, locals>>
  /\ UNCHANGED <<counter, down>>
  /\ Watched

Retry(r) == pc[r] = "retry" /\ RoundTripTo(r, KeyOf[scan[r]], "retryFailed")

RetryFailed(r) ==
  /\ pc[r] = "retryFailed"
  /\ MarkUnlessCanceled(r, KeyOf[scan[r]])
  /\ \/ /\ canceled[r]
        /\ Ends(r)
     \/ /\ ~canceled[r]
        /\ Goes(r, "retryFailed", "scan")
        /\ scan' = [scan EXCEPT ![r] = @ + 1]
        /\ UNCHANGED <<canceled, retryable, tries, target, cause, failedOn>>
  /\ UNCHANGED <<counter>>
  /\ Watched
-----------------------------------------------------------------------------
(* The environment: clients that leave, and time *)

Cancel(r) == /\ pc[r] # "idle" /\ ~canceled[r]
             /\ canceled' = [canceled EXCEPT ![r] = TRUE]
             /\ UNCHANGED <<counter, down, pc, locals>>
             /\ Watched

Expire(k) == /\ k \in down /\ down' = down \ {k}
             /\ UNCHANGED <<counter, pc, canceled, locals>>
             /\ Watched

Step(r) == Pick(r) \/ Check(r) \/ Send(r) \/ Failed(r) \/ Scan(r) \/ Retry(r) \/ RetryFailed(r)

Next == \/ \E r \in Requests : Step(r) \/ Cancel(r) \/ \E safe \in BOOLEAN : Start(r, safe)
        \/ \E k \in Keys : Expire(k)

Spec == Init /\ [][Next]_vars
-----------------------------------------------------------------------------
(* Safety *)

TypeOK ==
  /\ counter \in Indices /\ down \subseteq Keys 
  /\ pc \in [Requests -> {"idle", "next", "check", "send", "failed", "scan", "retry",
                          "retryFailed"}]
  /\ retryable \in [Requests -> BOOLEAN] /\ canceled \in [Requests -> BOOLEAN]
  /\ tries \in [Requests -> 0..N] /\ target \in [Requests -> Indices]
  /\ scan \in [Requests -> 0..N]
  /\ \A r \in Requests : pc[r] \in {"retry", "retryFailed"} => scan[r] \in Indices
  /\ cause \in [Requests -> {"none", "upstream", "client"}]
  /\ failedOn \in [Requests -> SUBSET Keys] /\ steady \in [Requests -> SUBSET Keys]

\* A request that may be sent again gets 502 (ErrorHandler, unless the error is that
\* its client left) only after every target failed it, except those that cooled at
\* some time of its life.  It does not depend on which targets the shared counter
\* dealt it, on what the other requests marked meanwhile, nor on pickTarget settling
\* for one that cools.
BadGateway(r) == /\ pc[r] \in {"failed", "scan", "retryFailed"} /\ pc'[r] = "idle"
                 /\ cause[r] = "upstream"
NoAvoidableFailure ==
  [][\A r \in Requests :
       BadGateway(r) /\ retryable[r] /\ ~canceled[r] => steady[r] \subseteq failedOn[r]]_vars

\* An upstream that failed a request does not get it a second time, even if it is back
\* in rotation while the request fails over; and a request that is not safe to repeat
\* goes to one upstream only.
NeverSentTwice ==
  \A r \in Requests :
    /\ pc[r] = "send"  => failedOn[r] = {}
    /\ pc[r] = "retry" => KeyOf[scan[r]] \notin failedOn[r] /\ retryable[r]

\* An upstream is taken out of rotation only because it failed a request whose client
\* was still waiting: clients that leave while an upstream is slow do not drain the
\* pool.
MarkedBy(r, k) ==
  /\ cause[r] = "upstream" /\ ~canceled[r] /\ retryable[r]
  /\ \/ pc[r] = "failed" /\ k = KeyOf[target[r]]
     \/ pc[r] = "retryFailed" /\ k = KeyOf[scan[r]]
  /\ pc'[r] # pc[r]
MarkedForCause == [][\A k \in down' \ down : \E r \in Requests : MarkedBy(r, k)]_vars
=============================================================================
