---------------------------- MODULE PolicyMonitor ----------------------------
(***************************************************************************)
(* The lease of PolicyLeader as its caller uses it.                        *)
(*                                                                         *)
(* The caller (the policy monitor of each fleet-server replica) is not in  *)
(* this repository; spec.md says it runs periodically, claims, renews or   *)
(* releases the lease of each policy, and compares lease times against its *)
(* freshness window.  Each running replica:                                *)
(*                                                                         *)
(*   - checks on a timer: SearchPolicyLeaders, then for each policy with   *)
(*     no lease, a stale lease or a lease of its own, TakePolicyLeadership *)
(*     (a renewal when the lease is its own); it stops coordinating every  *)
(*     policy it did not decide to take;                                   *)
(*   - coordinates a policy while its last take of it returned nil;        *)
(*   - on shutdown stops coordinating and calls ReleasePolicyLeadership    *)
(*     for each policy it led; or it crashes and releases nothing.         *)
(*                                                                         *)
(* SearchPolicyLeaders searches without refresh: it sees the index as of   *)
(* its last refresh.  A read with refresh (both lease operations start     *)
(* with one) refreshes it, and Elasticsearch refreshes it on its own at    *)
(* least once per tick.                                                    *)
(*                                                                         *)
(* Timing.  A tick is longer than a check round with its store calls and  *)
(* than the index refresh interval, and a replica's check timer fires at   *)
(* least every CheckInterval ticks.  No round is unfinished at a tick.    *)
(***************************************************************************)
EXTENDS Integers, FiniteSets

CONSTANTS Servers, Policies, NotFound, ReleaseInterval, LeaderInterval,
          CheckInterval,  \* ticks between two checks of one replica, at most
          MaxFailures,    \* store calls that fail, in a whole behaviour
          MaxHits         \* the hits a search returns, at most (size not set:
                          \* Elasticsearch's default of 10)

VARIABLES leaders, proc, outcome,   \* PolicyLeader
          visible,     \* the lease documents as a search sees them
          leading,     \* leading[s]: the policies replica s coordinates
          todo,        \* policies s has still to take (running) or release (stopping)
          mon,         \* "running", "stopping" or "down"
          sinceCheck,  \* ticks since replica s last checked (1 at start: due)
          failures     \* store calls that have failed so far

PL == INSTANCE PolicyLeader

leaseVars == <<leaders, proc, outcome>>
monVars   == <<visible, leading, todo, mon, sinceCheck, failures>>
vars      == <<leaseVars, monVars>>

Running == {s \in Servers : mon[s] = "running"}

\* The replicas coordinating policy p.
Leaders(p) == {s \in Servers : p \in leading[s]}

TypeOK ==
    /\ PL!TypeOK
    /\ visible \in [Policies -> PL!Lease \cup {NotFound}]
    /\ leading \in [Servers -> SUBSET Policies]
    /\ todo \in [Servers -> SUBSET Policies]
    /\ mon \in [Servers -> {"running", "stopping", "down"}]
    /\ sinceCheck \in [Servers -> 0..CheckInterval]
    /\ failures \in 0..MaxFailures

Init ==
    /\ PL!Init
    /\ visible = leaders
    /\ leading = [s \in Servers |-> {}]
    /\ todo = [s \in Servers |-> {}]
    /\ mon = [s \in Servers |-> "running"]
    /\ sinceCheck = [s \in Servers |-> 1]
    /\ failures = 0

\* A store call of s that failed counts as a failure; the store fails at
\* most MaxFailures times in a behaviour.
CountFailure(s, failed) ==
    /\ failed => failures < MaxFailures
    /\ failures' = IF failed THEN failures + 1 ELSE failures

-----------------------------------------------------------------------------
(* SearchPolicyLeaders(ctx, bulker, ids) when it returns nil: the leases  *)
(* of the visible documents; ids with no document are absent.  It returns *)
(* an error when the search fails, and when a hit fails to decode (with   *)
(* the map built so far, which the caller drops).                         *)
SearchPolicyLeaders(hits) ==
    [p \in hits |-> visible[p]]

\* The hits of one search: every visible document when they fit in a page,
\* otherwise any MaxHits of them.
Pages ==
    LET ids  == {q \in Policies : visible[q] /= NotFound}
        size == IF Cardinality(ids) < MaxHits THEN Cardinality(ids) ELSE MaxHits
    IN {h \in SUBSET ids : Cardinality(h) = size}

\* Mutant: a check never renews its own lease.
ToLeadNoRenew(s, found) ==
    {p \in Policies : p \notin DOMAIN found \/ ~PL!Fresh(found[p])}

\* The policies a check decides to lead: no lease, its own lease, or a
\* lease the freshness window calls stale.
ToLead(s, found) ==
    {p \in Policies : p \notin DOMAIN found \/ found[p].server = s
                      \/ ~PL!Fresh(found[p])}

\* The timer of s fires at most once a tick.
CheckDue(s) ==
    /\ mon[s] = "running"
    /\ sinceCheck[s] >= 1
    /\ todo[s] = {}
    /\ proc[s] = PL!Idle
    /\ sinceCheck' = [sinceCheck EXCEPT ![s] = 0]

\* The check timer fires: search, keep coordinating only what is to be
\* taken, and queue the takes.
Check(s) ==
    /\ CheckDue(s)
    /\ \E hits \in Pages :
         LET lead == ToLead(s, SearchPolicyLeaders(hits))
         IN /\ todo' = [todo EXCEPT ![s] = lead]
            /\ leading' = [leading EXCEPT ![s] = @ \cap lead]
    /\ UNCHANGED <<leaseVars, visible, mon, failures>>

\* The search returns an error: the check changes nothing.
CheckFailed(s) ==
    /\ CheckDue(s)
    /\ CountFailure(s, TRUE)
    /\ UNCHANGED <<leaseVars, visible, leading, todo, mon>>

\* TakePolicyLeadership's read, with refresh.
StartTake(s, p) ==
    /\ mon[s] = "running"
    /\ p \in todo[s]
    /\ PL!TakePolicyLeadershipRead(s, p)
    /\ visible' = leaders
    /\ todo' = [todo EXCEPT ![s] = @ \ {p}]
    /\ leading' = IF proc'[s] = PL!Idle THEN [leading EXCEPT ![s] = @ \ {p}]
                  ELSE leading
    /\ CountFailure(s, proc'[s] = PL!Idle)
    /\ UNCHANGED <<mon, sinceCheck>>

\* The Create of s meets a document created since its read: it fails
\* whatever the store does, and is not a store failure.
CreateConflicts(s) == ~proc[s].found /\ leaders[proc[s].policy] /= NotFound

\* TakePolicyLeadership's write returns: coordinate p iff it returned nil.
FinishTake(s) ==
    LET p == proc[s].policy
    IN /\ PL!TakePolicyLeadershipWrite(s)
       /\ leading' = IF outcome'[s][p] = "took"
                     THEN [leading EXCEPT ![s] = @ \cup {p}]
                     ELSE [leading EXCEPT ![s] = @ \ {p}]
       /\ CountFailure(s, outcome'[s][p] = "take_failed" /\ ~CreateConflicts(s))
       /\ UNCHANGED <<visible, todo, mon, sinceCheck>>

\* Shutdown: stop every coordinator, then release what was led.  Some
\* replica stays up.
Stop(s) ==
    /\ mon[s] = "running"
    /\ todo[s] = {}
    /\ proc[s] = PL!Idle
    /\ Running \ {s} /= {}
    /\ mon' = [mon EXCEPT ![s] = "stopping"]
    /\ todo' = [todo EXCEPT ![s] = leading[s]]
    /\ leading' = [leading EXCEPT ![s] = {}]
    /\ UNCHANGED <<leaseVars, visible, sinceCheck, failures>>

\* ReleasePolicyLeadership's read, with refresh.
StartRelease(s, p) ==
    /\ mon[s] = "stopping"
    /\ p \in todo[s]
    /\ PL!ReleasePolicyLeadershipRead(s, p)
    /\ visible' = leaders
    /\ todo' = [todo EXCEPT ![s] = @ \ {p}]
    /\ CountFailure(s, proc'[s] = PL!Idle /\ outcome'[s][p] = "release_failed")
    /\ UNCHANGED <<leading, mon, sinceCheck>>

FinishRelease(s) ==
    LET p == proc[s].policy
    IN /\ PL!ReleasePolicyLeadershipWrite(s)
       /\ CountFailure(s, outcome'[s][p] = "release_failed")
       /\ UNCHANGED <<visible, leading, todo, mon, sinceCheck>>

Down(s) ==
    /\ mon[s] = "stopping"
    /\ todo[s] = {}
    /\ proc[s] = PL!Idle
    /\ mon' = [mon EXCEPT ![s] = "down"]
    /\ UNCHANGED <<leaseVars, visible, leading, todo, sinceCheck, failures>>

\* The process dies between two calls: no release.  Some replica stays up.
Crash(s) ==
    /\ mon[s] = "running"
    /\ proc[s] = PL!Idle
    /\ Running \ {s} /= {}
    /\ mon' = [mon EXCEPT ![s] = "down"]
    /\ leading' = [leading EXCEPT ![s] = {}]
    /\ todo' = [todo EXCEPT ![s] = {}]
    /\ UNCHANGED <<leaseVars, visible, sinceCheck, failures>>

\* Elasticsearch refreshes the index.
Refresh ==
    /\ visible' = leaders
    /\ UNCHANGED <<leaseVars, leading, todo, mon, sinceCheck, failures>>

\* A tick: no call in flight and no check round unfinished, no check timer
\* overdue; leases age and the index is refreshed.
Tick ==
    /\ \A s \in Servers : proc[s] = PL!Idle /\ todo[s] = {}
    /\ \A s \in Running : sinceCheck[s] < CheckInterval
    /\ PL!Tick
    /\ visible' = leaders'
    /\ sinceCheck' = [s \in Servers |-> IF s \in Running THEN sinceCheck[s] + 1
                                        ELSE sinceCheck[s]]
    /\ UNCHANGED <<leading, todo, mon, failures>>

\* Everything replica s does by itself.
Work(s) ==
    \/ Check(s)
    \/ CheckFailed(s)
    \/ \E p \in Policies : StartTake(s, p) \/ StartRelease(s, p)
    \/ FinishTake(s)
    \/ FinishRelease(s)
    \/ Down(s)

Next ==
    \/ \E s \in Servers : Work(s) \/ Stop(s) \/ Crash(s)
    \/ Refresh
    \/ Tick

\* Each replica's timer and calls make progress, and time passes.
Fairness == /\ \A s \in Servers : WF_vars(Work(s))
            /\ WF_vars(Tick)

Spec == Init /\ [][Next]_vars /\ Fairness

-----------------------------------------------------------------------------
(* Properties                                                              *)

\* Leadership settles: once failures, shutdowns and crashes are over, a
\* single replica coordinates each policy for good, whatever races the
\* blind Update of TakePolicyLeadership and the rewrite of
\* ReleasePolicyLeadership left in the store.
LeadershipSettles ==
    \A p \in Policies : <>[](Cardinality(Leaders(p)) = 1)

\* The lease document as the spec's atomic lease operations see it.
Atomic == INSTANCE LeaseSpec WITH lease <- leaders

\* The lease operations, as the monitor calls them, implement the spec's
\* atomic lease: each write of TakePolicyLeadership is a take, each write
\* of ReleasePolicyLeadership a release of a lease that still names the
\* releasing replica, and every other step leaves the lease alone or
\* ages it.
ImplementsLeaseSpec == Atomic!Spec

=============================================================================
