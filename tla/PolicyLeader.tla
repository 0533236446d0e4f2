---------------------------- MODULE PolicyLeader ----------------------------
(***************************************************************************)
(* The policy-leadership lease of src/internal/pkg/dl/policies_leader.go. *)
(*                                                                         *)
(* The only shared state is the document store: one lease document per    *)
(* policy in the .fleet-policies-leader index, naming a server and the     *)
(* time it last asserted the lease.  Every server runs the two lease       *)
(* operations, one at a time, and each is a read followed by a write:     *)
(*                                                                         *)
(*   TakePolicyLeadership     read; then Create (not found) or Update     *)
(*   ReleasePolicyLeadership  read; if it names us, Update with a time    *)
(*                            releaseInterval in the past                  *)
(*                                                                         *)
(* Between the read and the write any other server may write the same     *)
(* document.  bulker.Update is a partial-document update that carries no  *)
(* sequence number from the read: the store applies it to whatever the    *)
(* document holds then.  A version conflict can only come from a write    *)
(* that raced it inside the store, so it is allowed only when some other  *)
(* write landed after this server's read (the flag dirty).  A store call  *)
(* that fails with an error other than not-found or version conflict      *)
(* (timeout, cancelled context) may or may not have been applied.         *)
(***************************************************************************)
EXTENDS Integers, FiniteSets

CONSTANTS
    Servers,          \* fleet-server replicas (serverId)
    Policies,         \* policy ids
    NotFound,         \* model value: es.ErrElasticNotFound on read
    ReleaseInterval,  \* releaseInterval argument of ReleasePolicyLeadership
    LeaderInterval    \* how old a lease may be and still be taken as held

ASSUME ReleaseInterval \in Nat /\ LeaderInterval \in Nat \ {0}

VARIABLES
    leaders,   \* the store: policy id -> lease document or NotFound
    proc,      \* per server: the lease operation in progress
    outcome    \* per server and policy: what the last completed call returned

vars == <<leaders, proc, outcome>>

(* Time.  A lease time is kept as its age: how many ticks before time.Now()
   it lies.  Only the age is ever compared (by the consumers' freshness
   window), so a lease older than both intervals is as stale as one at the
   horizon, and ages stop there.  This keeps the clock unbounded. *)
Horizon == IF LeaderInterval > ReleaseInterval THEN LeaderInterval ELSE ReleaseInterval
Ages == 0..Horizon
Older(a) == IF a < Horizon THEN a + 1 ELSE Horizon

\* model.PolicyLeader: the server (id; version omitted) and @timestamp.
Lease == [server : Servers, age : Ages]

\* A call between its read and its write: the policy, whether the read
\* found the document, the age of the time it will write, and whether
\* another write has landed since its read.  A release only gets this far
\* when the lease it read names the caller, so the lease it writes back
\* is the caller's.
Idle == [op |-> "idle"]
InFlight == [op : {"take", "release"}, policy : Policies, found : BOOLEAN,
             t : Ages, dirty : BOOLEAN]

Outcomes == {"none", "took", "take_failed", "released", "release_failed"}

TypeOK ==
    /\ leaders \in [Policies -> Lease \cup {NotFound}]
    /\ proc \in [Servers -> {Idle} \cup InFlight]
    /\ outcome \in [Servers -> [Policies -> Outcomes]]

Init ==
    /\ leaders = [p \in Policies |-> NotFound]
    /\ proc = [s \in Servers |-> Idle]
    /\ outcome = [s \in Servers |-> [p \in Policies |-> "none"]]

-----------------------------------------------------------------------------
(* The store calls.  Each result is a record: what the call returned and *)
(* whether the document was changed.                                     *)

\* bulker.Update: partial update of an existing document.
UpdateResults(s) ==
    {[res |-> "ok", applied |-> TRUE],
     [res |-> "error", applied |-> TRUE],
     [res |-> "error", applied |-> FALSE]}
    \cup (IF proc[s].dirty THEN {[res |-> "conflict", applied |-> FALSE]} ELSE {})

\* bulker.Create: fails with a conflict when the id already exists.
CreateResults(p) ==
    IF leaders[p] = NotFound
    THEN {[res |-> "ok", applied |-> TRUE],
          [res |-> "error", applied |-> TRUE],
          [res |-> "error", applied |-> FALSE]}
    ELSE {[res |-> "conflict", applied |-> FALSE],
          [res |-> "error", applied |-> FALSE]}

\* Server s's write of lease l to policy p, if the store applied it; every
\* other server with a read of p outstanding now has a stale read.
WriteLease(s, p, l, applied) ==
    /\ leaders' = IF applied THEN [leaders EXCEPT ![p] = l] ELSE leaders
    /\ proc' = [x \in Servers |->
                  IF x = s THEN Idle
                  ELSE IF applied /\ proc[x] /= Idle /\ proc[x].policy = p
                       THEN [proc[x] EXCEPT !.dirty = TRUE]
                       ELSE proc[x]]

\* The lease document of p exists and names server s.
NamesServer(p, s) == leaders[p] /= NotFound /\ leaders[p].server = s

Return(s, p, o) == outcome' = [outcome EXCEPT ![s][p] = o]

-----------------------------------------------------------------------------
(* TakePolicyLeadership(ctx, bulker, policyId, serverId, version)          *)

\* Read with refresh; a read error other than not-found returns it.  The
\* new lease time is taken from time.Now() before the write.
TakePolicyLeadershipRead(s, p) ==
    /\ proc[s] = Idle
    /\ \/ /\ Return(s, p, "take_failed")
          /\ UNCHANGED proc
       \/ /\ proc' = [proc EXCEPT ![s] = [op |-> "take", policy |-> p,
                          found |-> leaders[p] /= NotFound, t |-> 0,
                          dirty |-> FALSE]]
          /\ UNCHANGED outcome
    /\ UNCHANGED leaders

\* Mutant: l.SetTime(time.Now()) dropped; a renewal keeps the time the
\* stored lease has.
TakePolicyLeadershipWriteKeepTime(s) ==
    LET p     == proc[s].policy
        found == proc[s].found
        l     == [server |-> s,
                  age |-> IF leaders[p] = NotFound THEN 0 ELSE leaders[p].age]
    IN /\ proc[s] /= Idle
       /\ proc[s].op = "take"
       /\ \E w \in IF found THEN UpdateResults(s) ELSE CreateResults(p) :
            /\ WriteLease(s, p, l, w.applied)
            /\ Return(s, p, IF w.res = "ok" THEN "took" ELSE "take_failed")

\* Update when the read found a document, Create when it did not; the
\* lease names this server whatever the read returned.
TakePolicyLeadershipWrite(s) ==
    LET p     == proc[s].policy
        found == proc[s].found
        l     == [server |-> s, age |-> proc[s].t]
    IN /\ proc[s] /= Idle
       /\ proc[s].op = "take"
       /\ \E w \in IF found THEN UpdateResults(s) ELSE CreateResults(p) :
            /\ WriteLease(s, p, l, w.applied)
            /\ Return(s, p, IF w.res = "ok" THEN "took" ELSE "take_failed")

-----------------------------------------------------------------------------
(* ReleasePolicyLeadership(ctx, bulker, policyId, serverId, releaseInterval) *)

\* Mutant: one tick more than releaseInterval is subtracted.
ReleasePolicyLeadershipReadOffByOne(s, p) ==
    /\ proc[s] = Idle
    /\ \/ /\ Return(s, p, "release_failed")
          /\ UNCHANGED proc
       \/ /\ ~NamesServer(p, s)
          /\ Return(s, p, "released")
          /\ UNCHANGED proc
       \/ /\ NamesServer(p, s)
          /\ proc' = [proc EXCEPT ![s] = [op |-> "release", policy |-> p,
                          found |-> TRUE, t |-> ReleaseInterval + 1,
                          dirty |-> FALSE]]
          /\ UNCHANGED outcome
    /\ UNCHANGED leaders

\* Read with refresh: not found, or a lease naming another server, returns
\* nil; otherwise the lease read is kept with a time releaseInterval ago.
ReleasePolicyLeadershipRead(s, p) ==
    /\ proc[s] = Idle
    /\ \/ /\ Return(s, p, "release_failed")
          /\ UNCHANGED proc
       \/ /\ ~NamesServer(p, s)
          /\ Return(s, p, "released")
          /\ UNCHANGED proc
       \/ /\ NamesServer(p, s)
          /\ proc' = [proc EXCEPT ![s] = [op |-> "release", policy |-> p,
                          found |-> TRUE, t |-> ReleaseInterval,
                          dirty |-> FALSE]]
          /\ UNCHANGED outcome
    /\ UNCHANGED leaders

\* Update with the lease read and the past time; a version conflict is
\* taken as "another leader took over" and returns nil.
ReleasePolicyLeadershipWrite(s) ==
    LET p == proc[s].policy
        l == [server |-> s, age |-> proc[s].t]
    IN /\ proc[s] /= Idle
       /\ proc[s].op = "release"
       /\ \E w \in UpdateResults(s) :
            /\ WriteLease(s, p, l, w.applied)
            /\ Return(s, p, IF w.res \in {"ok", "conflict"}
                            THEN "released" ELSE "release_failed")

\* Time passes: every stored lease and every time a call is about to
\* write grows one tick older.
Tick ==
    /\ leaders' = [p \in Policies |->
                     IF leaders[p] = NotFound THEN NotFound
                     ELSE [leaders[p] EXCEPT !.age = Older(@)]]
    /\ proc' = [s \in Servers |->
                  IF proc[s] = Idle THEN Idle
                  ELSE [proc[s] EXCEPT !.t = Older(@)]]
    /\ UNCHANGED outcome

Next ==
    \/ \E s \in Servers, p \in Policies :
          \/ TakePolicyLeadershipRead(s, p)
          \/ ReleasePolicyLeadershipRead(s, p)
    \/ \E s \in Servers :
          \/ TakePolicyLeadershipWrite(s)
          \/ ReleasePolicyLeadershipWrite(s)
    \/ Tick

Spec == Init /\ [][Next]_vars

-----------------------------------------------------------------------------
(* Properties                                                              *)

\* A lease is taken as held while its time is within LeaderInterval.
Fresh(l) == l /= NotFound /\ l.age < LeaderInterval

=============================================================================
