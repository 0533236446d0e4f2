------------------------------ MODULE LeaseSpec ------------------------------
(***************************************************************************)
(* The lease of each policy as spec.md section 4.2 describes it: every    *)
(* operation is one atomic step on the lease document.                    *)
(*                                                                         *)
(*   TakeLeadership(p, s): the lease names s with the current time, whether *)
(*   or not a lease existed and whoever it named.                          *)
(*   ReleaseLeadership(p, s): if the lease names s, its time is moved      *)
(*   releaseInterval into the past; otherwise nothing changes.             *)
(*                                                                         *)
(* Either may fail instead, changing nothing, and a take whose write      *)
(* timed out may have taken effect: both are stuttering steps or a take   *)
(* here.  A lease's time is its age in ticks, capped where every freshness *)
(* comparison is decided.                                                  *)
(***************************************************************************)
EXTENDS Integers

CONSTANTS Servers, Policies, NotFound, ReleaseInterval, LeaderInterval

VARIABLE lease

Horizon == IF LeaderInterval > ReleaseInterval THEN LeaderInterval ELSE ReleaseInterval
Ages == 0..Horizon
Older(a) == IF a < Horizon THEN a + 1 ELSE Horizon

Lease == [server : Servers, age : Ages]

TypeOK == lease \in [Policies -> Lease \cup {NotFound}]

Init == lease = [p \in Policies |-> NotFound]

TakeLeadership(s, p) ==
    lease' = [lease EXCEPT ![p] = [server |-> s, age |-> 0]]

\* The released time is releaseInterval ago, or earlier when the write
\* lands late.
ReleaseLeadership(s, p) ==
    /\ lease[p] /= NotFound
    /\ lease[p].server = s
    /\ \E a \in ReleaseInterval..Horizon :
         lease' = [lease EXCEPT ![p] = [server |-> s, age |-> a]]

Tick ==
    lease' = [p \in Policies |->
                IF lease[p] = NotFound THEN NotFound
                ELSE [lease[p] EXCEPT !.age = Older(@)]]

Next ==
    \/ \E s \in Servers, p \in Policies :
          TakeLeadership(s, p) \/ ReleaseLeadership(s, p)
    \/ Tick

Spec == Init /\ [][Next]_lease

=============================================================================
