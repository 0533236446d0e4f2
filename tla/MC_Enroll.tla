----------------------------- MODULE MC_Enroll -----------------------------
(* Concurrent enrollments against one enrollment key, with a limiter of one
   slot fewer than the number of requests. *)
EXTENDS Enroll, TLC

CONSTANTS r1, r2, r3, k1

MCRequests == {r1, r2}
MCEnrollKeys == {k1}

\* Local metadata blobs, one for each kind of result of
\* updateLocalMetaAgentId: absent; not an object (an error); null (no
\* error: it unmarshals into a nil map); the path in a duplicate that a
\* later "elastic" overrides; "agent" without "id"; and the path present,
\* with a null id, siblings, an overridden duplicate and an id elsewhere.
Blobs ==
    {NilBlob,
     Arr(<<>>),
     Null,
     Obj(<<<<"elastic", Obj(<<<<"agent", Obj(<<<<"id", IdStr(OldId)>>>>)>>>>)>>,
           <<"elastic", Num("int")>>>>),
     Obj(<<<<"elastic", Obj(<<<<"agent", Obj(<<<<"version", Str>>>>)>>>>)>>>>),
     Obj(<<<<"elastic", Str>>,
           <<"elastic", Obj(<<<<"agent", Obj(<<<<"id", Null>>, <<"version", Str>>,
                                                <<"snapshot", Bool>>>>)>>>>)>>,
           <<"host", Obj(<<<<"id", IdStr(OldId)>>, <<"total", Num("frac")>>>>)>>>>)}

\* A request body that passes every check, with local metadata l.
Good(l) == [key |-> k1, type |-> "PERMANENT", shared |-> FALSE,
            local |-> l, user |-> "user"]

\* Request bodies: a good one with each blob, and one each with an unknown
\* type and with a shared id.
MCRequestInputs ==
    {Good(l) : l \in Blobs}
    \cup {[Good(NilBlob) EXCEPT !.type = "BOGUS"],
         [Good(NilBlob) EXCEPT !.shared = TRUE]}

\* Also a blob with the path next to an integer above 2^53 (a memory size
\* in bytes, say).
MCRequestInputsBigNumber ==
    MCRequestInputs
    \cup {Good(Obj(<<<<"elastic", Obj(<<<<"agent", Obj(<<<<"id", IdStr(OldId)>>>>)>>>>)>>,
                     <<"host", Obj(<<<<"total", Num("big")>>>>)>>>>))}

MCMaxInFlight == 1
MCEnrollTTL == 2
MCMaxTime == 3
=============================================================================
