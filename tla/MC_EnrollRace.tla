--------------------------- MODULE MC_EnrollRace ---------------------------
(* Three concurrent enrollments, two limiter slots: two requests in flight
   race on the cache and the store while the third can be refused. *)
EXTENDS MC_Enroll

MCRaceRequests == {r1, r2, r3}
MCRaceMaxInFlight == 2

\* Bodies that pass every check before the key is minted; one of them
\* fails after it.  The other rejections are covered by MC_Enroll.
MCRaceInputs ==
    {Good(Obj(<<<<"elastic", Obj(<<<<"agent", Obj(<<<<"id", IdStr(OldId)>>>>)>>>>)>>>>)),
     Good(Arr(<<>>))}

\* Requests are interchangeable: each only names the agent id it mints.
MCRaceSymmetry == Permutations(MCRaceRequests)
=============================================================================
