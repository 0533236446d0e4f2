--------------------------- MODULE SearchTemplate ---------------------------
(***************************************************************************)
(* The lazily built query template of SearchPolicyLeaders                  *)
(* (policies_leader.go 18-63), called by concurrent goroutines.            *)
(*                                                                         *)
(* The template is a package-level pointer, built by the first call inside *)
(* initSearchPolicyLeadersOnce.Do.  sync.Once runs its function in the     *)
(* first caller that finds it not done, holding the Once's mutex; a caller *)
(* that arrives meanwhile blocks on that mutex and, once it gets it, finds *)
(* the Once done.  done is set when the function returns, error or not.    *)
(*                                                                         *)
(* The dsl package is not in this repository.  Whether tmpl.Resolve can    *)
(* fail is the constant ResolveMayFail; a method of a nil *dsl.Tmpl either *)
(* dereferences it (a panic) or returns an error.                          *)
(***************************************************************************)
EXTENDS Integers

CONSTANTS Callers,        \* goroutines calling SearchPolicyLeaders, once each
          NoCaller,       \* no goroutine holds the Once's mutex
          ResolveMayFail  \* whether dsl's Tmpl.Resolve may return an error

VARIABLES pc,        \* pc[c]: where caller c is
          owner,     \* the goroutine holding the Once's mutex, or NoCaller
          done,      \* the Once's done flag
          tmpl,      \* tmplSearchPolicyLeaders: "nil" or "tmpl"
          err        \* err[c]: the named result err of c's call

vars == <<pc, owner, done, tmpl, err>>

\* The package variables (lines 18-21) before any call.
Init ==
    /\ pc = [c \in Callers |-> "do"]
    /\ owner = NoCaller
    /\ done = FALSE
    /\ tmpl = "nil"
    /\ err = [c \in Callers |-> "nil"]

-----------------------------------------------------------------------------
(* initSearchPolicyLeadersOnce.Do: a caller that finds the Once done goes  *)
(* on; any other enters the slow path.                                     *)
Do(c) ==
    /\ pc[c] = "do"
    /\ pc' = [pc EXCEPT ![c] = IF done THEN "render" ELSE "lock"]
    /\ UNCHANGED <<owner, done, tmpl, err>>

(* The slow path of Do: wait for the mutex, then run the function if the   *)
(* Once is still not done, or else unlock and go on.                       *)
Lock(c) ==
    /\ pc[c] = "lock"
    /\ owner = NoCaller
    /\ IF done
       THEN /\ pc' = [pc EXCEPT ![c] = "render"]
            /\ UNCHANGED owner
       ELSE /\ pc' = [pc EXCEPT ![c] = "prepare"]
            /\ owner' = c
    /\ UNCHANGED <<done, tmpl, err>>

(* The function given to Do: tmplSearchPolicyLeaders, err =               *)
(* prepareSearchPolicyLeaders().  On failure the template is nil and err   *)
(* is set.  Do then sets done and unlocks.                                 *)
PrepareSearchPolicyLeaders(c) ==
    /\ pc[c] = "prepare"
    /\ \E ok \in IF ResolveMayFail THEN BOOLEAN ELSE {TRUE} :
          /\ tmpl' = IF ok THEN "tmpl" ELSE "nil"
          /\ err' = [err EXCEPT ![c] = IF ok THEN "nil" ELSE "prepare"]
    /\ done' = TRUE
    /\ owner' = NoCaller
    /\ pc' = [pc EXCEPT ![c] = "render"]

(* data, err := tmplSearchPolicyLeaders.RenderOne(FieldId, ids): err is    *)
(* overwritten.  Rendering a built template succeeds; a nil one panics or  *)
(* returns an error.                                                       *)
RenderOne(c) ==
    /\ pc[c] = "render"
    /\ IF tmpl = "tmpl"
       THEN /\ err' = [err EXCEPT ![c] = "nil"]
            /\ pc' = [pc EXCEPT ![c] = "search"]
       ELSE \E e \in {"panic", "render"} :
            /\ err' = [err EXCEPT ![c] = e]
            /\ pc' = [pc EXCEPT ![c] = "returned"]
    /\ UNCHANGED <<owner, done, tmpl>>

(* bulker.Search, then json.Unmarshal of each hit's source: either fails   *)
(* and returns its error (with the leaders decoded so far), or the call   *)
(* returns the leaders and nil.                                            *)
Search(c) ==
    /\ pc[c] = "search"
    /\ \E e \in {"nil", "search", "decode"} : err' = [err EXCEPT ![c] = e]
    /\ pc' = [pc EXCEPT ![c] = "returned"]
    /\ UNCHANGED <<owner, done, tmpl>>

Step(c) ==
    \/ Do(c)
    \/ Lock(c)
    \/ PrepareSearchPolicyLeaders(c)
    \/ RenderOne(c)
    \/ Search(c)

Next == \E c \in Callers : Step(c)

Spec == Init /\ [][Next]_vars

-----------------------------------------------------------------------------
(* Properties                                                              *)

\* A failed prepareSearchPolicyLeaders makes SearchPolicyLeaders return
\* its error (the early return inside the Once, lines 38-40), so no call,
\* the failing one or any later one that finds the Once done, goes on to
\* render the query with a nil template.
NoCallRendersNilTemplate ==
    \A c \in Callers : pc[c] = "render" => tmpl = "tmpl"

=============================================================================
