------------------------------ MODULE LocalMeta ------------------------------
(***************************************************************************)
(* updateLocalMetaAgentId of src/unnamed/part_000 (lines 249-277) over the *)
(* JSON texts of EsJson, and the patch spec.md asks for (sections 3, 4.1   *)
(* step 5 and 8): overwrite elastic.agent.id where the whole path exists,  *)
(* and leave everything else as it was.                                   *)
(*                                                                         *)
(* The function unmarshals the blob into a map[string]interface{}, walks   *)
(* the path with a type assertion at each level, and only when the id is   *)
(* there sets it and marshals the map again; otherwise the bytes it was    *)
(* given are returned.  The marshalled map is the blob read through        *)
(* interface{} (ViaInterface): duplicates collapsed to the last one, keys  *)
(* in byte order, numbers as float64.                                      *)
(***************************************************************************)
EXTENDS EsJson

\* A Go nil []byte: no local metadata in the request.
NilBlob == [k |-> "nil"]

\* A JSON string holding an agent id.
IdStr(x) == [k |-> "str", id |-> x]

\* The map's member k replaced by v; m has each name once (it was read
\* through interface{}).
Put(m, key, v) ==
    Obj([i \in DOMAIN m.f |-> IF m.f[i][1] = key THEN <<key, v>> ELSE m.f[i]])

\* The walk of lines 259-264: m["elastic"] is a map, its "agent" is a map,
\* and that map has an "id".  Map lookups are exact and take the last
\* duplicate.
HasAgentId(m) ==
    /\ m.k = "obj"
    /\ "elastic" \in Names(m)
    /\ LET elastic == Member(m, "elastic")
       IN /\ elastic.k = "obj"
          /\ "agent" \in Names(elastic)
          /\ LET agent == Member(elastic, "agent")
             IN agent.k = "obj" /\ "id" \in Names(agent)

\* sm["id"] = agentId on the decoded map, then json.Marshal(m).
SetAgentId(data, agentId) ==
    LET m       == ViaInterface(data)
        elastic == Member(m, "elastic")
        agent   == Member(elastic, "agent")
    IN Put(m, "elastic", Put(elastic, "agent", Put(agent, "id", IdStr(agentId))))

\* Mutant: the check that the id is already there is left out.
UpdateLocalMetaAgentIdNoIdCheck(data, agentId) ==
    LET elastic == Member(data, "elastic")
        walk    == data.k = "obj" /\ elastic.k = "obj" /\ Member(elastic, "agent").k = "obj"
        m       == ViaInterface(data)
        agent   == Member(Member(m, "elastic"), "agent")
        added   == Obj(agent.f \o <<<<"id", IdStr(agentId)>>>>)
    IN CASE data = NilBlob                 -> [err |-> "nil", val |-> data]
         [] data.k \notin {"obj", "null"}  -> [err |-> "unmarshal", val |-> NilBlob]
         [] walk /\ ~HasAgentId(data)      ->
               [err |-> "nil",
                val |-> Put(m, "elastic", Put(Member(m, "elastic"), "agent", added))]
         [] HasAgentId(data)               -> [err |-> "nil", val |-> SetAgentId(data, agentId)]
         [] OTHER                          -> [err |-> "nil", val |-> data]

\* Mutant: the patched map is marshalled into a shadowed variable and the
\* blob is returned as given.
UpdateLocalMetaAgentIdShadowed(data, agentId) ==
    CASE data = NilBlob                -> [err |-> "nil", val |-> data]
      [] data.k \notin {"obj", "null"} -> [err |-> "unmarshal", val |-> NilBlob]
      [] OTHER                         -> [err |-> "nil", val |-> data]

\* updateLocalMetaAgentId(data, agentId): what it returns, as [err, val].
\* nil is returned as is; a text that does not unmarshal into a map is an
\* error (null unmarshals into a nil map); the map is marshalled again only
\* when the id was set, and json.Marshal of decoded values cannot fail.
UpdateLocalMetaAgentId(data, agentId) ==
    CASE data = NilBlob                -> [err |-> "nil", val |-> data]
      [] data.k \notin {"obj", "null"} -> [err |-> "unmarshal", val |-> NilBlob]
      [] HasAgentId(data)              -> [err |-> "nil", val |-> SetAgentId(data, agentId)]
      [] OTHER                         -> [err |-> "nil", val |-> data]

-----------------------------------------------------------------------------
(* The patch of spec.md                                                    *)

AgentIdPath == <<"elastic", "agent", "id">>

\* Whether a JSON reader of v (the last duplicate wins) finds path in it.
RECURSIVE HasPath(_, _)
HasPath(v, path) ==
    \/ path = <<>>
    \/ /\ v.k = "obj"
       /\ Head(path) \in Names(v)
       /\ HasPath(Member(v, Head(path)), Tail(path))

\* v with the value a reader finds at path replaced by x, and every other
\* byte as it was.
RECURSIVE SetPath(_, _, _)
SetPath(v, path, x) ==
    IF path = <<>> THEN x
    ELSE LET i == SelectLastInSeq(v.f, LAMBDA p : p[1] = Head(path))
         IN Obj([v.f EXCEPT ![i] = <<Head(path), SetPath(v.f[i][2], Tail(path), x)>>])

\* The blob the spec asks for: the id overwritten where the whole path
\* exists, and otherwise the blob (absent included) unchanged.
ReferencePatch(data, agentId) ==
    IF data /= NilBlob /\ HasPath(data, AgentIdPath)
    THEN SetPath(data, AgentIdPath, IdStr(agentId))
    ELSE data

\* A JSON value as an exact reader holds it: members by name, the last
\* duplicate winning, numbers as written.
RECURSIVE JsonValue(_)
JsonValue(v) ==
    CASE v.k = "obj" -> [k |-> "obj", m |-> [n \in Names(v) |-> JsonValue(Member(v, n))]]
      [] v.k = "arr" -> [k |-> "arr", e |-> [i \in DOMAIN v.e |-> JsonValue(v.e[i])]]
      [] OTHER       -> v

\* Two blobs say the same to an exact reader: member order and duplicates
\* overridden by a later one make no difference.
SameJson(a, b) ==
    IF a = NilBlob \/ b = NilBlob THEN a = b ELSE JsonValue(a) = JsonValue(b)

=============================================================================
