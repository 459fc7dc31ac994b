---------------------------- MODULE ConsulClient ----------------------------
(***************************************************************************)
(* The Consul client (src/consul/client.go, merge.go): Fetch reads the     *)
(* YAML documents of some key templates, for every one the base document   *)
(* and, when PROFILE is set, the profile's, and merges them.  Others write *)
(* to the keys meanwhile.                                                  *)
(*                                                                         *)
(* A parsed document is a map from fields to leaves and such maps again,   *)
(* finitely deep.  It is a map[string]any itself, because that is what it  *)
(* is decoded into; of the maps in it the decoder makes a map[string]any   *)
(* when all their keys are strings and a map[any]any otherwise (a key 404, *)
(* say), and only the former are merged.  Consul, and what yaml.v3 does,   *)
(* are external.                                                           *)
(***************************************************************************)
EXTENDS Naturals, Sequences

CONSTANTS
  Templates,    \* key templates
  Requests,     \* the arguments of Fetch: sequences of templates
  Fields,       \* the keys of documents and of the maps in them
  Strings,      \* those of them that are strings
  Scalars,      \* the values they have that are no maps
  MaxDepth,     \* bound: how deep the maps of documents are nested in each other
  Documents,    \* what the keys hold, see below
  Merges,       \* the documents DeepMergeYAML is called with
  MaxWrites     \* bound: writes to the keys during a Fetch

Absent  == [kind |-> "absent"]    \* no key, no value, or a document of nothing
Invalid == [kind |-> "invalid"]   \* no YAML, or not a map
Doc(m)  == [kind |-> "map", map |-> m]
Leaf(v) == [kind |-> "leaf", leaf |-> v]

\* The maps that have at most d levels of maps in them.
MapsOf[d \in 0..MaxDepth] ==
  LET nodes == {Leaf(v) : v \in Scalars} \cup
               (IF d = 0 THEN {} ELSE {Doc(m) : m \in MapsOf[d - 1]})
  IN  UNION {[S -> nodes] : S \in SUBSET Fields}

\* What documents are decoded into, as the maps in them that are a map[string]any.
ParsedMaps == {m \in MapsOf[MaxDepth] : DOMAIN m \subseteq Strings}
Parsed     == {Invalid} \cup {Doc(m) : m \in ParsedMaps}

ASSUME ConsulAssumption ==
  /\ Requests \subseteq Seq(Templates)
  /\ Strings \subseteq Fields
  /\ MaxDepth \in Nat
  /\ Documents \subseteq {Absent} \cup Parsed
  /\ Absent \in Documents
  /\ Merges \subseteq Parsed \X Parsed

VARIABLES
  kv,       \* kv[<<t, f>>]: the document of template t for folder f
  profile,  \* whether PROFILE is set
  client,   \* none, new, or connected (apiCli is there)
  fPc,      \* idle, base, profile (which key Fetch reads next), returned or merged
  request,  \* the templates of this Fetch
  next,     \* the index of the template it is at
  baseCfg,  \* the parsed base document of that template
  result,   \* the map Fetch builds
  failed,   \* whether it returns an error
  writes,   \* how many writes there were during this Fetch
  past,     \* (history) past[k]: the documents key k has had during this Fetch
  merged    \* arguments and result of DeepMergeYAML

callVars == <<fPc, request, next, baseCfg, result, failed, writes, past>>
consulVars == <<kv, profile, client, callVars, merged>>

KvKeys == Templates \X {"base", "profile"}
NoMap  == [k \in {} |-> 0]

ConsulInit ==
  /\ kv = [k \in KvKeys |-> Absent]
  /\ profile \in BOOLEAN
  /\ client = "none"
  /\ fPc = "idle"
  /\ request = <<>> /\ next = 0
  /\ baseCfg = NoMap /\ result = NoMap /\ failed = FALSE
  /\ writes = 0 /\ past = [k \in KvKeys |-> {}]
  /\ merged = <<>>

IsMap(t) == t.kind = "map"

\* v.(map[string]any) is ok.
IsStringMap(t) == IsMap(t) /\ DOMAIN t.map \subseteq Strings

----------------------------------------------------------------------------
(* Slips that would be easy to make in this code, one for each property the *)
(* runs check.  None is part of the specification.                          *)

\* The override replaces a map of the base instead of merging with it.
NoMapsMeet(base, override, k) == FALSE

\* A template without a base document keeps the base of the template before it.
BaseOrPrevious(doc) == IF doc = Absent THEN baseCfg ELSE doc.map

----------------------------------------------------------------------------
(* Merging. *)

\* Base and override both have a map[string]any under k.
MapsMeet(base, override, k) ==
  /\ k \in DOMAIN base /\ k \in DOMAIN override
  /\ IsStringMap(base[k]) /\ IsStringMap(override[k])

\* Such maps are merged; otherwise the override wins, and with a map too it replaces
\* the base's map whole.
DeepMergeMaps[both \in ParsedMaps \X ParsedMaps] ==
  LET base == both[1]  override == both[2] IN
  [k \in DOMAIN base \cup DOMAIN override |->
     IF MapsMeet(base, override, k) THEN Doc(DeepMergeMaps[<<base[k].map, override[k].map>>])
     ELSE IF k \in DOMAIN override THEN override[k]
     ELSE base[k]]

\* A document that does not parse leaves the other as it is.
DeepMergeYAML(base, override) ==
  CASE base = Invalid -> override
    [] base # Invalid /\ override = Invalid -> base
    [] OTHER -> Doc(DeepMergeMaps[<<base.map, override.map>>])

\* It needs no client, and is called before there is one.
MergeYAML ==
  /\ fPc = "idle" /\ client = "none"
  /\ \E bo \in Merges : merged' = <<bo[1], bo[2], DeepMergeYAML(bo[1], bo[2])>>
  /\ fPc' = "merged"
  /\ UNCHANGED <<kv, profile, client, request, next, baseCfg, result, failed, writes, past>>

----------------------------------------------------------------------------
(* Fetch. *)

\* The host resolves, or a fallback is configured; if not there is no client.
NewClient ==
  /\ client = "none" /\ fPc = "idle"
  /\ client' \in {"none", "new"}
  /\ UNCHANGED <<kv, profile, callVars, merged>>

\* Fetch, and FetchMergedYAML with one template.
CallFetch ==
  /\ client # "none" /\ fPc = "idle"
  /\ request' \in Requests
  /\ fPc' = (IF request' = <<>> THEN "returned" ELSE "base") /\ next' = 1
  /\ past' = [k \in KvKeys |-> {kv[k]}]
  /\ UNCHANGED <<kv, profile, client, baseCfg, result, failed, writes, merged>>

Template == request[next]

\* result[template] = cfg, and on to the next one.
Put(cfg) ==
  /\ result' = [t \in DOMAIN result \cup {Template} |->
                  IF t = Template THEN cfg ELSE result[t]]
  /\ IF next = Len(request)
     THEN fPc' = "returned" /\ UNCHANGED next
     ELSE fPc' = "base" /\ next' = next + 1

\* FetchKeyValue of a key that exists or not, once apiClient has made its client.
Fetched(k, doc) == doc = kv[k] /\ doc # Invalid /\ client' = "connected"

\* The parsed document, {} if there is none.
BaseOf(doc) == IF doc = Absent THEN NoMap ELSE doc.map

FetchBase ==
  /\ fPc = "base"
  /\ \E doc \in Documents :
       /\ Fetched(<<Template, "base">>, doc)
       /\ baseCfg' = BaseOf(doc)
       /\ IF profile THEN fPc' = "profile" /\ UNCHANGED <<result, next>> ELSE Put(baseCfg')
  /\ UNCHANGED <<kv, profile, request, failed, writes, past, merged>>

FetchProfile ==
  /\ fPc = "profile"
  /\ \E doc \in Documents :
       /\ Fetched(<<Template, "profile">>, doc)
       /\ Put(IF doc = Absent THEN baseCfg ELSE DeepMergeMaps[<<baseCfg, doc.map>>])
  /\ UNCHANGED <<kv, profile, request, baseCfg, failed, writes, past, merged>>

\* No client, no answer, or a document that does not parse: all of Fetch fails.
FetchFails ==
  /\ fPc \in {"base", "profile"}
  /\ client' \in {client, "connected"}
  /\ failed' = TRUE /\ result' = NoMap
  /\ fPc' = "returned"
  /\ UNCHANGED <<kv, profile, request, next, baseCfg, writes, past, merged>>

EndCall ==
  /\ fPc \in {"returned", "merged"}
  /\ fPc' = "idle"
  /\ request' = <<>> /\ next' = 0
  /\ baseCfg' = NoMap /\ result' = NoMap /\ failed' = FALSE
  /\ writes' = 0 /\ past' = [k \in KvKeys |-> {}]
  /\ merged' = <<>>
  /\ UNCHANGED <<kv, profile, client>>

\* Someone else writes to a key, or deletes it (before there is a client, unseen).
Write ==
  /\ client # "none"
  /\ fPc \in {"base", "profile"} => writes < MaxWrites
  /\ fPc \in {"idle", "base", "profile"}
  /\ \E k \in KvKeys, doc \in Documents :
       /\ doc # kv[k]
       /\ kv' = [kv EXCEPT ![k] = doc]
       /\ past' = IF fPc = "idle" THEN past ELSE [past EXCEPT ![k] = @ \cup {doc}]
  /\ writes' = IF fPc = "idle" THEN writes ELSE writes + 1
  /\ UNCHANGED <<profile, client, fPc, request, next, baseCfg, result, failed, merged>>

ConsulNext ==
  \/ NewClient \/ CallFetch \/ FetchBase \/ FetchProfile \/ FetchFails \/ EndCall
  \/ MergeYAML \/ Write

ConsulSpec == ConsulInit /\ [][ConsulNext]_consulVars

----------------------------------------------------------------------------
(* Properties.  What a merge is, without the algorithm: path by path. *)

Nothing == [kind |-> "nothing"]
Paths   == [1..(MaxDepth + 1) -> Fields]

\* What the first 0, 1, 2 ... keys of path p lead to in map m.
Walk(m, p) ==
  LET node[i \in 0..(MaxDepth + 1)] ==
        IF i = 0 THEN Doc(m)
        ELSE IF IsMap(node[i - 1]) /\ p[i] \in DOMAIN node[i - 1].map
        THEN node[i - 1].map[p[i]]
        ELSE Nothing
  IN  node

\* A node without what is below it.
Outline(t) == IF IsMap(t) THEN Doc(NoMap) ELSE t

\* The node that path p leads to in o after j keys replaces what b has there: they are
\* not two maps that are merged.
Replaces(o, b, p, j) ==
  /\ Walk(o, p)[j] # Nothing
  /\ ~(IsStringMap(Walk(o, p)[j]) /\ IsStringMap(Walk(b, p)[j]))

\* Wherever a path leads, m has what o has, and where o has nothing what b has, unless
\* a node of o has replaced one that b's is in.
IsMerge(m, b, o) ==
  \A p \in Paths, i \in 1..(MaxDepth + 1) :
    Outline(Walk(m, p)[i]) =
      IF Walk(o, p)[i] # Nothing THEN Outline(Walk(o, p)[i])
      ELSE IF \E j \in 1..(i - 1) : Replaces(o, b, p, j) THEN Nothing
      ELSE Outline(Walk(b, p)[i])

\* DeepMergeYAML keeps every setting of the override, and those of the base but for
\* what a value of the override replaces.  This is a leaf, or a map that meets a leaf,
\* or one of two maps of which one has a key that is no string: there a setting of the
\* base is lost although the override says nothing about it.  If only one document
\* parses, the result is that one.
MergeKeepsSettings ==
  fPc = "merged" =>
    LET b == merged[1]  o == merged[2]  r == merged[3] IN
    IF Invalid \in {b, o} THEN r \in {b, o} /\ (r = Invalid => b = Invalid /\ o = Invalid)
    ELSE IsMerge(r.map, b.map, o.map)

\* What a document says, when it parses.
Settings(doc) == IF IsMap(doc) THEN doc.map ELSE NoMap

\* Fetch returns all or nothing, and for every template the merge of documents that
\* its two keys have had during the call, of no other template and no other time.
FetchedConfigIsReal ==
  fPc = "returned" =>
    IF failed THEN result = NoMap
    ELSE /\ DOMAIN result = {request[i] : i \in DOMAIN request}
         /\ \A t \in DOMAIN result :
              \E b \in past[<<t, "base">>] \ {Invalid} :
              \E o \in IF profile THEN past[<<t, "profile">>] \ {Invalid} ELSE {Absent} :
                IsMerge(result[t], Settings(b), Settings(o))
=============================================================================
