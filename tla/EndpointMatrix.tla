---------------------------- MODULE EndpointMatrix ----------------------------
(***************************************************************************)
(* The endpoint matrix (endpoint_matrix.py): for each key the path the API *)
(* client asks for.  It is the matrix frozen into the integration, with    *)
(* the paths of an OpenAPI file in place of those it has a candidate for.  *)
(*                                                                         *)
(* A path is its sequence of segments, whether it ends in a slash, and its *)
(* length in characters, which decides between candidates; upper case is   *)
(* left out.  Scopes and polling hints are left out: nothing reads them.   *)
(***************************************************************************)
EXTENDS Integers, Sequences

CONSTANTS
  Segments,      \* the segments paths are made of
  Placeholders,  \* those in braces, written without them: "id", "device_id" ...
  DeviceWords,   \* those "devices" occurs in
  NoPath         \* None

ASSUME SegmentAssumption ==
  /\ Placeholders \subseteq Segments
  /\ DeviceWords \subseteq Segments \ Placeholders
  /\ {"v3", "devices", "status", "location", "connect", "wireless", "configurator",
      "configuration", "id", "device_id"} \subseteq Segments
  /\ Placeholders \cap {"v3", "devices", "status", "location", "connect", "wireless",
                       "configurator", "configuration", "none"} = {}
  /\ {"id", "device_id"} \subseteq Placeholders
  /\ "devices" \in DeviceWords /\ {"status", "location"} \cap DeviceWords = {}

Path == [segments : Seq(Segments), slash : BOOLEAN, length : Nat]

ASSUME NoPathAssumption == NoPath \notin Path

\* What is found at spec_path: a state that makes load_endpoint_matrix return
\* the frozen matrix, or the items of paths in their order, some without "get".
\* Left out: a file that is not UTF-8.  Its UnicodeDecodeError is no OSError and
\* no YAMLError, so it leaves load_endpoint_matrix and ends what called it.
Broken == {"missing", "unreadable", "notDict", "noPaths"}
Item == [path : Path, get : BOOLEAN]
File == [state : Broken, items : {<<>>}] \cup [state : {"ok"}, items : Seq(Item)]

P(segments, length) == [segments |-> segments, slash |-> FALSE, length |-> length]

\* endpoint_matrix_frozen.json.  There is no "device_history".
Frozen ==
  [devices_list               |-> P(<<"devices">>, 8),
   device_detail              |-> P(<<"devices", "id">>, 13),
   device_location            |-> P(<<"v3", "devices", "id", "location">>, 25),
   device_port_configurations |-> P(<<"devices", "configurator", "configuration">>, 35),
   device_state_aggregate     |-> P(<<"v3", "devices", "status">>, 18),
   device_state_single        |-> P(<<"v3", "devices", "id", "status">>, 23),
   device_wireless            |-> P(<<"devices", "device_id", "wireless">>, 29)]

\* The segment k places before the end, and the end itself for 0
FromEnd(p, k) == p.segments[Len(p.segments) - k]

Mentions(p, words) == \E i \in 1..Len(p.segments) : p.segments[i] \in words

\* /devices/{...}/name
OfDevice(p, name) ==
  /\ Len(p.segments) > 2
  /\ FromEnd(p, 0) = name
  /\ FromEnd(p, 1) \in Placeholders
  /\ FromEnd(p, 2) = "devices"

IsAggregateStatusCandidate(p) ==
  /\ ~Mentions(p, Placeholders)
  /\ Mentions(p, DeviceWords)
  /\ p.segments # <<>> /\ FromEnd(p, 0) = "status" /\ ~p.slash
  /\ ~Mentions(p, {"connect"})

\* /devices/{...}
IsDevice(p) ==
  /\ Len(p.segments) > 1
  /\ FromEnd(p, 0) \in Placeholders
  /\ FromEnd(p, 1) = "devices"

\* Mutant: a status path of one device taken for the status of all
Fits_perDevice(key, p) ==
  \/ key = "devices_list" /\ p.segments # <<>> /\ FromEnd(p, 0) = "devices"
  \/ key = "device_state_aggregate" /\ OfDevice(p, "status")
  \/ key = "device_location" /\ OfDevice(p, "location")
  \/ key = "device_detail" /\ IsDevice(p)

\* _categorize_endpoint: the key p is a candidate for.  No path fits two keys
\* (OneKey of RequestBudget_proofs), so the order of its tests does not matter.
Fits(key, p) ==
  \/ key = "devices_list" /\ p.segments # <<>> /\ FromEnd(p, 0) = "devices"
  \/ key = "device_state_single" /\ OfDevice(p, "status")
  \/ key = "device_location" /\ OfDevice(p, "location")
  \/ key = "device_state_aggregate" /\ IsAggregateStatusCandidate(p)
  \/ key = "device_detail" /\ IsDevice(p)

\* The items of the file that are candidates for key, by their positions
Candidates(key, items) ==
  {i \in 1..Len(items) : items[i].get /\ Fits(key, items[i].path)}

StartsV3(p) == Len(p.segments) > 1 /\ p.segments[1] = "v3"

\* _endpoint_sort_key: /v3/ first, then the shorter
Before(p, q) ==
  \/ StartsV3(p) /\ ~StartsV3(q)
  \/ StartsV3(p) = StartsV3(q) /\ p.length < q.length

\* _pick_best: the first of the sorted candidates; the sort is stable
IsBest(i, C, items) ==
  \A j \in C : ~Before(items[j].path, items[i].path)

PickBest(C, items) ==
  items[CHOOSE i \in C : /\ IsBest(i, C, items)
                         /\ \A j \in C : IsBest(j, C, items) => i <= j].path

\* Mutants: only the keys with a candidate, or every key the code looks for
MatrixFromOpenapi_candidatesOnly(items) ==
  [key \in {k \in DOMAIN Frozen : Candidates(k, items) # {}} |->
     PickBest(Candidates(key, items), items)]

\* _matrix_from_openapi
MatrixFromOpenapi(items) ==
  [key \in DOMAIN Frozen |->
     LET C == Candidates(key, items)
     IN  IF C = {} THEN Frozen[key] ELSE PickBest(C, items)]

\* load_endpoint_matrix, with what it finds at the path
LoadEndpointMatrix(file) ==
  IF file.state \in Broken THEN Frozen ELSE MatrixFromOpenapi(file.items)

\* EndpointMatrix.path_for
PathFor(matrix, key) == IF key \in DOMAIN matrix THEN matrix[key] ELSE NoPath

\* What is left in braces when EndpointMatrix.format_path has replaced param,
\* or for "none" in a path that is used as it is
Unfilled(path, param) ==
  {path.segments[i] : i \in 1..Len(path.segments)} \cap (Placeholders \ {param})
===============================================================================
