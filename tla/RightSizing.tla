---------------------------- MODULE RightSizing ----------------------------
(***************************************************************************)
(* The Right-sizing page (pages/RightSizing.tsx over lib/rightsizing.ts):  *)
(* rows from VPA recommendations and from the engine's own p95 samples,    *)
(* ticks that say what to change, a dry run and an apply per workload, and *)
(* the suggestion a pod's Size tab makes from the same rows                *)
(* (components/ResizePanel.tsx).  The streams the rows are made of arrive  *)
(* one by one, the user turns to other clusters, and answers come late.    *)
(*                                                                         *)
(* CPU is in whole millicores.  A memory quantity is a number and its      *)
(* suffix, and is written back in whole MiB.  A VPA may recommend only one *)
(* of the two.                                                             *)
(***************************************************************************)
EXTENDS Integers, SequencesExt

CONSTANTS
  Clusters,
  Resizable,   \* [kind, name]
  Kinds,       \* the kinds a row may be of, in the order their objects are listed
  Containers,  \* workload |-> its containers
  Vpa,         \* cluster |-> workload |-> container |-> target, for those with a recommendation
  Bytes,       \* suffix of a quantity |-> the bytes it stands for, "" for none
  Used,        \* cluster |-> workload |-> what one container of it uses (p95), memory in bytes
  Replicas,    \* workload |-> its pods
  Sizes,       \* cluster |-> requests its containers may start with
  MayScale,    \* cluster |-> workloads that may have an HPA on CPU
  All,         \* the container of an engine row, "(all containers)"
  CpuFloor, MemFloor,  \* CPU_ABS_THRESHOLD_MILLIS, MEM_ABS_THRESHOLD_BYTES: positive
  MaxCalls,    \* bound of the model: previews and applies asked for
  MaxTicks     \* bound of the model: ticks by the user

VARIABLES
  requests,  \* cluster |-> workload |-> container |-> requests
  hpa,       \* cluster |-> workloads an HPA scales on CPU
  shown,     \* the page's cluster
  got,       \* what has arrived of it: "vpas", "workloads", "hpas", "waste"
  sampled,   \* the engine's requests, as of its last sample
  selection, \* row key |-> its ticks
  preview,   \* workload |-> state of its preview
  calls,     \* requests under way
  asked,     \* history: row key |-> the dimensions the user ticked or unticked, and how
  done       \* bound: calls and ticks made

cluster == <<requests, hpa>>
vars == <<cluster, shown, got, sampled, selection, preview, calls, asked, done>>

Streams == {"vpas", "workloads", "hpas", "waste"}
Dims    == {"cpu", "mem"}
Keys    == {<<w, c>> : w \in Resizable, c \in UNION Range(Containers) \cup {All}}

-----------------------------------------------------------------------------
(* lib/rightsizing.ts *)

(* MEM_SUFFIXES.  Kubernetes's own decimal kilo, "k", is not one of them. *)
MemSuffixes == {"Ki", "Mi", "Gi", "Ti", "Pi", "Ei", "K", "M", "G", "T", "P", "E"}

MemBytes(q, suffixes) == q.n * (IF q.suffix \in suffixes THEN Bytes[q.suffix] ELSE 1)

(* A suffix that is not known is passed over. *)
parseMemBytes(q) == MemBytes(q, MemSuffixes)

Mebi == 1024 * 1024

(* To the nearest, half way up. *)
memQuantityString(bytes) == [n |-> (bytes + Mebi \div 2) \div Mebi, suffix |-> "Mi"]

(* What is not there reads as nothing. *)
Parsed(size) ==
  [cpu |-> IF "cpu" \in DOMAIN size THEN size.cpu ELSE 0,
   mem |-> IF "mem" \in DOMAIN size THEN parseMemBytes(size.mem) ELSE 0]

Written(target) == [cpu |-> target.cpu, mem |-> memQuantityString(target.mem)]

(* What the engine, and the cluster itself, takes a quantity for. *)
Meant(size) == [size EXCEPT !.mem = MemBytes(@, DOMAIN Bytes)]

Floor(dim) == IF dim = "cpu" THEN CpuFloor ELSE MemFloor

(* At least the floor, and at least a fifth of what is requested. *)
IsMaterial(current, target, floor) ==
  LET delta == IF current > target THEN current - target ELSE target - current
  IN  delta >= floor /\ (current # 0 => delta >= (current + 4) \div 5)

Material(current, target) ==
  {dim \in Dims : IsMaterial(current[dim], target[dim], Floor(dim))}

Conflict(w) == "hpas" \in got /\ w \in hpa[shown]

Listed == {w \in Resizable : w.kind \in ToSet(Kinds)}

(* The first listed workload of the name, whatever its kind. *)
Found(w) ==
  LET named == {v \in Listed : v.name = w.name}
      At(v) == CHOOSE i \in DOMAIN Kinds : Kinds[i] = v.kind
  IN  {v \in named : \A u \in named : At(v) <= At(u)}

Row(w, c, current, target, source) ==
  [w |-> w, c |-> c, current |-> current, target |-> target,
   material |-> Material(current, target), conflict |-> Conflict(w), source |-> source]

VpaRows ==
  IF ~({"vpas", "workloads"} \subseteq got) THEN {}
  ELSE LET Of(w, v) == {Row(w, c, Parsed(requests[shown][v][c]), Parsed(Vpa[shown][w][c]), "vpa")
                          : c \in DOMAIN Vpa[shown][w] \cap Containers[v]}
       IN  {r \in UNION {UNION {Of(w, v) : v \in Found(w)} : w \in Listed} : r.material # {}}

(* What the sampler adds up, over a workload's pods and containers. *)
Total(w, of) ==
  [dim \in Dims |-> Replicas[w] * MapThenSumSet(LAMBDA c : of[c][dim], Containers[w])]

EngineRows ==
  IF "waste" \notin got THEN {}
  ELSE {r \in {Row(w, All, Total(w, [c \in Containers[w] |-> Meant(sampled[shown][w][c])]), Total(w, [c \in Containers[w] |-> Used[shown][w]]), "engine")
                 : w \in Listed}
          : r.material # {}}

(* A VPA wins for the workloads it has a row for. *)
Rows ==
  LET vpa == VpaRows IN vpa \cup {r \in EngineRows : \A v \in vpa : v.w # r.w}

Key(r) == <<r.w, r.c>>

(* The Size tab's suggestion for a container of a pod of w. *)
Suggested(w, c) == {Written(r.target) : r \in {s \in Rows : s.w = w /\ (s.source = "vpa" => s.c = c)}}

-----------------------------------------------------------------------------
(* pages/RightSizing.tsx *)

Start == [w \in Resizable |-> "none"]

(* Engine rows are view-only; a workload's plan is its rows with a tick. *)
Plan(w) ==
  LET rows == Rows IN
  [c \in {r.c : r \in {s \in rows : s.w = w /\ s.source = "vpa" /\ Key(s) \in DOMAIN selection
                                    /\ selection[Key(s)] # {}}} |->
     LET r == CHOOSE s \in rows : s.w = w /\ s.c = c
     IN  [dim \in selection[<<w, c>>] |-> Written(r.target)[dim]]]

(* Mutant: rows are ticked again whenever they change. *)
Seeded_Again ==
  LET rows == Rows' IN
  [k \in DOMAIN selection \cup {Key(r) : r \in rows} |->
     IF \A r \in rows : Key(r) # k THEN selection[k]
     ELSE LET r == CHOOSE s \in rows : Key(s) = k
          IN  {dim \in r.material : dim = "cpu" => ~r.conflict}]

(* The effect that follows a change of the rows: one not seen before is ticked
   for what is worth changing, but CPU where an HPA is known to scale on it. *)
Seeded ==
  LET rows == Rows' IN
  [k \in DOMAIN selection \cup {Key(r) : r \in rows} |->
     IF k \in DOMAIN selection THEN selection[k]
     ELSE LET r == CHOOSE s \in rows : Key(s) = k
          IN  {dim \in r.material : dim = "cpu" => ~r.conflict}]

Init ==
  /\ \E size \in [Clusters -> UNION Range(Sizes)] :
       /\ \A k \in Clusters : size[k] \in Sizes[k]
       /\ requests = [k \in Clusters |-> [w \in Resizable |-> [c \in Containers[w] |-> size[k]]]]
  /\ hpa \in [Clusters -> SUBSET UNION Range(MayScale)] /\ \A k \in Clusters : hpa[k] \subseteq MayScale[k]
  /\ shown \in Clusters /\ got = {} /\ sampled = requests
  /\ selection = <<>> /\ preview = Start /\ calls = {} /\ asked = <<>> /\ done = [calls |-> 0, ticks |-> 0]

(* A stream's first rows, or the engine's answer, which is asked for again and again. *)
Arrive(s) ==
  /\ s \notin got \/ s = "waste"
  /\ got' = got \cup {s}
  /\ sampled' = IF s = "waste" THEN [sampled EXCEPT ![shown] = requests[shown]] ELSE sampled
  /\ UNCHANGED <<cluster, shown>>
  /\ selection' = Seeded
  /\ UNCHANGED <<preview, calls, asked, done>>

(* Another cluster: nothing of it has arrived; ticks and previews go by workload. *)
Switch(k) ==
  /\ k # shown /\ shown' = k /\ got' = {}
  /\ UNCHANGED <<cluster, sampled>>
  /\ selection' = Seeded
  /\ UNCHANGED <<preview, calls, asked, done>>

(* The checkbox of a dimension worth changing; CPU's is disabled on a conflict. *)
Toggle(r, dim) ==
  /\ done.ticks < MaxTicks
  /\ r.source = "vpa" /\ dim \in r.material /\ (dim = "cpu" => ~r.conflict)
  /\ Key(r) \in DOMAIN selection
  /\ LET k == Key(r)
         flipped == IF dim \in selection[k] THEN selection[k] \ {dim} ELSE selection[k] \cup {dim}
     IN  /\ selection' = [selection EXCEPT ![k] = flipped]
         /\ asked' = [q \in DOMAIN asked \cup {k} |->
              IF q # k THEN asked[q]
              ELSE [d \in {dim} \cup (IF k \in DOMAIN asked THEN DOMAIN asked[k] ELSE {}) |->
                      d \in flipped]]
  /\ done' = [done EXCEPT !.ticks = @ + 1]
  /\ UNCHANGED <<cluster, shown, got, sampled, preview, calls>>

Ask(kind, w) ==
  calls' = calls \cup {[kind |-> kind, w |-> w, cluster |-> shown, patch |-> Plan(w)]}

Preview(w) ==
  /\ done.calls < MaxCalls /\ Plan(w) # <<>>
  /\ preview' = [preview EXCEPT ![w] = "loading"]
  /\ Ask("preview", w)
  /\ done' = [done EXCEPT !.calls = @ + 1]
  /\ UNCHANGED <<cluster, shown, got, sampled, selection, asked>>

Busy(w) == \E q \in calls : q.kind = "apply" /\ q.w = w

Apply(w) ==
  /\ done.calls < MaxCalls /\ preview[w] = "ready" /\ ~Busy(w) /\ Plan(w) # <<>>
  /\ Ask("apply", w)
  /\ done' = [done EXCEPT !.calls = @ + 1]
  /\ UNCHANGED <<cluster, shown, got, sampled, selection, preview, asked>>

(* A strategic merge patch of a container there is not has no image: refused. *)
Accepted(q) == DOMAIN q.patch \subseteq Containers[q.w]

(* Mutant: the patch lands on the cluster the page shows when it lands. *)
Where_Shown(q) == shown

Where(q) == q.cluster

(* A patch leaves what it does not name. *)
Patched(was, patch) ==
  [c \in DOMAIN was |-> IF c \notin DOMAIN patch THEN was[c]
     ELSE [dim \in Dims |-> IF dim \in DOMAIN patch[c] THEN patch[c][dim] ELSE was[c][dim]]]

Answer(q) ==
  /\ q \in calls /\ Accepted(q)
  /\ calls' = calls \ {q}
  /\ requests' = IF q.kind = "apply" THEN [requests EXCEPT ![Where(q)][q.w] = Patched(@, q.patch)] ELSE requests
  /\ preview' = [preview EXCEPT ![q.w] = "ready"]
  /\ UNCHANGED <<hpa, shown, got, sampled>>
  /\ selection' = Seeded
  /\ UNCHANGED <<asked, done>>

Fail(q) ==
  /\ q \in calls
  /\ calls' = calls \ {q}
  /\ preview' = [preview EXCEPT ![q.w] = "error"]
  /\ UNCHANGED <<cluster, shown, got, sampled, selection, asked, done>>

Next ==
  \/ \E s \in Streams : Arrive(s)
  \/ \E k \in Clusters : Switch(k)
  \/ \E r \in Rows, dim \in Dims : Toggle(r, dim)
  \/ \E w \in Resizable : Preview(w) \/ Apply(w)
  \/ \E q \in calls : Answer(q) \/ Fail(q)

Spec == Init /\ [][Next]_vars

-----------------------------------------------------------------------------
(* Properties *)

(* The type invariant. *)
TypeOK ==
  /\ shown \in Clusters /\ got \subseteq Streams
  /\ DOMAIN selection \subseteq Keys /\ \A k \in DOMAIN selection : selection[k] \subseteq Dims
  /\ preview \in [Resizable -> {"none", "loading", "ready", "error"}]
  /\ \A q \in calls : q.kind \in {"preview", "apply"} /\ q.w \in Resizable /\ q.cluster \in Clusters
  /\ \A k \in Clusters, w \in Resizable : DOMAIN requests[k][w] = Containers[w]
  /\ DOMAIN asked \subseteq DOMAIN selection

(* What the user ticked or unticked stays so, however rows come, go and come back,
   here or on another cluster (RightSizing.tsx:136, "without clobbering choices the
   user already made"). *)
ChoicesStand ==
  \A k \in DOMAIN asked : \A dim \in DOMAIN asked[k] : (dim \in selection[k]) = asked[k][dim]

(* An apply, whenever it lands and wherever the user has turned to, changes requests
   only to what the page reads in that cluster's own VPA for that container, as it
   writes it; the requests of another container, workload or cluster never move
   (rightsizing.ts:387).  How far that is from what the VPA says: WritesWhatIsMeant. *)
OnlyRecommended ==
  [][\A k \in Clusters, w \in Resizable : \A c \in Containers[w] : \A dim \in Dims :
       requests'[k][w][c][dim] # requests[k][w][c][dim] =>
         /\ c \in DOMAIN Vpa[k][w] /\ requests'[k][w][c][dim] = Written(Parsed(Vpa[k][w][c]))[dim]
         /\ \E q \in calls : q.kind = "apply" /\ q.w = w /\ q.cluster = k]_vars

-----------------------------------------------------------------------------
(* Expectations the code does not meet *)

(* "Kubebay ticks what's worth changing, except CPU on a workload whose HPA scales on
   CPU" (right-sizing.md:23): a patch of its CPU was ticked by the user. *)
HpaIsLeftAlone ==
  \A q \in calls : q.w \in hpa[q.cluster] =>
    \A c \in DOMAIN q.patch : "cpu" \in DOMAIN q.patch[c] =>
      <<q.w, c>> \in DOMAIN asked /\ "cpu" \in DOMAIN asked[<<q.w, c>>]

(* A suggestion is a "real imprecision for a multi-container pod" (rightsizing.ts:348)
   and for no other: one container's is what one container uses. *)
SuggestionIsAContainers ==
  \A w \in Resizable : \A c \in Containers[w] : \A s \in Suggested(w, c) :
    Containers[w] = {c} => s \in {Written(Used[shown][w])} \cup {Written(Parsed(Vpa[shown][w][d])) : d \in DOMAIN Vpa[shown][w]}

(* What a patch writes is what the VPA recommends, to half a MiB ("Parses a Kubernetes
   memory quantity", rightsizing.ts:40).  It is for the suffixes the page knows
   (CapacityProofs!NearWhatIsMeant); 262144k, a quarter of a GiB, is read as 262144
   bytes and written as 0Mi, and what a VPA has no opinion on is written as 0m or 0Mi. *)
WritesWhatIsMeant ==
  \A q \in calls : \A c \in DOMAIN q.patch : \A dim \in DOMAIN q.patch[c] :
    LET of == Vpa[q.cluster][q.w][c]
        Of(size) == MemBytes(size.mem, DOMAIN Bytes)
    IN  /\ dim \in DOMAIN of
        /\ dim = "mem" => Of(q.patch[c]) - Of(of) \in -(Mebi \div 2)..(Mebi \div 2)
=============================================================================
