----------------------------- MODULE MCGraphRun -----------------------------
(***************************************************************************)
(* Graphs, components and capabilities for GraphRun.  Three families: all  *)
(* the ways to connect three nodes; loops with two and three members,      *)
(* inline, atomic and composite; and graphs the validator refuses, each    *)
(* for another reason.                                                     *)
(***************************************************************************)
EXTENDS GraphRun

P(name, type, card) == [name |-> name, type |-> type, card |-> card]
One(name) == P(name, "t", "one")
Go == P("go", "continue", "one")

Inherit == [posture |-> None, network |-> "inherit", tools |-> {None}, timeout |-> 0]
Asks(posture) == [Inherit EXCEPT !.posture = posture]
Ref(comp) == [kind |-> "ref", comp |-> comp, version |-> None, grants |-> Inherit, bind |-> {}]
Inline(graph) == [kind |-> "graph", graph |-> graph]
LoopOf(body, feedback, max) ==
    [kind |-> "loop", body |-> body, feedback |-> feedback, continue |-> "go", max |-> max]
Node(id, body) == [id |-> id, body |-> body]
Link(src, dst) == [src |-> src, dst |-> dst, map |-> <<>>]
Mapped(src, dst, port, selector) == [src |-> src, dst |-> dst, map |-> <<[port |-> port, selector |-> selector]>>]
Graph(nodes, conns, ins, outs) == [name |-> "g", nodes |-> nodes, conns |-> conns, inputs |-> ins, outputs |-> outs]

Atomic(ins, outs) == [kind |-> "atomic", inputs |-> ins, outputs |-> outs]
Composite(graph) == [kind |-> "graph", inputs |-> graph.inputs, outputs |-> graph.outputs, graph |-> graph]
Entry(definition) == [stable |-> "v1", versions |-> [v \in {"v1"} |-> definition]]

Refine == Graph(<<Node("a", Ref("pass")), Node("b", Ref("judge"))>>, <<Link("a", "b")>>,
                <<One("x")>>, <<One("y"), Go>>)
Inner == Graph(<<Node("a", Ref("pass"))>>, <<>>, <<One("x")>>, <<One("y")>>)
Greedy == Graph(<<Node("a", [Ref("pass") EXCEPT !.grants = Asks("write")])>>, <<>>, <<One("x")>>, <<One("y")>>)

MCLibrary ==
    [n \in {"make", "pass", "gather", "maybe", "open", "judge", "step", "duo", "refine", "liar", "nested", "greedy",
           "advise", "decide", "half"} |->
        CASE n = "make"   -> Entry(Atomic(<<>>, <<One("x")>>))
          [] n = "pass"   -> Entry(Atomic(<<One("x")>>, <<One("y")>>))
          [] n = "gather" -> Entry(Atomic(<<P("all", "t", "many")>>, <<One("z")>>))
          [] n = "maybe"  -> Entry(Atomic(<<P("x", "t", "optional")>>, <<P("w", "u", "one")>>))
          [] n = "open"   -> Entry(Atomic(<<P("x", "t", "optional")>>, <<One("y")>>))
          [] n = "judge"  -> Entry(Atomic(<<One("y")>>, <<Go>>))
          [] n = "step"   -> Entry(Atomic(<<One("x")>>, <<One("y"), Go>>))
          [] n = "duo"    -> Entry(Composite(Inner))
          [] n = "refine" -> Entry(Composite(Refine))
          [] n = "liar"   -> Entry([Composite(Inner) EXCEPT !.outputs = <<One("other")>>])
          [] n = "nested" -> Entry(Composite(Graph(<<Node("l", LoopOf(Ref("step"), {<<"x", "y">>}, 2))>>, <<>>,
                                                  <<One("x")>>, <<One("y"), Go>>)))
          [] n = "greedy" -> Entry(Composite(Greedy))
          [] n = "advise" -> Entry(Atomic(<<P("x", "AdviceRequest", "one")>>, <<P("y", "AdviceResponse", "one")>>))
          [] n = "decide" -> Entry(Atomic(<<P("x", "ApprovalRequest", "one")>>, <<P("y", "ApprovalDecision", "one")>>))
          [] n = "half"   -> Entry(Atomic(<<P("x", "AdviceRequest", "one")>>, <<P("y", "ApprovalDecision", "one")>>))]
\* The registry later: another version of two components is stable, the old one is retained.
MCLater ==
    [n \in DOMAIN MCLibrary |->
        IF n \in {"pass", "refine"}
        THEN [stable |-> "v2", versions |-> [v \in {"v1", "v2"} |->
                IF v = "v1" THEN MCLibrary[n].versions["v1"] ELSE Atomic(<<One("x")>>, <<One("y"), One("extra")>>)]]
        ELSE MCLibrary[n]]

\* A channel for advice and one for approvals; one without an endpoint, one described as a channel
\* only and one that is a channel only; an executor that is away, and one away but authorized.
MCCatalog ==
    [c \in {"writer", "line", "desk", "loose", "mute", "sly", "absent", "lent"} |->
        [postures |-> IF c = "writer" THEN {"write"} ELSE {"read", "write"}, write |-> c = "writer",
         available |-> c \notin {"absent", "lent"}, authorized |-> c = "lent",
         channel |-> c \in {"line", "desk", "loose", "mute"}, served |-> c \in {"line", "desk", "loose", "sly"},
         endpoint |-> CASE c = "line" -> "advice" [] c = "desk" -> "approval" [] OTHER -> None]]
Root == [posture |-> "write", network |-> "none", tools |-> {"k"}, timeout |-> 2]

World(graph, tries) ==
    [graph |-> graph, supplied |-> {p.name : p \in ToSet(graph.inputs)}, library |-> MCLibrary, later |-> MCLater,
     root |-> Root, attempts |-> tries, cancels |-> FALSE, drifts |-> FALSE]
Cancelling(w) == [w EXCEPT !.cancels = TRUE, !.drifts = TRUE]

-----------------------------------------------------------------------------
(* Every way to connect a source, an optional reader and a gatherer. *)
Trio == <<Node("a", Ref("make")), Node("b", Ref("pass")), Node("c", Ref("gather"))>>
Triad == <<Node("a", Ref("make")), Node("b", Ref("open")), Node("c", Ref("gather"))>>
Links == {<<s, d>> : s \in {"a", "b", "c"}, d \in {"a", "b", "c"}} \ {<<"a", "a">>, <<"b", "b">>, <<"c", "c">>}
Connected ==
    {World(Graph(Triad, [i \in 1..Len(seq) |-> Link(seq[i][1], seq[i][2])], <<>>, <<One("z")>>), 3)
        : seq \in {SetToSeq(S) : S \in {T \in SUBSET Links : Cardinality(T) <= 3}}}

-----------------------------------------------------------------------------
(* Loops. *)
Body3 == Graph(<<Node("a", Ref("pass")), Node("b", Ref("judge")), Node("c", Ref("maybe"))>>,
               <<Link("a", "b")>>, <<One("x")>>, <<One("y"), Go, P("w", "u", "one")>>)
LoopGraph(body, feedback, max, outs) ==
    Graph(<<Node("a", Ref("make")), Node("l", LoopOf(body, feedback, max)), Node("z", Ref("gather"))>>,
          <<Link("a", "l"), Link("l", "z")>>, <<>>, outs)
Loops ==
    {World(LoopGraph(Inline(Body3), {<<"x", "y">>}, 2, <<One("z"), P("w", "u", "one")>>), 3),
     World(LoopGraph(Ref("refine"), {<<"x", "y">>}, 2, <<One("z")>>), 3),
     World(LoopGraph(Ref("step"), {<<"x", "y">>}, 3, <<One("z")>>), 2),
     World(LoopGraph(Ref("step"), {}, 2, <<One("y")>>), 3),
     Cancelling(World(LoopGraph(Ref("step"), {<<"x", "y">>}, 2, <<One("z")>>), 2))}

Composites ==
    {World(Graph(<<Node("a", Ref("duo")), Node("b", Inline(Inner)), Node("c", Ref("gather"))>>,
                 <<Link("a", "c"), Link("b", "c")>>, <<One("x")>>, <<One("z")>>), 3),
     World(Graph(<<Node("a", Ref("make")), Node("b", Ref("make")), Node("c", Ref("pass")), Node("d", Ref("maybe"))>>,
                 <<Mapped("a", "c", "x", <<"b", "x">>), Link("b", "c")>>, <<>>, <<One("y"), P("w", "u", "one")>>), 2)}

-----------------------------------------------------------------------------
(* One component bound to one capability. *)
Using(comp, capability) ==
    LET definition == MCLibrary[comp].versions["v1"]
    IN  Graph(<<Node("a", [Ref(comp) EXCEPT !.bind = {capability}])>>, <<>>, definition.inputs, definition.outputs)
Bindings ==
    {World(Using(b[1], b[2]), 2) : b \in {<<"pass", "lent">>, <<"pass", "line">>, <<"advise", "line">>, <<"decide", "desk">>}}

-----------------------------------------------------------------------------
(* Graphs that are refused. *)
Single(body) == Graph(<<Node("a", body)>>, <<>>, <<One("x")>>, <<One("y")>>)
Refused ==
    {World(g, 1) : g \in
        {Graph(Trio, <<Link("a", "zz")>>, <<>>, <<>>), Graph(Trio, <<Link("a", "b"), Link("b", "a")>>, <<>>, <<>>),
         Graph(<<Node("a", Ref("make")), Node("a", Ref("make"))>>, <<>>, <<>>, <<>>),
         Graph(<<Node("a", Ref("make")), Node("b", Ref("make")), Node("c", Ref("pass"))>>,
               <<Link("a", "c"), Link("b", "c")>>, <<>>, <<>>),
         Graph(Trio, <<Mapped("a", "b", "x", <<"c", "z">>)>>, <<>>, <<>>),
         Graph(Trio, <<Mapped("a", "b", "x", <<"a", "">>), Mapped("b", "c", "none", <<"a", "x">>)>>, <<>>, <<>>),
         LoopGraph(Ref("nested"), {<<"x", "y">>}, 2, <<>>), LoopGraph(Ref("pass"), {<<"x", "y">>}, 2, <<>>),
         LoopGraph(Ref("step"), {<<"x", "go">>}, 2, <<>>), LoopGraph(Ref("step"), {<<"q", "y">>}, 2, <<>>),
         Graph(<<Node("l", LoopOf(Ref("step"), {<<"x", "y">>}, 2))>>, <<>>, <<>>, <<>>),
         LoopGraph(Inline(Graph(<<>>, <<>>, <<One("x")>>, <<One("x"), Go>>)), {}, 2, <<>>),
         Single(Ref("liar")), Single(Ref("unknown")), Single([Ref("pass") EXCEPT !.version = "v7"]),
         Single([Ref("greedy") EXCEPT !.grants = Asks("read")]),
         Single([Ref("pass") EXCEPT !.bind = {"writer"}, !.grants = Asks("read")]),
         Single([Ref("pass") EXCEPT !.bind = {"absent"}]), Single([Ref("pass") EXCEPT !.bind = {"nowhere"}]),
         Using("pass", "loose"), Using("pass", "mute"), Using("pass", "sly"), Using("step", "line"),
         Using("pass", "desk"), Using("advise", "desk"), Using("decide", "line"), Using("half", "line"),
         Single([Ref("pass") EXCEPT !.grants = [Inherit EXCEPT !.timeout = 3]])}}
    \cup {[World(Single(Ref("pass")), 1) EXCEPT !.supplied = {}],
          [World(Single(Ref("pass")), 1) EXCEPT !.supplied = {"x", "more"}]}

MCWorlds == Connected \cup Loops \cup Composites \cup Bindings \cup Refused
MCNames == <<"$body", "a", "b", "body", "c", "d", "g", "l", "z">>
MCData == {"p", "q"}

-----------------------------------------------------------------------------
(* Properties. *)

\* An admitted graph can always be walked: no attempt ever meets an unbound input, a value nobody
\* produced, a loop history it must call damaged, a contradicted checkpoint or a blocked unit
\* without a cause, whatever failed, parked or crashed before.  The one refusal left is a
\* completed iteration whose durable decision is not a boolean.  And what a succeeded run
\* returned is what anyone later reads back from its checkpoints.
AdmittedRunsAreWalkable ==
    /\ refusal # "none" =>
        /\ refusal = "contract"
        /\ \E l \in ToSet(manifest.loops), r \in Instances(manifest) : \E i \in 1..l.max :
              /\ l.continue \in OutputAddresses(r) /\ <<r.scope, i>> \in DOMAIN ckpt
              /\ \E p \in ToSet(Definition(r).outputs) :
                    PortAt(r.scope, p.name) = l.continue /\ ckpt[<<r.scope, i>>].outputs[p] = "bad"
    /\ status = "SUCCEEDED" =>
        LET read == Materialize(manifest, ckpt) IN read.ok /\ read.outputs = result

\* The value an address holds in iteration i, read off the checkpoints by the authored meaning:
\* a member's own iteration, the previous one through feedback, the last one through an export.
RECURSIVE Truth(_, _)
Truth(addr, i) ==
    LET producers == {r \in Instances(manifest) : addr \in OutputAddresses(r)}
        r == CHOOSE x \in producers : TRUE
        ownLoop == {l \in ToSet(manifest.loops) : \E b \in l.initial : b.dest = addr}
        exporting == {l \in ToSet(manifest.loops) : \E e \in l.exports : e.dest = addr}
        l == CHOOSE x \in ownLoop \cup exporting : TRUE
        fed == {f \in l.feedback : f.dest = addr}
        seed == CHOOSE b \in l.initial : b.dest = addr
        last == CHOOSE k \in 1..l.max : Truth(l.continue, k) = <<"no">>
    IN  CASE producers # {} ->
                <<ckpt[<<r.scope, IF r.scope \in Members(manifest) THEN i ELSE 0>>].outputs
                    [CHOOSE p \in ToSet(Definition(r).outputs) : PortAt(r.scope, p.name) = addr]>>
          [] ownLoop # {} ->
                IF i > 1 /\ fed # {} THEN Truth((CHOOSE f \in fed : TRUE).sources[1], i - 1)
                ELSE Truth(seed.sources[1], 0)
          [] exporting # {} -> Truth((CHOOSE e \in l.exports : e.dest = addr).sources[1], last)
          [] OTHER -> <<addr[3]>>

\* Whatever order nodes ran in, and however often the run was taken up again, every durable
\* completion was computed from what its producers durably completed with in the same iteration.
InputsComeFromProducers ==
    \A path \in DOMAIN ckpt : \A p \in DOMAIN ckpt[path].inputs :
        LET r == InstanceAt(manifest, path[1])
            bound == PortBinding(manifest, r, p)
            sources == (CHOOSE b \in bound : TRUE).sources
        IN  bound # {} =>
              ckpt[path].inputs[p] = IF p.card = "many" THEN <<[i \in 1..Len(sources) |-> Truth(sources[i], path[2])[1]]>>
                                     ELSE Truth(sources[1], path[2])

\* A replay under the lock of a manifest seals the same world, although the registry has moved on.
\* What was admitted only because a provider that is away holds an authorization for this graph is
\* refused, for that reason and no other.
ReplayKeepsTheWorld ==
    LET away == {b \in manifest.capabilities : b.capability \in DOMAIN Catalog /\ ~Catalog[b.capability].available}
    IN  replay # <<>> => /\ replay.faults = (IF away = {} THEN {} ELSE {"executor_unavailable"})
                         /\ replay.resolutions = manifest.resolutions /\ replay.capabilities = manifest.capabilities
                         /\ replay.bindings = manifest.bindings /\ replay.loops = manifest.loops
=============================================================================
