--------------------------- MODULE GraphAdmission ---------------------------
(***************************************************************************)
(* Admission (runtime/validator.py): one authored graph is compiled under  *)
(* one immutable registry snapshot into a sealed manifest, or refused with *)
(* every fault that was found.  A pure function, written as operators that *)
(* thread the compilation record; only TLC evaluates them, since a graph   *)
(* nests in itself and the operators are recursive.                        *)
(*                                                                         *)
(* A port is [name, type, card]; a type stands for a type_id with its      *)
(* schema_hash.  A source is [key, addr, port]: the name it is offered     *)
(* under, the address that will carry its value, and the port it is read   *)
(* as.  An address is <<scope, node, port>>, with "$input" and "$output"   *)
(* as the node of a graph's boundary.  Messages and locations of faults    *)
(* are left out; a fault is its kind.                                      *)
(***************************************************************************)
EXTENDS Naturals, Sequences, FiniteSets, SequencesExt

\* capability -> [postures, write, available, authorized, channel, served, endpoint]: whether it is
\* described as a channel, whether the provider is that channel, and the interaction it is sealed for.
CONSTANTS Catalog

None == "none"

InputAt(scope, port) == <<scope, "$input", port>>
OutputAt(scope, port) == <<scope, "$output", port>>
PortAt(instance, port) == <<Front(instance), Last(instance), port>>

Source(key, addr, port) == [key |-> key, addr |-> addr, port |-> port]
Addresses(sources) == [i \in 1..Len(sources) |-> sources[i].addr]
Named(sources, key) == SelectSeq(sources, LAMBDA s : s.key = key)
Distinct(seq) == FoldLeft(LAMBDA acc, x : IF Contains(acc, x) THEN acc ELSE Append(acc, x), <<>>, seq)
DuplicatePorts(ports) == \E i, j \in 1..Len(ports) : i # j /\ ports[i].name = ports[j].name

\* _Compilation.  A pin is a resolution of the manifest that is replayed.
Compilation(library, lock) ==
    [library |-> library, lock |-> lock, faults |-> {}, halted |-> FALSE, resolutions |-> <<>>,
     bindings |-> {}, capabilities |-> {}, loops |-> <<>>, atomics |-> <<>>, consumed |-> {}]

Fault(comp, kinds) == [comp EXCEPT !.faults = @ \cup (kinds \ {None})]
\* raise AdmissionError(comp.faults): what is compiled after it no longer counts.
Halt(comp, kind) == [Fault(comp, {kind}) EXCEPT !.halted = TRUE]

-----------------------------------------------------------------------------
(* The magnetic rules. *)

Bound(sources) == [sources |-> sources, fault |-> None]
Unbound(fault) == [sources |-> <<>>, fault |-> fault]

BindPort(port, pool) ==
    LET typed == SelectSeq(pool, LAMBDA s : s.port.type = port.type)
        named == SelectSeq(typed, LAMBDA s : s.port.name = port.name)
    IN  CASE port.card = "many" -> IF typed = <<>> THEN Unbound("missing_port_source") ELSE Bound(typed)
          [] port.card # "many" /\ Len(named) = 1 -> Bound(named)
          [] port.card # "many" /\ named = <<>> /\ Len(typed) = 1 -> Bound(typed)
          [] port.card # "many" /\ typed = <<>> ->
                IF port.card = "optional" THEN Unbound(None) ELSE Unbound("missing_port_source")
          [] OTHER -> Unbound("ambiguous_port")

\* A selector is <<node, port>>; a malformed one names no port.
ResolveSelector(selector, port, outputs, inputs) ==
    LET sources == IF selector[1] = "$input" THEN Named(inputs, selector[2])
                   ELSE IF selector[1] \in DOMAIN outputs THEN Named(outputs[selector[1]], selector[2])
                   ELSE <<>>
    IN  IF selector[2] = "" THEN Unbound("malformed_selector")
        ELSE IF Len(sources) = 1 /\ sources[1].port.card = "one" /\ sources[1].port.type = port.type
             THEN Bound(sources)
             ELSE Unbound("explicit_source_contract")

ExplicitMaps(graph, node) ==
    FlattenSeq([i \in 1..Len(graph.conns) |-> IF graph.conns[i].dst = node THEN graph.conns[i].map ELSE <<>>])

BindInput(port, pool, explicit, outputs, inputs, feedback) ==
    LET entries == SelectSeq(explicit, LAMBDA e : e.port = port.name)
        selectors == Distinct([i \in 1..Len(entries) |-> entries[i].selector])
        picked == [i \in 1..Len(selectors) |-> ResolveSelector(selectors[i], port, outputs, inputs)]
        seeded == \E i \in 1..Len(pool) : pool[i].port.type = port.type
    IN  IF selectors = <<>>
        THEN IF port.name \in feedback /\ ~seeded THEN Unbound("missing_feedback_seed")
             ELSE BindPort(port, pool)
        ELSE IF port.card # "many" /\ Len(selectors) > 1 THEN Unbound("duplicate_map_destination")
        ELSE IF \E i \in DOMAIN picked : picked[i].fault # None
             THEN (CHOOSE p \in ToSet(picked) : p.fault # None)
             ELSE Bound([i \in DOMAIN picked |-> picked[i].sources[1]])

\* _bind_node_inputs: what every declared input is bound to, and the faults of the rest.
BindNodeInputs(comp, ports, pool, explicit, outputs, inputs, feedback) ==
    LET result == [i \in 1..Len(ports) |-> BindInput(ports[i], pool, explicit, outputs, inputs, feedback)]
        unused == {e \in ToSet(explicit) : \A i \in 1..Len(ports) : ports[i].name # e.port}
    IN  [comp |-> Fault(comp, {result[i].fault : i \in DOMAIN result}
                               \cup (IF unused = {} THEN {} ELSE {"unused_map_destination"})),
         bound |-> SelectSeq([i \in 1..Len(ports) |-> [port |-> ports[i], sources |-> result[i].sources]],
                             LAMBDA b : b.sources # <<>>)]

-----------------------------------------------------------------------------
(* One level of a graph: its order and the nodes a node can see. *)

Ids(graph) == {graph.nodes[i].id : i \in 1..Len(graph.nodes)}
NodeOf(graph, id) == graph.nodes[CHOOSE i \in 1..Len(graph.nodes) : graph.nodes[i].id = id]
Parents(graph, id) ==
    LET incoming == SelectSeq(graph.conns, LAMBDA c : c.dst = id)
    IN  [i \in 1..Len(incoming) |-> incoming[i].src]

UnknownEndpoint(graph) ==
    \E i \in 1..Len(graph.conns) : {graph.conns[i].src, graph.conns[i].dst} \ Ids(graph) # {}

\* The depth-first search finds a back edge exactly when some node can reach itself.
RejectCycles(graph) ==
    LET step(S) == S \cup {graph.conns[i].src : i \in {j \in 1..Len(graph.conns) : graph.conns[j].dst \in S}}
        within(S) == FoldLeft(LAMBDA acc, n : step(acc), S, graph.nodes)
    IN  \E id \in Ids(graph) : id \in within(ToSet(Parents(graph, id)))

RECURSIVE UpstreamClosure(_, _)
UpstreamClosure(graph, id) ==
    FoldLeft(LAMBDA acc, parent : Distinct(acc \o UpstreamClosure(graph, parent) \o <<parent>>),
             <<>>, Parents(graph, id))

\* place(): every ancestor first, then the node; nodes in the order they are declared.
OrderedNodes(graph) ==
    FoldLeft(LAMBDA acc, node : Distinct(acc \o UpstreamClosure(graph, node.id) \o <<node.id>>),
             <<>>, graph.nodes)

-----------------------------------------------------------------------------
(* References, grants and capabilities. *)

StableAnyway(comp, ref, where) ==
    IF ref.comp \in DOMAIN comp.library THEN comp.library[ref.comp].stable ELSE None
\* select_version: a lock is exact authority, never a hint.
SelectVersion(comp, ref, where) ==
    LET named == ref.comp \in DOMAIN comp.library
        entry == comp.library[ref.comp]
        pins == {p \in comp.lock.pins : p.scope = where}
        wanted == IF comp.lock.on THEN (IF pins = {} THEN None ELSE (CHOOSE p \in pins : TRUE).version)
                  ELSE IF ref.version # None THEN ref.version
                  ELSE IF named THEN entry.stable ELSE None
    IN  IF named /\ wanted \in DOMAIN entry.versions
           /\ (comp.lock.on => (CHOOSE p \in pins : TRUE).comp = ref.comp)
        THEN wanted ELSE None

\* _resolve_ref: the version, the pin it consumed, and why there is none.
ResolveRef(comp, ref, where) ==
    LET version == SelectVersion(comp, ref, where)
        pinned == \E p \in comp.lock.pins : p.scope = where
        used == [comp EXCEPT !.consumed = IF comp.lock.on /\ pinned THEN @ \cup {where} ELSE @]
        why == CASE comp.lock.on /\ ~pinned -> "no_pin"
                 [] comp.lock.on /\ pinned -> "pin_unavailable"
                 [] ~comp.lock.on /\ ref.comp \notin DOMAIN comp.library -> "unknown_component"
                 [] OTHER -> "no_version"
    IN  [comp |-> IF version = None THEN Fault(used, {why}) ELSE used, version |-> version]

\* _compile_grants: a request only narrows; a faulty one leaves the parent's grants.
CompileGrants(parent, request) ==
    LET posture == IF request.posture = None THEN parent.posture ELSE request.posture
        network == IF request.network = "inherit" THEN parent.network ELSE request.network
        tools == IF request.tools = {None} THEN parent.tools ELSE request.tools
        timeout == IF request.timeout = 0 THEN parent.timeout ELSE request.timeout
        wide == \/ posture = "write" /\ parent.posture = "read"
                \/ network = "allow" /\ parent.network = "none"
                \/ ~(tools \subseteq parent.tools)
                \/ timeout > parent.timeout
    IN  IF wide THEN [grants |-> parent, fault |-> "grants_widen"]
        ELSE [grants |-> [posture |-> posture, network |-> network, tools |-> tools, timeout |-> timeout],
              fault |-> None]

\* _admitted_unavailability: an authorized provider, never under a lock.
Unavailable(comp, capability) == ~capability.available /\ ~(~comp.lock.on /\ capability.authorized)

\* canonical_exchange_fault: contracts and the interaction that the endpoint seals belong together.
CanonicalExchanges ==
    {[request |-> "AdviceRequest", reply |-> "AdviceResponse", interaction |-> "advice"],
     [request |-> "ApprovalRequest", reply |-> "ApprovalDecision", interaction |-> "approval"]}
ExchangeFits(request, reply, interaction) ==
    LET met == {x \in CanonicalExchanges : x.request = request \/ x.reply = reply}
    IN  IF met = {} THEN interaction # "approval"
        ELSE met = {[request |-> request, reply |-> reply, interaction |-> interaction]}

\* _compiled_channel: the first thing wrong with the one exchange of a channel-bound component.
ChannelFault(capability, definition) ==
    IF capability.channel # capability.served THEN "channel_incoherent"
    ELSE IF ~capability.channel THEN None
    ELSE IF capability.endpoint = None THEN "no_endpoint"
    ELSE IF Len(definition.inputs) # 1 \/ Len(definition.outputs) # 1 THEN "not_one_exchange"
    ELSE IF ~ExchangeFits(definition.inputs[1].type, definition.outputs[1].type, capability.endpoint) THEN "not_canonical"
    ELSE None

\* What _register_atomic refuses about one binding of a component.
BindingFaults(comp, capability, definition, grants) ==
    IF capability \notin DOMAIN Catalog THEN {"unknown_capability"}
    ELSE LET c == Catalog[capability] IN
         {IF Unavailable(comp, c) THEN "executor_unavailable" ELSE None,
          IF grants.posture \notin c.postures THEN "executor_grants" ELSE None,
          IF c.write /\ grants.posture # "write" THEN "requires_write" ELSE None,
          ChannelFault(c, definition)}

\* _register_atomic: the bindings, the grants and the place of one atomic instance.
RegisterAtomic(comp, ref, definition, scope, bound, grants) ==
    LET faults == UNION {BindingFaults(comp, c, definition, grants) : c \in ref.bind}
        ports == definition.outputs
    IN  [comp |-> [Fault(comp, faults) EXCEPT
                     !.bindings = @ \cup {[dest |-> PortAt(scope, bound[i].port.name),
                                           sources |-> Addresses(bound[i].sources)] : i \in 1..Len(bound)},
                     !.capabilities = @ \cup {[scope |-> scope, capability |-> c, grants |-> grants] :
                                              c \in ref.bind \cup {"self"}},
                     !.atomics = Append(@, scope)],
         sources |-> [i \in 1..Len(ports) |-> Source(ports[i].name, PortAt(scope, ports[i].name), ports[i])]]

-----------------------------------------------------------------------------
(* Nodes, levels and loops. *)

RECURSIVE CompileGraph(_, _, _, _, _, _)
RECURSIVE CompileNode(_, _, _, _, _, _, _, _, _)

BoundaryLies(definition) ==
    definition.kind = "graph"
    /\ (definition.inputs # definition.graph.inputs \/ definition.outputs # definition.graph.outputs)

\* A resolved component in its place: an atomic instance, or a composite under its own boundary.
PlaceRef(wired, ref, definition, scope, grants, depth) ==
    LET retag(b) == [i \in 1..Len(b.sources) |-> Source(b.port.name, b.sources[i].addr, b.port)]
    IN  IF definition.kind = "atomic" THEN RegisterAtomic(wired.comp, ref, definition, scope, wired.bound, grants)
        ELSE IF BoundaryLies(definition)
        THEN [comp |-> Fault(wired.comp, {"retained_composite"}), sources |-> <<>>]
        ELSE CompileGraph(wired.comp, definition.graph, scope,
                          FlattenSeq([i \in 1..Len(wired.bound) |-> retag(wired.bound[i])]), grants, depth)

\* A node that names a component.
CompileRef(comp, ref, scope, pool, explicit, outputs, inputs, grants, depth) ==
    LET found == ResolveRef(comp, ref, scope)
        definition == comp.library[ref.comp].versions[found.version]
        narrowed == CompileGrants(grants, ref.grants)
        recorded == [Fault(found.comp, {narrowed.fault}) EXCEPT
                       !.resolutions = Append(@, [scope |-> scope, comp |-> ref.comp, version |-> found.version,
                                                  kind |-> definition.kind])]
    IN  IF found.version = None THEN [comp |-> found.comp, sources |-> <<>>]
        ELSE PlaceRef(BindNodeInputs(recorded, definition.inputs, pool, explicit, outputs, inputs, {}),
                      ref, definition, scope, narrowed.grants, depth)

\* The rules a loop's feedback and continuation obey before its body is compiled.
LoopFaults(loop, ins, outs) ==
    LET input(name) == {ins[i] : i \in {j \in 1..Len(ins) : ins[j].name = name}}
        output(name) == {outs[i] : i \in {j \in 1..Len(outs) : outs[j].name = name}}
    IN  UNION {IF input(f[1]) = {} \/ output(f[2]) = {} THEN {"unknown_feedback_port"}
               ELSE {k \in {"feedback_cardinality"} : \E p \in input(f[1]) \cup output(f[2]) : p.card # "one"}
                    \cup {k \in {"feedback_contract"} :
                            \E p \in input(f[1]), q \in output(f[2]) : p.type # q.type}
               : f \in loop.feedback}
        \cup (IF output(loop.continue) = {} THEN {"unknown_continue_port"}
              ELSE {k \in {"continue_contract"} :
                      \E p \in output(loop.continue) : p.type # "continue" \/ p.card # "one"})

\* The loop's entry in the manifest, once its body is compiled.
SealLoop(before, loop, scope, shape, wired, seats, made) ==
    LET body == Append(scope, "body")
        from(name) == Named(made.sources, name)
        members == SubSeq(made.comp.atomics, Len(before.atomics) + 1, Len(made.comp.atomics))
        late == {k \in {"no_atomic_member"} : members = <<>>}
                \cup {k \in {"feedback_source"} : \E f \in loop.feedback : Len(from(f[2])) > 1}
                \cup {k \in {"continue_source"} : /\ \E p \in ToSet(shape.outputs) : p.name = loop.continue
                                                  /\ Len(from(loop.continue)) # 1}
        exported == SelectSeq(shape.outputs, LAMBDA p : p.name # loop.continue /\ from(p.name) # <<>>)
    IN  IF made.comp.halted THEN made
        ELSE [comp |-> [Fault(made.comp, late) EXCEPT !.loops = Append(@,
                [scope |-> scope, max |-> loop.max, members |-> members,
                 initial |-> {[dest |-> seats[i].addr, port |-> seats[i].port,
                               sources |-> Addresses(wired.bound[i].sources)] : i \in 1..Len(seats)},
                 feedback |-> {[dest |-> InputAt(body, f[1]), sources |-> Addresses(from(f[2]))] :
                               f \in {g \in loop.feedback : Len(from(g[2])) = 1}},
                 continue |-> IF Len(from(loop.continue)) = 1 THEN from(loop.continue)[1].addr
                              ELSE InputAt(body, loop.continue),
                 exports |-> {[dest |-> PortAt(scope, p.name), port |-> p, sources |-> Addresses(from(p.name))] :
                              p \in ToSet(exported)}])],
              sources |-> [i \in 1..Len(exported) |->
                             Source(exported[i].name, PortAt(scope, exported[i].name), exported[i])]]

\* The body, compiled behind a boundary that takes the bound inputs in.
CompileBody(before, loop, scope, shape, wired, grants) ==
    LET body == Append(scope, "body")
        seats == [i \in 1..Len(wired.bound) |->
                    Source(wired.bound[i].port.name, InputAt(body, wired.bound[i].port.name), wired.bound[i].port)]
    IN  SealLoop(before, loop, scope, shape, wired, seats,
                 IF loop.body.kind = "ref"
                 THEN CompileNode(wired.comp, [id |-> "$body", body |-> loop.body], body, seats, <<>>, <<>>, seats,
                                  grants, 1)
                 ELSE CompileGraph(wired.comp, loop.body.graph, body, seats, grants, 1))

CompileLoop(comp, loop, scope, pool, explicit, outputs, inputs, grants) ==
    LET isRef == loop.body.kind = "ref"
        found == IF isRef THEN ResolveRef(comp, loop.body, scope \o <<"body", "$body">>)
                 ELSE [comp |-> comp, version |-> "inline"]
        shape == IF isRef THEN comp.library[loop.body.comp].versions[found.version] ELSE loop.body.graph
        ruled(ins, outs) == Fault(found.comp, LoopFaults(loop, ins, outs)
                                              \cup {k \in {"duplicate_ports"} : DuplicatePorts(ins) \/ DuplicatePorts(outs)})
    IN  IF found.version = None THEN [comp |-> found.comp, sources |-> <<>>]
        ELSE IF isRef /\ BoundaryLies(shape)
        THEN [comp |-> Fault(found.comp, {"retained_composite"}), sources |-> <<>>]
        ELSE CompileBody(comp, loop, scope, shape,
                         BindNodeInputs(ruled(shape.inputs, shape.outputs), shape.inputs, pool, explicit, outputs, inputs,
                                        {f[1] : f \in loop.feedback}),
                         grants)

\* An inline graph: what its inputs are bound to, offered under their names.
Splice(wired, graph, scope, grants, depth) ==
    LET offered(b) == [j \in 1..Len(b.sources) |-> [b.sources[j] EXCEPT !.key = b.port.name]]
    IN  CompileGraph(wired.comp, graph, scope, FlattenSeq([i \in 1..Len(wired.bound) |-> offered(wired.bound[i])]),
                     grants, depth)

CompileNode(comp, node, level, pool, explicit, outputs, inputs, grants, depth) ==
    LET scope == Append(level, node.id)
    IN  CASE node.body.kind = "loop" ->
                IF depth > 0 THEN [comp |-> Fault(comp, {"nested_loop"}), sources |-> <<>>]
                ELSE CompileLoop(comp, node.body, scope, pool, explicit, outputs, inputs, grants)
          [] node.body.kind = "ref" ->
                CompileRef(comp, node.body, scope, pool, explicit, outputs, inputs, grants, depth)
          [] node.body.kind = "graph" ->
                Splice(BindNodeInputs(comp, node.body.graph.inputs, pool, explicit, outputs, inputs, {}),
                       node.body.graph, scope, grants, depth)

\* Outputs bind to what the nodes produce; an input is only a pass-through fallback.
BindOutputs(comp, graph, scope, produced, inputs) ==
    LET pool(port) == IF \E i \in 1..Len(produced) : produced[i].port.type = port.type THEN produced ELSE inputs
        result == [i \in 1..Len(graph.outputs) |-> BindPort(graph.outputs[i], pool(graph.outputs[i]))]
        tagged(i) == [j \in 1..Len(result[i].sources) |->
                        Source(graph.outputs[i].name, result[i].sources[j].addr, graph.outputs[i])]
    IN  [comp |-> Fault(comp, {result[i].fault : i \in DOMAIN result}),
         sources |-> FlattenSeq([i \in 1..Len(result) |-> tagged(i)])]

\* What a node can see: the outputs of everything upstream of it, then the inputs of the level.
Pool(graph, id, outputs, inputs) ==
    LET above == UpstreamClosure(graph, id)
    IN  FlattenSeq([i \in 1..Len(above) |-> outputs[above[i]]]) \o inputs
AddNode(acc, id, made) ==
    [comp |-> made.comp, outputs |-> [x \in DOMAIN acc.outputs \cup {id} |-> IF x = id THEN made.sources ELSE acc.outputs[x]]]
CompileNodes(comp, graph, scope, inputs, grants, depth) ==
    FoldLeft(LAMBDA acc, id :
                IF acc.comp.halted THEN acc
                ELSE AddNode(acc, id, CompileNode(acc.comp, NodeOf(graph, id), scope, Pool(graph, id, acc.outputs, inputs),
                                                  ExplicitMaps(graph, id), acc.outputs, inputs, grants, depth)),
             [comp |-> comp, outputs |-> <<>>], OrderedNodes(graph))
CloseGraph(done, graph, scope, inputs) ==
    LET order == OrderedNodes(graph)
    IN  IF done.comp.halted THEN [comp |-> done.comp, sources |-> <<>>]
        ELSE BindOutputs(done.comp, graph, scope, FlattenSeq([i \in 1..Len(order) |-> done.outputs[order[i]]]), inputs)

CompileGraph(comp, graph, scope, inputs, grants, depth) ==
    LET unique == Fault(comp, {k \in {"duplicate_ports"} : DuplicatePorts(graph.inputs)
                                                           \/ DuplicatePorts(graph.outputs)})
    IN  CASE UnknownEndpoint(graph) -> [comp |-> Halt(comp, "unknown_connection_node"), sources |-> <<>>]
          [] ~UnknownEndpoint(graph) /\ RejectCycles(graph) ->
                [comp |-> Halt(comp, "graph_cycle"), sources |-> <<>>]
          [] ~UnknownEndpoint(graph) /\ ~RejectCycles(graph) /\ Cardinality(Ids(graph)) # Len(graph.nodes) ->
                [comp |-> Halt(unique, "duplicate_nodes"), sources |-> <<>>]
          [] OTHER -> CloseGraph(CompileNodes(unique, graph, scope, inputs, grants, depth), graph, scope, inputs)

-----------------------------------------------------------------------------
(* Admission. *)

\* The manifest is sealed, or the faults are raised.
Seal(made, graph, lock) ==
    LET scope == <<graph.name>>
        unconsumed == lock.on /\ {p.scope : p \in lock.pins} \ made.comp.consumed # {}
        comp == IF made.comp.halted THEN made.comp
                ELSE Fault(made.comp, {k \in {"unused_pin"} : unconsumed})
        ends == {p \in ToSet(graph.outputs) : Named(made.sources, p.name) # <<>>}
    IN  [faults |-> comp.faults,
         name |-> graph.name, outputs |-> graph.outputs, resolutions |-> comp.resolutions, loops |-> comp.loops,
         capabilities |-> comp.capabilities,
         bindings |-> comp.bindings \cup {[dest |-> OutputAt(scope, p.name),
                                           sources |-> Addresses(Named(made.sources, p.name))] : p \in ends}]

Admit(graph, supplied, library, lock, root) ==
    LET scope == <<graph.name>>
        known == {graph.inputs[i].name : i \in 1..Len(graph.inputs)}
        required == {graph.inputs[i].name : i \in {j \in 1..Len(graph.inputs) : graph.inputs[j].card # "optional"}}
        given == SelectSeq(graph.inputs, LAMBDA p : p.name \in supplied)
        start == Fault(Compilation(library, lock),
                       {k \in {"inputs_missing"} : required \ supplied # {}}
                       \cup {k \in {"inputs_unknown"} : supplied \ known # {}})
    IN  Seal(CompileGraph(start, graph, scope,
                          [i \in 1..Len(given) |-> Source(given[i].name, InputAt(scope, given[i].name), given[i])],
                          root, 0), graph, lock)

\* _resolution_lock_for: one pin for every resolution of the manifest that is replayed.
LockOf(manifest) ==
    [on |-> TRUE, pins |-> {[scope |-> r.scope, comp |-> r.comp, version |-> r.version] :
                            r \in ToSet(manifest.resolutions)}]
NoLock == [on |-> FALSE, pins |-> {}]
=============================================================================
