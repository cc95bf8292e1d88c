--------------------------- MODULE MCPolicyEngine ---------------------------
(***************************************************************************)
(* A small world for PolicyEngine: a workspace with a link that stays      *)
(* inside, one that leaves and one that leads nowhere yet, registries with *)
(* every dependency graph over three path arguments and every pair of risk *)
(* rules from a pool, each way an asset can be wrong, and the calls and    *)
(* grants that meet them.                                                  *)
(***************************************************************************)
EXTENDS PolicyEngine, TLC

MCRoot == <<"home", "ws">>
MCDirs == {<<>>, <<"home">>, MCRoot, MCRoot \o <<"sub">>, <<"home", "ws2">>, <<"out">>}
MCLinks ==
    (MCRoot \o <<"leave">> :> <<"out">>) @@ (MCRoot \o <<"alias">> :> MCRoot \o <<"sub">>)
        @@ (MCRoot \o <<"later">> :> <<"out", "later">>)
MCShas == {"s1", "s2"}
MCNumerals == ("0" :> 0) @@ ("1" :> 1) @@ ("2" :> 2) @@ ("02" :> 2)
MCSnapshot == [repository |-> Repository, sha |-> "s1", tools |-> {"t", "u"}]
MCReferences ==
    {[sha |-> s, declared |-> n, rows |-> rs] :
        s \in {"s1", "s2"}, n \in {{}, {0}, {1}, {2}}, rs \in {<<>>, <<"t">>, <<"t", "u">>, <<"t", "t">>}}

PathArgs == {"p", "q", "r"}
AllArgs == PathArgs \cup {"items", "force", "stray"}
Inner == Relative(<<"sub", "f">>)
Outer == Relative(<<"leave", "f">>)
Sibling == Relative(<<"..", "ws2">>)
Through == Relative(<<"alias", "f">>)
Around == Relative(<<"sub", "..", "f">>)
Back == Relative(<<"leave", "..", "f">>)
Later == Relative(<<"later", "f">>)
Direct == Absolute(<<"home", "ws", ".", "new">>)

Path(a, es, mode, base) ==
    [argument |-> a, effects |-> es, required |-> mode = "required",
     default |-> CASE mode = "default" -> {Inner} [] mode = "bad" -> {Refused} [] OTHER -> {},
     base |-> base]

T(arguments, effects, paths, rules) ==
    [name |-> "t", capability |-> "c", risk |-> 2, arguments |-> arguments,
     effects |-> effects, paths |-> paths, rules |-> rules]
File(tools) == [source |-> "s1", tools |-> tools]

Modes == {"required", "optional", "default"}
Graphs ==
    {File(<<T(<<"p", "q", "r">>, {}, <<Path("p", {"Read"}, m[1], b[1]),
                Path("q", {"Write"}, m[2], b[2]), Path("r", {"Create"}, m[3], b[3])>>, <<>>)>>) :
        m \in [1..3 -> Modes], b \in [1..3 -> PathArgs \cup {None}]}

Many(a, n, dim, eff, to) ==
    [kind |-> "cardinality", argument |-> a, minimum |-> n, dimension |-> dim,
     requires |-> eff, escalate |-> to, expected |-> TRUE, default |-> FALSE]
Flag(a, want, eff, to) ==
    [kind |-> "boolean", argument |-> a, minimum |-> 0, dimension |-> "confirmed_overwrite",
     requires |-> eff, escalate |-> to, expected |-> want, default |-> FALSE]
RulePool ==
    {Many("items", 2, "item_count", "Read", 4), Many("items", 1, "item_count", "Read", 4),
     Many("items", 2, "depth", "Read", 4), Many("zz", 2, "item_count", "Read", 4),
     Flag("force", TRUE, "Write", 3), Flag("force", FALSE, "Read", 3),
     Flag("force", TRUE, "Read", 2), Flag("force", TRUE, "Delete", 3)}
Ruled(rules) ==
    T(<<"p", "items", "force">>, {"Read"}, <<Path("p", {"Write"}, "optional", None)>>, rules)
RuleFiles == {File(<<Ruled(rs)>>) : rs \in {<<>>} \cup {<<a>> : a \in RulePool} \cup {<<a, b>> : a, b \in RulePool}}

Plain == Ruled(<<>>)
Bare == [Plain EXCEPT !.effects = {None}, !.arguments = <<None>>, !.paths = <<>>]
OddTools ==
    {[Plain EXCEPT !.capability = None], [Plain EXCEPT !.risk = 0],
     [Plain EXCEPT !.effects = {"Chmod"}], [Plain EXCEPT !.effects = {None}],
     [Plain EXCEPT !.arguments = <<None>>], [Plain EXCEPT !.arguments = <<"p", "p">>],
     [Plain EXCEPT !.arguments = <<"p", "">>], [Plain EXCEPT !.arguments = <<"items">>],
     [Plain EXCEPT !.paths = <<Path("p", {}, "optional", None)>>],
     [Plain EXCEPT !.paths = <<Path("p", {"Read"}, "bad", None)>>],
     [Plain EXCEPT !.paths = <<Path("p", {"Read"}, "required", "")>>],
     [Plain EXCEPT !.paths = <<Path("p", {"Read"}, "required", None), Path("p", {"Read"}, "required", None)>>],
     [Plain EXCEPT !.effects = {}, !.paths = <<>>], [Plain EXCEPT !.name = "gone"],
     [Bare EXCEPT !.rules = <<Flag("force", TRUE, "Read", 3)>>], Bare}
OddFiles ==
    {File(<<t>>) : t \in OddTools}
        \cup {File(<<Plain, Plain>>), File(<<Plain, [Bare EXCEPT !.name = "u"]>>), File(<<>>)}
        \cup {[source |-> s, tools |-> <<t>>] : s \in {"absent", "partial", "s2"}, t \in {Plain, Bare}}
MCRegistryFiles == Graphs \cup RuleFiles \cup OddFiles

-----------------------------------------------------------------------------
Up(t, shapes) ==
    [name |-> t.name, arguments |-> t.arguments, effects |-> t.effects, paths |-> t.paths,
     shapes |-> shapes, evidence |-> <<"SourceReview", "InputSchemaMatch">>,
     sources |-> <<Inner>>, destructive |-> TRUE, repeats |-> FALSE]
Manifest(tools) ==
    [schema |-> <<"2", "1", "0">>, tools |-> tools, bytes |-> 1,
     source |-> [repository |-> Repository, version |-> <<"1", "0", "2">>, sha |-> "s1"]]
Shape(a, kind, item, dim) == [argument |-> a, kind |-> kind, item |-> item, dimension |-> dim]
ShapeLists ==
    {<<>>} \cup {<<Shape("items", "Collection", "string", d)>> : d \in {None, "item_count"}}
    \cup {<<Shape("items", k, i, "item_count"), Shape("force", f, None, None)>> :
            k \in {"Collection", "String"}, i \in {None, "string"}, f \in {"Boolean", "String"}}
    \cup {<<Shape("zz", "Boolean", None, None)>>,
          <<Shape("force", "Boolean", None, None), Shape("force", "Boolean", None, None)>>}
GoodShapes == <<Shape("items", "Collection", "string", "item_count"), Shape("force", "Boolean", None, None)>>
GoodUp == Up(Plain, GoodShapes)
MCManifests ==
    {Manifest(<<Up(Plain, s)>>) : s \in ShapeLists}
    \cup {Manifest(<<t>>) : t \in
            {[GoodUp EXCEPT !.name = ""], [GoodUp EXCEPT !.name = "T"], [GoodUp EXCEPT !.name = "gone"], [GoodUp EXCEPT !.name = "u"],
             [GoodUp EXCEPT !.evidence = <<"SourceReview">>],
             [GoodUp EXCEPT !.evidence = <<"SourceReview", "InputSchemaMatch", "SourceReview">>],
             [GoodUp EXCEPT !.sources = <<>>], [GoodUp EXCEPT !.sources = <<Inner, Inner>>],
             [GoodUp EXCEPT !.sources = <<Inner, Sibling>>], [GoodUp EXCEPT !.sources = <<Direct>>],
             [GoodUp EXCEPT !.destructive = FALSE], [GoodUp EXCEPT !.repeats = TRUE],
             [GoodUp EXCEPT !.effects = {"Read", "Write"}],
             [GoodUp EXCEPT !.paths = <<[Path("p", {"Write"}, "default", None) EXCEPT !.required = TRUE]>>],
             Up(T(<<"p", "q", "r">>, {}, <<Path("p", {"Read"}, "required", None), Path("q", {"Write"}, "default", "p"),
                   Path("r", {"Create"}, "optional", "q")>>, <<>>), <<>>)}}
    \cup {[Manifest(<<GoodUp>>) EXCEPT !.schema = v] : v \in {<<"1", "0", "0">>, <<"02", "0", "0">>, <<"2", "0">>, <<"2", "x", "0">>}}
    \cup {[Manifest(<<GoodUp>>) EXCEPT !.bytes = n] : n \in {0, MaxManifestBytes, MaxManifestBytes + 1}}
    \cup {[Manifest(<<GoodUp>>) EXCEPT !.source.sha = x] : x \in {"s2", "short"}}
    \cup {[Manifest(<<GoodUp>>) EXCEPT !.source.repository = "fork"],
          [Manifest(<<GoodUp>>) EXCEPT !.source.version = <<"1">>], Manifest(<<>>), Manifest(<<GoodUp, GoodUp>>),
          Manifest(<<GoodUp, [GoodUp EXCEPT !.name = "u"]>>)}

-----------------------------------------------------------------------------
Args(given) == given @@ [a \in AllArgs |-> Absent]
Grant == [subject |-> "s", status |-> "Active", expires |-> 2, workspaces |-> {"w"}, capabilities |-> {"c"}]
Question(args) ==
    [tool |-> "t", subject |-> "s", workspace |-> "w", authorized |-> "w", now |-> 1,
     args |-> args, grant |-> Grant]
PathValues ==
    {Absent, List(<<>>), Text(Inner), Text(Outer), Text(Refused), List(<<Through, Direct>>)}
ThreePaths == {Args([p |-> x, q |-> y, r |-> z]) : x, y, z \in PathValues}
RuleArgs ==
    {Args([p |-> x, items |-> y, force |-> z]) :
        x \in {Absent, Text(Inner)},
        y \in {Absent, Null, Other, List(<<Inner>>), List(<<Inner, Direct>>)},
        z \in {Absent, Null, Bool(TRUE), Bool(FALSE)}}
OddArgs ==
    {Args([p |-> x, q |-> y]) : x \in {Null, Other, Bool(TRUE), Text(Sibling), List(<<Inner, NoText>>),
                                      Text(Around), Text(Back), Text(Later)},
                                y \in {Absent, Null, Text(Sibling), Text(Back), Text(Later)}}
    \cup {Args([stray |-> Other])}
Asking == Question(Args([p |-> Text(Inner)]))
OddQuestions ==
    {[Asking EXCEPT !.tool = x] : x \in {"", "u", "zz"}}
    \cup {[Asking EXCEPT !.subject = "other"], [Asking EXCEPT !.now = 2], [Asking EXCEPT !.now = 3],
          [Asking EXCEPT !.authorized = "w2"], [Asking EXCEPT !.grant.workspaces = {}],
          [Asking EXCEPT !.workspace = "w2", !.authorized = "w2"],
          [Asking EXCEPT !.grant.capabilities = {}]}
    \cup {[Asking EXCEPT !.grant.status = x] : x \in {"Revoked", "Expired", "Consumed", "Pending"}}
MCQuestions == {Question(a) : a \in ThreePaths \cup RuleArgs \cup OddArgs} \cup OddQuestions
=============================================================================
