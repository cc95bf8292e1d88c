---------------------------- MODULE PolicyEngine ----------------------------
(***************************************************************************)
(* The policy decision and the reviewed data it rests on.  A daemon loads  *)
(* the embedded tool registry or refuses to start (tool_registry.rs), the  *)
(* registry is reconciled with the upstream effect manifest               *)
(* (upstream_effect_manifest.rs), and every request is judged against the  *)
(* grant that answers for it (engine.rs, risk_assessment.rs).              *)
(***************************************************************************)
EXTENDS ToolContracts

CONSTANTS
    RegistryFiles,  \* registry assets a build may embed
    Shas,           \* texts that are a commit id: 40 lower-case hex digits
    Numerals,       \* [text -> the number it reads as]: texts that are all digits
    Snapshot,       \* the embedded upstream tool snapshot: [repository, sha, tools]
    References,     \* generated tool references a refresh may read
    Manifests,      \* upstream manifests to reconcile with
    Questions       \* requests with the grant and the clock they meet

VARIABLES
    file,           \* the embedded registry
    snapshot,       \* the embedded snapshot
    stage,          \* "off", "refused" or "serving"
    asked,          \* the question being judged: none or one
    compared,       \* the manifest being reconciled: none or one
    outcome         \* what came of it

vars == <<file, snapshot, stage, asked, compared, outcome>>

High == 3
RiskLevels == 1..4      \* Low, Normal, High, Critical; 0 is text that is no level

-----------------------------------------------------------------------------
(* The registry                                                            *)

RiskRule ==
    [kind : {"cardinality", "boolean"}, argument : Name, minimum : Nat, dimension : Name,
     requires : Name, escalate : Nat, expected : BOOLEAN, default : BOOLEAN]

RegistryTool ==
    [name : Name, capability : Name, risk : Nat, arguments : Seq(Name),
     effects : SUBSET Name, paths : Seq(PathArgument), rules : Seq(RiskRule)]

\* The files the parser makes sense of; None is kept for what a file leaves out.
ASSUME RegistryAssumption ==
    \A f \in RegistryFiles :
        /\ f.tools \in Seq(RegistryTool)
        /\ \A t \in Range(f.tools) : \A p \in Range(t.paths) : p.argument # None

\* Every argument a registry knows has a value in a call, Absent if need be.
ArgumentNames ==
    (UNION {UNION {Range(t.arguments) : t \in Range(f.tools)} : f \in RegistryFiles}) \ {None, ""}

ASSUME QuestionAssumption ==
    \A q \in Questions :
        /\ q.now \in Nat /\ q.grant.expires \in Nat
        /\ ArgumentNames \subseteq DOMAIN q.args
        /\ \A a \in DOMAIN q.args : IsValue(q.args[a])

\* parse_contract_source and validate_source_fields: no source at all, or a
\* complete one of the supported version that is the snapshot's.
SourceOk(f, s) == f.source \in {"absent", s.sha}

\* parse_effects.
EffectsOk(es) == es \subseteq OperationEffects

\* parse_effect_contract: a tool without effects declares no part of a
\* contract; one with effects needs the source and a valid contract.
HasContract(t) == t.effects # {None}

EffectContractOk(f, t) ==
    IF ~HasContract(t)
    THEN t.arguments = <<None>> /\ t.paths = <<>>
    ELSE /\ f.source # "absent"
         /\ t.arguments # <<None>>
         /\ EffectsOk(t.effects)
         /\ \A i \in DOMAIN t.paths : EffectsOk(t.paths[i].effects) /\ PathArgumentOk(t.paths[i])
         /\ ContractOk(t.arguments, t.effects, t.paths)

ContractOf(t) == Contract(t.arguments, t.effects, t.paths)

\* validate_rule_effect: the whole tool or some path argument has the effect.
DeclaredEffects(t) == t.effects \cup UNION {p.effects : p \in Range(t.paths)}

\* parse_risk_breadth_dimension, and the one factor a Boolean rule may name.
RuleDimensions(r) ==
    IF r.kind = "cardinality" THEN {"item_count", "path_count"} ELSE {"confirmed_overwrite"}

\* parse_risk_rules.
RiskRulesOk(t) ==
    t.rules # <<>> =>
        /\ HasContract(t)
        /\ IsInjective(t.rules)
        /\ \A r \in Range(t.rules) :
              /\ r.argument \in Range(t.arguments)
              /\ r.dimension \in RuleDimensions(r)
              /\ r.kind = "cardinality" => r.minimum >= 2
              /\ r.requires \in DeclaredEffects(t)
              /\ r.escalate \in RiskLevels /\ r.escalate > t.risk

\* TomlToolRegistry::from_toml_str.
RegistryOk(f, s) ==
    /\ SourceOk(f, s)
    /\ \A i \in DOMAIN f.tools :
          /\ f.tools[i].capability # None
          /\ f.tools[i].risk \in RiskLevels
          /\ EffectContractOk(f, f.tools[i])
          /\ RiskRulesOk(f.tools[i])
    /\ \A i, j \in DOMAIN f.tools : f.tools[i].name = f.tools[j].name => i = j

ToolNames(f) == {t.name : t \in Range(f.tools)}
Tool(f, n) == CHOOSE t \in Range(f.tools) : t.name = n

\* coverage_against.
Coverage(f, names) ==
    [classified |-> names \cap ToolNames(f),
     unclassified |-> names \ ToolNames(f),
     stale |-> ToolNames(f) \ names,
     modelled |-> {n \in ToolNames(f) : HasContract(Tool(f, n))}]

\* try_embedded: what daemon startup insists on.
EmbeddedOk(f, s) ==
    /\ RegistryOk(f, s)
    /\ f.source # "absent"
    /\ Coverage(f, s.tools).stale = {}

-----------------------------------------------------------------------------
(* The snapshot                                                            *)

Repository == "kicad-mcp-pro"

\* from_tools_reference_markdown: distinct rows, at least one, as many as the
\* reference declares; declared is the set of the count, if there is one.
ReferenceOk(d) ==
    /\ d.declared # {}
    /\ IsInjective(d.rows)
    /\ d.rows # <<>>
    /\ d.declared = {Len(d.rows)}

FromReference(d) == [repository |-> Repository, sha |-> d.sha, tools |-> Range(d.rows)]

-----------------------------------------------------------------------------
(* The upstream manifest                                                   *)

\* reject_duplicates.
Distinct(list) == IsInjective(list)

\* strict_semver_major of a version split at its dots: none or one number.
StrictSemverMajor(version) ==
    IF Len(version) = 3 /\ Range(version) \subseteq DOMAIN Numerals
    THEN {Numerals[version[1]]} ELSE {}

\* validate_schema_version.
SchemaVersionOk(version) == StrictSemverMajor(version) = {2}

\* is_lower_hex_sha.
IsLowerHexSha(text) == text \in Shas

\* parse_source.
ManifestSourceOk(source) ==
    /\ source.repository = Repository
    /\ StrictSemverMajor(source.version) # {}
    /\ IsLowerHexSha(source.sha)

\* validate_tool_name; "T" stands for text with anything but a-z, 0-9 and "_".
ToolNameOk(name) == name \notin {"", "T"}

\* is_safe_source_path; Refused stands for blank text and for backslashes.
IsSafeSourcePath(path) ==
    path.form = "relative" /\ Range(path.parts) \cap {"", ".", ".."} = {}

\* parse_review_evidence.
ReviewEvidenceOk(t) ==
    /\ Distinct(t.evidence) /\ Distinct(t.sources)
    /\ {"SourceReview", "InputSchemaMatch"} \subseteq Range(t.evidence)
    /\ t.sources # <<>>
    /\ \A path \in Range(t.sources) : IsSafeSourcePath(path)

\* parse_argument_shapes: declared arguments, one shape each, collection
\* metadata on collections and only there.
ShapesOk(t) ==
    /\ \A i, j \in DOMAIN t.shapes : t.shapes[i].argument = t.shapes[j].argument => i = j
    /\ \A s \in Range(t.shapes) :
          /\ s.argument \in Range(t.arguments)
          /\ IF s.kind = "Collection" THEN s.item # None
             ELSE s.item = None /\ s.dimension = None

\* parse_path_arguments.
ManifestPathOk(p) ==
    /\ ~(p.required /\ p.default # {})
    /\ PathArgumentOk(p)

ChangesState(t) == DeclaredEffects(t) \cap MutatingEffects # {}

\* parse_tool: evidence complete, the destructive annotation true to the
\* effects, the contract constructible.  repeats says that a list of effects,
\* kept as a set here, names one twice.
ManifestToolOk(t) ==
    /\ ToolNameOk(t.name)
    /\ Distinct(t.arguments) /\ ~t.repeats
    /\ ShapesOk(t)
    /\ ReviewEvidenceOk(t)
    /\ \A i \in DOMAIN t.paths : ManifestPathOk(t.paths[i])
    /\ t.destructive = ChangesState(t)
    /\ ContractOk(t.arguments, t.effects, t.paths)

\* parse_tools: at least one, each of them valid, no name twice.
ManifestToolsOk(tools) ==
    /\ tools # <<>>
    /\ \A i \in DOMAIN tools : ManifestToolOk(tools[i])
    /\ \A i, j \in DOMAIN tools : tools[i].name = tools[j].name => i = j

\* from_json_str.
ManifestOk(m) ==
    SchemaVersionOk(m.schema) /\ ManifestSourceOk(m.source) /\ ManifestToolsOk(m.tools)

\* validate_source.
SourcePinned(m, s) == m.source.repository = s.repository /\ m.source.sha = s.sha

ShapeFits(t, r) ==
    \E s \in Range(t.shapes) :
        /\ s.argument = r.argument
        /\ IF r.kind = "cardinality"
           THEN s.kind = "Collection" /\ s.dimension = r.dimension
           ELSE s.kind = "Boolean"

\* reconcile_with_fallback: tools reviewed on one side only, contracts that
\* differ, risk rules no argument shape backs.
Differences(f, m) ==
    LET reviewed == Coverage(f, {}).modelled
        both == ToolNames(m) \cap reviewed
    IN  [fallbackOnly |-> reviewed \ ToolNames(m),
         upstreamOnly |-> ToolNames(m) \ reviewed,
         contracts |-> {n \in both : ContractOf(Tool(m, n)) # ContractOf(Tool(f, n))},
         facts |-> {n \in both : \E r \in Range(Tool(f, n).rules) : ~ShapeFits(Tool(m, n), r)}]

\* Variant: the facts do not count.
IsExactMatchWithoutFacts(d) == d.fallbackOnly = {} /\ d.upstreamOnly = {} /\ d.contracts = {}

\* is_exact_match.
IsExactMatch(d) ==
    d.fallbackOnly = {} /\ d.upstreamOnly = {} /\ d.contracts = {} /\ d.facts = {}

MaxManifestBytes == 1024 * 1024

\* read_manifest; a blank input has no bytes that count.
InputOk(m) == m.bytes \in 1..MaxManifestBytes

\* The reconciliation tool: read, parse, load the registry, compare, and hold
\* the source pin as well.
Reconciliation(f, s, m) ==
    IF ~InputOk(m) \/ ~ManifestOk(m) \/ ~EmbeddedOk(f, s) THEN "invalid"
    ELSE IF ~(ToolNames(m) \subseteq ToolNames(f)) THEN "unclassified"
    ELSE IF SourcePinned(m, s) /\ IsExactMatch(Differences(f, m)) THEN "exact"
    ELSE "differs"

-----------------------------------------------------------------------------
(* Risk and the decision                                                   *)

\* What stops the assessment at a rule.
RuleError(r, args, touched) ==
    LET v == args[r.argument]
    IN  IF ~\E x \in touched : x[1] = r.requires THEN "RequiredEffectMissing"
        ELSE IF IF r.kind = "cardinality" THEN v.kind # "list"
                ELSE v.kind \notin {"absent", "true", "false"}
             THEN "MalformedArgument"
        ELSE None

Applies(r, args) ==
    LET v == args[r.argument]
    IN  IF r.kind = "cardinality" THEN Len(v.items) >= r.minimum
        ELSE (IF v.kind = "absent" THEN r.default ELSE v.kind = "true") = r.expected

\* assess_operation_risk: rules in file order, the first error ends it.
Assessment(t, args, touched) ==
    LET One(a, r) ==
            IF a.error # None THEN a
            ELSE IF RuleError(r, args, touched) # None
                 THEN [a EXCEPT !.error = RuleError(r, args, touched)]
            ELSE IF Applies(r, args) /\ r.escalate > a.risk
                 THEN [a EXCEPT !.risk = r.escalate]
            ELSE a
    IN  InOrder(One, [error |-> None, risk |-> t.risk], t.rules)

Deny(reason) == [kind |-> "Deny", reason |-> reason, risk |-> 0]

\* normalize_operation_effects' way from a contract's errors to a reason.
EffectsReason(errors) ==
    IF errors = {"NoEffects"} THEN "UnmodelledToolContract" ELSE "MalformedToolArguments"

StatusReason ==
    [Revoked |-> "SessionRevoked", Expired |-> "SessionExpired",
     Consumed |-> "OneShotGrantConsumed", Pending |-> "SessionNotActive"]

\* The second half of evaluate_with_grant: from the reviewed contract on.
Judge(f, q) ==
    LET t == Tool(f, q.tool)
        effects == Normalize(ContractOf(t), q.args)
        assessment == Assessment(t, q.args, effects.touched)
    IN  IF effects.errors # {} THEN Deny(EffectsReason(effects.errors))
        ELSE IF \E x \in effects.touched : ~ResolvesWithin(x[2]) THEN Deny("PathEscapesWorkspace")
        ELSE IF t.capability \notin q.grant.capabilities THEN Deny("CapabilityNotGranted")
        ELSE IF assessment.error = "MalformedArgument" THEN Deny("MalformedToolArguments")
        ELSE IF assessment.error # None THEN Deny("UnmodelledToolContract")
        ELSE [kind |-> IF assessment.risk >= High THEN "RequireApproval" ELSE "Allow",
              reason |-> None, risk |-> assessment.risk]

\* evaluate_with_grant, check by check in its order.
EvaluateWithGrant(f, q) ==
    IF q.tool = "" THEN Deny("MalformedRequest")
    ELSE IF q.subject # q.grant.subject THEN Deny("AuthorizationNotEstablished")
    ELSE IF q.grant.status # "Active" THEN Deny(StatusReason[q.grant.status])
    ELSE IF q.now >= q.grant.expires THEN Deny("SessionExpired")
    ELSE IF q.workspace # q.authorized \/ q.workspace \notin q.grant.workspaces
         THEN Deny("WorkspaceNotAuthorized")
    ELSE IF q.tool \notin ToolNames(f) THEN Deny("UnknownTool")
    ELSE IF ~HasContract(Tool(f, q.tool)) THEN Deny("UnmodelledToolContract")
    ELSE Judge(f, q)

-----------------------------------------------------------------------------
Nothing == Deny(None)

Init ==
    /\ file \in RegistryFiles
    /\ snapshot = Snapshot
    /\ stage = "off"
    /\ asked = {}
    /\ compared = {}
    /\ outcome = Nothing

\* reconcile-tool-registry writes a fresh snapshot for the next build, once the
\* reference parses and the registry it was itself built with loads.
Refresh(d) ==
    /\ stage = "off" /\ compared = {}
    /\ ReferenceOk(d)
    /\ EmbeddedOk(file, snapshot)
    /\ snapshot' = FromReference(d)
    /\ UNCHANGED <<file, stage, asked, compared, outcome>>

\* build_state: a registry that does not load keeps the daemon from starting.
Start ==
    /\ stage = "off" /\ compared = {}
    /\ stage' = IF EmbeddedOk(file, snapshot) THEN "serving" ELSE "refused"
    /\ UNCHANGED <<file, snapshot, asked, compared, outcome>>

Reconcile(m) ==
    /\ stage = "off" /\ compared = {}
    /\ compared' = {m}
    /\ outcome' = [kind |-> Reconciliation(file, snapshot, m), reason |-> None, risk |-> 0]
    /\ UNCHANGED <<file, snapshot, stage, asked>>

Ask(q) ==
    /\ stage = "serving" /\ asked = {}
    /\ asked' = {q}
    /\ UNCHANGED <<file, snapshot, stage, compared, outcome>>

Evaluate ==
    /\ asked # {} /\ outcome = Nothing
    /\ \E q \in asked : outcome' = EvaluateWithGrant(file, q)
    /\ UNCHANGED <<file, snapshot, stage, asked, compared>>

Answered ==
    /\ outcome # Nothing
    /\ asked' = {} /\ compared' = {}
    /\ outcome' = Nothing
    /\ UNCHANGED <<file, snapshot, stage>>

Next ==
    \/ \E d \in References : Refresh(d)
    \/ Start
    \/ \E m \in Manifests : Reconcile(m)
    \/ \E q \in Questions : Ask(q)
    \/ Evaluate
    \/ Answered

Spec == Init /\ [][Next]_vars

\* What the daemon and the reconciliation tool keep true: a served registry has
\* loaded against the snapshot it is served with, and an outcome is the one of
\* the question or the manifest at hand.
PolicyInductive ==
    /\ file \in RegistryFiles
    /\ stage \in {"off", "refused", "serving"}
    /\ stage = "serving" => EmbeddedOk(file, snapshot)
    /\ asked = {} /\ compared = {} => outcome = Nothing
    /\ asked # {} =>
          /\ stage = "serving" /\ compared = {}
          /\ \E q \in Questions : asked = {q} /\ outcome \in {Nothing, EvaluateWithGrant(file, q)}
    /\ compared # {} =>
          /\ stage = "off" /\ asked = {}
          /\ \E m \in Manifests :
                /\ compared = {m}
                /\ outcome = [kind |-> Reconciliation(file, snapshot, m), reason |-> None, risk |-> 0]

-----------------------------------------------------------------------------
(* What a decision promises, told without the order of the code's checks   *)

Authority(q) ==
    /\ q.subject = q.grant.subject
    /\ q.grant.status = "Active" /\ q.now < q.grant.expires
    /\ q.workspace = q.authorized /\ q.workspace \in q.grant.workspaces

\* Every location a path argument names, found by following its bases down.
Locations(paths, args) ==
    LET at[a \in PathNames(paths)] ==
            LET p == PathOf(paths, a)
            IN  {Joined(t, b) : t \in RawPaths(p, args[a]),
                                b \in IF p.base = None THEN {Root}
                                      ELSE IF a \in Looping(paths) THEN {}
                                      ELSE at[p.base]}
    IN  at

WellFormed(c, args) ==
    /\ \A a \in DOMAIN args : args[a] # Absent => a \in c.arguments
    /\ \A p \in c.paths :
          LET v == args[p.argument]
          IN  /\ v.kind \in {"absent", "null", "text", "list"}
              /\ {Refused, NoText} \cap Range(v.items) = {}
              /\ v.kind \in {"absent", "null"} => p.default # {} \/ ~p.required
              /\ RawPaths(p, v) # {} /\ p.base # None =>
                    LET b == PathOf(c.paths, p.base) IN RawPaths(b, args[p.base]) # {}

\* The effects that reach some path, and where.
Reached(c, args) ==
    LET at == Locations(c.paths, args)
    IN  [effects |-> c.effects \cup UNION {p.effects : p \in {x \in c.paths : at[x.argument] # {}}},
         where |-> UNION {at[a] : a \in DOMAIN at}]

\* Where the operating system arrives on a path: a name is entered through its
\* link, and ".." leaves the place reached so far, not the text.
Walk(at, c) == IF c \in {".", ".."} THEN Push(at, c) ELSE Enter(at, c)
Arrival(path) == InOrder(Walk, <<>>, path)
Inside(path) == IsContained(Arrival(path))

\* The paths that resolve_within reads the way the system walks them: ".."
\* follows no link, and no link on the way leads nowhere.
Straight(path) ==
    \A n \in 1..Len(path) :
        LET before == SubSeq(path, 1, n - 1)
            step == Append(Arrival(before), path[n])
        IN  /\ path[n] = ".." => Arrival(before) = LexicalNormalize(before)
            /\ step \in DOMAIN Links => Links[step] \in Dirs

\* Of the other paths only what the code makes of them can be said.
Confined(path) == IF Straight(path) THEN Inside(path) ELSE ResolvesWithin(path)

Raised(t, args) == {t.risk} \cup {r.escalate : r \in {x \in Range(t.rules) : Applies(x, args)}}

Permitted(t, q) ==
    LET c == ContractOf(t)
        reached == Reached(c, q.args)
    IN  /\ WellFormed(c, q.args)
        /\ reached.effects # {}
        /\ \A path \in reached.where : Confined(path)
        /\ t.capability \in q.grant.capabilities
        /\ \A r \in Range(t.rules) :
              /\ r.requires \in reached.effects
              /\ RuleError(r, q.args, EffectsOn({r.requires}, {Root})) = None

\* evaluate_with_grant allows a call, or asks for approval, exactly when the
\* grant answers for it, the call is well formed under its reviewed contract,
\* every straight path it names arrives inside the workspace when the system
\* walks it (resolve_within's canonical candidate does for the others), and its
\* rules can be judged; and the risk it reports is the highest any rule that
\* applies raises to, whatever the order of the rules in the file.
DecisionIsExact ==
    outcome # Nothing =>
        \A q \in asked :
            IF /\ Authority(q)
               /\ q.tool # ""
               /\ q.tool \in ToolNames(file)
               /\ HasContract(Tool(file, q.tool))
               /\ Permitted(Tool(file, q.tool), q)
            THEN LET risk == CHOOSE x \in Raised(Tool(file, q.tool), q.args) :
                                \A y \in Raised(Tool(file, q.tool), q.args) : y <= x
                 IN  outcome = [kind |-> IF risk >= High THEN "RequireApproval" ELSE "Allow",
                                reason |-> None, risk |-> risk]
            ELSE outcome.kind = "Deny"

\* docs/security/tool-effect-contracts.md:61-63, "paths that traverse a symlink
\* outside the workspace are denied", read of every path.
EveryPathInside ==
    outcome.kind \in {"Allow", "RequireApproval"} =>
        \A q \in asked :
            \A path \in Reached(ContractOf(Tool(file, q.tool)), q.args).where : Inside(path)

\* A daemon that serves was built with contracts reviewed at the snapshot's
\* commit, for tools of that snapshot only, although the snapshot is refreshed
\* by a tool of its own; and none of its contracts fails a call because of how
\* its path arguments depend on each other, unless a base is given as an
\* empty list.
ServingIsReviewed ==
    stage = "serving" =>
        /\ file.source = snapshot.sha
        /\ ToolNames(file) \subseteq snapshot.tools
        /\ \A q \in asked :
              (/\ q.tool \in ToolNames(file)
               /\ HasContract(Tool(file, q.tool))
               /\ List(<<>>) \notin {q.args[a] : a \in DOMAIN q.args}) =>
                  "InvalidPathDependency" \notin Normalize(ContractOf(Tool(file, q.tool)), q.args).errors

\* An argument value of the kind a manifest declares for it.
Conforms(t, args) ==
    \A s \in Range(t.shapes) :
        CASE s.kind = "Collection" -> args[s.argument].kind = "list"
          [] s.kind = "Boolean" -> args[s.argument].kind \in {"absent", "true", "false"}
          [] OTHER -> TRUE

\* When the reconciliation tool reports an exact match, a call that keeps to
\* the argument shapes the upstream manifest declares touches the same paths
\* under either contract, and no risk rule of the registry finds its argument
\* malformed.
ExactMatchAgrees ==
    outcome.kind = "exact" =>
        \A m \in compared : \A n \in ToolNames(m) : \A q \in Questions :
            LET up == Tool(m, n)
                down == Tool(file, n)
                effects == Normalize(ContractOf(down), q.args)
            IN  /\ Normalize(ContractOf(up), q.args) = effects
                /\ effects.errors = {} /\ Conforms(up, q.args) =>
                     Assessment(down, q.args, effects.touched).error # "MalformedArgument"
=============================================================================
