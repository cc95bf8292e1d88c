--------------------------- MODULE ToolContracts ---------------------------
(***************************************************************************)
(* Reviewed tool contracts and what they make of a call: the construction  *)
(* rules of PathArgumentContract and ToolEffectContract, the               *)
(* normalisation of forwarded arguments into effects on paths              *)
(* (operation_effects.rs), and the workspace boundary those paths are held *)
(* against (boundary.rs).                                                  *)
(*                                                                         *)
(* Paths are sequences of components.  Where the code tells several errors *)
(* apart only in their wording, the model keeps the fact that it failed.   *)
(***************************************************************************)
EXTENDS Naturals, Sequences, Functions

CONSTANTS
    Root,       \* canonical root of the authorized workspace
    Dirs,       \* canonical paths that exist
    Links       \* [path -> where it leads, existing or not]: the symlinks

None == "none"
Name == STRING                  \* names, effects and path components are text
Paths == Seq(Name)
OperationEffects == {"Read", "Write", "Create", "Delete"}
MutatingEffects == {"Write", "Create", "Delete"}

\* The loop over a list: op takes its items one after the other.
InOrder(op(_, _), base, list) ==
    LET done[n \in 0..Len(list)] == IF n = 0 THEN base ELSE op(done[n - 1], list[n])
    IN  done[Len(list)]

-----------------------------------------------------------------------------
(* The boundary                                                            *)

\* lexical_normalize: "." is dropped, ".." pops, purely on the text.
Push(done, c) ==
    CASE c = "." -> done
      [] c = ".." -> IF done = <<>> THEN done ELSE SubSeq(done, 1, Len(done) - 1)
      [] OTHER -> Append(done, c)

LexicalNormalize(path) == InOrder(Push, <<>>, path)

\* One component further on the canonical path, through a symlink if it is one.
Enter(at, c) ==
    IF Append(at, c) \in DOMAIN Links THEN Links[Append(at, c)] ELSE Append(at, c)

Canonicalize(path) == InOrder(Enter, <<>>, path)
\* A link that leads nowhere does not exist.
Exists(path) == Canonicalize(path) \in Dirs

\* split_existing_prefix: how many leading components exist.
ExistingLength(path) ==
    CHOOSE n \in 0..Len(path) :
        /\ n = 0 \/ Exists(SubSeq(path, 1, n))
        /\ \A m \in n + 1..Len(path) : ~Exists(SubSeq(path, 1, m))

\* is_contained compares components, never text.
IsContained(candidate) ==
    Len(Root) <= Len(candidate) /\ SubSeq(candidate, 1, Len(Root)) = Root

\* Variant: the links on the existing part are not followed.
CandidateAsWritten(path) == LexicalNormalize(path)

Candidate(path) ==
    LET normalized == LexicalNormalize(path)
        n == ExistingLength(normalized)
    IN  Canonicalize(SubSeq(normalized, 1, n)) \o SubSeq(normalized, n + 1, Len(normalized))

ResolvesWithin(path) == IsContained(Candidate(path))

\* No beginning of the path is a link.
LinkFree(path) == \A n \in 1..Len(path) : SubSeq(path, 1, n) \notin DOMAIN Links

\* Links says where a link leads once the links in its target are followed as
\* well; one may lead to a place that does not exist.  The root is canonical,
\* as WorkspaceAuthorization::new leaves it.
ASSUME FileSystemAssumption ==
    /\ Root \in Paths /\ LexicalNormalize(Root) = Root /\ LinkFree(Root)
    /\ Dirs \subseteq Paths
    /\ \A l \in DOMAIN Links : Links[l] \in Paths /\ LinkFree(Links[l])

-----------------------------------------------------------------------------
(* Contracts                                                               *)

\* A raw path as normalize_argument_path sees it: relative or absolute text,
\* text it refuses (blank, NUL, "~", "$", "%", a foreign drive), or an item
\* that is no text at all.
Relative(parts) == [form |-> "relative", parts |-> parts]
Absolute(parts) == [form |-> "absolute", parts |-> parts]
Refused == [form |-> "refused", parts |-> <<>>]
NoText == [form |-> "no text", parts |-> <<>>]

RawPath == [form : {"relative", "absolute", "refused", "no text"}, parts : Paths]

\* normalize_argument_path on the text it takes.
Joined(t, base) == IF t.form = "absolute" THEN t.parts ELSE base \o t.parts

PathArgument ==
    [argument : Name, effects : SUBSET Name, required : BOOLEAN,
     default : SUBSET RawPath, base : Name]

\* PathArgumentContract::new.  The default is a set of at most one raw path.
PathArgumentOk(p) ==
    /\ p.argument # ""
    /\ p.effects # {}
    /\ Refused \notin p.default
    /\ p.base # ""

PathOf(paths, a) == CHOOSE p \in paths : p.argument = a
PathNames(paths) == {p.argument : p \in paths}

\* The arguments from which visit_path_dependencies walks on for ever: each of
\* them rests on another of them.
Looping(paths) ==
    UNION {S \in SUBSET PathNames(paths) : \A a \in S : PathOf(paths, a).base \in S}

\* Variant: the walk is left out.
DependenciesUnwalked(paths) ==
    \A p \in paths :
        p.base # None =>
            /\ p.base \in PathNames(paths)
            /\ LET b == PathOf(paths, p.base) IN b.required \/ b.default # {}

\* validate_path_dependencies: bases are declared and determinate, and no walk
\* meets an argument twice.
DependenciesOk(paths) ==
    /\ \A p \in paths :
          p.base # None =>
              /\ p.base \in PathNames(paths)
              /\ LET b == PathOf(paths, p.base) IN b.required \/ b.default # {}
    /\ Looping(paths) = {}

\* ToolEffectContract::new on lists as they stand in the file.
ContractOk(arguments, effects, paths) ==
    /\ "" \notin Range(arguments)
    /\ IsInjective(arguments)
    /\ \A i \in DOMAIN paths : paths[i].argument \in Range(arguments)
    /\ \A i, j \in DOMAIN paths : paths[i].argument = paths[j].argument => i = j
    /\ DependenciesOk(Range(paths))
    /\ effects # {} \/ paths # <<>>

Contract(arguments, effects, paths) ==
    [arguments |-> Range(arguments), effects |-> effects, paths |-> Range(paths)]

-----------------------------------------------------------------------------
(* Normalisation                                                           *)

\* A forwarded argument value, as far as it is told apart.
Absent == [kind |-> "absent", items |-> <<>>]
Null == [kind |-> "null", items |-> <<>>]
Bool(b) == [kind |-> IF b THEN "true" ELSE "false", items |-> <<>>]
Other == [kind |-> "other", items |-> <<>>]
Text(p) == [kind |-> "text", items |-> <<p>>]
List(ps) == [kind |-> "list", items |-> ps]

IsValue(v) ==
    /\ v \in [kind : {"absent", "null", "true", "false", "other", "text", "list"},
              items : Seq(RawPath)]
    /\ v.kind \notin {"text", "list"} => v.items = <<>>
    /\ v.kind = "text" => Len(v.items) = 1

RawPaths(p, v) ==
    IF v.kind \in {"absent", "null"} THEN p.default ELSE Range(v.items)

\* The errors met before the base is looked at.
RawError(p, v) ==
    CASE v.kind \in {"absent", "null"} /\ p.default = {} /\ p.required ->
            "MissingRequiredPathArgument"
      [] v.kind \in {"true", "false", "other"} \/ NoText \in Range(v.items) ->
            "InvalidPathValue"
      [] OTHER -> None

\* NormalizedOperationEffects::insert, of each effect on each path.
EffectsOn(effects, places) == effects \X places

Failed(e) == [error |-> e, paths |-> {}, touched |-> {}]

AtRoot == [error |-> None, paths |-> {Root}, touched |-> {}]

\* resolve_path_argument, given what became of its base.
ResolveOn(paths, args, a, base) ==
    LET p == PathOf(paths, a)
        raw == RawPaths(p, args[a])
        joined == {Joined(t, b) : t \in raw, b \in base.paths}
    IN  IF RawError(p, args[a]) # None THEN Failed(RawError(p, args[a]))
        ELSE IF raw = {} THEN Failed(None)
        ELSE IF p.base # None /\ p.base \notin PathNames(paths)
             THEN Failed("InvalidPathDependency")
        ELSE IF base.error # None THEN Failed(base.error)
        ELSE IF base.paths = {} THEN Failed("InvalidPathDependency")
        ELSE IF Refused \in raw THEN Failed("UnsupportedPathSyntax")
        ELSE [error |-> None, paths |-> joined,
              touched |-> base.touched \cup EffectsOn(p.effects, joined)]

\* Its recursion.  The set of arguments being resolved makes it fail where one
\* of them comes up again.
Resolution(contract, args) ==
    LET paths == contract.paths
        r[a \in PathNames(paths)] ==
            LET base == PathOf(paths, a).base
            IN  ResolveOn(paths, args, a,
                    IF base = None THEN AtRoot
                    ELSE IF a \in Looping(paths) THEN Failed("InvalidPathDependency")
                    ELSE r[base])
    IN  r

\* ToolEffectContract::normalize: declared effects fall on the root, path
\* arguments on their paths; a call that touches nothing is an error.  errors
\* holds every error some order of the arguments reports first.
Normalize(contract, args) ==
    LET resolved == Resolution(contract, args)
        touched == EffectsOn(contract.effects, {Root})
                       \cup UNION {resolved[a].touched : a \in DOMAIN resolved}
        errors == {resolved[a].error : a \in DOMAIN resolved} \ {None}
    IN  [errors |-> IF \E a \in DOMAIN args : args[a] # Absent /\ a \notin contract.arguments
                    THEN {"UnknownArgument"}
                    ELSE IF errors # {} THEN errors
                    ELSE IF touched = {} THEN {"NoEffects"} ELSE {},
         touched |-> touched]
=============================================================================
