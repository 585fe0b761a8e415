-------------------------- MODULE BlueprintParser --------------------------
(***************************************************************************)
(* parse_blueprint of blueprint_parser.py and the commands that ask it:    *)
(* check, plan, infer and build of main.py, on one blueprint.aero; and the *)
(* healing of the glue at a boundary the inferred context names.           *)
(***************************************************************************)
EXTENDS LegacyBlueprint, InvisibleConfig, SelfHealing

CONSTANTS
  Contents,  \* what blueprint.aero may be
  Manifests  \* what build_manifest.json may hold: "lost", "good", "odd values"

VARIABLES
  content,  \* blueprint.aero
  manifest, \* build_manifest.json
  exits,    \* of each command: "none", an exit code, "raised"
  context   \* the build context of the build command

parser_vars == <<content, manifest, exits, context, heal_vars>>

\* Content: the lines of its form, and what the detectors look at: its first
\* character, the first that is in no comment, a brace, a lean line, a block.
Lean(lines) == [form |-> "lean", lines |-> lines, first |-> "word", after |-> "word",
                braces |-> FALSE, lean |-> TRUE, block |-> FALSE]
Ini(lines, braces) == [form |-> "ini", lines |-> lines, first |-> "[", after |-> "[",
                braces |-> braces, lean |-> TRUE, block |-> FALSE]
Json(sections, first) == [form |-> "json", sections |-> sections, first |-> first, after |-> "{",
                braces |-> TRUE, lean |-> FALSE, block |-> FALSE]
Dsl(verdict) == [form |-> "dsl", verdict |-> verdict, first |-> "word", after |-> "word",
                braces |-> TRUE, lean |-> FALSE, block |-> TRUE]
Missing == [form |-> "missing"]

\* What lines hold: words and lists of them, and the map of dependencies.
LeanLine == [kind : {"project", "assign", "malformed"}, key : STRING, value : Seq(STRING)]

IsDependencies(of) ==
  IsFiniteSet(DOMAIN of) /\ \A n \in DOMAIN of : of[n] \in Seq(STRING)

AreIniLines(lines) ==
  /\ lines \in Seq(Range(lines))
  /\ \A line \in Range(lines) :
       /\ line.kind \in {"header", "pair", "odd"}
       /\ line.value.type = "list" => line.value.of \in Seq(STRING)
       /\ line.value.type = "map" => IsDependencies(line.value.of)

ASSUME ContentsAssumption ==
  \A c \in Contents :
    \/ c = Missing
    \/ c.form = "lean" /\ c = Lean(c.lines) /\ c.lines \in Seq(LeanLine)
    \/ c.form = "ini" /\ c = Ini(c.lines, c.braces) /\ AreIniLines(c.lines)
    \/ c.form = "json" /\ c = Json(c.sections, c.first)
    \/ c.form = "dsl" /\ c = Dsl(c.verdict)

looks_like_lean_blueprint(c) == c.after \notin {"[", "{"} /\ ~c.braces /\ c.lean
looks_like_json(c)           == c.first = "{"
looks_like_blueprint_dsl(c)  == c.after \notin {"[", "{"} /\ c.block

\* blueprint_lang takes it; DslBuild says when.
Valid(c) == c.verdict = "valid"

NoContext == [status |-> "none", targets |-> <<>>, matrix |-> NoNames, order |-> <<>>,
              boundaries |-> {}, sections |-> {}]
Raised    == [NoContext EXCEPT !.status = "raised"]

\* The graph of create_fallback_context: the components of aero itself.
FallbackGraph ==
  [scanner |-> {}, decision_tree |-> {"scanner"}, parameter_tuner |-> {"decision_tree"}]

Fallback ==
  IF manifest = "odd values" THEN Raised
  ELSE [NoContext EXCEPT !.status = "reverted_fallback", !.matrix = FallbackGraph,
          !.targets = <<"scanner", "decision_tree", "parameter_tuner">>]

\* What a JSON blueprint has under "graph" - a key it may leave out, of an
\* object that may have anything in it - or, where it has nothing, a default.
Written(sections, key, default) ==
  IF "graph" \in DOMAIN sections /\ key \in DOMAIN sections["graph"]
  THEN sections["graph"][key] ELSE Value(default, <<>>)

\* parse_json_blueprint hands it through: no look for cycles or unknown names.
JsonContext(sections) ==
  LET deps == Written(sections, "dependencies", "map").of
  IN [NoContext EXCEPT !.status = "stable_active",
        !.targets = Written(sections, "targets", "list").of,
        !.matrix = [n \in DOMAIN deps |-> Range(deps[n])],
        !.sections = DOMAIN sections \cup DOMAIN OptionalFields]

\* The INI parser makes nothing of lines in another format.
IniLines(c) == IF c.form = "ini" THEN c.lines ELSE <<Unrecognized>>

parse_blueprint(c) ==
  IF c.form = "missing" THEN Fallback
  ELSE IF looks_like_lean_blueprint(c)
       THEN IF ParseLean(c.lines).error THEN Fallback ELSE InferredContext(ParseLean(c.lines))
  ELSE IF looks_like_json(c)
       THEN IF JsonComplaint(c.sections) # Ok THEN Raised ELSE JsonContext(c.sections)
  ELSE IF looks_like_blueprint_dsl(c)
       THEN IF Valid(c) THEN [NoContext EXCEPT !.status = "stable_active"] ELSE Raised
  ELSE LET ini == ParseContent(IniLines(c)) IN
       IF ini.error # Ok THEN Fallback
       ELSE [NoContext EXCEPT !.status = "stable_active", !.targets = ini.targets,
               !.matrix = [n \in DOMAIN ini.matrix |-> Range(ini.matrix[n])],
               !.sections = DOMAIN OptionalFields]

-----------------------------------------------------------------------------
(* The commands.                                                           *)

ParserInit ==
  /\ content \in Contents /\ manifest \in Manifests
  /\ exits = [c \in {"check", "plan", "infer", "build"} |-> "none"]
  /\ context = NoContext
  /\ HealInit

\* A command is given once, in any order with the others.
Exits(command, code) ==
  /\ exits[command] = "none"
  /\ exits' = [exits EXCEPT ![command] = code]
  /\ UNCHANGED <<content, manifest, heal_vars>>

\* check judges the block format only.
CheckCode ==
  IF content.form = "missing" THEN "1"
  ELSE IF looks_like_blueprint_dsl(content) /\ ~Valid(content) THEN "1" ELSE "0"

\* What plan can print: targets with a length, and a map to look each up in.
Printable(sections) ==
  LET targets == Written(sections, "targets", "list") IN
  /\ targets.type \in {"list", "map", "word", "odd"}
  /\ \/ targets.type \in {"list", "map"} /\ targets.of = <<>>
     \/ Written(sections, "dependencies", "map").type = "map"

PlanCode ==
  IF content.form = "missing" THEN "1"
  ELSE IF looks_like_blueprint_dsl(content) THEN IF Valid(content) THEN "0" ELSE "2"
  ELSE CASE parse_blueprint(content).status = "reverted_fallback" -> "2"
         [] parse_blueprint(content).status = "raised" -> "raised"
         [] looks_like_json(content) /\ ~Printable(content.sections) -> "raised"
         [] OTHER -> "0"

\* infer parses for itself, and without parse_blueprint's net.
InferCode ==
  IF content.form = "missing" \/ ~looks_like_lean_blueprint(content) THEN "1"
  ELSE IF ParseLean(content.lines).error THEN "raised" ELSE "0"

Check == Exits("check", CheckCode) /\ UNCHANGED context
Plan  == Exits("plan", PlanCode) /\ UNCHANGED context
Infer == Exits("infer", InferCode) /\ UNCHANGED context

\* As far as the context; what becomes of it is for other modules.
Build ==
  /\ context' = parse_blueprint(content)
  /\ Exits("build", IF context'.status = "raised" THEN "raised" ELSE "parsed")

\* Whoever compiles the glue at a boundary runs an executor for it.
HealBoundary == context.boundaries # {} /\ Heal /\ UNCHANGED <<content, manifest, exits, context>>

ParserNext == Check \/ Plan \/ Infer \/ Build \/ HealBoundary

ParserSpec == ParserInit /\ [][ParserNext]_parser_vars
-----------------------------------------------------------------------------
Before(order, a, b) ==
  \E i, j \in DOMAIN order : i < j /\ order[i] = a /\ order[j] = b

\* The order that is shown and built in has every target once, though the
\* blueprint may name it twice, and each core before what binds it. (A core
\* that is called text_invariants, like the node, is the exception.)
ProvidersFirst ==
  context.status = "inferred_active" =>
    /\ IsInjective(context.order) /\ Range(context.order) = Range(context.targets)
    /\ \A b \in context.boundaries :
         b.provider = INVARIANTS_NODE \/ Before(context.order, b.provider, b.consumer)

ReadAsJson == content.form # "missing" /\ looks_like_json(content)

\* In any format but JSON, the graph of a context that a build is given has no
\* cycle - no set of nodes waits for itself - and names nothing but its nodes,
\* the text invariants aside; each target is a node. (What is read as JSON is
\* the exception: its graph is given to the build unchecked.)
AcceptedIsBuildable ==
  LET nodes == DOMAIN context.matrix \ {INVARIANTS_NODE} IN
  ~ReadAsJson =>
    /\ Range(context.targets) \subseteq DOMAIN context.matrix
    /\ \A n \in nodes : context.matrix[n] \subseteq DOMAIN context.matrix \cup {INVARIANTS_NODE}
    /\ \A S \in (SUBSET nodes) \ {{}} : \E n \in S : context.matrix[n] \cap S = {}
=============================================================================
