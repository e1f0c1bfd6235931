------------------------------ MODULE FrontEnds ------------------------------
(***************************************************************************)
(* The two front ends: the tools of the MCP server (crates/mcp-server/src/ *)
(* tools.rs) and the commands of kr (crates/cli/src/main.rs).  Each has a  *)
(* table of arguments and defaults of its own, and the schemas that the    *)
(* server sends to its clients are a third one.  A request is made through *)
(* both of them, to two databases that are the same, and runs to its end:  *)
(* arguments, store or recall, reinforcement, answer.                      *)
(*                                                                         *)
(* Numbers with a fraction are in hundredths.  Arguments have the names of *)
(* the schemas.  How results are printed is left out, and so are the       *)
(* models that only the command line can load.                             *)
(***************************************************************************)
EXTENDS Integers, FiniteSets

CONSTANTS
  None,         \* no value
  Unreadable,   \* a value of the wrong type, or a negative number
  Amounts,      \* bound: whole numbers that are given
  Found         \* bound: how many memories a query can find

ASSUME FeConstants == Amounts \subseteq Nat /\ Found \subseteq Nat

Flags == {"graph_activation", "latent_activation", "latent_auto_context",
          "auto_context", "reinforce", "predict"}
Words == {"latent_state", "latent_goal", "state_terms", "goal_terms"}
Fractions == {"graph_scale", "graph_cap", "graph_decay", "latent_scale", "latent_cap",
              "latent_decay", "scale", "cap", "decay", "importance", "confidence"}
Choice ==
  [kind |-> {"fact", "state"}, scope |-> {"global", "user"},
   source |-> {"explicit_user", "agent_self"}, direction |-> {"outgoing", "both"},
   event |-> {"recalled", "written"}]

\* The entries of two tables.
With(table, more) ==
  [a \in DOMAIN table \cup DOMAIN more |-> IF a \in DOMAIN table THEN table[a] ELSE more[a]]

-----------------------------------------------------------------------------
(* The schemas.                                                            *)

SpreadDefaults ==
  [scale |-> 5, cap |-> 25, steps |-> 2, decay |-> 50, fanout |-> 16,
   state_terms |-> {}, goal_terms |-> {}]

\* The defaults that the descriptors advertise.
Advertised ==
  [write   |-> [kind |-> "fact", scope |-> "global", source |-> "agent_self",
                importance |-> None, confidence |-> None],
   recall  |-> [k |-> 8, scope |-> None, kind |-> None, graph_activation |-> FALSE,
                graph_scale |-> 5, graph_cap |-> 15, graph_steps |-> 1, graph_decay |-> 50,
                latent_activation |-> FALSE, latent_seed_k |-> 3, latent_scale |-> 5,
                latent_cap |-> 25, latent_steps |-> 2, latent_decay |-> 50,
                latent_fanout |-> 16, latent_state |-> {}, latent_goal |-> {},
                latent_auto_context |-> FALSE, reinforce |-> FALSE, reinforce_k |-> 3],
   list    |-> [limit |-> 20],
   forget  |-> <<>>,
   entities  |-> [limit |-> 50],
   neighbors |-> [k |-> 8],
   edges     |-> [direction |-> "both", k |-> 20],
   reinforce |-> [event |-> "recalled"],
   latent    |-> With(SpreadDefaults, [k |-> 10, auto_context |-> FALSE]),
   latent_query |-> With(SpreadDefaults, [k |-> 10, seed_k |-> 3, scope |-> None, kind |-> None]),
   trace   |-> With(SpreadDefaults,
               [k |-> 8, latent_k |-> 10, seed_k |-> 3, suppressed_k |-> 7, scope |-> None,
                kind |-> None, auto_context |-> FALSE, reinforce |-> FALSE,
                reinforce_k |-> 3, predict |-> FALSE, prediction_k |-> 5])]

-----------------------------------------------------------------------------
(* What the server reads, and its defaults.                                *)

SpreadReads ==
  [scale |-> 5, cap |-> 25, steps |-> 2, decay |-> 50, fanout |-> 16,
   state_terms |-> {}, goal_terms |-> {}]

WriteReads == [kind |-> "fact", scope |-> "global", source |-> "agent_self",
               importance |-> None, confidence |-> None]

\* do_recall leaves the default of k to the engine.
RecallReads ==
  [k |-> None, scope |-> None, kind |-> None, graph_activation |-> FALSE,
   graph_scale |-> 5, graph_cap |-> 15, graph_steps |-> 1, graph_decay |-> 50,
   latent_activation |-> FALSE, latent_seed_k |-> 3, latent_scale |-> 5, latent_cap |-> 25,
   latent_steps |-> 2, latent_decay |-> 50, latent_fanout |-> 16, latent_state |-> {},
   latent_goal |-> {}, latent_auto_context |-> FALSE, reinforce |-> FALSE, reinforce_k |-> 3]

InspectionReads ==
  [list |-> [limit |-> 20], entities |-> [limit |-> 50], neighbors |-> [k |-> 8],
   edges |-> [direction |-> "both", k |-> 20]]

LatentReads == With(SpreadReads, [k |-> 10])

LatentQueryReads == With(SpreadReads,
  [k |-> 10, seed_k |-> 3, scope |-> None, kind |-> None, auto_context |-> FALSE])

TraceReads == With(SpreadReads,
  [k |-> 8, latent_k |-> 10, seed_k |-> 3, suppressed_k |-> 7, scope |-> None, kind |-> None,
   auto_context |-> FALSE, reinforce |-> FALSE, reinforce_k |-> 3, predict |-> FALSE,
   prediction_k |-> 5])

McpReads ==
  With(InspectionReads,
  [write |-> WriteReads, recall |-> RecallReads, forget |-> <<>>,
   reinforce |-> [event |-> "recalled"], latent |-> LatentReads,
   latent_query |-> LatentQueryReads, trace |-> TraceReads])

\* as_u64, as_f64, as_bool and as_str: what is absent or has another type
\* takes the default.
McpParams(op, given) ==
  [a \in DOMAIN McpReads[op] |->
     IF a \in DOMAIN given /\ given[a] # Unreadable THEN given[a] ELSE McpReads[op][a]]

BadChoice(params) ==
  \E a \in DOMAIN params \cap DOMAIN Choice : params[a] \notin Choice[a] \cup {None}

McpRefuses(op, given, missing) == missing \/ BadChoice(McpParams(op, given))

-----------------------------------------------------------------------------
(* What the command line takes, and its defaults.                          *)

CliSpread ==
  [scale |-> 5, cap |-> 25, steps |-> 2, decay |-> 50, fanout |-> 16,
   state_terms |-> {}, goal_terms |-> {}]

CliRecall ==
  [k |-> 8, scope |-> None, kind |-> None, graph_activation |-> FALSE,
   graph_scale |-> 5, graph_cap |-> 15, graph_steps |-> 1, graph_decay |-> 50,
   latent_activation |-> FALSE, latent_seed_k |-> 3, latent_scale |-> 5, latent_cap |-> 25,
   latent_steps |-> 2, latent_decay |-> 50, latent_fanout |-> 16, latent_state |-> {},
   latent_goal |-> {}, latent_auto_context |-> FALSE, reinforce |-> FALSE, reinforce_k |-> 3]

CliLatentQuery == With(CliSpread,
  [k |-> 10, seed_k |-> 3, scope |-> None, kind |-> None, auto_context |-> FALSE])

\* Mutant: the command line starts a trace from one seed.
CliTraceOneSeed == With(CliSpread,
  [k |-> 8, latent_k |-> 10, seed_k |-> 1, suppressed_k |-> 7, scope |-> None, kind |-> None,
   auto_context |-> FALSE, reinforce |-> FALSE, reinforce_k |-> 3, predict |-> FALSE,
   prediction_k |-> 5])

CliTrace == With(CliSpread,
  [k |-> 8, latent_k |-> 10, seed_k |-> 3, suppressed_k |-> 7, scope |-> None, kind |-> None,
   auto_context |-> FALSE, reinforce |-> FALSE, reinforce_k |-> 3, predict |-> FALSE,
   prediction_k |-> 5])

CliTakes ==
  [write |-> [kind |-> "fact", scope |-> "global", source |-> "explicit_user",
              importance |-> None, confidence |-> None],
   recall |-> CliRecall, list |-> [limit |-> 20], forget |-> <<>>,
   entities |-> [limit |-> 50], neighbors |-> [k |-> 8],
   edges |-> [direction |-> "both", k |-> 20], reinforce |-> [event |-> "recalled"],
   latent |-> With(CliSpread, [k |-> 10]), latent_query |-> CliLatentQuery, trace |-> CliTrace]

CliParams(op, given) ==
  [a \in DOMAIN CliTakes[op] |-> IF a \in DOMAIN given THEN given[a] ELSE CliTakes[op][a]]

\* clap refuses what it does not know and what it cannot parse.
CliRefuses(op, given, missing) ==
  \/ missing
  \/ ~(DOMAIN given \subseteq DOMAIN CliTakes[op])
  \/ \E a \in DOMAIN given : given[a] = Unreadable
  \/ BadChoice(CliParams(op, given))

-----------------------------------------------------------------------------
(* A request.                                                              *)

FrontEnd == {"cli", "mcp"}

VARIABLES
  op, given, missing, \* the request: arguments, and whether a required one is missing
  world,       \* how many memories the query finds, whether the dominant one
               \* of a trace is hidden, and a memory another process forgets
               \* before the reinforcement
  stage,       \* of the request in each front end
  effects,     \* what it has done to the database
  out          \* how it ended

feVars == <<op, given, missing, world, stage, effects, out>>

\* Values that are given for an argument.
ValuesOf(a) ==
  CASE a = None              -> {None}
    [] a \in Flags           -> {TRUE, Unreadable}
    [] a \in Words           -> {{}, {"w"}}
    [] a \in Fractions       -> {0, 100, Unreadable}
    [] a \in DOMAIN Choice  -> Choice[a] \cup {"bogus", Unreadable}
    [] OTHER                 -> Amounts \cup {Unreadable}

ArgumentsOf(o) == DOMAIN Advertised[o] \cup DOMAIN McpReads[o] \cup DOMAIN CliTakes[o]

\* Up to two arguments with values, and reinforce.
FeInit ==
  /\ op \in DOMAIN Advertised
  /\ \E a, b \in ArgumentsOf(op) \cup {None}, r \in (ArgumentsOf(op) \cap {"reinforce"}) \cup {None} :
       \E v \in ValuesOf(a), w \in ValuesOf(b), x \in ValuesOf(r) :
         given = [n \in {a, b, r} \ {None} |-> IF n = r THEN x ELSE IF n = b THEN w ELSE v]
  /\ missing \in {FALSE, given = <<>> /\ op \notin {"list", "entities"}}
  /\ world \in [found : IF op \in {"recall", "latent_query", "trace"} THEN Found ELSE {0},
                hidden : IF op = "trace" THEN BOOLEAN ELSE {FALSE},
                gone : IF "reinforce" \in DOMAIN given \/ op \in {"reinforce", "forget"}
                       THEN {0, 1} ELSE {0}]
  /\ stage = [f \in FrontEnd |-> "parse"]
  /\ effects = [f \in FrontEnd |-> {}]
  /\ out = [f \in FrontEnd |-> "running"]

Params(f) == IF f = "cli" THEN CliParams(op, given) ELSE McpParams(op, given)
Refuses(f) == IF f = "cli" THEN CliRefuses(op, given, missing) ELSE McpRefuses(op, given, missing)

AtLeastOne(n) == IF n < 1 THEN 1 ELSE n
LeastOf(a, b) == IF a < b THEN a ELSE b

\* The first n of the memories that the query finds.
First(n) == 1 .. LeastOf(n, world.found)

\* RecallEngine::recall with k or its default.
Hits(k) == First(AtLeastOne(IF k = None THEN 8 ELSE k))

\* The memories whose accesses are counted.  A latent query for no
\* activations does not even recall.
Touched(p) ==
  CASE op \in {"recall", "trace"} -> Hits(p.k)
    [] op = "latent_query"        -> IF p.k = 0 THEN {} ELSE Hits(AtLeastOne(p.seed_k))
    [] OTHER                      -> {}

\* reinforce_recall_hits, reinforce_trace_report: the first hits, and the
\* dominant memory of a trace; one memory alone is not reinforced.
ToLearn(p) ==
  LET ids == CASE op = "reinforce" -> {1, 2}
               [] op = "recall" /\ p.reinforce -> First(p.reinforce_k) \cap Hits(p.k)
               [] op = "trace" /\ p.reinforce /\ p.reinforce_k # 0 /\ world.found # 0 ->
                    (First(p.reinforce_k) \cap Hits(p.k)) \cup {IF world.hidden THEN 9 ELSE 1}
               [] OTHER -> {}
  IN  IF Cardinality(ids) < 2 THEN {} ELSE ids

-----------------------------------------------------------------------------
(* Steps.  The front ends do not meet; the command line goes first.        *)

Turn(f) == f = "cli" \/ out["cli"] # "running"

At(f, where) == Turn(f) /\ stage[f] = where

Step(f, to) ==
  /\ stage' = [stage EXCEPT ![f] = to]
  /\ UNCHANGED <<op, given, missing, world>>

EndsAs(f, how) == out' = [out EXCEPT ![f] = how]
Does(f, what) == effects' = [effects EXCEPT ![f] = @ \cup what]

\* The arguments are parsed, all of them before anything is done.
Parse(f) ==
  /\ At(f, "parse")
  /\ IF Refuses(f) THEN Step(f, "end") /\ EndsAs(f, "refused")
                   ELSE Step(f, "work") /\ UNCHANGED out
  /\ UNCHANGED effects

\* The call of the store, the engine or a probe; a memory that was forgotten
\* already cannot be forgotten.
Work(f) ==
  /\ At(f, "work")
  /\ IF op = "forget" /\ world.gone = 1
     THEN Step(f, "end") /\ EndsAs(f, "error") /\ UNCHANGED effects
     ELSE /\ Step(f, "learn") /\ UNCHANGED out
          /\ Does(f, {<<"touch", m>> : m \in Touched(Params(f))}
                     \cup IF op \in {"write", "forget"} THEN {<<op, 1>>} ELSE {})

\* reinforce_memories: all memories or none.
LearnFrom(f) ==
  /\ At(f, "learn")
  /\ LET ids == ToLearn(Params(f)) IN
       IF world.gone \in ids
       THEN Step(f, "end") /\ EndsAs(f, "error") /\ UNCHANGED effects
       ELSE /\ Step(f, "show") /\ UNCHANGED out
            /\ Does(f, {<<"learn", m>> : m \in ids})

\* The answer is written, or the result printed.
Show(f) == At(f, "show") /\ Step(f, "end") /\ EndsAs(f, "shown") /\ UNCHANGED effects

FeNext == \E f \in FrontEnd : Parse(f) \/ Work(f) \/ LearnFrom(f) \/ Show(f)

FeSpec == FeInit /\ [][FeNext]_feVars

-----------------------------------------------------------------------------
(* Properties.                                                             *)

Ended == \A f \in FrontEnd : out[f] # "running"
Readable == \A a \in DOMAIN given : given[a] # Unreadable

\* What the defaults of the two front ends are for, where they differ.
Meaning(a, v) == IF a = "k" /\ op = "recall" /\ v = None THEN 8 ELSE v

\* Arguments and defaults are written three times, in the command line, in
\* the tools and in their schemas, and agree: a request whose arguments both
\* front ends know and can read has the same end, the same parameters and the
\* same effects in both (only the source of what is written is another), and
\* what a client of the server leaves out, or gives with the wrong type, has
\* the value that the schema advertises.
SameRequestSameWork ==
  /\ Ended /\ Readable /\ DOMAIN given \subseteq DOMAIN McpReads[op] \cap DOMAIN CliTakes[op] =>
       /\ out["cli"] = out["mcp"]
       /\ effects["cli"] = effects["mcp"]
       /\ \A a \in DOMAIN Params("cli") \ {"source"} :
            Meaning(a, Params("cli")[a]) = Meaning(a, Params("mcp")[a])
  /\ \A a \in DOMAIN Advertised[op] \cap DOMAIN Params("mcp") :
       a \notin DOMAIN given \/ given[a] = Unreadable =>
         Meaning(a, Params("mcp")[a]) = Advertised[op][a]
=============================================================================
