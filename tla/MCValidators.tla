---------------------------- MODULE MCValidators ---------------------------
(***************************************************************************)
(* The validators of outside input, each on its own: the user ELF planner  *)
(* over the images of MCUserElf, and the schema lane over corpora of one   *)
(* or two cases, documents with one thing wrong, and faults of the JSON    *)
(* Schema library.                                                         *)
(***************************************************************************)
EXTENDS MCUserElf, SchemaLane

VARIABLE part   \* "elf" or "lane"

Pattern == [there |-> TRUE, true_end |-> TRUE, dollar |-> FALSE]
Shared == [type |-> "string", pattern |-> Pattern, maxLength |-> 20, minLength |-> 1]
Scalars == {"decimal-u64", "generation", "opaque-id"}
NoRefs == [n \in OPENAPI_SCHEMA_NAMES |-> {}]
Scheme == [apiKey |-> FALSE, identity_header |-> FALSE]

GoodDoc ==
  [pins |-> TRUE, schemas |-> TRUE, security |-> {"MutualTLS"}, schemes |-> [MutualTLS |-> Scheme],
   names_identity_header |-> FALSE, local |-> METADATA, diagnostics_public |-> TRUE,
   create_anonymous |-> FALSE, standalone |-> [n \in Scalars |-> Shared],
   openapi |-> [n \in Scalars |-> Shared], digests |-> <<Pattern, Pattern>>, request_id |-> TRUE,
   nullable |-> {}, same_patterns |-> {"cwd", "stdin_base64", "argv"},
   refs |-> [NoRefs EXCEPT !["sandbox-create"] = {"opaque-id", "decimal-u64"},
                           !["error-canonical"] = {"opaque-id"}],
   loose |-> {}]

BadDocs ==
  LET d == GoodDoc IN
  {[d EXCEPT !.pins = FALSE], [d EXCEPT !.schemas = FALSE], [d EXCEPT !.security = {}],
   [d EXCEPT !.schemes = [Other |-> Scheme]],
   [d EXCEPT !.schemes = [MutualTLS |-> Scheme, LocalOsIdentity |-> Scheme]],
   [d EXCEPT !.schemes["MutualTLS"].apiKey = TRUE], [d EXCEPT !.names_identity_header = TRUE],
   [d EXCEPT !.local = METADATA \ {"peer-sid"}], [d EXCEPT !.diagnostics_public = FALSE],
   [d EXCEPT !.create_anonymous = TRUE], [d EXCEPT !.openapi["generation"].maxLength = 19],
   [d EXCEPT !.standalone["opaque-id"].pattern.dollar = TRUE, !.openapi["opaque-id"].pattern.dollar = TRUE],
   [d EXCEPT !.digests[2].true_end = FALSE], [d EXCEPT !.request_id = FALSE],
   [d EXCEPT !.nullable = {"env"}], [d EXCEPT !.same_patterns = {"cwd"}],
   [d EXCEPT !.loose = {"opaque-id"}],
   [d EXCEPT !.refs["opaque-id"] = {"generation"}, !.refs["generation"] = {"opaque-id"}]}

-----------------------------------------------------------------------------

Plain(x) == [kind |-> "plain", value |-> x]
Case(schema, x) == [schema |-> schema, value |-> Plain(x), expect |-> "accept",
                    expect_schema |-> "none", expect_semantic |-> "none"]
Strings(A, n) == UNION {[1..k -> A] : k \in 0..n}
Obj(f) == [type |-> "obj", f |-> f]
Num == [type |-> "num"]

Numerals == {Str(s) : s \in Strings({47, 48, 49, 50, 53, 54, 58}, 4)}
Ids == {Str(s) : s \in Strings({48, 58, 65, 64, 233, 55296}, 4)} \cup {Null, Num}
Paths == {Str(s) : s \in Strings({SLASH, 46, 65}, 6) \cup Strings({SLASH, 46, 92, 0, 233, 55296}, 3)}
Stdins == {Str(s) : s \in Strings({65, 61, 45}, 5) \cup [1..8 -> {65, 61}]}
Names == Strings({65, 95, 48, 45, 233}, 3)
Values == {Str(s) : s \in {<< >>, <<65, 0>>, <<65, 65, 65, 65>>, <<65, 65, 65, 233>>, <<55296>>, <<65, 128512>>}} \cup {Num}

One == Str(<<49>>)
Argv(items) == [type |-> "list", items |-> items]
EnvOf(entries) == [type |-> "env", entries |-> entries]
Exec(key, x) ==
  Obj([k \in {"generation", "argv", key} |->
         IF k = key THEN x ELSE IF k = "generation" THEN One ELSE Argv(<<Str(<<65>>)>>)])

Executions ==
  {Exec("cwd", x) : x \in Paths} \cup {Exec("stdin_base64", x) : x \in Stdins \cup {Null}}
  \cup {Exec("env", EnvOf(<<[name |-> n, value |-> v]>>)) : n \in Names, v \in Values}
  \cup {Exec("env", EnvOf(<<[name |-> <<65>>, value |-> v], [name |-> <<66>>, value |-> w]>>)) :
          v, w \in Values}
  \cup {Exec("env", EnvOf([i \in 1..3 |-> [name |-> <<64 + i>>, value |-> One]])), Exec("env", Null)}
  \cup {Exec("argv", Argv(items)) : items \in UNION {[1..k -> Values \cup {One}] : k \in 0..3}}
  \cup {Exec("argv", Null), Exec("generation", Null), Exec("generation", Str(<<48>>)), Num,
        Obj([argv |-> Argv(<<One>>)])}
  \cup {Exec("timeout_ms", x) : x \in {One, Null, Str(<<50, 53, 53>>), Str(<<50, 53, 54>>)}}

Digest(p, h) == [type |-> "digest", prefix |-> p, hex |-> h]
Digests == {Digest(p, h) : p \in BOOLEAN, h \in {<<48, 97>>, <<65, 97>>, <<97>>, <<97, 103>>}} \cup {Null}
SomeIds == {Str(<<65>>), Str(<<48>>), Str(<<55296>>), Null}
Image(i, g) == Obj([id |-> i, digest |-> g])
Sandboxes ==
  {Obj([image |-> Image(i, g)]) : i \in SomeIds, g \in Digests}
  \cup {Obj([image |-> Image(Str(<<65>>), Digest(TRUE, <<48, 97>>)), limits |-> l, rootfs |-> r]) :
          l \in {Null, Num, [type |-> "values", items |-> <<One, Null>>],
                 [type |-> "values", items |-> <<Null, Num>>]},
          r \in {Num, Obj([volume |-> Null]), Obj([volume |-> Str(<<65>>)]), Obj([volume |-> Str(<<55296>>)])}}
  \cup {Num, Obj([image |-> Null]), Obj([limits |-> Null])}
Errors == {Obj([request_id |-> i, message |-> v]) : i \in SomeIds, v \in Values} \cup {Null}

Judged ==
  {Case(k, x) : k \in {"decimal-u64", "generation"}, x \in Numerals}
  \cup {Case("opaque-id", x) : x \in Ids}
  \cup {Case("execution-create", x) : x \in Executions}
  \cup {Case("sandbox-create", x) : x \in Sandboxes}
  \cup {Case("error-canonical", x) : x \in Errors}
  \cup {Case("error-diagnostic", Num)}

\* Every expectation a case can state, well formed or not, for a good and a bad
\* request, with and without an OpenAPI schema.
Expecting ==
  [schema : {"opaque-id", "capabilities-diagnostic", "unknown"}, value : {Plain(One), Plain(Str(<<65>>))},
   expect : {"accept", "reject", "none"}, expect_schema : {"accept", "reject", "none"},
   expect_semantic : {"accept", "reject", "not_applicable", "none"}]

Long(n, known, alone) ==
  [kind |-> "repeat", unit |-> <<65>>, count |-> n, suffix |-> <<46>>, keys_known |-> known, alone |-> alone]
Long_ids == {[Case("opaque-id", Null) EXCEPT !.value = v] :
               v \in {Long(2, TRUE, TRUE), Long(3, TRUE, TRUE), Long(-1, TRUE, TRUE), Long(2, FALSE, TRUE),
                      Long(2, TRUE, FALSE)}}

Lane(d, corpus, faults) == [doc |-> d, corpus |-> corpus, faults |-> faults]
GoodCase == Case("opaque-id", Str(<<65>>))
StdinCase == Case("execution-create", Exec("stdin_base64", Str(<<65, 65, 65, 65>>)))

MCLanes ==
  {Lane(GoodDoc, <<c>>, FALSE) : c \in Judged}
  \cup {Lane(GoodDoc, <<c>>, TRUE) : c \in Expecting \cup Long_ids}
  \cup {Lane(GoodDoc, <<StdinCase, GoodCase>>, TRUE), Lane(GoodDoc, << >>, TRUE)}
  \cup {Lane(d, <<GoodCase>>, TRUE) : d \in BadDocs}

-----------------------------------------------------------------------------

Init ==
  \/ part = "elf" /\ ElfInit /\ lane = << >> /\ step = "idle" /\ decoder = "real" /\ next = 1
       /\ failed = 0 /\ seen = << >> /\ code = -1
  \/ part = "lane" /\ LaneInit /\ image = << >> /\ planned = None

Next ==
  \/ part = "elf" /\ Plan /\ UNCHANGED <<part, laneVars>>
  \/ part = "lane" /\ LaneNext /\ UNCHANGED <<part, elfVars>>

Spec == Init /\ [][Next]_<<part, elfVars, laneVars>>
=============================================================================
