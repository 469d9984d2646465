---------------------------- MODULE SchemaLane -----------------------------
(***************************************************************************)
(* The contract gate scripts/sandbox-schema-validate.py: the checks of the *)
(* schemas and the OpenAPI document, the harness that proves faults of the *)
(* infrastructure are not taken for rejections, and the corpus, each case  *)
(* of which must come out of the schema stage and of the semantic stage as *)
(* it says.                                                                *)
(*                                                                         *)
(* A string is a sequence of code points.  JSON values are records: str s, *)
(* list items, obj f (a function on its keys), and other types.  The JSON  *)
(* Schema library is external: any verdict, or an error of its own.  A     *)
(* stage ends ok, bad (SemanticError, ValidationError) or infra (any other *)
(* exception).  The limits are CONSTANTS: 4096, 4096, 128, 64, 64,         *)
(* 2^64 - 1, 20 digits and 64 hex digits in the script.                    *)
(***************************************************************************)
EXTENDS Integers, Sequences, FiniteSets

CONSTANTS MAX_STRING_BYTES, MAX_PATH_BYTES, MAX_ID_BYTES, MAX_ARGV, MAX_ENV, U64_MAX, MAX_DIGITS,
          DIGEST_HEX,
          Lanes        \* the runs explored: a document, a corpus, and whether faults are explored

VARIABLES
  lane,      \* the run: one of Lanes
  step,      \* what the script does next
  decoder,   \* base64.b64decode: "real", or "boom" while the harness has replaced it
  next,      \* the number of the next case
  failed,    \* how many cases did not come out as they say
  seen,      \* history: per case, what the three stages said and with which decoder
  code       \* the exit status, -1 while the script runs

laneVars == <<lane, step, decoder, next, failed, seen, code>>

pow10[k \in 0..MAX_DIGITS] == IF k = 0 THEN 1 ELSE 10 * pow10[k - 1]

\* What a JSON value holds, as deep as the validators look.
List(s) == s \in Seq({s[i] : i \in DOMAIN s})
Scalar(x) == x.type = "str" => x.s \in Seq(Nat)
Flat(x) ==
  /\ Scalar(x)
  /\ x.type \in {"list", "values"} => List(x.items) /\ \A i \in DOMAIN x.items : Scalar(x.items[i])
  /\ x.type = "env" => /\ List(x.entries)
                       /\ \A i \in DOMAIN x.entries : /\ x.entries[i].name \in Seq(Nat)
                                                      /\ Scalar(x.entries[i].value)
  /\ x.type = "obj" => \A k \in DOMAIN x.f : Scalar(x.f[k])
Json(x) == Scalar(x) /\ (x.type = "obj" => \A k \in DOMAIN x.f : Flat(x.f[k]))
CaseValue(v) ==
  IF v.kind = "repeat" THEN v.unit \in Seq(Nat) /\ v.suffix \in Seq(Nat) /\ v.count \in Int
  ELSE Json(v.value)

\* MAX_DIGITS is the number of digits of U64_MAX; the corpora hold JSON values.
ASSUME LaneAssumption ==
  /\ {MAX_STRING_BYTES, MAX_PATH_BYTES, MAX_ID_BYTES, MAX_ARGV, MAX_ENV, DIGEST_HEX} \subseteq Nat
  /\ U64_MAX \in Nat /\ MAX_DIGITS \in Nat \ {0}
  /\ pow10[MAX_DIGITS - 1] <= U64_MAX /\ U64_MAX < pow10[MAX_DIGITS]
  /\ \A run \in Lanes : /\ Len(run.corpus) \in Nat
                        /\ \A i \in 1..Len(run.corpus) : CaseValue(run.corpus[i].value)

Str(s) == [type |-> "str", s |-> s]
Null == [type |-> "null"]

Digit == 48..57
Upper == 65..90
Lower == 97..122
SLASH == 47
SURROGATE == 55296..57343     \* JSON can spell one; UTF-8 cannot

get(x, key) == IF key \in DOMAIN x.f THEN x.f[key] ELSE Null
Chars(s) == {s[i] : i \in DOMAIN s}

\* str.encode raises for a lone surrogate, and that is no SemanticError.
encodes(s) == Chars(s) \cap SURROGATE = {}
utf8_bytes(s) == Len(s) + Cardinality({i \in DOMAIN s : s[i] >= 128})
                        + Cardinality({i \in DOMAIN s : s[i] >= 2048})
                        + Cardinality({i \in DOMAIN s : s[i] >= 65536})

\* The statements of a validator, in order: the first that raises decides.
Then(first, rest) == IF first = "ok" THEN rest ELSE first
Need(b) == IF b THEN "ok" ELSE "bad"
NeedUtf8(x, b) == IF x.type = "str" /\ ~encodes(x.s) THEN "infra" ELSE Need(b)

\* The loop over a collection raises what its first bad member raises.
EachOf(seq, outcome(_)) ==
  LET bad == {i \in DOMAIN seq : outcome(seq[i]) # "ok"}
  IN IF bad = {} THEN "ok" ELSE outcome(seq[CHOOSE i \in bad : \A j \in bad : i <= j])

-----------------------------------------------------------------------------
(* Scalars *)

\* Mutant: the largest value is taken for an overflow.
overflows_atMax(value) == value >= U64_MAX

overflows(value) == value > U64_MAX

\* value after k rounds of the loop.
values(s) ==
  LET value[k \in 0..Len(s)] == IF k = 0 THEN 0 ELSE value[k - 1] * 10 + (s[k] - 48) IN value

\* The value, -1 for SemanticError.
parse_decimal_u64(x) ==
  LET s     == x.s
      value == values(s)
  IN IF x.type # "str" THEN -1
     ELSE IF s = << >> \/ Len(s) > MAX_DIGITS THEN -1
     ELSE IF s[1] = 48 THEN (IF Len(s) = 1 THEN 0 ELSE -1)
     ELSE IF \E k \in DOMAIN s : s[k] \notin Digit \/ overflows(value[k]) THEN -1
     ELSE value[Len(s)]

is_opaque_id(x) ==
  /\ x.type = "str" /\ x.s # << >> /\ utf8_bytes(x.s) <= MAX_ID_BYTES
  /\ Chars(x.s) \subseteq Upper \cup Lower \cup Digit \cup {46, 95, 45, 58}
  /\ ~(Chars(x.s) \subseteq Digit)

\* A digest is abstracted to whether the prefix is there and the hex part after it.
is_image_digest(x) ==
  x.type = "digest" /\ x.prefix /\ Len(x.hex) = DIGEST_HEX /\ Chars(x.hex) \subseteq Digit \cup 97..102

\* The loop visits the segment after each slash.
is_guest_path(x) ==
  LET s == x.s
      slashes == {i \in DOMAIN s : s[i] = SLASH}
      stop(i) == LET later == {j \in slashes : j > i}
                 IN IF later = {} THEN Len(s) + 1 ELSE CHOOSE j \in later : \A k \in later : j <= k
      seg(i) == SubSeq(s, i + 1, stop(i) - 1)
  IN /\ x.type = "str" /\ s # << >> /\ utf8_bytes(s) <= MAX_PATH_BYTES
     /\ s[1] = SLASH /\ Chars(s) \cap {0, 92} = {}
     /\ ~(Len(s) >= 2 /\ s[2] = SLASH)
     /\ \A i \in slashes : /\ seg(i) = << >> => stop(i) = Len(s) + 1
                           /\ seg(i) \notin {<<46>>, <<46, 46>>}

is_env_name(s) ==
  /\ s # << >> /\ s[1] \in Upper \cup Lower \cup {95}
  /\ Chars(s) \subseteq Upper \cup Lower \cup Digit \cup {95}

is_standard_base64(x) ==
  LET s == x.s
      pads == {i \in DOMAIN s : s[i] = 61}
  IN /\ x.type = "str" /\ Len(s) % 4 = 0 /\ Cardinality(pads) <= 2
     /\ \A i \in DOMAIN s \ pads : /\ s[i] \in Upper \cup Lower \cup Digit \cup {43, 47}
                                   /\ \A j \in pads : i < j

\* External: base64.b64decode of a well-formed string, by its length.
b64decode(s) == 3 * (Len(s) \div 4) - Cardinality({i \in DOMAIN s : s[i] = 61})

decoded_stdin_len(x, dec) ==
  CASE ~is_standard_base64(x) -> "bad"
    [] is_standard_base64(x) /\ x.s = << >> -> "ok"
    [] is_standard_base64(x) /\ x.s # << >> ->
         IF dec = "boom" THEN "infra" ELSE Need(b64decode(x.s) <= MAX_STRING_BYTES)

-----------------------------------------------------------------------------
(* Requests *)

semantic_decimal(x) == Need(parse_decimal_u64(x) # -1)
semantic_generation(x) == Need(parse_decimal_u64(x) >= 1)
semantic_opaque(x) == NeedUtf8(x, is_opaque_id(x))

\* Optional fields are checked only when they are there.
Optional(x, key, outcome(_)) == IF key \in DOMAIN x.f THEN outcome(x.f[key]) ELSE "ok"

argvItem(x) ==
  Then(Need(x.type = "str" /\ x.s # << >> /\ 0 \notin Chars(x.s)),
       NeedUtf8(x, utf8_bytes(x.s) <= MAX_STRING_BYTES))

argvList(x) ==
  Then(Need(x.type = "list" /\ x.items # << >> /\ Len(x.items) <= MAX_ARGV), EachOf(x.items, argvItem))

cwdPath(x) == NeedUtf8(x, is_guest_path(x))

\* An entry of env, in the order of the object: its name and its value.
envEntry(e) ==
  Then(NeedUtf8(Str(e.name), is_env_name(e.name)),
  Then(Need(e.value.type = "str" /\ 0 \notin Chars(e.value.s)),
  Then(Need(utf8_bytes(e.name) <= MAX_STRING_BYTES),
       NeedUtf8(e.value, utf8_bytes(e.value.s) <= MAX_STRING_BYTES))))

envObject(x) ==
  Then(Need(x.type = "env" /\ Len(x.entries) <= MAX_ENV), EachOf(x.entries, envEntry))

semantic_execution_create(x, dec) ==
  Then(Need(x.type = "obj"),
  Then(semantic_generation(get(x, "generation")),
  Then(argvList(get(x, "argv")),
  Then(Optional(x, "cwd", cwdPath),
  Then(Optional(x, "timeout_ms", semantic_decimal),
  Then(Optional(x, "env", envObject),
       Optional(x, "stdin_base64", LAMBDA y : decoded_stdin_len(y, dec))))))))

limitValue(x) == IF x.type = "null" THEN "ok" ELSE semantic_decimal(x)
limitsObject(x) ==
  IF x.type = "null" THEN "ok" ELSE Then(Need(x.type = "values"), EachOf(x.items, limitValue))

rootfsObject(x) ==
  IF x.type # "obj" \/ get(x, "volume").type = "null" THEN "ok" ELSE semantic_opaque(get(x, "volume"))

\* limits is given by its values; rootfs is optional.
semantic_sandbox_create(x) ==
  Then(Need(x.type = "obj"),
  Then(Need(get(x, "image").type = "obj"),
  Then(semantic_opaque(get(get(x, "image"), "id")),
  Then(Need(is_image_digest(get(get(x, "image"), "digest"))),
  Then(limitsObject(get(x, "limits")),
       Optional(x, "rootfs", rootfsObject))))))

semantic_error_canonical(x) ==
  Then(Need(x.type = "obj"),
  Then(semantic_opaque(get(x, "request_id")),
  Then(Need(get(x, "message").type = "str" /\ get(x, "message").s # << >>),
       NeedUtf8(get(x, "message"), utf8_bytes(get(x, "message").s) <= MAX_STRING_BYTES))))

\* semantic_is_valid, with the validators of SEMANTIC_VALIDATORS.
semantic_is_valid(key, x, dec) ==
  CASE key = "decimal-u64" -> semantic_decimal(x)
    [] key = "generation" -> semantic_generation(x)
    [] key = "opaque-id" -> semantic_opaque(x)
    [] key = "execution-create" -> semantic_execution_create(x, dec)
    [] key = "sandbox-create" -> semantic_sandbox_create(x)
    [] key = "error-canonical" -> semantic_error_canonical(x)
    [] key \in {"error-diagnostic", "capabilities-diagnostic"} -> "ok"

-----------------------------------------------------------------------------
(* The document and the schemas *)

METADATA == {"identity", "peer-pid", "peer-uid", "peer-gid", "peer-sid", "audit-token"}
BOUNDS == {"type", "pattern", "maxLength", "minLength"}
OPTIONAL == {"cwd", "timeout_ms", "stdin_base64", "env"}

\* security: the global entry and the schemes by name; local: the x-local-ipc
\* keys; public: diagnostics whose get or head says security [].
assert_openapi_security(d) ==
  /\ d.security = {"MutualTLS"}
  /\ "MutualTLS" \in DOMAIN d.schemes /\ "LocalOsIdentity" \notin DOMAIN d.schemes
  /\ \A n \in DOMAIN d.schemes : ~d.schemes[n].apiKey /\ ~d.schemes[n].identity_header
  /\ ~d.names_identity_header
  /\ METADATA \subseteq d.local
  /\ d.diagnostics_public /\ ~d.create_anonymous

assert_shared_bounds(left, right) == \A field \in BOUNDS : left[field] = right[field]

assert_true_end_pattern(pattern) == pattern.there /\ pattern.true_end /\ ~pattern.dollar

\* resolve_openapi inlines the references it meets in properties, items, allOf
\* and the like; one that leads back to itself never ends, and one elsewhere
\* (loose) stays, for the library to trip over.
Inlined(d, name) ==
  LET reach[k \in 0..Cardinality(DOMAIN d.refs)] ==
        IF k = 0 THEN {name} ELSE reach[k - 1] \cup UNION {d.refs[m] : m \in reach[k - 1]}
  IN reach[Cardinality(DOMAIN d.refs)]
resolve_openapi(d, name) ==
  IF \E m \in Inlined(d, name) : \E k \in d.refs[m] : m \in Inlined(d, k) THEN "infra"
  ELSE IF Inlined(d, name) \cap d.loose # {} THEN "infra" ELSE "ok"

\* What main checks before the corpus, in its order; any failure is exit 1.
preflight(d) ==
  /\ d.pins                                    \* check_pins
  /\ d.schemas                                 \* load_store, check_schema
  /\ assert_openapi_security(d)
  /\ \A n \in DOMAIN d.standalone : assert_shared_bounds(d.standalone[n], d.openapi[n])
  /\ \A n \in DOMAIN d.standalone : assert_true_end_pattern(d.standalone[n].pattern)
  /\ \A i \in DOMAIN d.digests : assert_true_end_pattern(d.digests[i])
  /\ d.request_id                              \* an OpaqueId, or its pattern
  /\ d.nullable \cap OPTIONAL = {}           \* nor may cwd be anything but a string
  /\ d.same_patterns = {"cwd", "stdin_base64", "argv"}

-----------------------------------------------------------------------------
(* The corpus *)

OPENAPI_SCHEMA_NAMES ==
  {"decimal-u64", "generation", "opaque-id", "error-canonical", "error-diagnostic",
   "sandbox-create", "execution-create"}
SCHEMA_IDS == OPENAPI_SCHEMA_NAMES \cup {"capabilities-diagnostic"}

\* expand_repeats: a repeat that is not well formed fails the lane.
Repeated(unit, n, suffix) ==
  LET copies[k \in 0..n] == IF k = 0 THEN << >> ELSE copies[k - 1] \o unit IN copies[n] \o suffix
value_ok(v) == v.kind = "repeat" => v.keys_known /\ v.alone /\ v.count >= 0
expand_repeats(v) == IF v.kind = "repeat" THEN Str(Repeated(v.unit, v.count, v.suffix)) ELSE v.value

\* explicit_stages: <<schema, semantic>>, or combined; a case is malformed with
\* one stage only, or with no expectation.
stages_ok(c) ==
  IF c.expect_schema = "none" /\ c.expect_semantic = "none" THEN c.expect \in {"accept", "reject"}
  ELSE c.expect_schema \in {"accept", "reject"}
         /\ c.expect_semantic \in {"accept", "reject", "not_applicable"}
combined(c) == c.expect_schema = "none"

\* Mutant: the two schemas need not agree.
openapi_agrees_never(openapi, standalone) == TRUE

openapi_agrees(openapi, standalone) == openapi = "none" \/ openapi = standalone

as(expectation) == IF expectation = "accept" THEN "ok" ELSE "bad"

\* Whether a case comes out as it says: ok of main, from the stages' outcomes.
judge(c, standalone, openapi, semantic) ==
  LET agrees    == openapi_agrees(openapi, standalone)
      schema_ok == standalone = "ok" /\ agrees
      accept    == schema_ok /\ semantic = "ok"
      schema_pass == /\ standalone = as(c.expect_schema)
                     /\ openapi # "none" => openapi = as(c.expect_schema)
      semantic_pass == c.expect_semantic = "not_applicable" \/ semantic = as(c.expect_semantic)
  IN IF combined(c)
     THEN IF c.expect = "accept" THEN accept ELSE ~accept /\ agrees
     ELSE /\ schema_pass /\ semantic_pass /\ agrees
          /\ c.expect_schema = "accept" /\ c.expect_semantic = "accept" => accept
          /\ c.expect_schema = "accept" /\ c.expect_semantic = "reject" => ~accept
          /\ c.expect_schema = "reject" => ~accept

-----------------------------------------------------------------------------
(* main *)

LaneInit ==
  /\ lane \in Lanes /\ step = "preflight" /\ decoder = "real"
  /\ next = 1 /\ failed = 0 /\ seen = << >> /\ code = -1

stop(status) == step' = "ended" /\ code' = status
goto(s) == step' = s /\ UNCHANGED code

Preflight ==
  /\ step = "preflight"
  /\ IF preflight(lane.doc) THEN goto("infra") ELSE stop(1)
  /\ UNCHANGED <<lane, decoder, next, failed, seen>>

\* expect_infra twice: an invalid schema and a broken reference must raise, and
\* not a ValidationError.
InfrastructureFailures ==
  /\ step = "infra"
  /\ \E outcome \in {"infra", "bad", "ok"} :
       /\ outcome = "infra" \/ lane.faults
       /\ IF outcome = "infra" THEN goto("inject") ELSE stop(1)
  /\ UNCHANGED <<lane, decoder, next, failed, seen>>

InjectDecoder ==
  /\ step = "inject"
  /\ decoder' = "boom" /\ goto("decoder")
  /\ UNCHANGED <<lane, next, failed, seen>>

\* The injected fault must come through decoded_stdin_len as it is; the finally
\* clause puts the decoder back whatever happens.
DecoderFault ==
  /\ step = "decoder"
  /\ IF decoded_stdin_len(Str(<<90, 103, 61, 61>>), decoder) = "infra" THEN goto("cases") ELSE stop(1)
  /\ decoder' = "real"
  /\ UNCHANGED <<lane, next, failed, seen>>

\* One case.  Whatever is infra, or malformed in the case, ends the lane.
JudgeCase ==
  /\ step = "cases" /\ next <= Len(lane.corpus)
  /\ \E standalone, verdict \in {"ok", "bad", "infra"} :
       LET c        == lane.corpus[next]
           instance == expand_repeats(c.value)
           openapi  == CASE c.schema \notin OPENAPI_SCHEMA_NAMES -> "none"
                         [] c.schema \in OPENAPI_SCHEMA_NAMES ->
                              Then(resolve_openapi(lane.doc, c.schema), verdict)
           semantic == semantic_is_valid(c.schema, instance, decoder)
           raises   == \/ c.schema \notin SCHEMA_IDS \/ ~value_ok(c.value)
                       \/ "infra" \in {standalone, openapi, semantic} \/ ~stages_ok(c)
       IN /\ standalone # verdict \/ standalone = "infra" => lane.faults
          /\ IF raises THEN stop(1) /\ UNCHANGED <<next, failed, seen>>
             ELSE /\ next' = next + 1
                  /\ failed' = failed + (IF judge(c, standalone, openapi, semantic) THEN 0 ELSE 1)
                  /\ seen' = Append(seen, [standalone |-> standalone, openapi |-> openapi,
                                           semantic |-> semantic, decoder |-> decoder])
                  /\ UNCHANGED <<step, code>>
  /\ UNCHANGED <<lane, decoder>>

Summary ==
  /\ step = "cases" /\ next > Len(lane.corpus)
  /\ stop(IF failed # 0 THEN 1 ELSE 0)
  /\ UNCHANGED <<lane, decoder, next, failed, seen>>

LaneNext == \/ Preflight \/ InfrastructureFailures \/ InjectDecoder \/ DecoderFault
            \/ JudgeCase \/ Summary

LaneSpec == LaneInit /\ [][LaneNext]_laneVars

-----------------------------------------------------------------------------
(* What the contract means by a well-formed request, said without loops. *)

Text(x, low, high) ==
  x.type = "str" /\ encodes(x.s) /\ low <= utf8_bytes(x.s) /\ utf8_bytes(x.s) <= high

\* The decimal numeral of n.
Numeral(n) ==
  LET long == {k \in 1..MAX_DIGITS : n < pow10[k]}
      d    == CHOOSE k \in long : \A j \in long : k <= j
  IN [i \in 1..d |-> 48 + ((n \div pow10[d - i]) % 10)]
IsNumeral(x, low) == x.type = "str" /\ \E n \in low..U64_MAX : x.s = Numeral(n)

IsId(x) ==
  /\ Text(x, 1, MAX_ID_BYTES) /\ \E i \in DOMAIN x.s : x.s[i] \notin Digit
  /\ \A i \in DOMAIN x.s : x.s[i] \in Digit \cup Upper \cup Lower \cup {45, 46, 58, 95}

\* No doubled slash, and no . or .. between two slashes or a slash and the end.
IsPath(x) ==
  LET s == x.s
      at(i) == IF i \in DOMAIN s THEN s[i] ELSE SLASH
  IN /\ Text(x, 1, MAX_PATH_BYTES) /\ s[1] = SLASH
     /\ \A i \in DOMAIN s :
          /\ s[i] \notin {0, 92}
          /\ s[i] = SLASH => /\ i < Len(s) => s[i + 1] # SLASH
                             /\ ~(at(i + 1) = 46 /\ at(i + 2) = SLASH)
                             /\ ~(at(i + 1) = 46 /\ at(i + 2) = 46 /\ at(i + 3) = SLASH)

\* Groups of four, the last of which may end in one or two pads.
IsStdin(x) ==
  /\ x.type = "str" /\ Len(x.s) % 4 = 0
  /\ \E pad \in 0..2 :
       /\ pad <= Len(x.s) /\ 3 * (Len(x.s) \div 4) - pad <= MAX_STRING_BYTES
       /\ \A i \in DOMAIN x.s :
            IF i > Len(x.s) - pad THEN x.s[i] = 61
            ELSE x.s[i] \in Upper \cup Lower \cup Digit \cup {43, 47}

IsEnv(x) ==
  /\ x.type = "env" /\ Len(x.entries) <= MAX_ENV
  /\ \A i \in DOMAIN x.entries : LET e == x.entries[i] IN
       /\ Text(Str(e.name), 1, MAX_STRING_BYTES) /\ e.name[1] \notin Digit
       /\ \A j \in DOMAIN e.name : e.name[j] \in Upper \cup Lower \cup Digit \cup {95}
       /\ Text(e.value, 0, MAX_STRING_BYTES) /\ 0 \notin Chars(e.value.s)

IsArgv(x) ==
  /\ x.type = "list" /\ Len(x.items) \in 1..MAX_ARGV
  /\ \A i \in DOMAIN x.items : Text(x.items[i], 1, MAX_STRING_BYTES) /\ 0 \notin Chars(x.items[i].s)

IsExecution(x) ==
  /\ x.type = "obj" /\ {"generation", "argv"} \subseteq DOMAIN x.f
  /\ \A k \in DOMAIN x.f : LET y == x.f[k] IN
       CASE k = "generation" -> IsNumeral(y, 1) [] k = "argv" -> IsArgv(y) [] k = "cwd" -> IsPath(y)
         [] k = "timeout_ms" -> IsNumeral(y, 0) [] k = "env" -> IsEnv(y) [] k = "stdin_base64" -> IsStdin(y)
         [] OTHER -> TRUE

IsSandbox(x) ==
  LET has(y, k) == k \in DOMAIN y.f
      image  == x.f["image"]
      limits == x.f["limits"]
  IN /\ x.type = "obj" /\ has(x, "image") /\ image.type = "obj" /\ has(image, "id") /\ has(image, "digest")
     /\ IsId(image.f["id"]) /\ is_image_digest(image.f["digest"])
     /\ has(x, "limits") /\ limits.type # "null" =>
          /\ limits.type = "values"
          /\ \A i \in DOMAIN limits.items : limits.items[i].type = "null" \/ IsNumeral(limits.items[i], 0)
     /\ has(x, "rootfs") /\ x.f["rootfs"].type = "obj" =>
          LET volume == get(x.f["rootfs"], "volume") IN volume.type = "null" \/ IsId(volume)

WellFormed(key, x) ==
  CASE key = "decimal-u64" -> IsNumeral(x, 0)
    [] key = "generation" -> IsNumeral(x, 1)
    [] key = "opaque-id" -> IsId(x)
    [] key = "execution-create" -> IsExecution(x)
    [] key = "sandbox-create" -> IsSandbox(x)
    [] key = "error-canonical" ->
         /\ x.type = "obj" /\ {"request_id", "message"} \subseteq DOMAIN x.f
         /\ IsId(x.f["request_id"]) /\ Text(x.f["message"], 1, MAX_STRING_BYTES)
    [] OTHER -> TRUE

\* What a case asks of the three stages.
Meets(c, o) ==
  LET both(v) == o.standalone = v /\ o.openapi \in {v, "none"} IN
  IF combined(c)
  THEN IF c.expect = "accept" THEN both("ok") /\ o.semantic = "ok"
       ELSE both("bad") \/ (both("ok") /\ o.semantic = "bad")
  ELSE /\ both(as(c.expect_schema))
       /\ c.expect_semantic \in {"accept", "reject"} => o.semantic = as(c.expect_semantic)

\* The semantic stage accepts exactly the well-formed requests: the boundary
\* values of 64 bits, of byte lengths and of decoded lengths, and every path and
\* padding, fall on the right side; and what it cannot encode it never accepts.
SemanticsExact ==
  seen # << >> =>
    LET c == lane.corpus[Len(seen)] IN
    (seen[Len(seen)].semantic = "ok") <=> WellFormed(c.schema, expand_repeats(c.value))

\* The gate is green only when it should be, and then it is: every case of the corpus was
\* judged, with the real decoder and with both schemas of one mind, and came out
\* as it says; an error of the infrastructure in any stage, or a schema that
\* drifted from the document, never counts as the rejection a case expects.
LaneHonest ==
  LET allJudged == /\ Len(seen) = Len(lane.corpus)
                   /\ \A i \in DOMAIN seen : Meets(lane.corpus[i], seen[i])
  IN /\ code = 0 =>
          /\ preflight(lane.doc) /\ allJudged
          /\ \A i \in DOMAIN seen :
               /\ seen[i].decoder = "real"
               /\ "infra" \notin {seen[i].standalone, seen[i].openapi, seen[i].semantic}
     /\ code = 1 => seen = << >> \/ ~allJudged
=============================================================================
