----------------------------- MODULE ConfigLoad -----------------------------
(***************************************************************************)
(* What the configuration loader makes of a file and an environment        *)
(* (internal/config: config.go, env_bool.go, dotenv.go), as operators.     *)
(*                                                                         *)
(* A field is written literally or as one reference, ${VAR} or             *)
(* ${VAR:-alt}.  Text is a value of a small set; which texts are no valid  *)
(* UTF-8, and which paths ServeMux cannot parse or reads differently, are  *)
(* constants.  Every error of Load ends it without a configuration, so     *)
(* that the order of the tests is not kept.                                *)
(***************************************************************************)
EXTENDS Integers, Sequences, FiniteSets

CONSTANTS
    InvalidUTF8,   \* texts with a byte that is no UTF-8
    Relative,      \* URIs without a leading slash
    Braced,        \* URIs with a brace
    Wildcards,     \* those of them that are well-formed patterns
    Spaced,        \* URIs with white space or control characters
    Disguised      \* other spellings of reserved URIs, as "/%68ealth"

Failed == "failed"
Unset == "unset"
Literally == "literally"
NoFallback == "no fallback"
NoFile == "no file"

Written(text) == [ref |-> Literally, alt |-> text]
Ref(var) == [ref |-> var, alt |-> NoFallback]
RefOr(var, alt) == [ref |-> var, alt |-> alt]

-----------------------------------------------------------------------------
(* LoadDotEnv: godotenv sets only what is not set yet, empty or not; the   *)
(* working directory's file comes before the configuration directory's.    *)
FirstSet(a, b) == [var \in DOMAIN a |-> IF a[var] # Unset THEN a[var] ELSE b[var]]

DotEnvOverrides(sources) == FirstSet(FirstSet(sources.cwd, sources.dir), sources.process)

LoadDotEnv(sources) == FirstSet(FirstSet(sources.process, sources.cwd), sources.dir)

(* interpolate, and the stricter interpolateSecret.                        *)
Interpolate(field, env) ==
    IF field.ref = Literally THEN field.alt
    ELSE IF env[field.ref] \notin {Unset, ""} THEN env[field.ref]
    ELSE IF field.alt # NoFallback THEN field.alt
    ELSE IF env[field.ref] = Unset THEN Failed
    ELSE ""

InterpolateSecret(field, env) ==
    IF field.ref # Literally /\ Interpolate(field, env) = "" THEN Failed
    ELSE Interpolate(field, env)

(* A credential that may also come from a file: the file is read only for  *)
(* what the field leaves empty.  A file is its trimmed content, or Failed. *)
Credential(field, file, env) ==
    IF file = NoFile THEN InterpolateSecret(field, env)
    ELSE IF Interpolate(field, env) = "" THEN file
    ELSE Interpolate(field, env)

(* EnvBool.Resolve, of a native boolean or a text.                         *)
Boolean(field, env) ==
    CASE Interpolate(field, env) \in {"", "false"} -> "false"
      [] Interpolate(field, env) = "true" -> "true"
      [] OTHER -> Failed

LoadSystem(s, env) ==
    [name |-> InterpolateSecret(s.name, env), host |-> InterpolateSecret(s.host, env),
     apiKey |-> Credential(s.apiKey, s.apiKeyFile, env),
     username |-> InterpolateSecret(s.username, env),
     password |-> Credential(s.password, s.passwordFile, env),
     insecureSkipVerify |-> Boolean(s.insecureSkipVerify, env)]

(* NewSystemClient's condition, which Load applies too.                    *)
HasCredentials(s) == s.apiKey # "" \/ (s.username # "" /\ s.password # "")

SystemIsValid(s) ==
    /\ \A f \in DOMAIN s : s[f] # Failed
    /\ s.name # "" /\ s.name \notin InvalidUTF8
    /\ s.host # ""
    /\ HasCredentials(s)

TwinsAsWritten(file, loaded) ==
    \E i, j \in DOMAIN file.systems : i # j /\ file.systems[i].name = file.systems[j].name

Twins(file, loaded) == \E i, j \in DOMAIN loaded : i # j /\ loaded[i].name = loaded[j].name

ReservedURIs == {"/", "/health", "/livez", "/readyz"}

(* validateServerURI compares the text: another spelling passes.           *)
ServerURIIsValid(uri) == uri \notin Relative \cup ReservedURIs \cup Braced \cup Spaced

Defaults == [interval |-> 60, timeout |-> 60, maxConcurrent |-> 4, otelInterval |-> 10]
OrDefault(given) == [n \in DOMAIN Defaults |-> IF given[n] = 0 THEN Defaults[n] ELSE given[n]]

NoConfig == [systems |-> <<>>]

(* Load, of a file that parses.                                            *)
Load(file, env) ==
    LET systems == [i \in DOMAIN file.systems |-> LoadSystem(file.systems[i], env)]
        uri == IF file.uri = "" THEN "/metrics" ELSE file.uri
    IN IF /\ systems # <<>>
          /\ \A i \in DOMAIN systems : SystemIsValid(systems[i])
          /\ ~Twins(file, systems)
          /\ ServerURIIsValid(uri)
          /\ \A n \in DOMAIN Defaults : file.numbers[n] >= 0
       THEN [systems |-> systems, uri |-> uri, numbers |-> OrDefault(file.numbers), otel |-> file.otel]
       ELSE NoConfig

(* cleanValue, which every label passes: what is no UTF-8 becomes one      *)
(* character.                                                              *)
CleanValue(text) == IF text \in InvalidUTF8 THEN "replaced" ELSE text
=============================================================================
