---------------------------- MODULE MCLifecycle -----------------------------
(* What the process is started with, for Lifecycle under TLC: one good     *)
(* configuration, varied in one respect at a time.                         *)
EXTENDS Lifecycle

Numbers == [interval |-> 0, timeout |-> 0, maxConcurrent |-> 0, otelInterval |-> 0]
Target(name) ==
    [name |-> name, host |-> Written("h"), apiKey |-> Written("k"), apiKeyFile |-> NoFile,
     username |-> Written(""), password |-> Written(""), passwordFile |-> NoFile,
     insecureSkipVerify |-> Written("false")]
Good == [systems |-> <<Target(Written("a")), Target(Written("b"))>>, uri |-> "", numbers |-> Numbers,
         otel |-> TRUE]
Sources(process, cwd, dir) ==
    [process |-> [V |-> process, literally |-> Unset], cwd |-> [V |-> cwd, literally |-> Unset],
     dir |-> [V |-> dir, literally |-> Unset]]
NoEnv == Sources(Unset, Unset, Unset)
Given(file, sources, once, slow) == [file |-> file, sources |-> sources, once |-> once, slow |-> slow]

(* Both modes, with and without OTLP, and whatever hangs.                  *)
Courses == {Given([Good EXCEPT !.otel = o], NoEnv, once, slow) :
              o \in BOOLEAN, once \in BOOLEAN, slow \in SUBSET {"flush", "connection"}}

Names == {Written(""), Written("a"), Written("bad 1"), Written("bad 2"), Ref("V"), RefOr("V", "a")}
TwoNames ==
    {Given([Good EXCEPT !.systems = <<Target(m), Target(n)>>], Sources(v, w, Unset), TRUE, {}) :
        m \in Names, n \in Names, v \in {Unset, "", "a", "b", "bad 1"}, w \in {Unset, "b"}}

Credentials ==
    {Given([Good EXCEPT !.systems =
              <<[Target(Written("a")) EXCEPT !.apiKey = key, !.apiKeyFile = file, !.username = Written("u"),
                                             !.password = password, !.insecureSkipVerify = insecure]>>],
           Sources(v, w, x), TRUE, {}) :
        key \in {Written(""), Written("k"), Ref("V"), RefOr("V", "d")},
        file \in {NoFile, "content", "", Failed}, password \in {Written(""), Ref("V")},
        insecure \in {Written("true"), RefOr("V", "")},
        v \in {Unset, "", "p", "true"}, w \in {Unset, "", "c"}, x \in {Unset, "g"}}

ServerSettings ==
    {Given([Good EXCEPT !.numbers = [Numbers EXCEPT ![n] = d], !.uri = u], NoEnv, FALSE, {}) :
        n \in DOMAIN Numbers, d \in {-1, 0, 5},
        u \in {"", "/m", "m", "/", "/health", "/met{rics", "/metrics/{id}", "/a b", "/%68ealth"}}

NoSystems == {Given([Good EXCEPT !.systems = <<>>], NoEnv, FALSE, {})}

SomeInputs == Courses \cup TwoNames \cup Credentials \cup ServerSettings \cup NoSystems
=============================================================================
