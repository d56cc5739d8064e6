-------------------------------- MODULE Wire --------------------------------
(***************************************************************************)
(* How the two transports read a response (transport_xml.go,               *)
(* transport_json.go, login in auth.go, the retry rule in transport.go),   *)
(* as operators on what of a response they look at.                        *)
(***************************************************************************)
EXTENDS Naturals

(* status  the HTTP status; 0 when no response came                        *)
(* form    "ours": an envelope of the wire that was asked; "cut": starts   *)
(*         like one and does not parse; "other": does not look like one    *)
(* code    what the envelope's stat attribute, or status and code, say     *)
(* error   is its Error text set                                           *)
(* data    Success>Data: usable (for a login: a token), none where it      *)
(*         belongs, or of the wrong shape                                  *)
Bare(status) == [status |-> status, form |-> "other", code |-> "ok", error |-> FALSE, data |-> "none"]
Responses ==
    {Bare(s) : s \in {0, 200, 400, 401, 403, 404, 500}}
    \cup {[Bare(200) EXCEPT !.form = "cut"]}
    \cup [status : {200}, form : {"ours"}, code : {"ok", "rejected", "failed"},
          error : BOOLEAN, data : {"usable", "none", "misshapen"}]

(* newRestyClient's retry condition: up to three retries of a request that *)
(* got no response or a 5xx.                                               *)
MaxTries == 4

RetryOnError(r) == r.status = 0 \/ r.status >= 400

Retryable(r) == r.status = 0 \/ r.status >= 500

NoAnswer(r) == r.status = 0 \/ r.status >= 400

(* The verdicts are the error classes of transport.go: errAuth,            *)
(* errUnsupported, any other error, nil.                                   *)

(* checkEnvelopeStat is consulted after the Error text.                    *)
XMLVerdict(r) ==
    IF r.status \in {401, 403} THEN "auth"
    ELSE IF NoAnswer(r) \/ r.form # "ours" \/ r.error THEN "hard"
    ELSE IF r.code = "rejected" THEN "auth"
    ELSE IF r.code = "failed" \/ r.data # "usable" THEN "hard"
    ELSE "ok"

(* Do's reading of a command whose token was not rejected with a 401;      *)
(* checkJSONEnvelope ignores the Error text of an envelope that says ok.   *)
JSONVerdict(r) ==
    IF r.status = 404 THEN "unsupported"
    ELSE IF NoAnswer(r) \/ r.form # "ours" THEN "hard"
    ELSE IF r.code = "rejected" THEN "auth"
    ELSE IF r.code = "failed" \/ r.data # "usable" THEN "hard"
    ELSE "ok"

(* login looks at the token alone, never at the envelope's status or code. *)
LooksLikeJSON(r) == r.form \in {"ours", "cut"}

LoginVerdict(r) ==
    IF r.status = 404 THEN "unsupported"
    ELSE IF r.status \in {401, 403} THEN "auth"
    ELSE IF NoAnswer(r) THEN "hard"
    ELSE IF ~LooksLikeJSON(r) THEN "unsupported"
    ELSE IF r.form = "cut" \/ r.data = "misshapen" THEN "hard"
    ELSE IF r.data = "none" THEN "unsupported"
    ELSE "ok"

(* What one Do may report over each wire.                                  *)
Verdicts ==
    [t \in {"json", "xml"} |->
        IF t = "xml" THEN {XMLVerdict(r) : r \in Responses}
        ELSE {JSONVerdict(r) : r \in Responses} \cup {LoginVerdict(r) : r \in Responses}]

(* The appliance says that the credential, or the token, is not accepted.  *)
SaysRejected(r) == r.status \in {401, 403} \/ r.code = "rejected"
=============================================================================
