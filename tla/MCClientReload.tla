--------------------------- MODULE MCClientReload ---------------------------
(* Targets and reloads for ClientReload under TLC.                         *)
EXTENDS ClientReload

(* An appliance that refuses the password, and so is detected as XML with  *)
(* a rejection that nobody notes; every request may also fail hard.        *)
PasswordRefused ==
    [t \in Transports |-> IF t = "json" THEN {"auth"} ELSE {"ok", "auth"}]

AnyCredentials == {{"json"}, {"xml"}, {"json", "xml"}}

OldTarget == [name |-> "lm1", cred |-> "old", has |-> {"json", "xml"}]

(* A reload may keep everything, change the credential, or rename.         *)
TargetConfigs == {OldTarget,
                  [name |-> "lm1", cred |-> "new", has |-> {"json"}],
                  [name |-> "lm2", cred |-> "old", has |-> {"json"}]}
=============================================================================
