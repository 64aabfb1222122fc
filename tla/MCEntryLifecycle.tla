--------------------------- MODULE MCEntryLifecycle ---------------------------
(***************************************************************************)
(* The instance of EntryLifecycle for TLC, and forms of the options with   *)
(* at most two fields filled in, over options that are empty, that have a  *)
(* blank node id of an old version, or that have keys the form lacks.      *)
(***************************************************************************)
EXTENDS EntryLifecycle

MCTyped == {[scheme |-> "none", name |-> "BOILER", port |-> "none"],
            [scheme |-> "http", name |-> "boiler", port |-> "zero"],
            [scheme |-> "http", name |-> "boiler", port |-> "other"],
            [scheme |-> "none", name |-> "", port |-> "none"]}
MCDefault(k) == IF k \in Puffers THEN Empty ELSE "default"

SampleKeys == Puffers \cup {"enable_hk2", "log_version_prefix", "api_timeout"}
Values(k) == IF k \in Puffers THEN {None, Empty, "blank", "on"} ELSE {"on", "off"}

SampleOptions ==
    LET AnyValue == {None, Empty, "blank", "on", "off", "default"}
    IN  {o \in UNION {[K -> AnyValue] :
                          K \in {{}, {"unknown"}, Puffers, {"enable_hk2"}}} :
            \A k \in DOMAIN o : k \in SampleKeys => o[k] \in Values(k)}

SampleForms ==
    {[s \in Sections |-> [k \in SchemaFields[s] \cap {j, l} |->
                              IF k = j THEN v ELSE w]] :
        j \in SampleKeys, l \in SampleKeys,
        v \in {"on", "blank"}, w \in {"off", Empty}}
=============================================================================
