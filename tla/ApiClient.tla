----------------------------- MODULE ApiClient -----------------------------
(***************************************************************************)
(* The HTTP client of the boiler (api/client.py, api/protocols.py) and the *)
(* address it is given (helpers/network_utils.py): how an answer is        *)
(* classified, and how the client finds out that the boiler only speaks    *)
(* the legacy protocol.  No state of its own: a client is a record, kept   *)
(* by the modules that use one.                                            *)
(***************************************************************************)

(***************************************************************************)
(* V2 is the modern payload, V1 the legacy one.  A client starts with V2.  *)
(***************************************************************************)
Protocols == {"V1", "V2"}
Client == [protocol : Protocols, discovered : BOOLEAN]
NewClient == [protocol |-> "V2", discovered |-> FALSE]

(***************************************************************************)
(* What a GET may come back with: no answer in time or no connection, an   *)
(* HTTP error status, a content type that is neither JSON nor text, a body *)
(* that is not JSON, the error by which a legacy boiler refuses the modern *)
(* payload, any other JSON that is no list (a boiler that is starting up,  *)
(* say), a list without a usable item, and a list of items.                *)
(***************************************************************************)
Troubles == {"timeout", "status", "content_type", "garbled", "other_json"}
Lists == {"empty_list", "items"}
Answers == Troubles \cup {"not_an_array"} \cup Lists

\* What a boiler that speaks `dialect` may answer to a payload of `protocol`.
PossibleAnswers(dialect, protocol) ==
    Troubles \cup (IF dialect = protocol THEN Lists
                   ELSE IF dialect = "V1" THEN {"not_an_array"} ELSE {})

\* Bodies that _parse_response returns, rather than raising HdgApiResponseError.
IsParsed(answer) == answer \in {"not_an_array", "other_json"} \cup Lists

\* Fault variant of AsksAgain: any JSON that is no list switches the protocol.
AsksAgainAlways(client, answer) ==
    ~client.discovered /\ answer \in {"not_an_array", "other_json"}

(***************************************************************************)
(* Only the very first answer that is JSON can switch the protocol: the    *)
(* client then asks again at once.  Any other JSON ends the discovery.     *)
(***************************************************************************)
AsksAgain(client, answer) == ~client.discovered /\ answer = "not_an_array"

AfterAnswer(client, answer) ==
    IF AsksAgain(client, answer) THEN [protocol |-> "V1", discovered |-> TRUE]
    ELSE IF IsParsed(answer) THEN [client EXCEPT !.discovered = TRUE]
    ELSE client

(***************************************************************************)
(* The errors that handle_api_errors lets out.  An HTTP error status is a  *)
(* ClientError and so counts as a failure of the connection.               *)
(***************************************************************************)
ErrorOf(answer) ==
    IF answer \in {"timeout", "status"} THEN "HdgApiConnectionError"
                                        ELSE "HdgApiResponseError"

\* A SET has no JSON answer: only the connection and the status count.
SetAnswers == {"timeout", "status", "accepted"}

(***************************************************************************)
(* An address as the user types it: its scheme if there is one, a name and *)
(* a port.  Upper-case letters matter to the text only.                    *)
(***************************************************************************)
Schemes == {"none", "http"}
Names == {"", "boiler", "BOILER", "no name"}
Ports == {"none", "zero", "other", "not_a_number"}
Addresses == [scheme : Schemes, name : Names, port : Ports]
Lower(name) == IF name = "BOILER" THEN "boiler" ELSE name
NoUrl == [scheme |-> "none", name |-> "", port |-> "none"]

(***************************************************************************)
(* prepare_base_url: http by default, the name lower-cased by urlparse and *)
(* matched with the pattern of host names; a port other than 0 is refused, *)
(* and port 0, which is falsy, is dropped.                                 *)
(***************************************************************************)
prepare_base_url(address) ==
    IF Lower(address.name) = "boiler" /\ address.port \in {"none", "zero"}
    THEN [scheme |-> "http", name |-> "boiler", port |-> "none"]
    ELSE NoUrl
=============================================================================
