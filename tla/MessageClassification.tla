----------------------- MODULE MessageClassification -----------------------
(***************************************************************************)
(* determine_message_type.rs: what kind of listener or message a source    *)
(* and a sink make.  Of a UUri it matters which parts are wildcards, and   *)
(* whether the resource is 0, the place where responses arrive.            *)
(***************************************************************************)
EXTENDS Naturals

Wild == 65535            \* the wildcard of entity type, entity instance and resource
AnyVersion == 255
AnyAuthority == "*"

CONSTANT NoSink         \* no sink filter: None in the code

(* The streamer listens to whatever goes from one authority to another:    *)
(* every part but the two authorities is a wildcard.                       *)
AllButAuthorityWild(uri) ==
    /\ uri.authority # AnyAuthority
    /\ uri.entityType = Wild
    /\ uri.entityInstance = Wild
    /\ uri.version = AnyVersion
    /\ uri.resource = Wild

(* Mutant: responses and requests are swapped.                             *)
DetermineTypeSwapped(source, sink) ==
    CASE sink = NoSink -> "Publish"
      [] sink # NoSink /\ AllButAuthorityWild(source) /\ AllButAuthorityWild(sink) -> "AllPointToPoint"
      [] OTHER -> IF sink.resource = 0 THEN "Request" ELSE "Response"

DetermineType(source, sink) ==
    CASE sink = NoSink -> "Publish"
      [] sink # NoSink /\ AllButAuthorityWild(source) /\ AllButAuthorityWild(sink) -> "AllPointToPoint"
      [] OTHER -> IF sink.resource = 0 THEN "Response" ELSE "Request"
=============================================================================
