---------------------------- MODULE StatusCodes ----------------------------
(***************************************************************************)
(* How the outcome of a request crosses SOME/IP (message_conversions.rs):  *)
(* a uProtocol response carries a UCode, or none, and becomes a vsomeip    *)
(* message of one of two types with a return code, and back.  There are    *)
(* fewer return codes than UCodes, so some come back as others.            *)
(***************************************************************************)

UCodes == {"OK", "CANCELLED", "UNKNOWN", "INVALID_ARGUMENT", "DEADLINE_EXCEEDED",
           "NOT_FOUND", "ALREADY_EXISTS", "PERMISSION_DENIED", "UNAUTHENTICATED",
           "RESOURCE_EXHAUSTED", "FAILED_PRECONDITION", "ABORTED", "OUT_OF_RANGE",
           "UNIMPLEMENTED", "INTERNAL", "UNAVAILABLE", "DATA_LOSS"}
NoStatus == "absent"
CommStatuses == UCodes \cup {NoStatus}

ReturnCodes == {"E_OK", "E_NOT_OK", "E_UNKNOWN_SERVICE", "E_UNKNOWN_METHOD", "E_NOT_READY",
                "E_NOT_REACHABLE", "E_TIMEOUT", "E_WRONG_PROTOCOL_VERSION",
                "E_WRONG_INTERFACE_VERSION", "E_MALFORMED_MESSAGE",
                "E_WRONG_MESSAGE_TYPE", "E_UNKNOWN"}

ucode_to_vsomeip_err_code(ucode) ==
    CASE ucode = "OK"                               -> "E_OK"
      [] ucode = "INVALID_ARGUMENT"                 -> "E_WRONG_MESSAGE_TYPE"
      [] ucode = "DEADLINE_EXCEEDED"                -> "E_TIMEOUT"
      [] ucode \in {"NOT_FOUND", "UNAVAILABLE"}     -> "E_UNKNOWN_SERVICE"
      [] ucode = "DATA_LOSS"                        -> "E_MALFORMED_MESSAGE"
      [] ucode = "INTERNAL"                         -> "E_NOT_REACHABLE"
      [] ucode = "UNKNOWN"                          -> "E_NOT_OK"
      [] ucode = "FAILED_PRECONDITION"              -> "E_WRONG_PROTOCOL_VERSION"
      [] OTHER                                      -> "E_UNKNOWN"

vsomeip_err_code_to_ucode(code) ==
    CASE code = "E_OK"                              -> "OK"
      [] code \in {"E_WRONG_MESSAGE_TYPE", "E_UNKNOWN_METHOD"} -> "INVALID_ARGUMENT"
      [] code = "E_TIMEOUT"                         -> "DEADLINE_EXCEEDED"
      [] code = "E_UNKNOWN_SERVICE"                 -> "NOT_FOUND"
      [] code = "E_NOT_READY"                       -> "UNAVAILABLE"
      [] code = "E_MALFORMED_MESSAGE"               -> "DATA_LOSS"
      [] code = "E_NOT_REACHABLE"                   -> "INTERNAL"
      [] code = "E_NOT_OK"                          -> "UNKNOWN"
      [] code \in {"E_WRONG_PROTOCOL_VERSION", "E_WRONG_INTERFACE_VERSION"} -> "FAILED_PRECONDITION"
      [] OTHER                                      -> "UNKNOWN"

(* A response without a status is a success, and its return code, of no    *)
(* use to a uProtocol receiver, is that of UNIMPLEMENTED.                  *)
TypeOnWire(commstatus) == IF commstatus = NoStatus THEN "MT_RESPONSE" ELSE "MT_ERROR"
CodeOnWire(commstatus) ==
    ucode_to_vsomeip_err_code(IF commstatus = NoStatus THEN "UNIMPLEMENTED" ELSE commstatus)

(* Mutant: the status of a response is read from its return code too.      *)
StatusFromCode(type, code) == vsomeip_err_code_to_ucode(code)

StatusReceived(type, code) ==
    IF type = "MT_RESPONSE" THEN "OK" ELSE vsomeip_err_code_to_ucode(code)

(* What the asker is told of a response that was sent with commstatus.     *)
Delivered(commstatus) == StatusReceived(TypeOnWire(commstatus), CodeOnWire(commstatus))
IsSuccess(commstatus) == commstatus \in {NoStatus, "OK"}
=============================================================================
