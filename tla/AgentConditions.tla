--------------------------- MODULE AgentConditions ---------------------------
(***************************************************************************)
(* The verdict a reconciliation leaves in the CR: the conditions Terminal, *)
(* Recoverable and LateInitialized, and how the manager turns the error of *)
(* a call into them and into the error it reports (sdk.go                  *)
(* updateConditions, manager.go onError and onSuccess).                    *)
(***************************************************************************)

Conditions == [terminal    : {"absent", "True", "False"},
               recoverable : {"absent", "True", "False"},
               lateInit    : {"absent", "True", "False"}]

NoConditions == [terminal |-> "absent", recoverable |-> "absent", lateInit |-> "absent"]

(* How a call of the manager can end: an error AWS answers with this code, *)
(* one with any other code or none, or a number that does not fit the      *)
(* request.                                                                *)
CallErrors == {"ValidationException", "APIError", "range"}

TerminalAWSError(e) == e = "ValidationException"

(* Mutant of UpdateConditions: a verdict once given is not taken back.     *)
UpdateConditionsSticky(c, e) ==
    IF TerminalAWSError(e) THEN [c EXCEPT !.terminal = "True"]
    ELSE IF e # "none" THEN [c EXCEPT !.recoverable = "True"]
    ELSE c

(* Mutant of UpdateConditions: only errors of AWS are recorded.            *)
UpdateConditionsAWSOnly(c, e) ==
    IF TerminalAWSError(e) THEN [c EXCEPT !.terminal = "True"]
    ELSE IF e = "APIError" THEN [c EXCEPT !.recoverable = "True"]
    ELSE [c EXCEPT !.recoverable = IF @ = "absent" THEN @ ELSE "False"]

(* A condition is made once it is needed and never removed. A terminal     *)
(* error leaves Recoverable as it was.                                     *)
UpdateConditions(c, e) ==
    LET Clear(status) == IF status = "absent" THEN "absent" ELSE "False"
    IN  IF TerminalAWSError(e)
        THEN [c EXCEPT !.terminal = "True"]
        ELSE [c EXCEPT !.terminal = Clear(@),
                       !.recoverable = IF e # "none" THEN "True" ELSE Clear(@)]

(* The error onError reports: that of a terminal condition, whatever set   *)
(* it, goes before the error of the call.                                  *)
OnError(c, e) ==
    IF UpdateConditions(c, e).terminal = "True" THEN "terminal" ELSE "recoverable"

(* Mutant of OnSuccess: the verdict of an earlier reconciliation stays.    *)
OnSuccessKeeps(c) == c

OnSuccess(c) == UpdateConditions(c, "none")
=============================================================================
