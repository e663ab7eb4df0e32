------------------------------ MODULE Answers -------------------------------
(***************************************************************************)
(* What becomes of the server's answer to a request: RequestExecutor.fetch *)
(* (driver.py), ResponseParser and the parsers (cmstypes.py), and the      *)
(* category of the failure (utils/failures.py).  Requests that get no      *)
(* answer are in module Chains.                                            *)
(*                                                                         *)
(* A parser is known by what it accepts of an answer that is no refusal;   *)
(* its part is the entry it is after: "asset", createdAssetId, one of the  *)
(* keys of ListElements, the entries of a payload model.                   *)
(***************************************************************************)
EXTENDS Naturals

Parser == {"parse_assets", "parse_success", "parse_create_asset",
           "parse_list_elements", "parse_payloads", "models"}

\* A body of 200: a JSON object and its entries, or something else.
Answer == [status : {"200", "other"}, object : BOOLEAN,
           success : {"none", "true", "false"}, message : BOOLEAN,
           part : {"none", "good", "bad"}, extra : BOOLEAN]

\* CascadeError forbids entries other than its own two, and requires neither.
SaysFalse(a)   == a.object /\ a.success = "false" /\ a.part = "none" /\ ~a.extra
ErrorShaped(a) == a.object /\ a.success # "true" /\ a.part = "none" /\ ~a.extra

\* What a parser accepts by itself.  SimplePayload has no field and ignores
\* what it does not know; CascadeSuccess forbids it.
Accepts(p, a) ==
  /\ a.object
  /\ CASE p = "parse_payloads" -> TRUE
       [] p = "parse_success"  -> a.success # "false" /\ ~a.message /\ a.part = "none"
                                  /\ ~a.extra
       [] OTHER                -> a.part = "good"

\* ResponseParser tries CascadeError first.
ParserFirst(p, a) == IF Accepts(p, a) THEN "value"
                     ELSE IF ErrorShaped(a) THEN "refusal" ELSE "raises"
Parsed(p, a)      == IF ErrorShaped(a) THEN "refusal"
                     ELSE IF Accepts(p, a) THEN "value" ELSE "raises"

\* An answer that is not 200 is a refusal, whatever its body.
Fetched(p, a) == IF a.status # "200" THEN "refusal" ELSE Parsed(p, a)

\* classify_failure() of what a chain's operation gets.
Category(outcome) ==
  CASE outcome = "refusal" -> "CASCADE"
    [] outcome = "raises"  -> "LIBRARY"
    [] outcome = "value"   -> "none"
=============================================================================
