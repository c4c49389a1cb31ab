------------------------------ MODULE Payloads ------------------------------
(***************************************************************************)
(* What a provider sends, and how it is read: the verdict of provider-     *)
(* client.ts on a response, and the readers of packages/upstream/src/      *)
(* json.ts, which say whether a field is there with the type they want.    *)
(* A response is [status, body]; a status of 0 is a connection that broke, *)
(* and 1 one that never answered.  A body is a JSON document, blank, or    *)
(* text that is not JSON.                                                  *)
(***************************************************************************)
EXTENDS Naturals, Sequences, TLC

CONSTANT Undefined      \* what is not there, or not of the wanted type

Null == [t |-> "null", v |-> 0]
Str(s) == [t |-> "string", v |-> s]
Num(n) == [t |-> "number", v |-> n]
Bool(b) == [t |-> "boolean", v |-> b]
Arr(s) == [t |-> "array", v |-> s]
Obj(f) == [t |-> "object", v |-> f]

Blank == [t |-> "blank", v |-> 0]
Text == [t |-> "text", v |-> 0]

-----------------------------------------------------------------------------
(* json.ts.                                                                *)

IsRecord(v) == v.t = "object"

(* v[key], where undefined and null behave alike.                          *)
Child(v, key) ==
    IF IsRecord(v) /\ key \in DOMAIN v.v THEN v.v[key] ELSE Null

(* An absent record is read like null: every field of it is absent.        *)
OptRecord(v, key) == IF IsRecord(Child(v, key)) THEN Child(v, key) ELSE Null

\* Mutant: one element is taken for none.
ArrayOnly(v, key) == IF Child(v, key).t = "array" THEN Child(v, key).v ELSE <<>>

(* Last.fm sends a list of one as the element itself.                      *)
ArrayOrSingle(v, key) ==
    LET c == Child(v, key) IN
    CASE c.t = "array" -> c.v
      [] c.t = "null" -> <<>>
      [] OTHER -> <<c>>

OptString(v, key) ==
    LET c == Child(v, key) IN
    CASE c.t = "string" -> c.v
      [] c.t = "number" -> ToString(c.v)
      [] OTHER -> Undefined

(* FALSE where reqString throws.                                           *)
HasString(v, key) == OptString(v, key) \notin {Undefined, ""}

(* The numerals a document of the model may hold.                          *)
Numerals == [s \in {ToString(n) : n \in 0 .. 100} |->
                CHOOSE n \in 0 .. 100 : ToString(n) = s]

OptNumber(v, key) ==
    LET c == Child(v, key) IN
    CASE c.t = "number" -> c.v
      [] c.t = "string" /\ c.v \in DOMAIN Numerals -> Numerals[c.v]
      [] OTHER -> Undefined

OptBoolean(v, key) ==
    IF Child(v, key).t = "boolean" THEN Child(v, key).v ELSE Undefined

(* The strings that have the form of an MBID.                              *)
Known == {"mbid-a", "mbid-b", "mbid-c"}

IsMbid(s) == s \in Known

OptMbid(v, key) ==
    IF IsMbid(OptString(v, key)) THEN OptString(v, key) ELSE Undefined

(* a ?? b                                                                  *)
Or(a, b) == IF a = Undefined THEN b ELSE a

(* list.filter(p => p !== null)                                            *)
Present(list) ==
    LET present[k \in 0 .. Len(list)] ==
            IF k = 0 THEN <<>>
            ELSE IF list[k] = Undefined THEN present[k - 1]
            ELSE Append(present[k - 1], list[k])
    IN  present[Len(list)]

(* list.map(parse).filter(p => p !== null)                                 *)
Parsed(list, Parse(_)) == Present([i \in DOMAIN list |-> Parse(list[i])])

-----------------------------------------------------------------------------
(* provider-client.ts.                                                     *)

Broken == 0
Hanging == 1

(* Whether #attempt returns the response; accept and empty are the         *)
(* request's acceptStatuses and emptyStatuses.                             *)
Accepted(r, accept, empty) ==
    r.status \in 200 .. 299 \/ r.status \in accept \cup empty

(* The kind of the UpstreamError it throws otherwise.                      *)
ErrorKind(r) ==
    CASE r.status = Broken -> "network"
      [] r.status = Hanging -> "timeout"
      [] r.status = 429 -> "rate_limited"
      [] r.status = 408 \/ r.status >= 500 -> "server_error"
      [] OTHER -> "http"

(* errors.ts: worth another attempt, and evidence against the provider.    *)
RetryableKinds == {"timeout", "network", "rate_limited", "server_error"}

(* errors.ts: isDegradation.                                               *)
DegradationKinds == {"circuit_open", "disabled", "quota_exhausted", "queue_overflow"}

(* requestJson on an accepted response: null, a document, or a throw.      *)
Unparseable(r, empty) == r.status \notin empty /\ r.body.t = "text"

Payload(r, empty) ==
    IF r.status \in empty \/ r.body.t = "blank" THEN Null ELSE r.body
=============================================================================
