--------------------------- MODULE RiskRegister ---------------------------
(***************************************************************************)
(* The gate on the register of accepted risks,                             *)
(* security/scripts/check-accepted-risks.mjs: a parser of a small subset   *)
(* of YAML, the validation of what it returns, and the exit code.          *)
(*                                                                         *)
(* An author writes the lines of a regular register of two entries and     *)
(* slips a few times: a line is left out, or a line that does not belong   *)
(* there comes before it.  The parser takes the lines as they come.  Then  *)
(* days go by, and the gate may run on any of them.                        *)
(*                                                                         *)
(* Comments and blank lines are skipped by the parser and left out.  The   *)
(* value of a field is a number; review_notes stands for every field whose *)
(* value is a text or a pattern.                                           *)
(***************************************************************************)
EXTENDS Integers, Sequences

CONSTANTS
    MaxSlips,  \* bound: slips of the author
    MaxDay     \* bound: the last day on which the gate runs

VARIABLES
    pos,       \* the next line of the regular register
    slips,
    at,        \* "opening", "front" matter, "body", "failed" or "done"
    root,      \* the parsed keys, each with its scalar value and its entries
    list,      \* currentList, as its key
    entry,     \* currentEntry: there is one
    values,    \* currentEntryList, as its field
    inFront, inFile,  \* lines that look like the start of an entry
    written,   \* history: the entries as the author wrote them
    today

parser == <<at, root, list, entry, values, inFront, inFile, written>>
vars == <<pos, slips, parser, today>>

Line(form, key, value) == [form |-> form, key |-> key, value |-> value]
Fence == Line("fence", "", 0)
Item(id) == Line("item", "id", id)
Field(key, value) == Line("field", key, value)

Accepted == 1
Retired == 2
Statuses == {Accepted, Retired}
MaxLifetime == <<1, 3>>    \* MAX_LIFETIME_DAYS by severity
MinLength == 2             \* MIN_LENGTH
RequiredFields == {"id", "status", "severity", "accepted_on", "expires_on",
                   "review_notes", "threat_ids"}

EntryLines(id, status, expires) ==
    <<Item(id), Field("status", status), Field("severity", 2), Field("accepted_on", 1),
      Field("expires_on", expires), Field("review_notes", MinLength),
      Line("list", "threat_ids", 0), Line("value", "", 7)>>

Regular ==
    <<Fence, Line("scalar", "schema_version", 1), Line("key", "register", 0)>>
    \o EntryLines(1, Accepted, 4) \o EntryLines(2, Accepted, 2)
    \o <<Fence, Line("text", "", 0)>>

\* Lines that come up where they do not belong; a quoted id is written as one,
\* and an entry may begin with another field than its id.
Strays ==
    {Fence, Line("key", "register", 0), Line("key", "notes", 0), Line("scalar", "register", 1),
     Line("scalar", "schema_version", 2), Line("quoted", "id", 2), Item(3),
     Line("item", "status", Accepted), Line("listitem", "threat_ids", 0),
     Field("status", Retired), Field("status", 3), Field("expires_on", 5), Field("expires_on", 0),
     Field("severity", 1), Field("review_notes", MinLength - 1), Field("stauts", Accepted),
     Line("list", "owner", 0), Line("value", "", 0), Line("bad", "", 0)}

Init ==
    /\ pos = 1 /\ slips = 0
    /\ at = "opening"
    /\ root = <<>> /\ list = "" /\ entry = FALSE /\ values = ""
    /\ inFront = 0 /\ inFile = 0
    /\ written = <<>>
    /\ today = 1

-----------------------------------------------------------------------------
(* parseRegister, one line at a time.                                      *)

Fails == at' = "failed" /\ UNCHANGED <<root, list, entry, values>>
Keeps == UNCHANGED at

Key(key, value) == [k \in DOMAIN root \cup {key} |->
                      IF k = key THEN [scalar |-> value, entries |-> <<>>] ELSE root[k]]

\* MUTANT: a second key of the same name replaces the first.
TopLevelReplacing(l) ==
    /\ root' = Key(l.key, l.value)
    /\ list' = IF l.form = "key" THEN l.key ELSE ""
    /\ entry' = FALSE /\ values' = ""
    /\ Keeps

\* Indent 0: a scalar, or the key of a list; a key comes once.
TopLevel(l) ==
    IF l.key \in DOMAIN root THEN Fails
    ELSE /\ root' = Key(l.key, l.value)
         /\ list' = IF l.form = "key" THEN l.key ELSE ""
         /\ entry' = FALSE /\ values' = ""
         /\ Keeps

\* The lines that begin an entry, with its first field or the list of one.
Starts == {"item", "quoted", "listitem"}

\* Indent 2: an entry of the current list begins, with whatever key.
ListItem(l) ==
    IF list = "" THEN Fails
    ELSE /\ root' = [root EXCEPT ![list].entries = Append(@, [k \in {l.key} |-> l.value])]
         /\ entry' = TRUE /\ values' = IF l.form = "listitem" THEN l.key ELSE ""
         /\ UNCHANGED list
         /\ Keeps

Current == root[list].entries[Len(root[list].entries)]
With(e, key, value) == [k \in DOMAIN e \cup {key} |-> IF k = key THEN value ELSE e[k]]
Becomes(e) == root' = [root EXCEPT ![list].entries[Len(root[list].entries)] = e]

\* Indent 4: a field of the current entry, once; its value may be a list.
EntryField(l) ==
    IF ~entry THEN Fails
    ELSE IF l.key \in DOMAIN Current THEN Fails
    ELSE /\ Becomes(With(Current, l.key, l.value))
         /\ values' = IF l.form = "list" THEN l.key ELSE ""
         /\ UNCHANGED <<list, entry>>
         /\ Keeps

\* Indent 6: a value of the field; a malformed one (0) spoils the list.
FieldValue(l) ==
    IF values = "" THEN Fails
    ELSE /\ Becomes(With(Current, values, IF Current[values] = -1 \/ l.value = 0 THEN -1
                                          ELSE Current[values] + 1))
         /\ UNCHANGED <<list, entry, values>>
         /\ Keeps

Parse(l) ==
    CASE l.form \in {"key", "scalar"} -> TopLevel(l)
      [] l.form \in Starts -> ListItem(l)
      [] l.form \in {"field", "list"} -> EntryField(l)
      [] l.form = "value" -> FieldValue(l)
      [] OTHER -> Fails

(* extractFrontmatter: the file begins with a fence, and the next one ends *)
(* what is parsed.                                                         *)
ExtractFrontmatter(l) ==
    CASE at = "opening" /\ l.form = "fence" -> at' = "front" /\ UNCHANGED <<root, list, entry, values>>
      [] at = "front" /\ l.form = "fence" -> at' = "body" /\ UNCHANGED <<root, list, entry, values>>
      [] at = "front" /\ l.form # "fence" -> Parse(l)
      [] at = "opening" /\ l.form # "fence" -> Fails
      [] OTHER -> UNCHANGED <<at, root, list, entry, values>>

\* ENTRY_MARKER: the id comes first and is not quoted.
Plain(l) == l.form = "item" /\ l.key = "id"
Marker(l) == IF Plain(l) THEN 1 ELSE 0

\* A field line is about the entry whose first line stands above it.
Written(l) ==
    CASE l.form \in Starts ->
           Append(written, [fields |-> [k \in {l.key} |-> l.value], under |-> list, front |-> at = "front",
                            plain |-> Plain(l)])
      [] l.form = "field" /\ written # <<>> ->
           [written EXCEPT ![Len(written)].fields =
              IF l.key \in DOMAIN @ THEN @ ELSE With(@, l.key, l.value)]
      [] OTHER -> written

Read(l) ==
    /\ ExtractFrontmatter(l)
    /\ inFile' = inFile + Marker(l)
    /\ inFront' = IF at = "front" THEN inFront + Marker(l) ELSE inFront
    /\ written' = Written(l)

-----------------------------------------------------------------------------
(* validate.                                                               *)

Expired(e) == e["expires_on"] < today

\* parseDate accepts both, the window is open, and not longer than it may be.
DatesHold(e) ==
    /\ e["accepted_on"] > 0 /\ e["expires_on"] > 0
    /\ e["accepted_on"] < e["expires_on"]
    /\ e["accepted_on"] <= today
    /\ e["expires_on"] - e["accepted_on"] <= MaxLifetime[e["severity"]]
    /\ e["status"] = Accepted => ~Expired(e)

EntryHolds(e) ==
    /\ DOMAIN e = RequiredFields
    /\ e["status"] \in Statuses
    /\ e["severity"] \in DOMAIN MaxLifetime
    /\ e["review_notes"] >= MinLength
    /\ e["threat_ids"] > 0
    /\ DatesHold(e)

\* An empty register is a legitimate one.
Validates ==
    /\ "schema_version" \in DOMAIN root /\ root["schema_version"].scalar = 1
    /\ "register" \in DOMAIN root
    /\ root["register"].scalar = 0
    /\ LET es == root["register"].entries IN
       /\ \A i \in DOMAIN es : EntryHolds(es[i])
       /\ \A i, j \in DOMAIN es : i # j => es[i]["id"] # es[j]["id"]

\* Exit code 0: both fences are there, no entry is outside, and all hold.
Green == at = "done" /\ inFile = inFront /\ Validates

-----------------------------------------------------------------------------

Copy ==
    /\ pos <= Len(Regular)
    /\ Read(Regular[pos])
    /\ pos' = pos + 1 /\ UNCHANGED <<slips, today>>

Slip == slips < MaxSlips /\ slips' = slips + 1 /\ at # "failed" /\ UNCHANGED today

Omit ==
    /\ pos <= Len(Regular) /\ Slip
    /\ pos' = pos + 1 /\ UNCHANGED parser

Insert(l) ==
    /\ pos <= Len(Regular) /\ Slip
    /\ Read(l)
    /\ UNCHANGED pos

EndOfFile ==
    /\ pos > Len(Regular) /\ at \in {"opening", "front", "body"}
    /\ at' = IF at = "body" THEN "done" ELSE "failed"
    /\ UNCHANGED <<pos, slips, root, list, entry, values, inFront, inFile, written, today>>

NextDay ==
    /\ at = "done" /\ today < MaxDay
    /\ today' = today + 1
    /\ UNCHANGED <<pos, slips, parser>>

Next ==
    \/ at # "failed" /\ (Copy \/ Omit)
    \/ \E l \in Strays : Insert(l)
    \/ EndOfFile \/ NextDay

Spec == Init /\ [][Next]_vars

-----------------------------------------------------------------------------

\* An entry says of itself that it is accepted and when that ends.
RunOut(w) == /\ {"status", "expires_on"} \subseteq DOMAIN w.fields
             /\ w.fields["status"] = Accepted /\ Expired(w.fields)

(* "A lenient parser that silently mis-reads the register would let an     *)
(* expired entry pass, which is the one outcome this script exists to      *)
(* prevent" (check-accepted-risks.mjs): however the author slips, on a day *)
(* on which the gate is green no accepted risk he wrote in the list of the *)
(* register, or outside the front matter with a plain id first, has run    *)
(* out.                                                                    *)
NothingExpiredPasses ==
    Green => \A i \in DOMAIN written :
        RunOut(written[i]) => \/ written[i].front /\ written[i].under # "register"
                              \/ ~written[i].front /\ ~written[i].plain

=============================================================================
