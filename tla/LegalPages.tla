----------------------------- MODULE LegalPages -----------------------------
(***************************************************************************)
(* The public document routes of routes/v1/legal.ts over the nodes and the *)
(* revision table of Consent, read through an HTTP cache: the list and the *)
(* current text of a document are moving pointers that are revalidated     *)
(* before every use, the text of a version is kept for good.               *)
(*                                                                         *)
(* An entity tag is a digest of the body, so it stands for the body.       *)
(***************************************************************************)
EXTENDS Consent

CONSTANT MaxReads    \* bound: reads

VARIABLES
    web,    \* the HTTP cache: the response it keeps for each URL
    page,   \* what the last step handed to the reader
    told,   \* the entries of the last list handed to the reader
    reads

Versions == {Registry[b][d].version : b \in Builds, d \in Published}
Url(kind, d, v) == [kind |-> kind, doc |-> d, version |-> v]
Urls == {Url("list", "none", 0)} \cup {Url("current", d, 0) : d \in Published}
        \cup {Url("version", d, v) : d \in Published, v \in Versions}

Response(status, body) == [status |-> status, body |-> body]
Nothing == Response(0, {})
NoPage == [url |-> Url("none", "none", 0), response |-> Nothing]

PagesInit == Init /\ web = [u \in Urls |-> Nothing] /\ page = NoPage /\ told = {} /\ reads = 0

-----------------------------------------------------------------------------
(* The routes, of a node whose registry is published.                      *)

\* MUTANT: every document is sent with the policy of a version.
KeptForGood(url) == url.kind # "list"

\* IMMUTABLE_CACHE, as against REVALIDATE_CACHE
Immutable(url) == url.kind = "version"

\* sendDocument on the result of textFor
SendDocument(n, d, v) ==
    IF RowOf(d, v) = {} THEN Response(422, {})
    ELSE IF ~Serves(n, [doc |-> d, version |-> v]) THEN Response(503, {})
    ELSE Response(200, {Row(d, v).text})

\* requirePresentation: what is published and need not be accepted
NoPresentation == Published \subseteq Required

ListDocuments(n) ==
    IF NoPresentation THEN Response(503, {})
    ELSE Response(200, {Entry(build[n], d) : d \in Published})

Answer(n, url) ==
    CASE url.kind = "list"    -> ListDocuments(n)
      [] url.kind = "current" -> SendDocument(n, url.doc, Registry[build[n]][url.doc].version)
      [] OTHER                -> SendDocument(n, url.doc, url.version)

\* conditionalHit: the tag the cache sends along is that of the answer.
ConditionalHit(kept, r) == kept.status = 200 /\ kept.body = r.body

\* notModified: a 304 has no body, and the cache answers with the one it keeps.
NotModified(kept, r) == IF r.status = 200 /\ ConditionalHit(kept, r) THEN kept ELSE r

-----------------------------------------------------------------------------
(* A reader, behind the cache.                                             *)

Hand(url, r) ==
    /\ reads < MaxReads /\ reads' = reads + 1
    /\ page' = [url |-> url, response |-> r]
    /\ told' = IF url.kind = "list" /\ r.status = 200 THEN r.body ELSE told
    /\ UNCHANGED vars

FromCache(url) ==
    /\ web[url].status = 200 /\ Immutable(url)
    /\ Hand(url, web[url])
    /\ UNCHANGED web

Fetch(n, url) ==
    LET r == NotModified(web[url], Answer(n, url)) IN
    /\ ~(web[url].status = 200 /\ Immutable(url))
    /\ Ready(n)
    /\ Hand(url, r)
    /\ web' = IF r.status = 200 THEN [web EXCEPT ![url] = r] ELSE web

PagesNext ==
    \/ \E url \in Urls : FromCache(url) \/ \E n \in Nodes : Fetch(n, url)
    \/ /\ \E n \in Nodes : Publish(n) \/ \E b \in Builds : Deploy(n, b)
       /\ page' = NoPage /\ UNCHANGED <<web, told, reads>>

PagesSpec == PagesInit /\ [][PagesNext]_<<vars, web, page, told, reads>>

-----------------------------------------------------------------------------

(* legal.ts on the moving pointer: "A stale answer here hands a client      *)
(* superseded text".  Whatever the cache kept before a deploy, the current *)
(* text a reader is handed is one that a node declares now; and a version  *)
(* that a list named is known to every node, and its text is the one whose *)
(* digest the list gave, also after other builds took over.                *)
LegalTextIsTheOneAsked ==
    LET url == page.url
        r == page.response IN
    /\ url.kind = "current" /\ r.status = 200 =>
         \E n \in Nodes : r.body = {Registry[build[n]][url.doc].text}
    /\ url.kind = "version" => \A e \in told :
         e.doc = url.doc /\ e.version = url.version =>
            r.status # 422 /\ (r.status = 200 => r.body = {e.text})
=============================================================================
