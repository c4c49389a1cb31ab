----------------------------- MODULE MCConsent -----------------------------
(* What the product asks of a person about its legal documents, and what it  *)
(* shows of them to anybody: the handshake in front of the gate, and the     *)
(* public pages behind an HTTP cache.  Reading a page changes nothing the    *)
(* gate looks at, so a behaviour exercises one of them.                      *)
(*                                                                           *)
(* The registries of five builds.  Build 1 publishes the documents from an   *)
(* image without their texts; build 2 corrects the policy; build 3 makes a   *)
(* material change to it; build 4 corrects that without asking again; build  *)
(* 5 redefines the version build 3 published.  The words of the consent      *)
(* screen are published and not accepted.                                    *)
EXTENDS LegalPages

VARIABLE part

Rev(v, e, m, t) == [version |-> v, epoch |-> e, material |-> m, text |-> t]
MCDocs == <<"terms", "privacy", "presentation">>
MCRegistry ==
    [b \in 1..5 |->
       [d \in {"terms", "privacy", "presentation"} |->
          CASE d = "terms"        -> Rev(1, 1, TRUE, "t1")
            [] d = "presentation" -> Rev(1, 1, TRUE, "s1")
            [] b = 1              -> Rev(1, 1, TRUE, "p1")
            [] b = 2              -> Rev(4, 1, FALSE, "p1 corrected")
            [] b = 3              -> Rev(2, 2, TRUE, "p2")
            [] b = 4              -> Rev(3, 2, FALSE, "p3")
            [] OTHER              -> Rev(2, 2, TRUE, "p2 redefined")]]

pages == <<web, page, told, reads>>

\* No query fails while the pages are read.
MCInit ==
    /\ part \in {"consent", "pages"}
    /\ PagesInit

MCNext ==
    /\ part' = part
    /\ \/ part = "consent" /\ Next /\ UNCHANGED pages
       \/ part = "pages" /\ PagesNext /\ UNCHANGED faults

MCSpec ==
    /\ MCInit /\ [][MCNext]_<<vars, pages, part>>
    /\ part = "consent" => Fairness

MCHandshakeCompletes == part = "consent" => HandshakeCompletes
=============================================================================
