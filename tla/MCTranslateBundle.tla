------------------------- MODULE MCTranslateBundle -------------------------
(* A small instance of TranslateBundle for TLC. *)
EXTENDS TranslateBundle, TLC

CONSTANTS opus, nllb, i1, g1, a1, a2, v1

Empty == [m \in Models |-> NoDirectory]
Complete == [dir |-> TRUE, tokenizers |-> TRUE, provenance |-> "full"]
MCInitialBundles ==
    {[m \in Models |-> IF m = opus THEN b ELSE Complete] :
        b \in {NoDirectory, [Complete EXCEPT !.provenance = "base"]}}
MCOrder == <<opus, nllb>>
MCUpdates == { [nc |-> TRUE], [allowed |-> {"passthrough", "llm_cloud"}, blocked |-> {}],
               [provider |-> "auto", glossaries |-> <<g1>>] }
Asked(provider, nc, own, gs) ==
    [provider |-> provider, nc |-> nc, ownGlossaries |-> own, glossaries |-> gs, instructions |-> <<>>]
MCRequests == { Asked("auto", FALSE, TRUE, <<g1>>),
                Asked("tenant_default", FALSE, FALSE, <<>>),
                Asked(nllb, FALSE, TRUE, <<>>), Asked(Cloud, FALSE, TRUE, <<>>),
                Asked("no_such_engine", FALSE, TRUE, <<>>),
                [Asked("auto", TRUE, TRUE, <<>>) EXCEPT !.instructions = <<"no_such_set">>] }
Span(id, page, language) == [id |-> id, page |-> page, language |-> language]
MCDocuments == { [primary |-> "none", spans |-> <<Span("s1", 1, "none"), Span("s2", 2, "en")>>],
                 [primary |-> "fr", spans |-> <<Span("s1", 1, "en"), Span("s1", 2, "fr")>>] }
AdminSymmetry == Permutations(Admins)

(* Nothing reads a request that ended, so that nothing more is explored    *)
(* from there.                                                             *)
Serving == request.at \notin {"done", "failed"}

(* Administrators and validations share nothing, so that one or the other  *)
(* is at work.                                                             *)
OneKindAtWork ==
    \/ \A v \in Validators : checks[v].at = "idle"
    \/ \A a \in Admins : admin[a].at = "idle" /\ glossaryChanges = 0
=============================================================================
