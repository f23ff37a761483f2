---------------------------- MODULE MCWebCrawler ----------------------------
(* Instances of WebCrawler for TLC.                                        *)
EXTENDS WebCrawler

CONSTANTS s, a, b, x, y, d1, d2, e1, e2

MCUrls == {s, a, b, x, y}

\* A cycle, pages that can be reached by ways of different length, and pages
\* that crash, in the download or when their links are read.
WebLinks == (s :> <<a, x>> @@ a :> <<s, x>> @@ x :> <<y, b>> @@ b :> <<s>> @@ y :> <<>>)
SomeCrash == [u \in MCUrls |->
    CASE u = b -> "extract crash" [] u = y -> "crash" [] OTHER -> "ok"]

\* The page x is one link away from s, and also two (by a); y is behind x.
ShortcutLinks == (s :> <<a, x>> @@ a :> <<x>> @@ b :> <<>> @@ x :> <<y>> @@ y :> <<>>)

\* A start page with links to two others, one of which cannot be read, and to
\* itself; x is behind b.
SmallLinks == (s :> <<a, b, s>> @@ a :> <<s>> @@ b :> <<x>> @@ x :> <<>> @@ y :> <<>>)

AllOk == [u \in MCUrls |-> "ok"]
OneFails == [u \in MCUrls |-> IF u = a THEN "extract fails" ELSE "ok"]

\* The threads of a pool are interchangeable.
PoolSymmetry == Permutations({d1, d2}) \cup Permutations({e1, e2})
=============================================================================
