--------------------------- MODULE MCTextFileBatch ---------------------------
EXTENDS TextFileBatch, TLC

In == <<"in">>
Out == <<"in", "out">>
MCPaths == {In \o <<"a">>, In \o <<"b">>, Out \o <<"a">>, Out \o <<"b">>}
MCOriginals == {In \o <<"a">>, In \o <<"b">>}

Ask(source, auto, continue, manifest) ==
    [source |-> source, output |-> Out, autoTarget |-> auto,
     continueOnError |-> continue, writeManifest |-> manifest]
BatchSymmetry == Permutations(Batches)

MCRequests ==
    {Ask(In, FALSE, TRUE, TRUE),             \* the defaults
     Ask(In, FALSE, FALSE, FALSE),           \* stop at the first error, no report
     Ask(In \o <<"a">>, TRUE, TRUE, TRUE),   \* target_language=auto
     Ask(Out, FALSE, TRUE, TRUE),            \* nothing but outputs
     Ask(In \o <<"a">>, FALSE, FALSE, FALSE)} \* one file

\* The theorems apply to these requests.
ASSUME MCOutputsApart == OutputsApart
=============================================================================
