------------------------ MODULE MCDatasetCollection ------------------------
EXTENDS DatasetCollection

MCIndexOrder == <<"sse", "szse">>

Breadth == {<<"breadth", 2>>}
ActiveDirection == {<<"activeDirection", 2>>}
Limits == {<<"limits", 1>>, <<"limits", 2>>}
Core == {<<"core", 2>>}
Sectors == {<<"industry-ranking", 2>>, <<"sector-turnover", 2>>, <<"sector-breadth", 2>>}
MCScopes == {Breadth, ActiveDirection, Limits, Core, Sectors}

\* Two collections of a key meet over a lapsed lease; the sectors need one of
\* each dataset and a second one, and a day that has settled.
MCBound ==
    [s \in MCScopes |->
        IF s = Sectors THEN [collections |-> 4, lapses |-> 0, changes |-> 1, from |-> 2]
                       ELSE [collections |-> 2, lapses |-> 1, changes |-> 0, from |-> 0]]
=============================================================================
