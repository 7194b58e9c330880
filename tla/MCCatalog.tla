----------------------------- MODULE MCCatalog -----------------------------
EXTENDS Catalog, TLC

CONSTANTS c1, d1, d2, d3, d4

MCIds == {c1, d1, d2, d3, d4}
MCSeeds == {[id |-> c1, name |-> "a"]}

Make(kind, category, names, ms) ==
    [kind |-> kind, csrf |-> TRUE, category |-> category, names |-> names, movies |-> ms]

\* Lists that share their names in opposite orders, and every kind of refusal.
MCBodies == { Make("names", c1, <<"a", "b">>, <<>>),
              Make("names", c1, <<"b", "a">>, <<>>),
              Make("names", d1, <<"a">>, <<>>),
              Make("names", c1, <<"a", Empty>>, <<>>),
              Make("names", None, <<"a">>, <<>>),
              Make("movies", None, <<"b", "a">>, <<>>),
              Make("movies", None, <<"a", "a">>, <<>>),
              Make("movies", None, <<Empty>>, <<>>),
              Make("movies", None, <<>>, <<>>),
              Make("categories", None, <<"b">>, <<>>),
              Make("nominees", c1, <<"b", "a">>, <<d2, d1>>),
              Make("nominees", c1, <<"a", "b">>, <<d1, d2>>),
              Make("nominees", c1, <<"a">>, <<None>>),
              [Make("movies", None, <<"a">>, <<>>) EXCEPT !.csrf = FALSE] }
=============================================================================
