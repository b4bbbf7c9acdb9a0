--------------------------- MODULE MCBrowserActions ---------------------------
(***************************************************************************)
(* A page of another site and the pages of YouTube; every kind of action,  *)
(* the targets named in each of the three ways.                            *)
(***************************************************************************)
EXTENDS BrowserActions

El(name, match, short, long) ==
    [name |-> name, match |-> match, short |-> short, long |-> long]

Button == El("button", 2, FALSE, FALSE)
Link == El("link", 1, FALSE, FALSE)
Short == El("short", 2, TRUE, FALSE)
Video == El("video", 2, FALSE, TRUE)
Lyrics == El("lyrics", 1, FALSE, TRUE)

Pg(at, shown, blocked) == [at |-> at, shown |-> shown, blocked |-> blocked]

\* Bound: two elements on a page, in both orders where they change places.
SomePages ==
    {Pg("site", <<Button, Link>>, FALSE), Pg("site", <<Link, Button>>, FALSE),
     Pg("results", <<Video, Short>>, FALSE), Pg("results", <<Short, Lyrics>>, FALSE),
     Pg("results", <<Video>>, TRUE), Pg("watch", <<Button>>, FALSE),
     Pg("shorts", <<>>, FALSE)}

Act(kind, by, ref, expected) ==
    [kind |-> kind, by |-> by, ref |-> ref, expected |-> expected]

SomeActions ==
    {Act("navigate", "none", 0, {"site"}), Act("key", "none", 0, {}),
     Act("tab", "none", 0, {}), Act("close", "none", 0, {}), Act("read", "none", 0, {}),
     Act("click", "ref", 1, {}), Act("click", "query", 0, {"watch"}),
     Act("click", "held", 0, {}), Act("fill", "query", 0, {}),
     Act("song", "none", 0, {})}

=============================================================================
