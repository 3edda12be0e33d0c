----------------------------- MODULE MCServing -----------------------------
(***************************************************************************)
(* Small projects and requests for Serving: a file or link at the top, a   *)
(* directory with two entries or a link in its place, a page with a        *)
(* compressed one beside it, a 404 page and a _redirects file.             *)
(***************************************************************************)
EXTENDS Serving

MCRootPath == <<"g", "public">>

None == Node("none")
File == Node("file")
Dir == Node("dir")

\* Links: up and down, out of the root and back, to itself, absolute.
As == {None, File, Link(FALSE, <<"d">>), Link(FALSE, <<"d", "a">>),
       Link(FALSE, <<"a">>), Link(FALSE, <<"d", "..", "a.html">>),
       Link(FALSE, <<"..", "public", "d", "">>), Link(FALSE, <<"_redirects">>),
       Link(TRUE, <<"g", "public", "d">>), Link(TRUE, <<"d", "a">>),
       Link(TRUE, <<"_redirects">>)}
DAs == {None, File, Link(FALSE, <<"..", "a">>), Link(FALSE, <<"..", "a.html">>),
        Link(FALSE, <<"..", "..", "public", "a.html">>),
        Link(TRUE, <<"g", "public", "a.html">>)}
Indexes == {None, File, Link(FALSE, <<"a">>), Link(FALSE, <<"..", "a.html">>)}

\* a.html, and 404.html and _redirects.
Pages == {<<None, File>>, <<[File EXCEPT !.gz = TRUE], None>>,
          <<Dir, File>>}

Project(a, d, da, index, page, special) ==
    <<>> :> Dir @@ <<"a">> :> a @@ <<"d">> :> d @@ <<"d", "a">> :> da
    @@ <<"d", "index.html">> :> index @@ <<"a.html">> :> page
    @@ <<"404.html">> :> special @@ <<"_redirects">> :> special

NoProject == <<>> :> None
NotADirectory == <<>> :> File

MCDeployed ==
    {NoProject, NotADirectory,
     Project(File, Dir, File, None, Dir, File),
     Project(Link(FALSE, <<"d", "a">>), Dir, Link(FALSE, <<"..", "a">>), File,
             [File EXCEPT !.gz = TRUE], None),
     Project(None, Link(FALSE, <<"a">>), None, None, File, File)}

MCTrees ==
    MCDeployed
    \cup {Project(a, Dir, da, None, p[1], p[2]) :
            a \in As, da \in {File, Link(FALSE, <<"..", "a">>)}, p \in Pages}
    \cup {Project(a, Dir, da, i, p[1], p[2]) :
            a \in {None, Link(FALSE, <<"d">>)}, da \in DAs,
            i \in {None, Link(FALSE, <<"..", "a.html">>)}, p \in Pages}
    \cup {Project(None, Dir, File, i, p[1], p[2]) : i \in Indexes, p \in Pages}
    \cup {Project(a, Link(FALSE, <<"a">>), None, None, p[1], p[2]) :
            a \in As, p \in Pages}

Subs == {<<>>, <<"a">>, <<"d">>, <<"d", "a">>, <<"d", "..", "a">>, <<"..">>,
         <<"..", "public", "a">>, <<"_redirects">>, <<"a.html">>}

\* The sub path may have been cleaned of the trailing slash of the URL; then
\* the client also takes compressed files.
MCRequests ==
    {[sub |-> s, vol |-> v, slash |-> l, gzip |-> l] :
        s \in Subs, v \in BOOLEAN, l \in BOOLEAN}
    \cup {[sub |-> Append(s, ""), vol |-> v, slash |-> TRUE, gzip |-> FALSE] :
            s \in Subs \ {<<>>}, v \in BOOLEAN}

MCHtmlNames ==
    [n \in {"a", "d", "..", "_redirects", "index", "404", "a.html"} |->
        CASE n = "a" -> "a.html" [] n = "d" -> "d.html" [] n = ".." -> "...html"
          [] n = "_redirects" -> "_redirects.html" [] n = "index" -> "index.html"
          [] n = "404" -> "404.html" [] n = "a.html" -> "a.html.html"]

MCRules == << [from |-> <<"a">>, valid |-> FALSE],
              [from |-> <<"d", "a", "">>, valid |-> TRUE] >>
=============================================================================
