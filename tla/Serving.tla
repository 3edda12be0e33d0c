------------------------------ MODULE Serving ------------------------------
(***************************************************************************)
(* Serving a file of a project from disk: ServeFileHTTP of                 *)
(* internal/serving/disk, then ServeNotFoundHTTP if it found none, with    *)
(* the walk over symbolic links of symlink.go, the local file system of    *)
(* internal/vfs/local and the _redirects file.                             *)
(*                                                                         *)
(* Each system call sees the tree as it is at that moment; a deployment    *)
(* may replace the tree between any two of them.                           *)
(*                                                                         *)
(* A path is a sequence of names; an empty last name is a trailing slash.  *)
(***************************************************************************)
EXTENDS Naturals, Sequences, SequencesExt

CONSTANTS
    RootPath,    \* the directories that lead to the root of the project
    Trees,       \* what may be deployed when the request arrives
    Deployed,    \* the trees a deployment may replace by one another
    Requests,    \* [sub, vol, slash, gzip]: the sub path, whether it starts
                 \* with a slash, whether the URL ends with one, and whether
                 \* the client takes compressed files
    HtmlNames,   \* for each name, the name with .html appended
    Rules,       \* the rules of _redirects: [from, valid], where from is
                 \* without the prefix of the project
    MaxLinks,    \* links walkSymlinks follows: 255
    MaxDeploys   \* bound: deployments during the request

VARIABLES
    pc,       \* the next system call
    tree,     \* the tree that is deployed: a function from paths to nodes
    req,      \* the request
    attempt,  \* the path that is resolved: "sub", "index", "html" or "404"
    dest,     \* walkSymlinks: [abs, names], what has been walked
    rest,     \* walkSymlinks: the rest of path
    links,    \* walkSymlinks: linksWalked
    gz,       \* the compressed file is served
    stale,    \* the file that is open was replaced before Lstat
    answer,   \* the responses written
    deploys   \* number of deployments so far

vars == <<pc, tree, req, attempt, dest, rest, links, gz, stale, answer, deploys>>
walk == <<dest, rest, links>>

-----------------------------------------------------------------------------
(* The file system.                                                        *)

\* A node: a file (perhaps with a compressed one beside it), a directory or a
\* link to a path, which is absolute if it starts at "/".
Node(kind) == [kind |-> kind, gz |-> FALSE, abs |-> FALSE, to |-> <<>>]
Link(abs, to) == [kind |-> "link", gz |-> FALSE, abs |-> abs, to |-> to]

Suffix(place) == SubSeq(place, Len(RootPath) + 1, Len(place))

\* The node at an absolute path. Outside of the project only the directories
\* that lead to it are of interest.
NodeAt(t, place) ==
    IF IsPrefix(RootPath, place)
    THEN IF Suffix(place) \in DOMAIN t THEN t[Suffix(place)] ELSE Node("none")
    ELSE Node(IF IsPrefix(place, RootPath) THEN "dir" ELSE "none")

Nowhere == <<"nowhere">>

\* An absolute link that leads to something below the root.
Local(to) == IsPrefix(RootPath, to) /\ to # RootPath

\* Where a path leads from a directory, or Nowhere; the directories it goes back
\* to on its way; and whether it is jailed: an absolute link that does not lead
\* into the project is taken to start at the project's root.
Follow(t, from, names) ==
    LET end(at) == [place |-> at, back |-> {}, jailed |-> FALSE]
        go[at \in Seq(STRING), path \in Seq(STRING), fuel \in Nat] ==
            IF path = <<>> THEN end(at)
            ELSE LET name == Head(path)
                     next == Append(at, name)
                     node == NodeAt(t, next)
                     onward == node.to \o Tail(path)
                     shared == LongestCommonPrefix({at, node.to})
                 IN  CASE name = "" -> go[at, Tail(path), fuel]
                       [] name = ".." ->
                            [go[Front(at), Tail(path), fuel] EXCEPT
                                !.back = @ \cup {Front(at)}]
                       [] node.kind = "file" /\ Tail(path) = <<>> -> end(next)
                       [] node.kind = "dir" -> go[next, Tail(path), fuel]
                       [] node.kind = "link" /\ fuel > 0 ->
                            CASE ~node.abs -> go[at, onward, fuel - 1]
                              [] node.abs /\ Local(node.to) ->
                                    [go[<<>>, onward, fuel - 1] EXCEPT
                                        !.back = @ \cup ({shared} \ {at})]
                              [] OTHER -> [go[RootPath, onward, fuel - 1] EXCEPT
                                                !.jailed = TRUE]
                       [] OTHER -> end(Nowhere)
    IN  go[from, names, MaxLinks]

\* filepath.Join(rootPath, path): ".." is removed together with what is before.
Join(names) ==
    LET upTo[i \in 0..Len(names)] ==
            IF i = 0 THEN RootPath
            ELSE LET place == upTo[i - 1]
                 IN  CASE names[i] = ".." -> SubSeq(place, 1, Len(place) - 1)
                       [] names[i] = "" -> place
                       [] OTHER -> Append(place, names[i])
    IN  upTo[Len(names)]

validatePath(place) == IsPrefix(RootPath, place)

\* What lstat(2) finds: links on the way are followed.
Kernel ==
    [place \in Seq(STRING) |->
        CASE ~validatePath(place) -> Node("none")
          [] place = RootPath -> NodeAt(tree, place)
          [] OTHER -> NodeAt(tree, Append(Follow(tree, <<>>, Front(place)).place,
                                          Last(place)))]

Lstat(names) == Kernel[Join(names)]

\* Root.Readlink: a link into the project is made relative to its directory.
Readlink(names) ==
    LET node == Lstat(names)
        dir == Front(Join(names))
        up == Len(dir) - Len(LongestCommonPrefix({dir, node.to}))
    IN  IF node.abs /\ Local(node.to)
        THEN Link(FALSE, [i \in 1..up |-> ".."] \o
                         SubSeq(node.to, Len(dir) - up + 1, Len(node.to)))
        ELSE node

\* Clean: ".." is removed together with the name before it.
Clean(names) ==
    LET upTo[i \in 0..Len(names)] ==
            IF i = 0 THEN <<>>
            ELSE LET path == upTo[i - 1]
                 IN  IF names[i] = ".." /\ path # <<>> /\ Last(path) # ".."
                     THEN Front(path) ELSE Append(path, names[i])
    IN  upTo[Len(names)]

-----------------------------------------------------------------------------
(* Requests.                                                               *)

\* The paths resolvePath is given.
Path(what) ==
    LET sub == IF req.sub # <<>> /\ Last(req.sub) = "" THEN Front(req.sub)
                                                       ELSE req.sub
    IN  CASE what = "sub" -> req.sub
          [] what = "index" -> Append(req.sub, "index.html")
          [] what = "html" -> Append(Front(sub), HtmlNames[Last(sub)])
          [] what = "404" -> <<"404.html">>

\* They start with a slash if the sub path does; an empty sub path joined with
\* index.html does too.
Slash(what) ==
    CASE what = "404" -> FALSE
      [] what = "index" -> req.vol \/ req.sub = <<>>
      [] OTHER -> req.vol

\* endsWithoutHTMLExtension
NoExtension(names) ==
    names = <<>> \/ \A name \in DOMAIN HtmlNames : Last(names) # HtmlNames[name]

Init ==
    /\ pc = "root" /\ attempt = "sub"
    /\ tree \in Trees /\ req \in Requests
    /\ dest = [abs |-> FALSE, names |-> <<>>] /\ rest = <<>> /\ links = 0
    /\ gz = FALSE /\ stale = FALSE /\ answer = <<>> /\ deploys = 0

\* A deployment replaces the files of the project.
Deploy ==
    /\ pc # "done"
    /\ deploys < MaxDeploys /\ deploys' = deploys + 1
    /\ tree \in Deployed
    /\ tree' \in Deployed \ {tree}
    /\ stale' = (stale \/ pc = "size")
    /\ UNCHANGED <<pc, req, attempt, walk, gz, answer>>

GoTo(step) == pc' = step /\ UNCHANGED <<attempt, walk, answer>>

\* resolvePath begins.
Resolve(what) ==
    /\ pc' = "walk" /\ attempt' = what
    /\ dest' = [abs |-> Slash(what), names |-> <<>>]
    /\ rest' = Path(what) /\ links' = 0
    /\ answer' = answer

Response(kind, names) == [kind |-> kind, place |-> Join(names), gz |-> gz]

Respond(kind, names) ==
    /\ pc' = "done"
    /\ answer' = <<Response(kind, names)>>
    /\ UNCHANGED <<attempt, walk>>

\* No file was found: tryFile or tryNotFound returns false.
NoFile == IF attempt = "404" THEN Respond("404", <<>>) ELSE GoTo("redirects")

\* vfs.Root, the first thing tryFile, tryRedirects and tryNotFound do.
Root ==
    /\ pc \in {"root", "redirects", "notFound"}
    /\ \E kind \in {Lstat(<<>>).kind} :
           \/ /\ pc = "root"
              /\ CASE kind = "dir" -> Resolve("sub")
                   [] kind = "none" -> GoTo("redirects")
                   [] OTHER -> Respond("500", <<>>)
           \/ /\ pc = "redirects"
              /\ CASE kind = "dir" -> GoTo("config")
                   [] kind = "none" -> GoTo("notFound")
                   [] OTHER -> Respond("500", <<>>)
           \/ /\ pc = "notFound"
              /\ CASE kind = "dir" -> Resolve("404")
                   [] kind = "none" -> Respond("404", <<>>)
                   [] OTHER -> Respond("500", <<>>)
    /\ UNCHANGED <<tree, req, gz, stale, deploys>>

-----------------------------------------------------------------------------
(* walkSymlinks and resolvePath.                                           *)

vol == Slash(attempt)

\* EvalSymlinks has failed.
WalkFails ==
    IF attempt = "sub" /\ NoExtension(req.sub) THEN Resolve("html") ELSE NoFile

\* Slip: ".." removes the last name, whatever it is.
BacktrackAlways(d) ==
    IF d.names = <<>> THEN d ELSE [d EXCEPT !.names = Front(@)]

\* ".." is kept after the first name of a relative path and after another "..".
Backtrack(d) ==
    CASE d.abs /\ Len(d.names) <= 1 -> [abs |-> FALSE, names |-> <<>>]
      [] ~d.abs /\ (Len(d.names) <= 1 \/ Last(d.names) = "..") ->
            [d EXCEPT !.names = Append(@, "..")]
      [] OTHER -> [d EXCEPT !.names = Front(@)]

\* Slip: links are followed without counting them.
FollowsForever(d, name) ==
    \E next \in {[d EXCEPT !.names = Append(@, name)]} :
    \E node \in {Lstat(next.names)} :
        CASE node.kind = "link" ->
                /\ pc' = "readlink" /\ dest' = next /\ rest' = Tail(rest)
                /\ UNCHANGED <<attempt, answer, links>>
          [] node.kind = "dir" \/ (node.kind = "file" /\ Tail(rest) = <<>>) ->
                /\ dest' = next /\ rest' = Tail(rest)
                /\ UNCHANGED <<pc, attempt, answer, links>>
          [] OTHER -> WalkFails

\* An ordinary name is added to dest and looked up.
Component(d, name) ==
    \E next \in {[d EXCEPT !.names = Append(@, name)]} :
    \E node \in {Lstat(next.names)} :
        CASE node.kind = "link" /\ links < MaxLinks ->
                /\ pc' = "readlink" /\ dest' = next /\ rest' = Tail(rest)
                /\ links' = links + 1
                /\ UNCHANGED <<attempt, answer>>
          [] node.kind = "dir" \/ (node.kind = "file" /\ Tail(rest) = <<>>) ->
                /\ dest' = next /\ rest' = Tail(rest)
                /\ UNCHANGED <<pc, attempt, answer, links>>
          [] OTHER -> WalkFails

\* One turn of the loop of walkSymlinks.
walkSymlinks ==
    /\ pc = "walk"
    /\ CASE rest = <<>> -> GoTo("lstat")
         [] rest # <<>> /\ Head(rest) = "" ->
                /\ rest' = Tail(rest)
                /\ UNCHANGED <<pc, attempt, answer, dest, links>>
         [] rest # <<>> /\ Head(rest) = ".." ->
                IF vol /\ Len(dest.names) <= 1 THEN WalkFails
                ELSE /\ dest' = Backtrack(dest) /\ rest' = Tail(rest)
                     /\ UNCHANGED <<pc, attempt, answer, links>>
         [] OTHER -> Component(dest, Head(rest))
    /\ UNCHANGED <<tree, req, gz, stale, deploys>>

\* The link is read and put in front of the rest of the path.
FollowLink ==
    /\ pc = "readlink"
    /\ \E link \in {Readlink(dest.names)} :
           IF link.kind = "link"
           THEN /\ pc' = "walk"
                /\ rest' = link.to \o rest
                /\ dest' = IF link.abs THEN [abs |-> TRUE, names |-> <<>>]
                           ELSE [abs |-> vol \/ (dest.abs /\ Len(dest.names) > 1),
                                 names |-> Front(dest.names)]
                /\ UNCHANGED <<attempt, links, answer>>
           ELSE WalkFails
    /\ UNCHANGED <<tree, req, gz, stale, deploys>>

\* What tryFile and tryNotFound make of a path that was resolved. The path of
\* _redirects is compared as a string.
tryFile(node) ==
    CASE node.kind = "dir" /\ attempt = "sub" ->
            IF req.slash THEN Resolve("index") ELSE Respond("slash", <<>>)
      [] node.kind = "file" ->
            IF attempt # "404" /\ ~dest.abs
                /\ Clean(dest.names) = <<"_redirects">>
            THEN Respond("status", <<>>) ELSE GoTo("encoding")
      [] OTHER -> NoFile

\* The end of resolvePath.
resolvePath ==
    /\ pc = "lstat"
    /\ \E node \in {Lstat(dest.names)} : tryFile(node)
    /\ UNCHANGED <<tree, req, gz, stale, deploys>>

-----------------------------------------------------------------------------
(* serveFile and serveCustomFile.                                          *)

handleContentEncoding ==
    /\ pc = "encoding"
    /\ gz' = (req.gzip /\ Lstat(dest.names).gz)
    /\ GoTo("open")
    /\ UNCHANGED <<tree, req, stale, deploys>>

\* Root.Open, of the compressed file if that is the one to serve.
Open(node) == IF gz THEN node.gz ELSE node.kind = "file"

\* A file whose name has no known extension is opened to look at its content.
detectContentType(node) == NoExtension(dest.names) => node.kind = "file"

\* Open, then Lstat for the size, then detectContentType, then the copy. A
\* custom 404 page is copied up to the size: if the open file is shorter, a
\* 500 follows.
serveFile ==
    /\ pc \in {"open", "size", "type"}
    /\ \E node \in {Lstat(dest.names)} :
           \/ /\ pc = "open"
              /\ IF Open(node) THEN GoTo("size") ELSE Respond("500", <<>>)
           \/ /\ pc = "size"
              /\ IF IF gz THEN node.gz ELSE node.kind # "none"
                 THEN GoTo("type") ELSE Respond("500", <<>>)
           \/ /\ pc = "type"
              /\ IF detectContentType(node)
                 THEN Respond(IF attempt = "404" THEN "custom404" ELSE "page",
                              dest.names)
                 ELSE Respond("500", <<>>)
           \/ /\ pc = "type" /\ attempt = "404" /\ stale
              /\ pc' = "done"
              /\ answer' = <<Response("custom404", dest.names),
                             Response("500", <<>>)>>
              /\ UNCHANGED <<attempt, walk>>
    /\ UNCHANGED <<tree, req, gz, stale, deploys>>

-----------------------------------------------------------------------------
(* The _redirects file.                                                    *)

normalizePath(names) ==
    IF names # <<>> /\ Last(names) = "" THEN Front(names) ELSE names

match ==
    {i \in DOMAIN Rules : /\ Rules[i].valid
                          /\ normalizePath(Rules[i].from) = normalizePath(req.sub)}

\* ParseRedirects, called by tryRedirects after Root: first Lstat, then Open.
ParseRedirects ==
    /\ pc = "config"
    /\ \E config \in {Lstat(<<"_redirects">>)} :
           GoTo(IF config.kind = "file" THEN "rules" ELSE "notFound")
    /\ UNCHANGED <<tree, req, gz, stale, deploys>>

\* The rest of tryRedirects: the rules are read, and the first match used.
tryRedirects ==
    /\ pc = "rules"
    /\ \E config \in {Lstat(<<"_redirects">>)} :
           IF config.kind = "file" /\ match # {} THEN Respond("redirect", <<>>)
                                                 ELSE GoTo("notFound")
    /\ UNCHANGED <<tree, req, gz, stale, deploys>>

Step ==
    \/ Root \/ walkSymlinks \/ FollowLink \/ resolvePath
    \/ handleContentEncoding \/ serveFile \/ ParseRedirects \/ tryRedirects

Next == Step \/ Deploy

\* The goroutine of the request is scheduled.
Spec == Init /\ [][Next]_vars /\ WF_vars(Step)

-----------------------------------------------------------------------------
(* Properties.                                                             *)

Found(what) == Follow(tree, RootPath, Path(what))

IsConfig(what) == Found(what).place = RootPath \o <<"_redirects">>

\* What the documentation of GitLab Pages promises for a path: the file it
\* leads to, index.html of a directory, the file with .html appended, a
\* redirect of _redirects, the project's own 404 page or the generic one. In
\* place of _redirects itself its status is shown.
Expected ==
    LET found(what) == Found(what).place
        inside(what) == IF IsPrefix(RootPath, found(what))
                        THEN NodeAt(tree, found(what)) ELSE Node("none")
        is(kind) == [kind |-> kind, place |-> RootPath, gz |-> FALSE]
        file(kind, what) == [kind |-> kind, place |-> found(what),
                             gz |-> req.gzip /\ inside(what).gz]
        notFound == IF inside("404").kind = "file" THEN file("custom404", "404")
                    ELSE is("404")
        rules == NodeAt(tree, RootPath \o <<"_redirects">>)
        missing == IF match # {} /\ rules.kind = "file"
                   THEN is("redirect") ELSE notFound
        served(what) ==
            CASE inside(what).kind # "file" -> missing
              [] inside(what).kind = "file" ->
                    IF IsConfig(what) THEN is("status") ELSE file("page", what)
    IN  CASE NodeAt(tree, RootPath).kind = "none" -> is("404")
          [] NodeAt(tree, RootPath).kind = "file" -> is("500")
          [] OTHER ->
                IF inside("sub").kind = "dir"
                THEN IF req.slash THEN served("index") ELSE is("slash")
                ELSE IF found("sub") = Nowhere /\ NoExtension(req.sub)
                     THEN served("html") ELSE served("sub")

\* The paths tryFile may resolve.
Attempts == {"sub", "index"} \cup IF req.sub = <<>> THEN {} ELSE {"html"}

\* With a leading slash walkSymlinks returns an error where a path, or a link
\* that Readlink has made relative, goes back to the root ("cannot backtrack
\* root path"), whatever comes after.
BacktracksRoot ==
    \E what \in Attempts :
        Slash(what) /\ \E dir \in Found(what).back : Len(dir) <= Len(RootPath)

\* tryFile compares the path it has resolved with "_redirects" as a string. It
\* is spelled differently with a leading slash, after a jailed link, and if it
\* has left the root by ".." and come back.
SpelledDifferently ==
    \E what \in Attempts :
        /\ IsConfig(what)
        /\ \/ Slash(what)
           \/ Found(what).jailed
           \/ \E dir \in Found(what).back : Len(dir) < Len(RootPath)

\* If nothing is deployed while a request is served, walking the path name by
\* name over symbolic links, with the fallbacks to index.html, .html,
\* _redirects and 404.html, gives the answer that following the path in the
\* file system gives: tryFile, tryRedirects and tryNotFound. Two kinds of
\* request, of which this is not so, are excluded.
AsExpected ==
    pc = "done" /\ deploys = 0 /\ ~BacktracksRoot /\ ~SpelledDifferently
        => answer = <<Expected>>

\* Every request is answered, also if links form a cycle and whatever is
\* deployed meanwhile: walkSymlinks stops after MaxLinks links.
RequestEnds == <>(pc = "done")
=============================================================================
