------------------------------- MODULE Router -------------------------------
(***************************************************************************)
(* The router of rest/router (patRouter) over the trees of core/search.    *)
(* A route and a path are sequences of tokens, cleaned as path.Clean does: *)
(* "/" is the sequence of one empty token.  A node of a tree is the route  *)
(* that leads to it, and a tree is the set of its routes with an item.     *)
(* Map iteration has no order: a search has a set of possible results.     *)
(***************************************************************************)
EXTENDS Naturals, Sequences, FiniteSets

CONSTANTS
    Methods, BadMethod,
    Tokens,         \* tokens of a path, strings
    Names,          \* names of path variables, strings
    MaxRoutes

VARIABLE ro

\* A token of a route: static, or a variable (":name").
Static == [kind : {"static"}, text : Tokens]
Named  == [kind : {"named"}, text : Names]
Root   == <<>>

Routes == {Root} \cup UNION {[1..n -> Static \cup Named] : n \in 1..2}
Paths  == {<<"">>} \cup UNION {[1..n -> Tokens] : n \in 1..2}

\* The nodes of a tree, with and without an item.
NodesOf(tree) == {Root} \cup UNION {{SubSeq(r, 1, i) : i \in 1..Len(r)} : r \in tree}

\* match
Match(pat, token) == pat.kind = "named" \/ pat.text = token

Children(tree, n, kind) ==
    {p \in Static \cup Named : p.kind = kind /\ Append(n, p) \in NodesOf(tree)}

\* The last token of a path: the items of children that match.
AtLast(tree, n, token, kind) ==
    {Append(n, p) : p \in {q \in Children(tree, n, kind) : Match(q, token) /\ Append(n, q) \in tree}}

\* Tree.next goes on from the children that match the token; from are the results from a node.
Deeper(tree, from, n, token, kind) ==
    UNION {from[Append(n, p)] : p \in {q \in Children(tree, n, kind) : Match(q, token)}}

\* Mutant of SearchFrom: a static child that matches is not left again.
SearchFromGreedy(tree, path, start) ==
    LET from[n \in NodesOf(tree)] ==
            LET token == path[Len(n) + 1]
                One(kind) == IF Len(n) + 1 = Len(path) THEN AtLast(tree, n, token, kind)
                             ELSE Deeper(tree, from, n, token, kind)
            IN  IF n = Root /\ path = <<"">> /\ Root \in tree THEN {Root}
                ELSE IF \E q \in Children(tree, n, "static") : Match(q, token) THEN One("static")
                ELSE One("named")
    IN  from[start]

\* Tree.next with forEach, from a node as deep as the tokens of the path before it: static children
\* first, then named ones; a child without a result is left again.
SearchFrom(tree, path, start) ==
    LET from[n \in NodesOf(tree)] ==
            LET token == path[Len(n) + 1]
                One(kind) == IF Len(n) + 1 = Len(path) THEN AtLast(tree, n, token, kind)
                             ELSE Deeper(tree, from, n, token, kind)
            IN  IF n = Root /\ path = <<"">> /\ Root \in tree THEN {Root}
                ELSE IF One("static") # {} THEN One("static")
                ELSE One("named")
    IN  from[start]

Search(tree, path) == SearchFrom(tree, path, Root)
-----------------------------------------------------------------------------
\* trees[m] are the routes of a method that has a tree, added the routes in all.
Init == ro = [trees |-> [m \in {} |-> {}], error |-> "none", added |-> 0]

\* Handle: an error for a method that is none, or a route that is there already.
Handle(m, route) ==
    /\ ro.added < MaxRoutes
    /\ ro' = CASE m = BadMethod -> [ro EXCEPT !.error = "ErrInvalidMethod", !.added = @ + 1]
               [] m \in DOMAIN ro.trees /\ route \in ro.trees[m] ->
                    [ro EXCEPT !.error = "duplicated item", !.added = @ + 1]
               [] OTHER ->
                    [ro EXCEPT !.error = "none", !.added = @ + 1,
                               !.trees = [x \in DOMAIN ro.trees \cup {m} |->
                                            (IF x \in DOMAIN ro.trees THEN ro.trees[x] ELSE {})
                                            \cup (IF x = m THEN {route} ELSE {})]]

Next == \E m \in Methods \cup {BadMethod}, route \in Routes : Handle(m, route)

Spec == Init /\ [][Next]_ro

Found(m, path) == IF m \in DOMAIN ro.trees THEN Search(ro.trees[m], path) ELSE {}

\* methodsAllowed
Allowed(m, path) == {x \in DOMAIN ro.trees \ {m} : Found(x, path) # {}}

\* ServeHTTP: what a request may be answered with.
Served(m, path) ==
    IF Found(m, path) # {} THEN [status |-> 200, routes |-> Found(m, path)]
    ELSE [status |-> IF Allowed(m, path) # {} THEN 405 ELSE 404, routes |-> {}]

TypeOK ==
    /\ DOMAIN ro.trees \subseteq Methods
    /\ \A m \in DOMAIN ro.trees : ro.trees[m] \subseteq Routes /\ ro.trees[m] # {}
-----------------------------------------------------------------------------
\* The routes that fit a path, token by token; "/" also fits a route of one variable.
Fits(route, path) ==
    \/ route = Root /\ path = <<"">>
    \/ Len(route) = Len(path) /\ \A i \in DOMAIN route : Match(route[i], path[i])

\* a is at least as good as b: static where they differ in kind first.
Better(a, b) ==
    \/ a = Root
    \/ \A i \in DOMAIN a :
        (\A j \in 1..(i - 1) : a[j] = b[j]) /\ a[i].kind # b[i].kind => a[i].kind = "static"

\* A request is served by a route that fits, if there is one, however many dead ends the tree has;
\* and by one with a static token where another one that fits has a variable.
BestRouteServes ==
    \A m \in Methods, path \in Paths :
        LET fit == IF m \in DOMAIN ro.trees THEN {r \in ro.trees[m] : Fits(r, path)} ELSE {}
        IN  /\ Found(m, path) \subseteq fit
            /\ fit # {} => Found(m, path) # {}
            /\ \A r \in Found(m, path), q \in fit : Root # q => Better(r, q)

\* 405 is for a path that another method has, and 404 for one that none has.
NotAllowedIsForOthers ==
    \A m \in Methods, path \in Paths :
        Served(m, path).status =
            IF \E r \in (IF m \in DOMAIN ro.trees THEN ro.trees[m] ELSE {}) : Fits(r, path) THEN 200
            ELSE IF \E x \in DOMAIN ro.trees : \E r \in ro.trees[x] : Fits(r, path) THEN 405
            ELSE 404

\* A request gets the best route that fits, and 404 or 405 only when none does.
RightRouteServes == BestRouteServes /\ NotAllowedIsForOthers
=============================================================================
