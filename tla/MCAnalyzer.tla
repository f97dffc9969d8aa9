----------------------------- MODULE MCAnalyzer -----------------------------
(* A small project that fits all budgets, a deep one, two that are too much, one whose    *)
(* entries are not read, and one with manifests that the parsers cannot follow to the end. *)
EXTENDS Analyzer

Package(id, origin) == [id |-> id, origin |-> origin, nested |-> <<>>]
MCPackages == [p1 |-> Package("d1", "public"), p2 |-> Package("d2", "public"),
               p3 |-> Package("d3", "public"), odd |-> Package("odd", "public"),
               own |-> Package("d3", "other"), anon |-> Package(None, "public"),
               unsaid |-> Package("d1", "absent"),
               outer |-> [Package("d1", "public") EXCEPT !.nested = <<"inner">>],
               inner |-> [Package("d2", "public") EXCEPT !.nested = <<"p3">>]]

Dir(entries) == [kind |-> "dir", entries |-> entries]
Manifest(format, packages) == [kind |-> "file", length |-> 1, actual |-> 1, hits |-> <<>>,
                               format |-> format, entries |-> packages, text |-> TRUE]
File(length, actual, hits) ==
    [Manifest("none", <<>>) EXCEPT !.length = length, !.actual = actual, !.hits = hits]
MCTree == [small |-> Dir({"lock", "src"}), src |-> Dir({"code"}),
           lock |-> Manifest("cargo", <<"p1", "p2">>),
           code |-> [File(1, 1, <<1, 1>>) EXCEPT !.format = "npm", !.entries = <<"p1">>],
           deep |-> Dir({"small", "lock"}),
           much |-> Dir({"log", "log2", "bad"}), log |-> File(1, 9, <<2>>),
           log2 |-> File(2, 9, <<1>>),
           bad |-> [Manifest("requirements", <<"p1", "own", "p3", "odd">>) EXCEPT !.hits = <<2, 1>>],
           many |-> Dir({"list"}),
           list |-> [Manifest("SPDX", <<"p1", "p2", "anon", "p1", "p2", "p3">>) EXCEPT !.hits = <<3>>],
           odds |-> Dir({"ln", "lock", "bin", "big", "git", "pipe"}), ln |-> [kind |-> "link"],
           git |-> [kind |-> "excluded"], pipe |-> [kind |-> "other"],
           bin |-> [File(1, 1, <<1>>) EXCEPT !.text = FALSE], big |-> File(4, 4, <<1>>),
           nest |-> Dir({"sbom"}), sbom |-> Manifest("CycloneDX", <<"outer">>),
           flat |-> Dir({"old"}), old |-> Manifest("npm nested", <<"inner", "own", "unsaid">>),
           py |-> Dir({"uv", "toml", "broken"}), uv |-> Manifest("uv", <<"p1", "anon">>),
           toml |-> Manifest("pyproject", <<"p2">>), broken |-> Manifest("malformed", <<>>)]
MCRoots == {"small", "deep", "much", "many", "odds", "nest", "flat", "py"}
MCValid == {"d1", "d2", "d3"}
MCVulnerable == {"d1", "d3"}
=============================================================================
