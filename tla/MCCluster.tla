----------------------------- MODULE MCCluster -----------------------------
(***************************************************************************)
(* Three servers.  In the first site two of them unpack archives into one  *)
(* directory; in the second all import each other, and one has what the    *)
(* others relay; in the others start-up fails, for want of a directory, for *)
(* a rename that finds nothing, or for a name that is used twice.          *)
(***************************************************************************)
EXTENDS Cluster

CONSTANTS s1, s2, s3

None == [s \in Servers |-> {}]
Nothing == [s \in Servers |-> <<>>]

\* Bound: how often each server is started.
Starts(n1, n2, n3) == s1 :> n1 @@ s2 :> n2 @@ s3 :> n3

Plain == [archives |-> Nothing, cache_dir |-> TRUE, fusers |-> {"RRF"},
          collections |-> Nothing, services |-> Nothing, imports |-> Nothing,
          aliases |-> None, grpc |-> {}, starts |-> Starts(1, 1, 1)]

Shard(n) == [dst |-> n, content |-> n]

SharedArchives ==
    [Plain EXCEPT !.archives = (s1 :> <<Shard("a")>> @@ s2 :> <<Shard("a"), Shard("b")>> @@ s3 :> <<>>),
                  !.starts = Starts(2, 1, 0)]

Engine(name) == [name |-> name, can |-> {"search", "score"}, scoring_disabled |-> FALSE]

Ring ==
    [Plain EXCEPT !.services[s1] = <<Engine("x")>>,
                  !.collections[s2] = <<"c">>,
                  !.imports = (s1 :> <<s2>> @@ s2 :> <<s1, s3>> @@ s3 :> <<s2, s1>>),
                  !.starts = Starts(1, 2, 1)]

\* x is an alias of s2 and a service of s1; s3 has two services named y.
Clash ==
    [Plain EXCEPT !.services = (s1 :> <<[Engine("x") EXCEPT !.scoring_disabled = TRUE]>> @@
                                s2 :> <<>> @@
                                s3 :> <<Engine("y"), Engine("z"),
                                        [Engine("y") EXCEPT !.can = {"search"}]>>),
                  !.imports[s2] = <<s1>>,
                  !.aliases[s2] = {"x"},
                  !.grpc = {s2}, !.starts = Starts(1, 2, 1)]

\* The archives of s1 collide, s2 unpacks nothing.
Archived ==
    [Plain EXCEPT !.archives[s1] = <<Shard("a"), [dst |-> "a", content |-> "b"]>>,
                  !.starts = Starts(2, 0, 0)]

MCSites ==
    {SharedArchives, Ring, [Ring EXCEPT !.grpc = {s2}, !.starts = Starts(1, 1, 1)], Clash,
     Archived, [Archived EXCEPT !.cache_dir = FALSE]}

=============================================================================
