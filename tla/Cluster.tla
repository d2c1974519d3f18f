------------------------------ MODULE Cluster ------------------------------
(***************************************************************************)
(* The life of RoutIR servers that import each other's services: main and  *)
(* _serve_all of serve.py, load_config and auto_add_relay_services of      *)
(* config/load.py.                                                         *)
(*                                                                         *)
(* load_config runs in the start-up hook of the REST server, which accepts *)
(* nothing before the hook has returned.  Its only real suspension is the  *)
(* discovery of the other servers; unpacking blocks the event loop, but    *)
(* not the processes of other servers.  The gRPC server is started beside  *)
(* it, at any time.                                                        *)
(***************************************************************************)
EXTENDS Unpack, Registry

VARIABLES
    phase,          \* "down", "loading", "fetching", "serving" (REST is open) or "drained"
    grpc,           \* the gRPC server is up
    signalled,      \* shutdown_event
    registered,     \* ProcessorRegistry: name, role, and the server relayed to
    answers,        \* the /avail of each server in server_imports
    starts,         \* starts of each server: the number of its present incarnation
    bornAt,         \* history: when its registry was complete
    clock           \* history: registries completed

clusterVars == <<site, unpackVars, phase, grpc, signalled, registered, answers,
                 starts, bornAt, clock>>

Here == "here"
\* The marker of an own processor is no server.
ASSUME ClusterAssumption == Here \notin Servers

Waiting == [got |-> "nothing"]
NoAnswer == [got |-> "failure"]

Imports(s) == site.imports[s]

ClusterInit ==
    /\ site \in Sites
    /\ UnpackInit
    /\ phase = [s \in Servers |-> "down"]
    /\ grpc = [s \in Servers |-> FALSE]
    /\ signalled = [s \in Servers |-> FALSE]
    /\ registered = [s \in Servers |-> {}]
    /\ answers = [s \in Servers |-> <<>>]
    /\ starts = [s \in Servers |-> 0]
    /\ bornAt = [s \in Servers |-> 0]
    /\ clock = 0

-----------------------------------------------------------------------------
\* Without a cache directory no archive is unpacked, and the start fails.
Unpackable(s) == site.cache_dir \/ Archives(site, s) = <<>>

Start(s) ==
    /\ phase[s] = "down" /\ starts[s] < site.starts[s]
    /\ phase' = [phase EXCEPT ![s] = "loading"]
    /\ starts' = [starts EXCEPT ![s] = @ + 1]
    /\ job' = [job EXCEPT ![s] = IF Unpackable(s) THEN NextArchive(s, 1) ELSE Idle]
    /\ UNCHANGED <<site, files, temp, published, overlapped, grpc, signalled, registered,
                   answers, bornAt, clock>>

\* The process is gone, and all it held; its files stay.
Down(s) ==
    /\ phase' = [phase EXCEPT ![s] = "down"]
    /\ job' = [job EXCEPT ![s] = Idle]
    /\ grpc' = [grpc EXCEPT ![s] = FALSE]
    /\ signalled' = [signalled EXCEPT ![s] = FALSE]
    /\ registered' = [registered EXCEPT ![s] = {}]
    /\ answers' = [answers EXCEPT ![s] = <<>>]
    /\ UNCHANGED <<site, files, temp, published, overlapped, starts, bornAt, clock>>

Kill(s) == phase[s] # "down" /\ Down(s)

\* _resolve_tar_gz_in_views
Unpacks(s) ==
    /\ phase[s] = "loading"
    /\ UnpackStep(s)
    /\ UNCHANGED <<site, phase, grpc, signalled, registered, answers, starts, bornAt, clock>>

\* What a configured service is registered as.
RolesOf(service) ==
    (service.can \intersect {"search", "decompose_query"}) \union
    (IF service.scoring_disabled THEN {} ELSE service.can \intersect {"score"})

Entry(name, role, via, gen) == [name |-> name, role |-> role, via |-> via, gen |-> gen]

\* The registrations of the decorated classes, and of the collections and the
\* services that the configuration lists.  What is listed twice is registered
\* twice: the place in the list tells the two entries apart.
Own(s) ==
    LET collections == site.collections[s]
        services == site.services[s]
    IN  {Entry(name, "fuse", Here, 0) : name \in site.fusers} \union
        {Entry(collections[n], "content", Here, n) : n \in DOMAIN collections} \union
        UNION {{Entry(services[n].name, role, Here, n) : role \in RolesOf(services[n])} :
                    n \in DOMAIN services}

\* Extensions, collections and services; then every import is asked at once.
LoadLocal(s) ==
    /\ phase[s] = "loading" /\ job[s].step = "done"
    /\ RegistersAll(Own(s))
    /\ registered' = [registered EXCEPT ![s] = Own(s)]
    /\ answers' = [answers EXCEPT ![s] = [i \in DOMAIN Imports(s) |-> Waiting]]
    /\ phase' = [phase EXCEPT ![s] = "fetching"]
    /\ UNCHANGED <<site, unpackVars, grpc, signalled, starts, bornAt, clock>>

\* Seeded fault: REST requests are accepted as soon as the event loop is free.
RestOpenEarly(s) == phase[s] \in {"fetching", "serving"}

\* Hypercorn opens its socket when the start-up hook has returned.
RestOpen(s) == phase[s] = "serving"

\* The relayed types of /avail.
Avail(t) ==
    {Slot(e) : e \in {f \in registered[t] : f.role \in {"search", "score", "content"}}}

Answered(s, i, answer) ==
    /\ phase[s] = "fetching" /\ answers[s][i] = Waiting
    /\ answers' = [answers EXCEPT ![s][i] = answer]
    /\ UNCHANGED <<site, unpackVars, phase, grpc, signalled, registered, starts, bornAt, clock>>

\* An import whose REST server is open tells what it has.
Fetch(s, i) ==
    LET t == Imports(s)[i]
    IN  /\ RestOpen(t)
        /\ Answered(s, i, [got |-> "avail", gen |-> starts[t], slots |-> Avail(t)])

\* Seeded fault: a server that is only starting is asked until it answers.
FetchFailsIfDown(s, i) ==
    /\ phase[Imports(s)[i]] \in {"down", "serving", "drained"}
    /\ Answered(s, i, NoAnswer)

\* Seeded fault: a server that cannot be reached may be taken to have what the
\* configuration of any server has.
FetchAssumes(s, i) ==
    \/ Answered(s, i, NoAnswer)
    \/ Answered(s, i, [got |-> "avail", gen |-> starts[Imports(s)[i]],
                       slots |-> {Slot(e) : e \in UNION {Own(t) : t \in Servers}}])

\* Any failure to get an answer, after the retries of the client, is None.
FetchFails(s, i) == Answered(s, i, NoAnswer)

\* The slots of the servers that answered, unless a server before them has it
\* or the registry does.
Relayed(s) ==
    LET Offers(i) == IF answers[s][i].got = "avail" THEN answers[s][i].slots ELSE {}
        New(i) == {x \in Offers(i) : /\ ~HasService(registered[s], x)
                                     /\ \A j \in 1..(i - 1) : x \notin Offers(j)}
    IN  UNION {{Entry(x[1], x[2], Imports(s)[i], answers[s][i].gen) : x \in New(i)} :
                    i \in DOMAIN answers[s]}

Fetched(s) ==
    /\ phase[s] = "fetching"
    /\ \A i \in DOMAIN answers[s] : answers[s][i] # Waiting

AliasesFree(s) == site.aliases[s] \intersect Callable(registered[s] \union Relayed(s)) = {}

\* The relays and the aliases are registered: the start-up hook returns.
LoadRemote(s) ==
    /\ Fetched(s) /\ AliasesFree(s)
    /\ registered' = [registered EXCEPT ![s] = @ \union Relayed(s)]
    /\ answers' = [answers EXCEPT ![s] = <<>>]
    /\ phase' = [phase EXCEPT ![s] = "serving"]
    /\ bornAt' = [bornAt EXCEPT ![s] = clock + 1]
    /\ clock' = clock + 1
    /\ UNCHANGED <<site, unpackVars, grpc, signalled, starts>>

\* load_config raises, and the process ends: there is no cache directory for
\* the archives, a rename finds nothing, two collections or two services of one
\* name register a slot twice, or an alias has the name of a service.
LoadFails(s) ==
    /\ \/ /\ phase[s] = "loading"
          /\ \/ ~Unpackable(s)
             \/ RenameFails(s)
             \/ job[s].step = "done" /\ ~RegistersAll(Own(s))
       \/ Fetched(s) /\ ~AliasesFree(s)
    /\ Down(s)

-----------------------------------------------------------------------------
\* The two servers of a process.
GrpcUp(s) ==
    /\ s \in site.grpc /\ phase[s] # "down" /\ ~grpc[s] /\ ~signalled[s]
    /\ grpc' = [grpc EXCEPT ![s] = TRUE]
    /\ UNCHANGED <<site, unpackVars, phase, signalled, registered, answers, starts, bornAt, clock>>

\* SIGINT or SIGTERM.  With gRPC the handlers are installed once it is up;
\* before that the signal kills.
Signal(s) ==
    /\ phase[s] # "down" /\ ~signalled[s] /\ (s \in site.grpc => grpc[s])
    /\ signalled' = [signalled EXCEPT ![s] = TRUE]
    /\ UNCHANGED <<site, unpackVars, phase, grpc, registered, answers, starts, bornAt, clock>>

\* stop(grace=5.0) is over.
GrpcStops(s) ==
    /\ signalled[s] /\ grpc[s]
    /\ grpc' = [grpc EXCEPT ![s] = FALSE]
    /\ UNCHANGED <<site, unpackVars, phase, signalled, registered, answers, starts, bornAt, clock>>

\* The shutdown_trigger is looked at when the start-up hook is over.
RestStops(s) ==
    /\ signalled[s] /\ phase[s] = "serving"
    /\ phase' = [phase EXCEPT ![s] = "drained"]
    /\ UNCHANGED <<site, unpackVars, grpc, signalled, registered, answers, starts, bornAt, clock>>

\* Both tasks of gather are over.
Exit(s) == phase[s] = "drained" /\ ~grpc[s] /\ Down(s)

Discovery(s) == \E i \in DOMAIN answers[s] : Fetch(s, i) \/ FetchFails(s, i)

ServerStep(s) ==
    \/ Unpacks(s) \/ LoadLocal(s) \/ Discovery(s) \/ LoadRemote(s) \/ LoadFails(s)
    \/ GrpcStops(s) \/ RestStops(s) \/ Exit(s)

ClusterNext ==
    \E s \in Servers : ServerStep(s) \/ Start(s) \/ Kill(s) \/ GrpcUp(s) \/ Signal(s)

ClusterSpec == ClusterInit /\ [][ClusterNext]_clusterVars

\* A process that runs goes on: load_config has no wait without a time-out
\* (Hypercorn gives the whole hook 600 seconds), and draining is bounded by the
\* servers' grace periods.
ClusterFairSpec == ClusterSpec /\ \A s \in Servers : WF_clusterVars(ServerStep(s))

-----------------------------------------------------------------------------
\* A server that serves reads whole archives, whatever was killed while it
\* wrote, unless two servers unpacked the archive at once.  (Archives of one
\* name are the configuration's fault.)
ServesWholeArchives ==
    \A s \in Servers : RestOpen(s) =>
        \A a \in ToSet(Archives(site, s)) :
            a.dst \in overlapped \/ Collide(a.dst) \/ Whole(a)

\* s forwards requests for the slot to t as t is now: t has not been restarted.
Forwards(s, t, slot) ==
    \E e \in registered[s] : Slot(e) = slot /\ e.via = t /\ e.gen = starts[t]

Slots == UNION {{Slot(e) : e \in registered[s]} : s \in Servers}

\* A relay leads to a registry that was complete before the one it is in.
RelaysPointBack ==
    \A s, t \in Servers : \A slot \in Slots :
        RestOpen(s) /\ RestOpen(t) /\ Forwards(s, t, slot) => bornAt[t] < bornAt[s]

\* Requests cannot go round in a circle, with every server waiting on the next,
\* among servers none of which was restarted since the others asked it:
\* whatever the order in which servers started, and whoever imports whom.
CirclesNeedARestart ==
    \A C \in (SUBSET Servers) \ {{}} : \A slot \in Slots :
        ~ \A s \in C : RestOpen(s) /\ \E t \in C : Forwards(s, t, slot)

\* A service that is not found over REST stays so until a restart: no request
\* can tell how far start-up has come.
RestRefusalsAreFinal ==
    [][\A s \in Servers :
            RestOpen(s) /\ RestOpen(s)' => registered'[s] = registered[s]]_clusterVars

\* A server settles: it serves, until a signal stops it, or it is down.  Servers
\* that import each other do not wait for each other's start for ever, and a
\* signal stops a server in every phase, also while it loads.
Settled(s) == phase[s] = "down" \/ (RestOpen(s) /\ ~signalled[s])
EveryServerSettles == \A s \in Servers : ~Settled(s) ~> Settled(s)

=============================================================================
