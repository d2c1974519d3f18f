--------------------------- MODULE ClusterProofs ---------------------------
(***************************************************************************)
(* Cluster for every set of servers, configurations and starts: requests   *)
(* go round in a circle only among servers of which one has been restarted *)
(* since another one asked it.                                             *)
(*                                                                         *)
(* A server that is still loading answers nobody, so what others know of a *)
(* server, they know of an incarnation whose registry was complete         *)
(* (HeardOf).  A registry gets its relays when it is completed itself,     *)
(* later than the registries they lead to (Back).                          *)
(*                                                                         *)
(* The second half is about unpacking.  A server that opened dst.tmp keeps *)
(* writing that inode wherever it is moved to, so what has to be shown is  *)
(* whose file is where: no inode is at two paths (PathsApart), nobody      *)
(* writes into another archive's file (OwnFile), and who is alone with an  *)
(* archive finds at dst.tmp what it wrote (OneAtATime, SoFar).             *)
(***************************************************************************)
EXTENDS Cluster, SequenceTheorems, WellFoundedInduction, TLAPS

Phases == {"down", "loading", "fetching", "serving", "drained"}

\* What the argument needs of the types.
Shapes ==
    /\ phase \in [Servers -> Phases]
    /\ DOMAIN registered = Servers /\ DOMAIN answers = Servers
    /\ starts \in [Servers -> Nat]
    /\ bornAt \in [Servers -> Nat]
    /\ clock \in Nat

\* The n-th incarnation of t has been heard of: if it is the present one, it
\* is not on its way to completing its registry.
Complete(t, n) ==
    /\ n \in Nat /\ n <= starts[t]
    /\ n = starts[t] => phase[t] \notin {"loading", "fetching"}

HeardOf ==
    /\ \A s, t \in Servers : \A i \in DOMAIN answers[s] :
        answers[s][i].got = "avail" /\ Imports(s)[i] = t => Complete(t, answers[s][i].gen)
    /\ \A s, t \in Servers : \A e \in registered[s] : e.via = t => Complete(t, e.gen)

\* Relays are registered last.
OnlyOwnAtFirst ==
    \A s \in Servers : phase[s] \in {"down", "loading", "fetching"} =>
        \A e \in registered[s] : e.via \notin Servers

Past == \A s \in Servers : bornAt[s] <= clock

Back ==
    \A s, t \in Servers : \A e \in registered[s] :
        e.via = t /\ e.gen = starts[t] => bornAt[t] < bornAt[s]

CInv == Shapes /\ HeardOf /\ OnlyOwnAtFirst /\ Past /\ Back

-----------------------------------------------------------------------------
\* Unpacking, and the comings and goings of the gRPC server, touch nothing of it.
Seen == <<site, phase, registered, answers, starts, bornAt, clock>>

LEMMA SameCInv ==
    ASSUME CInv, UNCHANGED Seen
    PROVE  CInv'
BY DEF CInv, Shapes, HeardOf, Complete, OnlyOwnAtFirst, Past, Back, Seen, Imports

LEMMA InitCInv == ASSUME ClusterInit PROVE CInv
<1>1. Shapes
  BY DEF ClusterInit, Shapes, Phases
<1>2. \A s \in Servers : registered[s] = {} /\ answers[s] = <<>> /\ bornAt[s] = 0
  BY DEF ClusterInit
<1>3. \A s \in Servers : DOMAIN answers[s] = {}
  BY <1>2
<1> QED  BY <1>1, <1>2, <1>3 DEF CInv, Shapes, HeardOf, OnlyOwnAtFirst, Past, Back

\* A new incarnation of s is one nobody has heard of.
LEMMA StartCInv ==
    ASSUME CInv, NEW s \in Servers, Start(s)
    PROVE  CInv'
<1> USE DEF CInv
<1>1. Shapes'
  BY DEF Start, Shapes, Phases
<1>2. \A t \in Servers : starts'[t] = IF t = s THEN starts[t] + 1 ELSE starts[t]
  BY DEF Start, Shapes
<1>3. \A t \in Servers : t # s => phase'[t] = phase[t]
  BY DEF Start, Shapes
<1>4. \A t \in Servers : \A n : Complete(t, n) => Complete(t, n)'
  BY <1>2, <1>3 DEF Complete, Shapes
<1>5. HeardOf'
  BY <1>4 DEF Start, HeardOf, Imports
<1>6. OnlyOwnAtFirst'
  BY <1>3 DEF Start, OnlyOwnAtFirst
<1>7. Past'
  BY DEF Start, Past
<1>8. Back'
  <2> SUFFICES ASSUME NEW u \in Servers, NEW t \in Servers, NEW e \in registered[u],
                      e.via = t, e.gen = starts'[t]
               PROVE  bornAt[t] < bornAt[u]
    BY DEF Start, Back
  <2>1. e.gen \in Nat /\ e.gen <= starts[t]
    BY DEF HeardOf, Complete
  <2> QED  BY <2>1, <1>2 DEF Back, Shapes
<1> QED  BY <1>1, <1>5, <1>6, <1>7, <1>8

\* What is left of s is nothing.
LEMMA DownCInv ==
    ASSUME CInv, NEW s \in Servers, Down(s)
    PROVE  CInv'
<1> USE DEF CInv
<1>1. Shapes'
  BY DEF Down, Shapes, Phases
<1>2. \A t \in Servers : registered'[t] \subseteq registered[t]
  BY DEF Down, Shapes
<1>3. \A t, i : t \in Servers /\ i \in DOMAIN answers'[t] =>
            i \in DOMAIN answers[t] /\ answers'[t][i] = answers[t][i]
  BY DEF Down, Shapes
<1>4. \A t \in Servers : \A n : Complete(t, n) => Complete(t, n)'
  BY DEF Down, Complete, Shapes
<1>5. HeardOf'
  BY <1>2, <1>3, <1>4 DEF Down, HeardOf, Imports
<1>6. OnlyOwnAtFirst'
  BY DEF Down, OnlyOwnAtFirst, Shapes
<1>7. Past' /\ Back'
  BY <1>2 DEF Down, Past, Back
<1> QED  BY <1>1, <1>5, <1>6, <1>7

\* Own processors lead nowhere.
LEMMA OwnIsHere == \A s \in Servers : \A e \in Own(s) : e.via = Here
BY DEF Own, Entry

LEMMA LoadLocalCInv ==
    ASSUME CInv, NEW s \in Servers, LoadLocal(s)
    PROVE  CInv'
<1> USE DEF CInv
<1>1. Shapes'
  BY DEF LoadLocal, Shapes, Phases
<1>2. \A t \in Servers : \A n : Complete(t, n) => Complete(t, n)'
  BY DEF LoadLocal, Complete, Shapes
<1>3. \A e \in registered'[s] : e.via \notin Servers
  BY OwnIsHere, ClusterAssumption DEF LoadLocal, Shapes
<1>4. \A t \in Servers : t # s => registered'[t] = registered[t] /\ answers'[t] = answers[t]
                                  /\ phase'[t] = phase[t]
  BY DEF LoadLocal, Shapes
<1>5. \A i \in DOMAIN answers'[s] : answers'[s][i].got # "avail"
  BY DEF LoadLocal, Shapes, Waiting
<1>6. HeardOf'
  BY <1>2, <1>3, <1>4, <1>5 DEF LoadLocal, HeardOf, Imports
<1>7. OnlyOwnAtFirst'
  BY <1>3, <1>4 DEF OnlyOwnAtFirst
<1>8. Past' /\ Back'
  BY <1>3, <1>4 DEF LoadLocal, Past, Back
<1> QED  BY <1>1, <1>6, <1>7, <1>8

\* Only the present incarnation of a server that serves can answer.
LEMMA DiscoveryCInv ==
    ASSUME CInv, NEW s \in Servers, NEW i \in DOMAIN answers[s],
           Fetch(s, i) \/ FetchFails(s, i)
    PROVE  CInv'
<1> USE DEF CInv
<1>1. PICK a : Answered(s, i, a) /\
               (a = NoAnswer \/ (/\ RestOpen(Imports(s)[i])
                                 /\ a.gen = starts[Imports(s)[i]]))
  BY DEF Fetch, FetchFails
<1>2. /\ UNCHANGED <<site, phase, registered, starts, bornAt, clock>>
      /\ answers' = [answers EXCEPT ![s] = [answers[s] EXCEPT ![i] = a]]
  BY <1>1 DEF Answered
<1>3. \A t \in Servers : \A j : j \in DOMAIN answers'[t] =>
        /\ j \in DOMAIN answers[t]
        /\ answers'[t][j] = answers[t][j] \/ (t = s /\ j = i /\ answers'[t][j] = a)
  BY <1>2 DEF Shapes
<1>4. \A t \in Servers : a.got = "avail" /\ Imports(s)[i] = t => Complete(t, a.gen)
  BY <1>1 DEF NoAnswer, RestOpen, Complete, Shapes
<1>5. Shapes' /\ OnlyOwnAtFirst' /\ Past' /\ Back'
  BY <1>2 DEF Shapes, OnlyOwnAtFirst, Past, Back
<1>6. \A t \in Servers : \A n : Complete(t, n)' = Complete(t, n)
  BY <1>2 DEF Complete
<1>7. HeardOf'
  BY <1>2, <1>3, <1>4, <1>6 DEF HeardOf, Imports
<1> QED  BY <1>5, <1>7

\* A new relay leads to a server that answered, as it was then.
LEMMA RelayedComplete ==
    ASSUME CInv, NEW s \in Servers, NEW e \in Relayed(s), e.via \in Servers
    PROVE  Complete(e.via, e.gen)
<1>1. PICK i \in DOMAIN answers[s] :
        /\ answers[s][i].got = "avail"
        /\ e.via = Imports(s)[i] /\ e.gen = answers[s][i].gen
  BY DEF Relayed, Entry
<1> QED  BY <1>1 DEF CInv, HeardOf

LEMMA LoadRemoteCInv ==
    ASSUME CInv, NEW s \in Servers, LoadRemote(s)
    PROVE  CInv'
<1> USE DEF CInv
<1>1. Shapes'
  BY DEF LoadRemote, Shapes, Phases
<1>2. phase[s] = "fetching"
  BY DEF LoadRemote, Fetched
<1>3. \A t \in Servers : t # s => registered'[t] = registered[t] /\ bornAt'[t] = bornAt[t]
                                  /\ phase'[t] = phase[t]
  BY DEF LoadRemote, Shapes
<1>4. \A e \in registered'[s] : e.via \in Servers => e \in Relayed(s)
  BY <1>2 DEF LoadRemote, Shapes, OnlyOwnAtFirst
<1>5. \A t \in Servers : \A n : Complete(t, n) => Complete(t, n)'
  BY DEF LoadRemote, Complete, Shapes
<1>6. \A t \in Servers : \A e \in registered'[t] : e.via \in Servers => Complete(e.via, e.gen)
  BY <1>3, <1>4, RelayedComplete DEF HeardOf
<1>7. \A t \in Servers : \A i : i \in DOMAIN answers'[t] =>
            i \in DOMAIN answers[t] /\ answers'[t][i] = answers[t][i]
  BY DEF LoadRemote, Shapes
<1>8. HeardOf'
  BY <1>5, <1>6, <1>7 DEF LoadRemote, HeardOf, Imports
<1>9. OnlyOwnAtFirst'
  BY <1>3 DEF LoadRemote, OnlyOwnAtFirst, Shapes
<1>10. bornAt'[s] = clock + 1 /\ clock' = clock + 1 /\ starts' = starts
  BY DEF LoadRemote, Shapes
<1>11. Past'
  BY <1>3, <1>10 DEF Past, Shapes
<1>12. Back'
  <2> SUFFICES ASSUME NEW u \in Servers, NEW t \in Servers, NEW e \in registered'[u],
                      e.via = t, e.gen = starts[t]
               PROVE  bornAt'[t] < bornAt'[u]
    BY <1>10 DEF Back
  <2>1. t # s
    BY <1>2, <1>6 DEF Complete
  <2>2. CASE u = s
    BY <2>1, <2>2, <1>3, <1>10 DEF Past, Shapes
  <2>3. CASE u # s
    BY <2>1, <2>3, <1>3 DEF Back
  <2> QED  BY <2>2, <2>3
<1> QED  BY <1>1, <1>8, <1>9, <1>11, <1>12

LEMMA RestStopsCInv ==
    ASSUME CInv, NEW s \in Servers, RestStops(s)
    PROVE  CInv'
<1> USE DEF CInv
<1>1. Shapes'
  BY DEF RestStops, Shapes, Phases
<1>2. \A t \in Servers : \A n : Complete(t, n) => Complete(t, n)'
  BY DEF RestStops, Complete, Shapes
<1>3. HeardOf'
  BY <1>2 DEF RestStops, HeardOf, Imports
<1>4. OnlyOwnAtFirst' /\ Past' /\ Back'
  BY DEF RestStops, OnlyOwnAtFirst, Past, Back, Shapes
<1> QED  BY <1>1, <1>3, <1>4

LEMMA NextCInv == ASSUME CInv, [ClusterNext]_clusterVars PROVE CInv'
<1>1. CASE UNCHANGED clusterVars
  BY <1>1, SameCInv DEF clusterVars, Seen
<1>2. ASSUME NEW s \in Servers,
             Unpacks(s) \/ GrpcUp(s) \/ Signal(s) \/ GrpcStops(s)
      PROVE  CInv'
  BY <1>2, SameCInv DEF Unpacks, GrpcUp, Signal, GrpcStops, Seen
<1>3. ASSUME NEW s \in Servers, Kill(s) \/ LoadFails(s) \/ Exit(s)
      PROVE  CInv'
  BY <1>3, DownCInv DEF Kill, LoadFails, Exit
<1>4. ASSUME NEW s \in Servers, Discovery(s)
      PROVE  CInv'
  BY <1>4, DiscoveryCInv DEF Discovery
<1> QED
  BY <1>1, <1>2, <1>3, <1>4, StartCInv, LoadLocalCInv, LoadRemoteCInv, RestStopsCInv
     DEF ClusterNext, ServerStep

\* The inductive invariant holds in every reachable state.
THEOREM ClusterInvariance == ClusterSpec => []CInv
<1>1. ClusterInit => CInv
  BY InitCInv
<1>2. CInv /\ [ClusterNext]_clusterVars => CInv'
  BY NextCInv
<1> QED  BY <1>1, <1>2, PTL DEF ClusterSpec

-----------------------------------------------------------------------------
\* A relay to a server that was not restarted leads to a registry that was
\* complete before the one it is in (auto_add_relay_services).
THEOREM RelaysLeadBack == ClusterSpec => []RelaysPointBack
<1>1. CInv => RelaysPointBack
  BY DEF CInv, Back, RelaysPointBack, Forwards
<1> QED  BY <1>1, ClusterInvariance, PTL

\* A set of servers has one whose registry was complete first.
LEMMA FirstBorn ==
    ASSUME Shapes, NEW C, C \subseteq Servers, C # {}
    PROVE  \E s \in C : \A t \in C : ~(bornAt[t] < bornAt[s])
<1> DEFINE T == {bornAt[s] : s \in C}
<1>1. T \subseteq Nat /\ T # {}
  BY DEF Shapes
<1>2. PICK x \in T : \A y \in T : <<y, x>> \notin OpToRel(<, Nat)
  BY <1>1, NatLessThanWellFounded, WFMin
<1>3. \A y \in T : ~(y < x)
  BY <1>1, <1>2 DEF OpToRel
<1> QED  BY <1>3

\* No circle of relays among servers none of which was restarted since the
\* others asked it (auto_add_relay_services, Relay).
THEOREM NoCircle == ClusterSpec => []CirclesNeedARestart
<1>1. ASSUME CInv PROVE CirclesNeedARestart
  <2> SUFFICES ASSUME NEW C \in (SUBSET Servers) \ {{}}, NEW slot,
                      \A s \in C : RestOpen(s) /\ \E t \in C : Forwards(s, t, slot)
               PROVE  FALSE
    BY DEF CirclesNeedARestart
  <2>1. PICK s \in C : \A t \in C : ~(bornAt[t] < bornAt[s])
    BY <1>1, FirstBorn DEF CInv
  <2>2. PICK t \in C : Forwards(s, t, slot)
    OBVIOUS
  <2> QED  BY <1>1, <2>1, <2>2 DEF CInv, Back, Forwards
<1> QED  BY <1>1, ClusterInvariance, PTL

-----------------------------------------------------------------------------
\* What REST requests find is fixed when the start-up hook returns (startup,
\* register): a service that is missing then is missing until a restart.
THEOREM RefusalsAreFinal == ClusterSpec => RestRefusalsAreFinal
<1> DEFINE Kept == \A s \in Servers :
                        RestOpen(s) /\ RestOpen(s)' => registered'[s] = registered[s]
<1>1. CInv /\ [ClusterNext]_clusterVars => Kept
  <2> SUFFICES ASSUME CInv, [ClusterNext]_clusterVars,
                      NEW s \in Servers, RestOpen(s), RestOpen(s)'
               PROVE  registered'[s] = registered[s]
    OBVIOUS
  <2>1. CASE UNCHANGED registered
    BY <2>1
  <2>2. ASSUME NEW t \in Servers, Down(t)
        PROVE  registered'[s] = registered[s]
    <3>1. t # s
      BY <2>2 DEF Down, RestOpen, CInv, Shapes
    <3> QED  BY <2>2, <3>1 DEF Down, CInv, Shapes
  <2>3. ASSUME NEW t \in Servers, LoadLocal(t) \/ LoadRemote(t)
        PROVE  registered'[s] = registered[s]
    <3>1. t # s
      BY <2>3 DEF LoadLocal, LoadRemote, Fetched, RestOpen
    <3> QED  BY <2>3, <3>1 DEF LoadLocal, LoadRemote, CInv, Shapes
  <2>4. ASSUME NEW t \in Servers,
               Start(t) \/ Unpacks(t) \/ Discovery(t) \/ GrpcUp(t) \/ Signal(t)
                  \/ GrpcStops(t) \/ RestStops(t)
        PROVE  UNCHANGED registered
    BY <2>4 DEF Start, Unpacks, Discovery, Fetch, FetchFails, Answered, GrpcUp, Signal,
                GrpcStops, RestStops
  <2> QED
    BY <2>1, <2>2, <2>3, <2>4
       DEF ClusterNext, ServerStep, Kill, LoadFails, Exit, clusterVars
<1>2. Kept => [Kept]_clusterVars
  OBVIOUS
<1> QED  BY <1>1, ClusterInvariance, PTL DEF ClusterSpec, RestRefusalsAreFinal

-----------------------------------------------------------------------------
\* The archives of the site and what they hold.
AllArchives == UNION {ToSet(Archives(site, s)) : s \in Servers}
Pieces == {a.content : a \in AllArchives} \union {Hole}
Tars == [1..Chunks -> Pieces]
Full(content) == [i \in 1..Chunks |-> content]
Begun(content, n) == [i \in 1..Chunks |-> IF i <= n THEN content ELSE Hole]

Steps == {"idle", "look", "open", "copy", "rename", "done"}
Busy(s) == job[s].step \in {"look", "open", "copy", "rename"}
Writing(s) == job[s].step \in {"copy", "rename"}

UnpackTypes ==
    /\ site \in Sites
    /\ files \in Seq(Tars)
    /\ temp \in [Targets -> 0..Len(files)]
    /\ published \in [Targets -> 0..Len(files)]
    /\ job \in [Servers -> [step : Steps, nr : Nat, inode : 0..Len(files), at : Nat]]

\* An archive at a time, from the beginning of the file to its end.
Progress ==
    \A s \in Servers :
        /\ Busy(s) => job[s].nr \in DOMAIN Archives(site, s)
        /\ job[s].step \in {"look", "open"} => job[s].at = 0
        /\ job[s].step = "rename" => job[s].at = Chunks

\* No inode is at two paths.
PathsApart ==
    \A d, e \in Targets :
        /\ temp[d] # NoFile => temp[d] # published[e]
        /\ temp[d] # NoFile /\ temp[d] = temp[e] => d = e
        /\ published[d] # NoFile /\ published[d] = published[e] => d = e

\* A server writes to no other path than the one it opened, or the one that
\* its file has been renamed to.
OwnFile ==
    \A s \in Servers : Writing(s) =>
        /\ job[s].inode # NoFile
        /\ \A e \in Targets :
            (temp[e] = job[s].inode \/ published[e] = job[s].inode) => e = Archive(s).dst

\* Who unpacks alone still has its file at dst.tmp, as far as it has got.
OneAtATime ==
    \A s, t \in Servers : \A d \in Targets \ overlapped :
        Unpacking(s, d) /\ Unpacking(t, d) => s = t

SoFar ==
    \A s \in Servers : \A d \in Targets \ overlapped :
        Writing(s) /\ Archive(s).dst = d =>
            /\ temp[d] = job[s].inode
            /\ files[temp[d]] = Begun(Archive(s).content, job[s].at)

\* What has been published without company is whole,
PublishedWhole ==
    \A d \in Targets \ overlapped : \A a \in AllArchives :
        a.dst = d /\ published[d] # NoFile /\ ~Collide(d) => files[published[d]] = Full(a.content)

\* and a server has found or published all archives before its present one.
Behind(s, n) == \/ phase[s] \in {"fetching", "serving", "drained"}
                \/ job[s].step = "done"
                \/ (Busy(s) /\ n < job[s].nr)

Found ==
    \A s \in Servers : \A n \in DOMAIN Archives(site, s) :
        Behind(s, n) => published[Archives(site, s)[n].dst] # NoFile

UInv == /\ UnpackTypes /\ Progress /\ PathsApart /\ OwnFile
        /\ OneAtATime /\ SoFar /\ PublishedWhole /\ Found

-----------------------------------------------------------------------------
LEMMA ArchiveKnown ==
    ASSUME UnpackTypes, Progress, NEW s \in Servers, Busy(s)
    PROVE  Archive(s) \in AllArchives /\ Archive(s).dst \in Targets
<1>1. /\ Archives(site, s) \in Seq(ToSet(Archives(site, s)))
      /\ job[s].nr \in DOMAIN Archives(site, s)
  BY UnpackAssumption DEF UnpackTypes, Progress
<1>2. Archive(s) \in ToSet(Archives(site, s))
  BY <1>1 DEF Archive, ToSet
<1> QED  BY <1>2 DEF UnpackTypes, AllArchives, Targets

\* The archive after the nr-th, if there is one.
LEMMA NextJob ==
    ASSUME UnpackTypes, NEW s \in Servers, NEW nr \in Nat, nr > 0
    PROVE  LET j == NextArchive(s, nr)
           IN  /\ j \in [step : Steps, nr : Nat, inode : 0..Len(files), at : Nat]
               /\ j.at = 0
               /\ \/ j.step = "look" /\ j.nr = nr /\ nr \in DOMAIN Archives(site, s)
                  \/ j.step = "done" /\ \A n \in DOMAIN Archives(site, s) : n < nr
<1>1. Archives(site, s) \in Seq(ToSet(Archives(site, s)))
  BY UnpackAssumption DEF UnpackTypes
<1>2. /\ Len(Archives(site, s)) \in Nat
      /\ DOMAIN Archives(site, s) = 1..Len(Archives(site, s))
      /\ Len(files) \in Nat
  BY <1>1, LenProperties DEF UnpackTypes
<1>3. CASE nr <= Len(Archives(site, s))
  BY <1>2, <1>3 DEF NextArchive, Steps, NoFile
<1>4. CASE ~(nr <= Len(Archives(site, s)))
  BY <1>2, <1>4 DEF NextArchive, Idle, Steps, NoFile
<1> QED  BY <1>3, <1>4

LEMMA InitUInv == ASSUME ClusterInit PROVE UInv
<1>1. /\ files = <<>> /\ Len(files) = 0 /\ site \in Sites
      /\ \A d \in Targets : temp[d] = NoFile /\ published[d] = NoFile
      /\ \A s \in Servers : job[s] = Idle /\ phase[s] = "down"
  BY DEF ClusterInit, UnpackInit
<1>2. UnpackTypes
  BY <1>1 DEF ClusterInit, UnpackInit, UnpackTypes, Idle, Steps, NoFile
<1> QED
  BY <1>1, <1>2 DEF UInv, Progress, PathsApart, OwnFile, OneAtATime, SoFar, PublishedWhole,
                    Found, Behind, Busy, Writing, Unpacking, Idle

\* What is said of the archives stays as it is.
LEMMA SameSite ==
    ASSUME site' = site
    PROVE  /\ AllArchives' = AllArchives /\ Tars' = Tars
           /\ \A d : Collide(d)' = Collide(d)
BY DEF AllArchives, Tars, Pieces, Collide

\* Other parts of the server go on.
LEMMA ElsewhereUInv ==
    ASSUME UInv, UNCHANGED <<site, unpackVars>>,
           \A s \in Servers : \/ phase'[s] \in {phase[s], "down"}
                              \/ phase[s] \in {"fetching", "serving", "drained"}
                              \/ job[s].step = "done"
    PROVE  UInv'
<1>1. UnpackTypes' /\ Progress' /\ PathsApart' /\ OwnFile'
  BY DEF UInv, unpackVars, UnpackTypes, Tars, Pieces, AllArchives, Progress, Busy, PathsApart,
         OwnFile, Writing, Archive
<1>2. OneAtATime' /\ SoFar' /\ PublishedWhole'
  BY DEF UInv, unpackVars, OneAtATime, Unpacking, SoFar, Writing, Archive, Begun,
         PublishedWhole, AllArchives, Collide, Full
<1>3. Found'
  BY DEF UInv, unpackVars, Found, Behind, Busy
<1> QED  BY <1>1, <1>2, <1>3 DEF UInv

\* A server turns to an archive, or away from one, and leaves the files alone.
LEMMA TurnsUInv ==
    ASSUME UInv, NEW s \in Servers, NEW j,
           UNCHANGED <<site, files, temp, published>>,
           job' = [job EXCEPT ![s] = j],
           j \in [step : Steps, nr : Nat, inode : 0..Len(files), at : Nat],
           j.step \in {"idle", "look", "open", "done"}, j.at = 0,
           j.step \in {"look", "open"} => j.nr \in DOMAIN Archives(site, s),
           overlapped \subseteq overlapped',
           \A d \in Targets \ overlapped' : Unpacking(s, d)' =>
                \A t \in Servers \ {s} : ~Unpacking(t, d),
           \A t \in Servers \ {s} : phase'[t] = phase[t],
           \A n \in DOMAIN Archives(site, s) :
                Behind(s, n)' => published[Archives(site, s)[n].dst] # NoFile
    PROVE  UInv'
<1>1. UnpackTypes'
  BY DEF UInv, UnpackTypes, Tars, Pieces, AllArchives
<1>2. /\ job'[s] = j
      /\ \A t \in Servers : t # s => job'[t] = job[t]
  BY DEF UInv, UnpackTypes
<1>3. Progress' /\ PathsApart'
  BY <1>2 DEF UInv, Progress, PathsApart, Busy
<1>4. \A t \in Servers : Writing(t)' => t # s /\ Writing(t) /\ Archive(t)' = Archive(t)
  BY <1>2 DEF Writing, Archive
<1>5. OwnFile' /\ SoFar'
  BY <1>2, <1>4 DEF UInv, OwnFile, SoFar
<1>6. \A t \in Servers : \A d : t # s => Unpacking(t, d)' = Unpacking(t, d)
  BY <1>2 DEF Unpacking, Archive
<1>7. OneAtATime'
  BY <1>6 DEF UInv, OneAtATime
<1>8. PublishedWhole'
  BY DEF UInv, PublishedWhole, AllArchives, Collide
<1>9. Found'
  BY <1>2 DEF UInv, Found, Behind, Busy
<1> QED  BY <1>1, <1>3, <1>5, <1>7, <1>8, <1>9 DEF UInv

\* The next archive is looked at: the ones before it are there.
LEMMA NextArchiveUInv ==
    ASSUME UInv, NEW s \in Servers, NEW nr \in Nat, nr > 0,
           UNCHANGED <<site, files, temp, published, overlapped>>,
           job' = [job EXCEPT ![s] = NextArchive(s, nr)],
           phase'[s] = "loading", \A t \in Servers \ {s} : phase'[t] = phase[t],
           \A n \in DOMAIN Archives(site, s) :
                n < nr => published[Archives(site, s)[n].dst] # NoFile
    PROVE  UInv'
<1> DEFINE j == NextArchive(s, nr)
<1>1. /\ j \in [step : Steps, nr : Nat, inode : 0..Len(files), at : Nat]
      /\ j.at = 0
      /\ \/ j.step = "look" /\ j.nr = nr /\ nr \in DOMAIN Archives(site, s)
         \/ j.step = "done" /\ \A n \in DOMAIN Archives(site, s) : n < nr
  BY NextJob DEF UInv
<1> HIDE DEF j
<1>2. job'[s] = j
  BY DEF UInv, UnpackTypes, j
<1>3. \A n \in DOMAIN Archives(site, s) :
        Behind(s, n)' => published[Archives(site, s)[n].dst] # NoFile
  BY <1>1, <1>2 DEF Behind, Busy
<1>4. \A d : ~Unpacking(s, d)'
  BY <1>1, <1>2 DEF Unpacking
<1>5. job' = [job EXCEPT ![s] = j]
  BY DEF j
<1> QED  BY <1>1, <1>3, <1>4, <1>5, TurnsUInv

LEMMA LookUInv ==
    ASSUME UInv, NEW s \in Servers, phase \in [Servers -> Phases], phase[s] = "loading",
           Look(s), UNCHANGED <<site, phase>>
    PROVE  UInv'
<1> DEFINE d == Archive(s).dst
<1>1. job[s].step = "look" /\ UNCHANGED <<files, temp, published>>
  BY DEF Look
<1>2. /\ d \in Targets /\ job[s].nr \in DOMAIN Archives(site, s) /\ Busy(s)
      /\ job[s].nr \in Nat /\ job[s].at = 0
  BY <1>1, ArchiveKnown DEF UInv, UnpackTypes, Progress, Busy
<1>3. \A n \in DOMAIN Archives(site, s) :
        n < job[s].nr => published[Archives(site, s)[n].dst] # NoFile
  BY <1>2 DEF UInv, Found, Behind
<1>4. CASE published[d] # NoFile
  <2>1. job' = [job EXCEPT ![s] = NextArchive(s, job[s].nr + 1)] /\ overlapped' = overlapped
    BY <1>4 DEF Look
  <2>2. DOMAIN Archives(site, s) \subseteq Nat
    <3>1. Archives(site, s) \in Seq(ToSet(Archives(site, s)))
      BY UnpackAssumption DEF UInv, UnpackTypes
    <3> QED  BY <3>1, LenProperties
  <2>3. \A n \in DOMAIN Archives(site, s) :
            n < job[s].nr + 1 => published[Archives(site, s)[n].dst] # NoFile
    BY <1>2, <1>3, <1>4, <2>2 DEF Archive
  <2>4. phase'[s] = "loading" /\ \A t \in Servers \ {s} : phase'[t] = phase[t]
    OBVIOUS
  <2>5. job[s].nr + 1 \in Nat /\ job[s].nr + 1 > 0
    BY <1>2
  <2> QED  BY <1>1, <2>1, <2>3, <2>4, <2>5, NextArchiveUInv
<1>5. CASE published[d] = NoFile
  <2> DEFINE j == [job[s] EXCEPT !.step = "open"]
  <2>1. /\ job' = [job EXCEPT ![s] = j]
        /\ overlapped' = overlapped \union {e \in {d} : \E t \in Servers \ {s} : Unpacking(t, d)}
    BY <1>5 DEF Look
  <2>2. j \in [step : Steps, nr : Nat, inode : 0..Len(files), at : Nat]
    BY DEF UInv, UnpackTypes, Steps
  <2>3. j.step = "open" /\ j.nr = job[s].nr /\ j.at = 0 /\ job'[s] = j
    BY <1>2, <2>1 DEF UInv, UnpackTypes
  <2> HIDE DEF j
  <2>4. \A n \in DOMAIN Archives(site, s) :
            Behind(s, n)' => published[Archives(site, s)[n].dst] # NoFile
    BY <1>1, <1>3, <2>3 DEF Behind, Busy
  <2>5. \A e \in Targets \ overlapped' : Unpacking(s, e)' =>
            \A t \in Servers \ {s} : ~Unpacking(t, e)
    <3>1. \A e : Unpacking(s, e)' => e = d
      BY <2>3 DEF Unpacking, Archive
    <3> QED  BY <2>1, <3>1
  <2> QED  BY <1>1, <1>2, <2>1, <2>2, <2>3, <2>4, <2>5, TurnsUInv
<1> QED  BY <1>4, <1>5

LEMMA StartUInv ==
    ASSUME UInv, NEW s \in Servers, phase \in [Servers -> Phases], Start(s)
    PROVE  UInv'
<1>1. /\ phase' = [phase EXCEPT ![s] = "loading"]
      /\ UNCHANGED <<site, files, temp, published, overlapped>>
  BY DEF Start
<1>2. CASE Unpackable(s)
  <2>1. Archives(site, s) \in Seq(ToSet(Archives(site, s)))
    BY UnpackAssumption DEF UInv, UnpackTypes
  <2>2. \A n \in DOMAIN Archives(site, s) : ~(n < 1)
    BY <2>1, LenProperties
  <2>3. job' = [job EXCEPT ![s] = NextArchive(s, 1)]
    BY <1>2 DEF Start
  <2>4. phase'[s] = "loading" /\ \A t \in Servers \ {s} : phase'[t] = phase[t]
    BY <1>1
  <2>5. \A n \in DOMAIN Archives(site, s) :
            n < 1 => published[Archives(site, s)[n].dst] # NoFile
    BY <2>2
  <2>6. 1 \in Nat /\ 1 > 0
    OBVIOUS
  <2> QED  BY <1>1, <2>3, <2>4, <2>5, <2>6, NextArchiveUInv
<1>3. CASE ~Unpackable(s)
  <2>1. job' = [job EXCEPT ![s] = Idle]
    BY <1>3 DEF Start
  <2>2. Idle \in [step : Steps, nr : Nat, inode : 0..Len(files), at : Nat]
    BY LenProperties DEF UInv, UnpackTypes, Idle, Steps, NoFile
  <2>3. job'[s] = Idle /\ phase'[s] = "loading" /\ \A t \in Servers \ {s} : phase'[t] = phase[t]
    BY <1>1, <2>1 DEF UInv, UnpackTypes
  <2>4. (\A d : ~Unpacking(s, d)') /\ (\A n : ~Behind(s, n)')
    BY <2>3 DEF Unpacking, Behind, Busy, Idle
  <2>5. Idle.step = "idle" /\ Idle.at = 0
    BY DEF Idle
  <2> HIDE DEF Idle
  <2> QED  BY <1>1, <2>1, <2>2, <2>3, <2>4, <2>5, TurnsUInv
<1> QED  BY <1>2, <1>3

\* What a process was writing stays as it is.
LEMMA DownUInv ==
    ASSUME UInv, NEW s \in Servers, phase \in [Servers -> Phases], Down(s)
    PROVE  UInv'
<1>1. /\ UNCHANGED <<site, files, temp, published, overlapped>>
      /\ job' = [job EXCEPT ![s] = Idle]
      /\ phase' = [phase EXCEPT ![s] = "down"]
  BY DEF Down
<1>2. Idle \in [step : Steps, nr : Nat, inode : 0..Len(files), at : Nat]
  BY LenProperties DEF UInv, UnpackTypes, Idle, Steps, NoFile
<1>3. job'[s] = Idle /\ phase'[s] = "down" /\ \A t \in Servers \ {s} : phase'[t] = phase[t]
  BY <1>1 DEF UInv, UnpackTypes
<1>4. (\A d : ~Unpacking(s, d)') /\ (\A n : ~Behind(s, n)')
  BY <1>3 DEF Unpacking, Behind, Busy, Idle
<1>5. Idle.step = "idle" /\ Idle.at = 0
  BY DEF Idle
<1> HIDE DEF Idle
<1> QED  BY <1>1, <1>2, <1>3, <1>4, <1>5, TurnsUInv

\* The file of a server that unpacks alone is at dst.tmp and nowhere else, so
\* no other server writes it and nobody reads it.
LEMMA AloneOnItsFile ==
    ASSUME UInv, NEW s \in Servers, NEW t \in Servers, Writing(s),
           NEW e \in Targets \ overlapped, Archive(s).dst = e,
           Writing(t), job[t].inode = job[s].inode
    PROVE  s = t
<1>1. temp[e] = job[s].inode /\ job[s].inode # NoFile
  BY DEF UInv, SoFar, OwnFile
<1>2. Unpacking(s, e)
  BY DEF Writing, Unpacking
<1>3. Unpacking(t, e)
  BY <1>1 DEF UInv, OwnFile, Writing, Unpacking
<1> QED  BY <1>2, <1>3 DEF UInv, OneAtATime

LEMMA OpenTempUInv ==
    ASSUME UInv, NEW s \in Servers, OpenTemp(s), UNCHANGED <<site, phase>>
    PROVE  UInv'
<1> DEFINE d == Archive(s).dst
           inode == IF temp[d] = NoFile THEN Len(files) + 1 ELSE temp[d]
           empty == [i \in 1..Chunks |-> Hole]
<1>1. /\ d \in Targets /\ Busy(s) /\ job[s].step = "open" /\ job[s].at = 0
      /\ Unpacking(s, d)
  BY ArchiveKnown DEF UInv, Progress, OpenTemp, Busy, Unpacking
<1>2. /\ files' = IF inode > Len(files) THEN Append(files, empty)
                  ELSE [files EXCEPT ![inode] = empty]
      /\ temp' = [temp EXCEPT ![d] = inode]
      /\ job' = [job EXCEPT ![s] = [@ EXCEPT !.step = "copy", !.inode = inode]]
      /\ UNCHANGED <<published, overlapped>>
  BY DEF OpenTemp
<1>3. Len(files) \in Nat /\ files \in Seq(Tars) /\ empty \in Tars
  BY LenProperties DEF UInv, UnpackTypes, Tars, Pieces
<1>4. /\ inode \in 1..Len(files')
      /\ Len(files) <= Len(files') /\ Len(files') \in Nat
      /\ files' \in Seq(Tars) /\ files'[inode] = empty
      /\ \A n \in 1..Len(files) : n # inode => files'[n] = files[n]
      /\ \/ inode = temp[d] /\ inode \in 1..Len(files)
         \/ inode > Len(files)
  <2>1. CASE temp[d] = NoFile
    <3>1. inode = Len(files) + 1 /\ files' = Append(files, empty)
      BY <1>2, <1>3, <2>1
    <3> QED  BY <1>3, <3>1, AppendProperties
  <2>2. CASE temp[d] # NoFile
    <3>1. inode = temp[d] /\ inode \in 1..Len(files)
      BY <1>1, <1>3, <2>2 DEF UInv, UnpackTypes, NoFile
    <3>2. files' = [files EXCEPT ![inode] = empty]
      BY <1>2, <1>3, <3>1
    <3> HIDE DEF inode, empty
    <3> QED  BY <1>3, <3>1, <3>2, ExceptSeq, LenProperties
  <2> QED  BY <2>1, <2>2
<1> HIDE DEF inode, empty
<1>5. /\ \A t \in Servers : t # s => job'[t] = job[t]
      /\ job'[s].step = "copy" /\ job'[s].inode = inode /\ job'[s].at = 0
      /\ job'[s].nr = job[s].nr /\ Archive(s)' = Archive(s)
      /\ \A t \in Servers : Archive(t)' = Archive(t)
      /\ temp'[d] = inode /\ \A e \in Targets : e # d => temp'[e] = temp[e]
  BY <1>1, <1>2 DEF UInv, UnpackTypes, Archive
<1>6. UnpackTypes'
  <2>1. site' = site /\ site \in Sites /\ files' \in Seq(Tars)'
    BY <1>4, SameSite DEF UInv, UnpackTypes
  <2>2. 0..Len(files) \subseteq 0..Len(files')
    BY <1>3, <1>4
  <2>3. temp' \in [Targets -> 0..Len(files')] /\ published' \in [Targets -> 0..Len(files')]
    <3>1. inode \in 0..Len(files')
      BY <1>4
    <3> QED  BY <1>2, <2>2, <3>1 DEF UInv, UnpackTypes
  <2>4. job' \in [Servers -> [step : Steps, nr : Nat, inode : 0..Len(files'), at : Nat]]
    <3>1. \A t \in Servers : job[t] \in [step : Steps, nr : Nat, inode : 0..Len(files'), at : Nat]
      BY <2>2 DEF UInv, UnpackTypes
    <3>2. inode \in 0..Len(files') /\ "copy" \in Steps
      BY <1>4 DEF Steps
    <3>3. [job[s] EXCEPT !.step = "copy", !.inode = inode]
            \in [step : Steps, nr : Nat, inode : 0..Len(files'), at : Nat]
      BY <3>1, <3>2
    <3> QED  BY <1>2, <3>1, <3>3 DEF UInv, UnpackTypes
  <2> QED  BY <2>1, <2>3, <2>4 DEF UnpackTypes
<1>7. Progress'
  BY <1>1, <1>5 DEF UInv, Progress, Busy
<1>8. PathsApart'
  BY <1>1, <1>2, <1>3, <1>4, <1>5 DEF UInv, UnpackTypes, PathsApart, NoFile
<1>9. OwnFile'
  <2> SUFFICES ASSUME NEW t \in Servers, Writing(t)'
               PROVE  /\ job'[t].inode # NoFile
                      /\ \A e \in Targets :
                            (temp'[e] = job'[t].inode \/ published[e] = job'[t].inode)
                                => e = Archive(t).dst
    BY <1>2, <1>5 DEF OwnFile
  <2>1. CASE t = s
    BY <1>1, <1>3, <1>4, <1>5, <2>1 DEF UInv, UnpackTypes, PathsApart, NoFile
  <2>2. CASE t # s
    <3>1. Writing(t) /\ job'[t] = job[t]
      BY <1>5, <2>2 DEF Writing
    <3>2. job[t].inode \in 0..Len(files)
      BY DEF UInv, UnpackTypes
    <3> QED  BY <1>1, <1>3, <1>4, <1>5, <3>1, <3>2 DEF UInv, OwnFile
  <2> QED  BY <2>1, <2>2
<1>10. OneAtATime'
  BY <1>1, <1>2, <1>5 DEF UInv, OneAtATime, Unpacking
<1>11. SoFar'
  <2> SUFFICES ASSUME NEW t \in Servers, NEW e \in (Targets \ overlapped)',
                      Writing(t)', (Archive(t).dst = e)'
               PROVE  (/\ temp[e] = job[t].inode
                       /\ files[temp[e]] = Begun(Archive(t).content, job[t].at))'
    BY DEF SoFar
  <2>0. e \in Targets \ overlapped /\ Archive(t)' = Archive(t) /\ Archive(t).dst = e
    BY <1>2, <1>5
  <2>1. CASE t = s
    <3>1. empty = Begun(Archive(s).content, 0)
      BY UnpackAssumption DEF empty, Begun
    <3> QED  BY <1>4, <1>5, <2>0, <2>1, <3>1
  <2>2. CASE t # s
    <3>1. Writing(t) /\ job'[t] = job[t] /\ Unpacking(t, e)
      BY <1>5, <2>0, <2>2 DEF Writing, Unpacking
    <3>2. e # d
      BY <1>1, <2>0, <2>2, <3>1 DEF UInv, OneAtATime
    <3>3. /\ temp[e] = job[t].inode /\ temp[e] # NoFile
          /\ files[temp[e]] = Begun(Archive(t).content, job[t].at)
      BY <2>0, <3>1 DEF UInv, SoFar, OwnFile
    <3>4. temp[e] \in 1..Len(files) /\ temp[e] # inode
      BY <1>1, <1>3, <1>4, <2>0, <3>2, <3>3 DEF UInv, UnpackTypes, PathsApart, NoFile
    <3> QED  BY <1>4, <1>5, <2>0, <3>1, <3>2, <3>3, <3>4
  <2> QED  BY <2>1, <2>2
<1>12. PublishedWhole'
  <2> SUFFICES ASSUME NEW e \in Targets \ overlapped, NEW a \in AllArchives,
                      a.dst = e, published[e] # NoFile, ~Collide(e)
               PROVE  files'[published[e]] = Full(a.content)
    BY <1>2, SameSite DEF PublishedWhole, Full
  <2>1. published[e] \in 1..Len(files) /\ published[e] # inode
    BY <1>1, <1>3, <1>4 DEF UInv, UnpackTypes, PathsApart, NoFile
  <2> QED  BY <1>4, <2>1 DEF UInv, PublishedWhole
<1>13. Found'
  BY <1>1, <1>2, <1>5 DEF UInv, Found, Behind, Busy
<1> QED  BY <1>6, <1>7, <1>8, <1>9, <1>10, <1>11, <1>12, <1>13 DEF UInv

LEMMA CopyUInv ==
    ASSUME UInv, NEW s \in Servers, Copy(s), UNCHANGED <<site, phase>>
    PROVE  UInv'
<1> DEFINE d == Archive(s).dst
           c == Archive(s).content
           inode == job[s].inode
           next == job[s].at + 1
           tar == [files[inode] EXCEPT ![next] = c]
<1>1. /\ d \in Targets /\ Busy(s) /\ job[s].step = "copy" /\ Writing(s)
      /\ Unpacking(s, d) /\ Archive(s) \in AllArchives
  BY ArchiveKnown DEF UInv, Copy, Busy, Writing, Unpacking
<1>2. /\ files' = [files EXCEPT ![inode] = tar]
      /\ job' = [job EXCEPT ![s] = [@ EXCEPT !.at = next,
                        !.step = IF next = Chunks THEN "rename" ELSE "copy"]]
      /\ UNCHANGED <<temp, published, overlapped>>
  BY DEF Copy
<1>3. /\ Len(files) \in Nat /\ files \in Seq(Tars) /\ DOMAIN files = 1..Len(files)
      /\ inode \in 1..Len(files) /\ next \in Nat
  <2>1. files \in Seq(Tars)
    BY DEF UInv, UnpackTypes
  <2>2. inode \in 0..Len(files) /\ inode # 0 /\ job[s].at \in Nat
    BY <1>1 DEF UInv, UnpackTypes, OwnFile, NoFile
  <2> QED  BY <2>1, <2>2, LenProperties
<1>4. tar \in Tars
  <2>1. files[inode] \in Tars
    BY <1>3, ElementOfSeq
  <2>2. c \in Pieces
    BY <1>1 DEF Pieces
  <2> QED  BY <2>1, <2>2 DEF Tars
<1>5. /\ files' \in Seq(Tars) /\ Len(files') = Len(files)
      /\ files'[inode] = tar
      /\ \A n \in 1..Len(files) : n # inode => files'[n] = files[n]
  <2> HIDE DEF tar
  <2> QED  BY <1>2, <1>3, <1>4, ExceptSeq, LenProperties
<1>6. /\ \A t \in Servers : t # s => job'[t] = job[t]
      /\ job'[s].step = IF next = Chunks THEN "rename" ELSE "copy"
      /\ job'[s].inode = inode /\ job'[s].at = next /\ job'[s].nr = job[s].nr
  BY <1>2 DEF UInv, UnpackTypes
<1> HIDE DEF tar, inode, next
<1>7. /\ \A t \in Servers : Archive(t)' = Archive(t)
      /\ \A t \in Servers : Writing(t)' = Writing(t) /\ Busy(t)' = Busy(t)
      /\ \A t \in Servers : \A e : Unpacking(t, e)' = Unpacking(t, e)
      /\ \A t \in Servers : job'[t].inode = job[t].inode
  <2>1. \A t \in Servers : job'[t].nr = job[t].nr /\ job'[t].inode = job[t].inode
    BY <1>6 DEF inode
  <2>2. \A t \in Servers : Archive(t)' = Archive(t)
    BY <2>1 DEF Archive
  <2> QED  BY <1>1, <1>6, <2>1, <2>2 DEF Writing, Busy, Unpacking
<1>8. UnpackTypes'
  <2>1. site' = site /\ site \in Sites /\ files' \in Seq(Tars)'
    BY <1>5, SameSite DEF UInv, UnpackTypes
  <2>2. [job[s] EXCEPT !.at = next, !.step = IF next = Chunks THEN "rename" ELSE "copy"]
            \in [step : Steps, nr : Nat, inode : 0..Len(files), at : Nat]
    BY <1>3 DEF UInv, UnpackTypes, Steps
  <2>3. job' \in [Servers -> [step : Steps, nr : Nat, inode : 0..Len(files), at : Nat]]
    BY <1>2, <2>2 DEF UInv, UnpackTypes
  <2> QED  BY <1>2, <1>5, <2>1, <2>3 DEF UInv, UnpackTypes
<1>9. Progress'
  <2>1. \A t \in Servers : /\ Busy(t)' => job'[t].nr \in DOMAIN Archives(site, t)
                           /\ job'[t].step \in {"look", "open"} => job'[t].at = 0
    BY <1>6, <1>7 DEF UInv, Progress
  <2>2. \A t \in Servers : job'[t].step = "rename" => job'[t].at = Chunks
    BY <1>6 DEF UInv, Progress
  <2> QED  BY <2>1, <2>2 DEF Progress
<1>10. PathsApart' /\ OneAtATime'
  BY <1>2, <1>7 DEF UInv, PathsApart, OneAtATime
<1>11. OwnFile'
  BY <1>2, <1>7 DEF UInv, OwnFile
<1>12. SoFar'
  <2> SUFFICES ASSUME NEW t \in Servers, NEW e \in (Targets \ overlapped)',
                      Writing(t)', (Archive(t).dst = e)'
               PROVE  (/\ temp[e] = job[t].inode
                       /\ files[temp[e]] = Begun(Archive(t).content, job[t].at))'
    BY DEF SoFar
  <2>1. /\ e \in Targets \ overlapped /\ Archive(t)' = Archive(t) /\ Archive(t).dst = e
        /\ Writing(t)
    BY <1>2, <1>7
  <2>2. /\ temp[e] = job[t].inode
        /\ files[temp[e]] = Begun(Archive(t).content, job[t].at)
    BY <2>1 DEF UInv, SoFar
  <2>3. CASE t = s
    <3>1. tar = Begun(c, next)
      <4>1. files[inode] = Begun(c, job[s].at) /\ job[s].at \in Nat
        BY <2>2, <2>3 DEF UInv, UnpackTypes, inode
      <4> QED  BY <4>1, UnpackAssumption DEF tar, Begun, next
    <3> QED  BY <1>2, <1>5, <1>6, <2>1, <2>2, <2>3, <3>1 DEF inode
  <2>4. CASE t # s
    <3>1. job[t].inode # inode
      BY <1>1, <2>1, <2>4, AloneOnItsFile DEF inode
    <3>2. temp[e] \in 1..Len(files)
      BY <1>3, <2>1, <2>2 DEF UInv, UnpackTypes, OwnFile, NoFile
    <3> QED  BY <1>2, <1>5, <1>6, <2>1, <2>2, <2>4, <3>1, <3>2
  <2> QED  BY <2>3, <2>4
<1>13. PublishedWhole'
  <2> SUFFICES ASSUME NEW e \in Targets \ overlapped, NEW a \in AllArchives,
                      a.dst = e, published[e] # NoFile, ~Collide(e)
               PROVE  files'[published[e]] = Full(a.content)
    BY <1>2, SameSite DEF PublishedWhole, Full
  <2>1. published[e] # inode
    <3>1. SUFFICES ASSUME published[e] = inode PROVE FALSE
      OBVIOUS
    <3>2. e = d
      BY <1>1, <3>1 DEF UInv, OwnFile, inode
    <3>3. temp[e] = inode /\ inode # NoFile
      BY <1>1, <3>2 DEF UInv, SoFar, OwnFile, inode
    <3> QED  BY <3>1, <3>3 DEF UInv, PathsApart
  <2>2. published[e] \in 1..Len(files)
    BY <1>3 DEF UInv, UnpackTypes, NoFile
  <2> QED  BY <1>5, <2>1, <2>2 DEF UInv, PublishedWhole
<1>14. Found'
  <2>1. \A t \in Servers : \A n : Behind(t, n)' = Behind(t, n)
    BY <1>1, <1>6, <1>7 DEF Behind, Busy
  <2> QED  BY <1>2, <2>1 DEF UInv, Found
<1> QED  BY <1>8, <1>9, <1>10, <1>11, <1>12, <1>13, <1>14 DEF UInv

\* dst gets the file that was at dst.tmp: if nobody else unpacked the archive,
\* that is the one this server has written to its end.
LEMMA RenameUInv ==
    ASSUME UInv, NEW s \in Servers, phase[s] = "loading", Rename(s), UNCHANGED <<site, phase>>
    PROVE  UInv'
<1> DEFINE d == Archive(s).dst
           j == NextArchive(s, job[s].nr + 1)
<1>1. /\ d \in Targets /\ Busy(s) /\ job[s].step = "rename" /\ Writing(s)
      /\ job[s].nr \in Nat /\ job[s].at = Chunks
  BY ArchiveKnown DEF UInv, UnpackTypes, Progress, Rename, Busy, Writing
<1>2. /\ temp[d] # NoFile
      /\ published' = [published EXCEPT ![d] = temp[d]]
      /\ temp' = [temp EXCEPT ![d] = NoFile]
      /\ job' = [job EXCEPT ![s] = j]
      /\ UNCHANGED <<files, overlapped>>
  BY DEF Rename
<1>3. /\ j \in [step : Steps, nr : Nat, inode : 0..Len(files), at : Nat]
      /\ j.at = 0
      /\ \/ j.step = "look" /\ j.nr = job[s].nr + 1 /\ job[s].nr + 1 \in DOMAIN Archives(site, s)
         \/ j.step = "done" /\ \A n \in DOMAIN Archives(site, s) : n < job[s].nr + 1
  <2>1. job[s].nr + 1 \in Nat /\ job[s].nr + 1 > 0
    BY <1>1
  <2> HIDE DEF j
  <2>2. UnpackTypes
    BY DEF UInv
  <2> QED  BY <2>1, <2>2, NextJob DEF j
<1> HIDE DEF j
<1>4. /\ \A t \in Servers : t # s => job'[t] = job[t]
      /\ job'[s] = j
      /\ \A t \in Servers : t # s => Archive(t)' = Archive(t)
      /\ temp'[d] = NoFile /\ published'[d] = temp[d]
      /\ \A e \in Targets : e # d => temp'[e] = temp[e] /\ published'[e] = published[e]
  BY <1>1, <1>2 DEF UInv, UnpackTypes, Archive
<1>5. \A t \in Servers : Writing(t)' => t # s /\ Writing(t)
  BY <1>3, <1>4 DEF Writing
<1>6. UnpackTypes'
  <2>1. 0 \in 0..Len(files) /\ temp[d] \in 0..Len(files)
    BY <1>1, LenProperties DEF UInv, UnpackTypes
  <2> QED  BY <1>1, <1>2, <1>3, <2>1, SameSite DEF UInv, UnpackTypes, NoFile
<1>7. Progress'
  BY <1>3, <1>4 DEF UInv, Progress, Busy
<1>8. PathsApart'
  BY <1>1, <1>2, <1>4 DEF UInv, PathsApart
<1>9. OwnFile'
  <2> SUFFICES ASSUME NEW t \in Servers, Writing(t)'
               PROVE  (/\ job[t].inode # NoFile
                       /\ \A e \in Targets :
                            (temp[e] = job[t].inode \/ published[e] = job[t].inode)
                                => e = Archive(t).dst)'
    BY DEF OwnFile
  <2>1. t # s /\ Writing(t) /\ job'[t] = job[t] /\ Archive(t)' = Archive(t)
    BY <1>4, <1>5
  <2>2. /\ job[t].inode # NoFile
        /\ \A e \in Targets :
            (temp[e] = job[t].inode \/ published[e] = job[t].inode) => e = Archive(t).dst
    BY <2>1 DEF UInv, OwnFile
  <2> QED  BY <1>1, <1>4, <2>1, <2>2
<1>10. OneAtATime'
  <2>1. \A t \in Servers : \A e : Unpacking(t, e)' => t # s /\ Unpacking(t, e)
    BY <1>3, <1>4 DEF Unpacking
  <2> QED  BY <1>2, <2>1 DEF UInv, OneAtATime
<1>11. SoFar'
  <2> SUFFICES ASSUME NEW t \in Servers, NEW e \in (Targets \ overlapped)',
                      Writing(t)', (Archive(t).dst = e)'
               PROVE  (/\ temp[e] = job[t].inode
                       /\ files[temp[e]] = Begun(Archive(t).content, job[t].at))'
    BY DEF SoFar
  <2>1. /\ e \in Targets \ overlapped /\ Archive(t)' = Archive(t) /\ Archive(t).dst = e
        /\ t # s /\ Writing(t) /\ job'[t] = job[t]
    BY <1>2, <1>4, <1>5
  <2>2. e # d
    BY <1>1, <2>1 DEF UInv, OneAtATime, Unpacking, Writing
  <2> QED  BY <1>2, <1>4, <2>1, <2>2 DEF UInv, SoFar
<1>12. PublishedWhole'
  <2> SUFFICES ASSUME NEW e \in Targets \ overlapped, NEW a \in AllArchives,
                      a.dst = e, published'[e] # NoFile, ~Collide(e)
               PROVE  files[published'[e]] = Full(a.content)
    BY <1>2, SameSite DEF PublishedWhole, Full
  <2>1. CASE e # d
    BY <1>4, <2>1 DEF UInv, PublishedWhole
  <2>2. CASE e = d
    <3>1. Archive(s) \in AllArchives
      BY <1>1, ArchiveKnown DEF UInv
    <3>2. a.content = Archive(s).content
      BY <2>2, <3>1 DEF Collide, AllArchives
    <3>3. files[temp[d]] = Begun(Archive(s).content, Chunks)
      BY <1>1, <2>2 DEF UInv, SoFar
    <3>4. Begun(a.content, Chunks) = Full(a.content)
      BY UnpackAssumption DEF Begun, Full
    <3> QED  BY <1>4, <2>2, <3>2, <3>3, <3>4
  <2> QED  BY <2>1, <2>2
<1>13. Found'
  <2> SUFFICES ASSUME NEW t \in Servers, NEW n \in DOMAIN Archives(site, t), Behind(t, n)'
               PROVE  published'[Archives(site, t)[n].dst] # NoFile
    BY DEF Found
  <2>1. Archives(site, t) \in Seq(ToSet(Archives(site, t))) /\ DOMAIN Archives(site, t) \subseteq Nat
    BY UnpackAssumption, LenProperties DEF UInv, UnpackTypes
  <2>2. Archives(site, t)[n].dst \in Targets
    <3>1. Archives(site, t)[n] \in ToSet(Archives(site, t)) /\ site \in Sites
      BY DEF UInv, UnpackTypes, ToSet
    <3> QED  BY <3>1 DEF Targets
  <2>3. CASE published[Archives(site, t)[n].dst] # NoFile
    BY <1>2, <1>4, <2>2, <2>3
  <2>4. CASE t = s /\ n = job[s].nr
    BY <1>2, <1>4, <2>4 DEF Archive
  <2>5. CASE Behind(t, n)
    BY <2>3, <2>5 DEF UInv, Found
  <2>6. Behind(t, n) \/ (t = s /\ n = job[s].nr)
    BY <1>1, <1>3, <1>4, <2>1 DEF Behind, Busy
  <2> QED  BY <2>4, <2>5, <2>6
<1> QED  BY <1>6, <1>7, <1>8, <1>9, <1>10, <1>11, <1>12, <1>13 DEF UInv

LEMMA NextUInv == ASSUME UInv, CInv, [ClusterNext]_clusterVars PROVE UInv'
<1>1. phase \in [Servers -> Phases]
  BY DEF CInv, Shapes
<1>2. ASSUME NEW s \in Servers, Unpacks(s) PROVE UInv'
  BY <1>1, <1>2, LookUInv, OpenTempUInv, CopyUInv, RenameUInv DEF Unpacks, UnpackStep
<1>3. ASSUME NEW s \in Servers, Kill(s) \/ LoadFails(s) \/ Exit(s)
      PROVE  UInv'
  BY <1>1, <1>3, DownUInv DEF Kill, LoadFails, Exit
<1>4. ASSUME NEW s \in Servers,
             LoadLocal(s) \/ Discovery(s) \/ LoadRemote(s) \/ GrpcUp(s) \/ Signal(s)
                \/ GrpcStops(s) \/ RestStops(s)
      PROVE  UInv'
  <2>1. UNCHANGED <<site, unpackVars>>
    BY <1>4 DEF LoadLocal, Discovery, Fetch, FetchFails, Answered, LoadRemote, GrpcUp, Signal,
                GrpcStops, RestStops
  <2>2. \A t \in Servers : \/ phase'[t] \in {phase[t], "down"}
                           \/ phase[t] \in {"fetching", "serving", "drained"}
                           \/ job[t].step = "done"
    BY <1>1, <1>4 DEF LoadLocal, Discovery, Fetch, FetchFails, Answered, LoadRemote, Fetched,
                      GrpcUp, Signal, GrpcStops, RestStops
  <2> QED  BY <2>1, <2>2, ElsewhereUInv
<1>5. CASE UNCHANGED clusterVars
  BY <1>5, ElsewhereUInv DEF clusterVars
<1> QED  BY <1>1, <1>2, <1>3, <1>4, <1>5, StartUInv DEF ClusterNext, ServerStep

\* The inductive invariant of unpacking holds in every reachable state.
THEOREM UnpackInvariance == ClusterSpec => []UInv
<1>1. ClusterInit => UInv
  BY InitUInv
<1>2. UInv /\ CInv /\ [ClusterNext]_clusterVars => UInv'
  BY NextUInv
<1> QED  BY <1>1, <1>2, ClusterInvariance, PTL DEF ClusterSpec

\* A server that accepts requests has a whole .tar at the place of every archive
\* of its views, whatever was killed while it wrote, except where two servers
\* unpacked one archive at once or two archives have one place
\* (_resolve_tar_gz_in_views).
THEOREM WholeArchivesServed == ClusterSpec => []ServesWholeArchives
<1>1. ASSUME UInv PROVE ServesWholeArchives
  <2> SUFFICES ASSUME NEW s \in Servers, RestOpen(s), NEW a \in ToSet(Archives(site, s)),
                      a.dst \notin overlapped, ~Collide(a.dst)
               PROVE  Whole(a)
    BY DEF ServesWholeArchives
  <2>1. PICK n \in DOMAIN Archives(site, s) : a = Archives(site, s)[n]
    BY DEF ToSet
  <2>2. published[a.dst] # NoFile
    BY <1>1, <2>1 DEF UInv, Found, Behind, RestOpen
  <2>3. a.dst \in Targets /\ a \in AllArchives
    BY <1>1 DEF UInv, UnpackTypes, Targets, AllArchives
  <2> QED  BY <1>1, <2>2, <2>3 DEF UInv, PublishedWhole, Full, Whole
<1> QED  BY <1>1, UnpackInvariance, PTL

=============================================================================
