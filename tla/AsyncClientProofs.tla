------------------------- MODULE AsyncClientProofs -------------------------
(***************************************************************************)
(* What tasks that share an AsyncClient may do to its transports, for any  *)
(* tasks, any number of retries and of operations.  The argument is about  *)
(* who holds a transport: one task that starts it, or all of them.         *)
(***************************************************************************)
EXTENDS AsyncClient, TLAPS

Attempting == {"avail", "ping", "request"}
Changing == Starting \cup {"reset"}
Stages == Starting \cup {"idle", "request", "reset"}
SomeHandle == Handles \cup {NoHandle}

Links == {"unborn", "open", "closing", "closed"}
Transports == [rest : SomeHandle, grpc : SomeHandle]

Pasts == [flags : SUBSET {"overlap", "probe cancelled", "reset cancelled"},
          reset : SUBSET Handles]

SharedTypes ==
    /\ choice \in {"auto", "rest", "grpc"}
    /\ endpoint \in {"none", "http", "https"}
    /\ tx \in SomeHandle
    /\ kind \in [Handles -> {"rest", "grpc"}]
    /\ link \in [Handles -> Links]
    /\ past \in Pasts

TaskTypes ==
    /\ at \in [Tasks -> Stages]
    /\ mine \in [Tasks -> Transports]
    /\ use \in [Tasks -> SomeHandle]
    /\ attempt \in [Tasks -> Nat]
    /\ asleep \in [Tasks -> BOOLEAN]
    /\ raw \in [Tasks -> SomeHandle]
    /\ unread \in [Tasks -> BOOLEAN]

\* What a task has opened, and in which state, by the await it is suspended in.
Staged(t) ==
    /\ at[t] \notin Starting => mine[t] = Nothing
    /\ at[t] \notin Attempting => attempt[t] = 0 /\ ~asleep[t]
    /\ \A h \in Own(t) : link[h] # "unborn"
    /\ mine[t].rest # NoHandle => endpoint # "none" /\ mine[t].rest # mine[t].grpc
    /\ at[t] \in {"avail", "ping", "fallback"} /\ mine[t].rest # NoHandle => link[mine[t].rest] = "open"
    /\ at[t] = "avail" => mine[t].grpc = NoHandle /\ mine[t].rest # NoHandle /\ use[t] = mine[t].rest
    /\ at[t] = "ping" => use[t] = mine[t].grpc /\ kind[use[t]] = "grpc"
    /\ at[t] \in {"ping", "swap"} => mine[t].grpc # NoHandle /\ link[mine[t].grpc] = "open"
    /\ at[t] = "swap" => mine[t].rest # NoHandle
    /\ at[t] = "fallback" => mine[t].grpc # NoHandle
    /\ at[t] \in {"request", "reset"} => use[t] # NoHandle /\ link[use[t]] # "unborn"

\* A transport that a task is starting is known to no other.
Apart ==
    \A t \in Tasks :
        /\ tx \notin Own(t)
        /\ \A u \in Tasks \ {t} : Own(t) \cap Own(u) = {}
        /\ \A u \in Tasks : at[u] \in {"request", "reset"} => use[u] \notin Own(t)

\* A reset closes h, or has closed it.
Gone(h) == h \in past.reset \/ \E t \in Tasks : at[t] = "reset" /\ use[t] = h

\* The answer of task t's latest call came over REST and could not be read.
Unreadable(t) == unread[t] /\ kind[raw[t]] = "rest" /\ link[raw[t]] # "unborn"

\* Transports in use are closed by resets alone.
Dropped ==
    \A t \in Tasks :
        /\ at[t] = "request" /\ link[use[t]] # "open" => Gone(use[t])
        /\ raw[t] # NoHandle => Gone(raw[t]) \/ Unreadable(t)

Forgotten ==
    tx # NoHandle =>
        /\ link[tx] # "unborn"
        /\ link[tx] # "open" =>
             \/ \E t \in Tasks : at[t] = "reset" /\ use[t] = tx
             \/ "reset cancelled" \in past.flags /\ tx \in past.reset

\* Without an overlap one task at a time changes the connection.
Alone ==
    "overlap" \notin past.flags =>
        \A t \in Tasks :
            /\ at[t] \in Changing => \A u \in Tasks \ {t} : at[u] \notin Changing
            /\ at[t] \in Starting => tx = NoHandle
            /\ at[t] = "reset" => tx = use[t]

CInv ==
    /\ SharedTypes /\ TaskTypes
    /\ \A t \in Tasks : Staged(t)
    /\ Apart /\ Dropped /\ Forgotten /\ Alone /\ OnlyRacesLeak

-----------------------------------------------------------------------------
(* What a step of task t may do.                                           *)

Only(t) ==
    /\ UNCHANGED settings
    /\ \A u \in Tasks \ {t} :
        UNCHANGED <<at[u], mine[u], use[u], attempt[u], asleep[u], raw[u], unread[u]>>

\* It opens what nobody knows, and closes what is its own or, in a reset, everybody's.
LinksOf(t) ==
    \A h \in Handles :
        \/ link'[h] = link[h]
        \/ h \in Own(t) /\ link'[h] # "unborn"
        \/ link[h] = "unborn" /\ link'[h] = "open" /\ h \in Own(t)' \cup {tx'}
        \/ h = tx /\ at'[t] = "reset" /\ use'[t] = tx /\ link'[h] \in {"closing", "closed"}
        \/ at[t] = "reset" /\ h = use[t] /\ link'[h] \in {"closing", "closed"}

KindsOf(t) == \A h \in Handles : link[h] # "unborn" => kind'[h] = kind[h]

OwnOf(t) == \A h \in Own(t)' : h \in Own(t) \/ link[h] = "unborn"

TxOf(t) ==
    \/ tx' = tx /\ (at[t] = "reset" => "reset cancelled" \in past'.flags)
    \/ tx' = NoHandle
    \/ /\ tx' \in Own(t) \/ (tx' \in Handles /\ link[tx'] = "unborn")
       /\ tx' \notin Own(t)'
       /\ link'[tx'] = "open"

UseOf(t) ==
    at'[t] \in {"request", "reset"} => use'[t] = tx' \/ (at'[t] = at[t] /\ use'[t] = use[t])

PastOf(t) ==
    /\ past.flags \subseteq past'.flags
    /\ past.reset \subseteq past'.reset
    /\ at[t] = "reset" => at'[t] # "reset" /\ use[t] \in past'.reset

RawOf(t) ==
    raw'[t] # NoHandle =>
        \/ raw'[t] = raw[t] /\ unread'[t] = unread[t]
        \/ raw'[t] = tx /\ link[tx] # "open"
        \/ raw'[t] = use[t] /\ at[t] = "request" /\ link[use[t]] # "open"
        \/ raw'[t] = use[t] /\ at[t] = "request" /\ unread'[t] /\ kind[use[t]] = "rest"

RaceOf(t) ==
    "overlap" \notin past'.flags =>
        /\ at'[t] \in Changing \/ tx' # tx => \A u \in Tasks \ {t} : at[u] \notin Changing
        /\ at'[t] \in Starting => tx' = NoHandle
        /\ at'[t] = "reset" => tx' = use'[t]

\* It leaves nothing open behind.
LeakOf(t) ==
    past'.flags \cap {"overlap", "probe cancelled"} = {} =>
        \A h \in Handles :
            h \in Own(t) \cup {tx} /\ h \notin Own(t)' \cup {tx'} => link'[h] # "open"

Orderly(t) ==
    /\ Only(t) /\ LinksOf(t) /\ KindsOf(t) /\ OwnOf(t) /\ TxOf(t) /\ UseOf(t)
    /\ PastOf(t) /\ RawOf(t) /\ RaceOf(t) /\ LeakOf(t)

LEMMA GoneStays ==
    ASSUME NEW t \in Tasks, Only(t), PastOf(t), NEW h, Gone(h)
    PROVE  Gone(h)'
<1>1. CASE h \in past.reset
  BY <1>1 DEF PastOf, Gone
<1>2. CASE \E u \in Tasks : at[u] = "reset" /\ use[u] = h
  <2>1. PICK u \in Tasks : at[u] = "reset" /\ use[u] = h
    BY <1>2
  <2>2. CASE u = t
    BY <2>1, <2>2 DEF PastOf, Gone
  <2>3. CASE u # t
    BY <2>1, <2>3 DEF Only, Gone
  <2> QED  BY <2>2, <2>3
<1> QED  BY <1>1, <1>2 DEF Gone

\* An orderly step of t leaves the transports of the others as they are.
LEMMA OthersKept ==
    ASSUME CInv, NEW t \in Tasks, Orderly(t), NEW u \in Tasks \ {t}
    PROVE  /\ Own(u)' = Own(u)
           /\ \A h \in Own(u) : link'[h] = link[h] /\ kind'[h] = kind[h]
<1>1. Own(u)' = Own(u)
  BY DEF Orderly, Only, Own
<1>2. ASSUME NEW h \in Own(u) PROVE link'[h] = link[h] /\ kind'[h] = kind[h]
  <2>1. h \in Handles /\ link[h] # "unborn"
    BY DEF CInv, Staged, Own, TaskTypes, Transports, SomeHandle
  <2>2. h \notin Own(t) /\ h # tx /\ (at[t] = "reset" => h # use[t])
    BY DEF CInv, Apart
  <2> QED  BY <2>1, <2>2 DEF Orderly, LinksOf, KindsOf
<1> QED  BY <1>1, <1>2

LEMMA BornStays ==
    ASSUME NEW t \in Tasks, LinksOf(t), NEW h \in Handles, link[h] # "unborn"
    PROVE  link'[h] # "unborn"
  BY DEF LinksOf

LEMMA OthersStaged ==
    ASSUME CInv, NEW t \in Tasks, Orderly(t), NEW u \in Tasks \ {t}
    PROVE  Staged(u)'
<1>1. /\ UNCHANGED <<at[u], mine[u], use[u], attempt[u], asleep[u], endpoint>>
      /\ Own(u)' = Own(u)
      /\ \A h \in Own(u) : link'[h] = link[h] /\ kind'[h] = kind[h]
  BY OthersKept DEF Orderly, Only, settings
<1>2. Own(u) = {mine[u].rest, mine[u].grpc} \ {NoHandle}
  BY DEF Own
<1>3. at[u] \in {"request", "reset"} => use[u] # NoHandle /\ link'[use[u]] # "unborn"
  BY BornStays DEF CInv, Staged, Orderly, TaskTypes, SomeHandle
<1> QED  BY <1>1, <1>2, <1>3 DEF CInv, Staged

LEMMA OwnBorn ==
    ASSUME TaskTypes, NEW t \in Tasks, Staged(t), NEW h \in Own(t)
    PROVE  h \in Handles /\ h # NoHandle /\ link[h] # "unborn"
  BY DEF Staged, Own, TaskTypes, Transports, SomeHandle

LEMMA OrderlyApart ==
    ASSUME CInv, NEW t \in Tasks, Orderly(t), TaskTypes', SharedTypes'
    PROVE  Apart'
<1>1. ASSUME NEW u \in Tasks, NEW v \in Tasks \ {u}, NEW h \in Own(u)', h \in Own(v)'
      PROVE  FALSE
  <2>1. CASE u = t
    <3>1. h \in Own(v)
      BY <1>1, <2>1, OthersKept
    <3>2. h \in Own(t) \/ link[h] = "unborn"
      BY <2>1 DEF Orderly, OwnOf
    <3> QED  BY <2>1, <3>1, <3>2, OwnBorn DEF CInv, Apart
  <2>2. CASE v = t
    <3>1. h \in Own(u)
      BY <2>2, OthersKept
    <3>2. h \in Own(t) \/ link[h] = "unborn"
      BY <1>1, <2>2 DEF Orderly, OwnOf
    <3> QED  BY <2>2, <3>1, <3>2, OwnBorn DEF CInv, Apart
  <2>3. CASE u # t /\ v # t
    BY <1>1, <2>3, OthersKept DEF CInv, Apart
  <2> QED  BY <2>1, <2>2, <2>3
<1>2. ASSUME NEW h \in SomeHandle, h = NoHandle \/ link[h] # "unborn",
             \A u \in Tasks : h \notin Own(u),
             NEW u \in Tasks
      PROVE  h \notin Own(u)'
  <2>1. CASE u = t
    BY <1>2, <2>1 DEF Orderly, OwnOf, Own
  <2>2. CASE u # t
    BY <1>2, <2>2, OthersKept
  <2> QED  BY <2>1, <2>2
<1>3. ASSUME NEW u \in Tasks PROVE tx' \notin Own(u)'
  <2>1. CASE tx' = tx
    <3>1. tx = NoHandle \/ link[tx] # "unborn"
      BY DEF CInv, Forgotten
    <3> QED  BY <2>1, <3>1, <1>2 DEF CInv, Apart, SharedTypes
  <2>2. CASE tx' = NoHandle
    BY <2>2 DEF Own
  <2>3. CASE /\ tx' \in Own(t) \/ (tx' \in Handles /\ link[tx'] = "unborn")
             /\ tx' \notin Own(t)'
    <3>1. CASE u = t
      BY <2>3, <3>1
    <3>2. CASE u # t
      <4>1. Own(u)' = Own(u)
        BY <3>2, OthersKept
      <4>2. \A h \in Own(u) : link[h] # "unborn" /\ h \notin Own(t)
        BY <3>2, OwnBorn DEF CInv, Apart
      <4> QED  BY <2>3, <4>1, <4>2
    <3> QED  BY <3>1, <3>2
  <2> QED  BY <2>1, <2>2, <2>3 DEF Orderly, TxOf
<1>4. ASSUME NEW u \in Tasks, NEW v \in Tasks, at'[v] \in {"request", "reset"}
      PROVE  use'[v] \notin Own(u)'
  <2>1. CASE v = t /\ use'[v] = tx'
    BY <2>1, <1>3
  <2>2. CASE at'[v] = at[v] /\ use'[v] = use[v]
    <3>1. use[v] \in SomeHandle /\ link[use[v]] # "unborn"
      BY <1>4, <2>2 DEF CInv, Staged, TaskTypes
    <3> QED  BY <1>4, <2>2, <3>1, <1>2 DEF CInv, Apart
  <2> QED  BY <1>4, <2>1, <2>2 DEF Orderly, UseOf, Only
<1> QED  BY <1>1, <1>3, <1>4 DEF Apart

LEMMA OrderlyForgotten ==
    ASSUME CInv, NEW t \in Tasks, Orderly(t), TaskTypes', SharedTypes'
    PROVE  Forgotten'
<1>1. CASE tx' = tx /\ tx # NoHandle
  <2>1. tx \in Handles /\ (at[t] = "reset" => "reset cancelled" \in past'.flags)
    BY <1>1 DEF CInv, SharedTypes, SomeHandle, Apart, Forgotten, Orderly, TxOf
  <2>2. link'[tx] # "unborn"
    BY <1>1, <2>1, BornStays DEF CInv, Forgotten, Orderly
  <2>3. ASSUME link[tx] # "open"
        PROVE  \/ \E u \in Tasks : at'[u] = "reset" /\ use'[u] = tx
               \/ "reset cancelled" \in past'.flags /\ tx \in past'.reset
    <3>1. CASE "reset cancelled" \in past.flags /\ tx \in past.reset
      BY <3>1 DEF Orderly, PastOf
    <3>2. CASE \E u \in Tasks : at[u] = "reset" /\ use[u] = tx
      <4>1. PICK u \in Tasks : at[u] = "reset" /\ use[u] = tx
        BY <3>2
      <4>2. CASE u = t
        BY <2>1, <4>1, <4>2 DEF Orderly, PastOf
      <4>3. CASE u # t
        BY <4>1, <4>3 DEF Orderly, Only
      <4> QED  BY <4>2, <4>3
    <3> QED  BY <1>1, <2>3, <3>1, <3>2 DEF CInv, Forgotten
  <2>4. ASSUME link[tx] = "open", link'[tx] # "open"
        PROVE  \/ \E u \in Tasks : at'[u] = "reset" /\ use'[u] = tx
               \/ "reset cancelled" \in past'.flags /\ tx \in past'.reset
    <3>1. tx \notin Own(t)
      BY DEF CInv, Apart
    <3>2. \/ at'[t] = "reset" /\ use'[t] = tx
          \/ at[t] = "reset" /\ use[t] = tx
      BY <2>1, <2>4, <3>1 DEF Orderly, LinksOf
    <3> QED  BY <2>1, <3>2 DEF Orderly, PastOf
  <2> QED  BY <1>1, <2>2, <2>3, <2>4 DEF Forgotten
<1>2. CASE tx' # tx /\ tx' # NoHandle
  BY <1>2 DEF Orderly, TxOf, Forgotten
<1> QED  BY <1>1, <1>2 DEF Forgotten

LEMMA OrderlyDropped ==
    ASSUME CInv, NEW t \in Tasks, Orderly(t), TaskTypes', SharedTypes', Staged(t)'
    PROVE  Dropped'
<1>1. \A h : Gone(h) => Gone(h)'
  BY GoneStays DEF Orderly
<1>2. ASSUME NEW u \in Tasks, raw'[u] # NoHandle PROVE Gone(raw[u])' \/ Unreadable(u)'
  <2>1. CASE raw'[u] = raw[u] /\ unread'[u] = unread[u]
    <3>1. CASE Gone(raw[u])
      BY <1>1, <2>1, <3>1 DEF Gone
    <3>2. CASE Unreadable(u)
      <4>1. raw[u] \in Handles
        BY <1>2, <2>1 DEF CInv, TaskTypes, SomeHandle
      <4>2. link'[raw[u]] # "unborn" /\ kind'[raw[u]] = kind[raw[u]]
        BY <3>2, <4>1, BornStays DEF Unreadable, Orderly, KindsOf
      <4> QED  BY <2>1, <3>2, <4>2 DEF Unreadable
    <3> QED  BY <1>2, <2>1, <3>1, <3>2 DEF CInv, Dropped
  <2>2. CASE tx # NoHandle /\ raw'[u] = tx /\ link[tx] # "open"
    <3>1. Gone(tx)
      BY <2>2 DEF CInv, Forgotten, Gone
    <3> QED  BY <2>2, <3>1, <1>1 DEF Gone
  <2>3. CASE u = t /\ raw'[u] = use[u] /\ at[u] = "request" /\ link[use[u]] # "open"
    BY <1>1, <2>3 DEF CInv, Dropped, Gone
  <2>4. CASE /\ u = t /\ raw'[u] = use[u] /\ at[u] = "request"
             /\ unread'[u] /\ kind[use[u]] = "rest"
    <3>1. use[u] \in Handles /\ link[use[u]] # "unborn"
      BY <2>4 DEF CInv, Staged, TaskTypes, SomeHandle
    <3>2. link'[use[u]] # "unborn" /\ kind'[use[u]] = kind[use[u]]
      BY <3>1, BornStays DEF Orderly, KindsOf
    <3> QED  BY <2>4, <3>2 DEF Unreadable
  <2> QED  BY <1>2, <2>1, <2>2, <2>3, <2>4 DEF Orderly, RawOf, Only
<1>3. ASSUME NEW u \in Tasks, at'[u] = "request", link'[use'[u]] # "open"
      PROVE  Gone(use[u])'
  <2>1. CASE u = t /\ use'[u] = tx'
    <3>1. use'[u] # NoHandle
      BY <1>3, <2>1 DEF Staged
    <3>2. Forgotten'
      BY OrderlyForgotten
    <3> QED  BY <1>3, <2>1, <3>1, <3>2 DEF Forgotten, Gone
  <2>2. CASE at'[u] = at[u] /\ use'[u] = use[u]
    <3>1. CASE link[use[u]] # "open"
      BY <1>1, <1>3, <2>2, <3>1 DEF CInv, Dropped, Gone
    <3>2. CASE link[use[u]] = "open"
      <4>1. use[u] \in Handles /\ use[u] \notin Own(t)
        BY <1>3, <2>2 DEF CInv, Apart, Staged, TaskTypes, SomeHandle
      <4>2. \/ at'[t] = "reset" /\ use'[t] = use[u]
            \/ at[t] = "reset" /\ use[t] = use[u]
        BY <1>3, <2>2, <3>2, <4>1 DEF Orderly, LinksOf
      <4>3. CASE at'[t] = "reset" /\ use'[t] = use[u]
        BY <2>2, <4>3 DEF Gone
      <4>4. CASE at[t] = "reset" /\ use[t] = use[u]
        BY <2>2, <4>4 DEF Orderly, PastOf, Gone
      <4> QED  BY <4>2, <4>3, <4>4
    <3> QED  BY <3>1, <3>2
  <2> QED  BY <1>3, <2>1, <2>2 DEF Orderly, UseOf, Only
<1> QED  BY <1>2, <1>3 DEF Dropped

LEMMA OrderlyAlone ==
    ASSUME CInv, NEW t \in Tasks, Orderly(t)
    PROVE  Alone'
<1> SUFFICES ASSUME "overlap" \notin past'.flags, NEW u \in Tasks
             PROVE  /\ at'[u] \in Changing => \A v \in Tasks \ {u} : at'[v] \notin Changing
                    /\ at'[u] \in Starting => tx' = NoHandle
                    /\ at'[u] = "reset" => tx' = use'[u]
  BY DEF Alone
<1>1. "overlap" \notin past.flags
  BY DEF Orderly, PastOf
<1>2. CASE u = t
  BY <1>2 DEF Orderly, RaceOf, Only
<1>3. CASE u # t /\ at[u] \in Changing
  <2>1. at'[u] = at[u] /\ use'[u] = use[u]
    BY <1>3 DEF Orderly, Only
  <2>2. tx' = tx /\ at'[t] \notin Changing
    BY <1>3 DEF Orderly, RaceOf
  <2>3. \A v \in Tasks \ {u} : at'[v] \notin Changing
    BY <1>1, <1>3, <2>2 DEF CInv, Alone, Orderly, Only
  <2> QED  BY <1>1, <1>3, <2>1, <2>2, <2>3 DEF CInv, Alone
<1>4. CASE u # t /\ at[u] \notin Changing
  BY <1>4 DEF Orderly, Only, Changing
<1> QED  BY <1>2, <1>3, <1>4

LEMMA OrderlyLeak ==
    ASSUME CInv, NEW t \in Tasks, Orderly(t)
    PROVE  OnlyRacesLeak'
<1> SUFFICES ASSUME NEW h \in Handles, h \notin Held', link'[h] = "open",
                    past'.flags \cap {"overlap", "probe cancelled"} = {}
             PROVE  FALSE
  BY DEF OnlyRacesLeak
<1>1. past.flags \cap {"overlap", "probe cancelled"} = {}
  BY DEF Orderly, PastOf
<1>2. h # tx' /\ \A u \in Tasks : h \notin Own(u)'
  BY DEF Held
<1>3. h \notin Own(t) /\ h # tx
  BY <1>2 DEF Orderly, LeakOf
<1>4. link[h] = "open"
  BY <1>2, <1>3 DEF Orderly, LinksOf
<1>5. \A u \in Tasks : h \notin Own(u)
  BY <1>2, <1>3, OthersKept
<1> QED  BY <1>1, <1>3, <1>4, <1>5 DEF CInv, OnlyRacesLeak, Held

LEMMA OrderlyCInv ==
    ASSUME CInv, NEW t \in Tasks, Orderly(t), SharedTypes', TaskTypes', Staged(t)'
    PROVE  CInv'
  BY OthersStaged, OrderlyApart, OrderlyForgotten, OrderlyDropped, OrderlyAlone, OrderlyLeak
     DEF CInv

-----------------------------------------------------------------------------
(* Where a step leaves its task.                                           *)

LEMMA SuspendTask ==
    ASSUME TaskTypes, NEW t \in Tasks, NEW s \in Stages, NEW h \in SomeHandle,
           NEW own \in Transports, Suspend(t, s, h, own), UNCHANGED settings
    PROVE  /\ TaskTypes' /\ Only(t)
           /\ at'[t] = s /\ use'[t] = h /\ mine'[t] = own /\ raw'[t] = NoHandle
           /\ ~asleep'[t] /\ (s \notin Attempting => attempt'[t] = 0)
<1>1. NoHandle \in SomeHandle
  BY DEF SomeHandle
<1>2. TaskTypes'
  BY <1>1 DEF Suspend, TaskTypes
<1>3. Only(t)
  BY DEF Suspend, TaskTypes, Only
<1> QED  BY <1>2, <1>3 DEF Suspend, TaskTypes, Attempting

LEMMA FinishTask ==
    ASSUME TaskTypes, NEW t \in Tasks, NEW h \in SomeHandle, NEW e \in BOOLEAN,
           Finish(t, h, e), UNCHANGED settings
    PROVE  /\ TaskTypes' /\ Only(t) /\ Staged(t)'
           /\ at'[t] = "idle" /\ Own(t)' = {} /\ raw'[t] = h /\ unread'[t] = e
<1>1. NoHandle \in SomeHandle /\ Nothing \in Transports /\ "idle" \in Stages
  BY DEF SomeHandle, Transports, Nothing, Stages
<1>2. TaskTypes'
  BY <1>1 DEF Finish, TaskTypes
<1>3. Only(t)
  BY DEF Finish, TaskTypes, Only
<1>4. /\ at'[t] = "idle" /\ mine'[t] = Nothing /\ raw'[t] = h /\ unread'[t] = e
      /\ attempt'[t] = 0 /\ ~asleep'[t]
  BY DEF Finish, TaskTypes
<1>5. mine'[t].rest = NoHandle /\ mine'[t].grpc = NoHandle
  BY <1>4 DEF Nothing
<1>6. Own(t)' = {}
  BY <1>5 DEF Own
<1>7. Staged(t)'
  BY <1>4, <1>5, <1>6 DEF Staged, Starting, Attempting
<1> QED  BY <1>2, <1>3, <1>4, <1>6, <1>7

\* A transport is opened.
LEMMA OpenLinks ==
    ASSUME SharedTypes, NEW h \in Handles, NEW k \in {"rest", "grpc"},
           NEW links \in [Handles -> Links], Open(h, k, links)
    PROVE  /\ kind' \in [Handles -> {"rest", "grpc"}] /\ link' \in [Handles -> Links]
           /\ kind'[h] = k /\ link'[h] = "open" /\ links[h] = "unborn"
           /\ \A g \in Handles \ {h} : kind'[g] = kind[g] /\ link'[g] = links[g]
  BY DEF Open, SharedTypes, Links

LEMMA IdleOwnsNothing ==
    ASSUME TaskTypes, NEW t \in Tasks, Staged(t), at[t] \notin Starting
    PROVE  Own(t) = {} /\ mine[t].rest = NoHandle /\ mine[t].grpc = NoHandle
  BY DEF Staged, Own, Nothing

\* A task that is about to change the connection is the only one, or there is an overlap.
MayChange(t) ==
    /\ at[t] # "reset"
    /\ "overlap" \notin past'.flags => tx = NoHandle /\ \A u \in Tasks \ {t} : at[u] \notin Changing
    /\ past' \in Pasts
    /\ past.flags \subseteq past'.flags /\ past.reset \subseteq past'.reset
    /\ UNCHANGED settings

\* _tx is set to a transport that this task has started, and all others it had are closed.
LEMMA InstallCInv ==
    ASSUME CInv, NEW t \in Tasks, MayChange(t), NEW h \in Handles, Install(t, h), SharedTypes',
           h \in Own(t) \/ link[h] = "unborn", link'[h] = "open",
           \A g \in Handles \ {h} :
               link'[g] = link[g] \/ (g \in Own(t) /\ link'[g] # "unborn"),
           \A g \in Own(t) \ {h} : link'[g] # "open",
           KindsOf(t)
    PROVE  CInv'
<1>1. h # NoHandle
  BY DEF Handles, NoHandle
<1>2. /\ TaskTypes' /\ Only(t)
      /\ at'[t] = "request" /\ use'[t] = h /\ mine'[t] = Nothing /\ raw'[t] = NoHandle
      /\ ~asleep'[t] /\ tx' = h
  <2>1. "request" \in Stages /\ h \in SomeHandle /\ Nothing \in Transports
    BY DEF Stages, SomeHandle, Transports, Nothing
  <2> QED  BY <2>1, SuspendTask DEF CInv, Install, MayChange
<1>3. Own(t)' = {} /\ mine'[t].rest = NoHandle
  BY <1>2 DEF Own, Nothing
<1>4. Staged(t)'
  BY <1>1, <1>2, <1>3 DEF Staged, Starting, Attempting
<1>5. LinksOf(t)
  <2> SUFFICES ASSUME NEW g \in Handles
               PROVE  \/ link'[g] = link[g]
                      \/ g \in Own(t) /\ link'[g] # "unborn"
                      \/ link[g] = "unborn" /\ link'[g] = "open" /\ g = tx'
    BY DEF LinksOf
  <2>1. CASE g = h
    BY <1>2, <2>1
  <2>2. CASE g # h
    BY <2>2
  <2> QED  BY <2>1, <2>2
<1>8. OwnOf(t) /\ TxOf(t) /\ UseOf(t)
  <2>1. OwnOf(t)
    BY <1>3 DEF OwnOf
  <2>2. TxOf(t)
    BY <1>2, <1>3 DEF TxOf
  <2> QED  BY <1>2, <2>1, <2>2 DEF UseOf
<1>6. PastOf(t) /\ RawOf(t) /\ RaceOf(t)
  BY <1>2 DEF PastOf, RawOf, RaceOf, MayChange, Starting, Changing
<1>7. LeakOf(t)
  <2> SUFFICES ASSUME "overlap" \notin past'.flags, NEW g \in Handles,
                      g \in Own(t) \cup {tx}, g # h
               PROVE  link'[g] # "open"
    BY <1>2 DEF LeakOf
  <2>1. g # NoHandle
    BY DEF Handles, NoHandle
  <2> QED  BY <2>1 DEF MayChange
<1> QED  BY <1>2, <1>4, <1>5, <1>6, <1>7, <1>8, OrderlyCInv DEF Orderly

LEMMA UseRestCInv ==
    ASSUME CInv, NEW t \in Tasks, MayChange(t), NEW links \in [Handles -> Links],
           UseRest(t, mine[t].rest, links),
           mine[t].rest # NoHandle => links[mine[t].rest] = "open",
           \A g \in Handles : links[g] = link[g] \/ (g \in Own(t) /\ links[g] # "unborn"),
           \A g \in Own(t) : g # mine[t].rest => links[g] # "open"
    PROVE  CInv'
<1> DEFINE rest == mine[t].rest
<1>1. rest \in SomeHandle /\ settings' = settings /\ past' \in Pasts
  BY DEF CInv, TaskTypes, Transports, MayChange
<1>2. CASE rest # NoHandle /\ Install(t, rest) /\ link' = links /\ UNCHANGED kind
  <2>1. rest \in Handles /\ rest \in Own(t)
    BY <1>1, <1>2 DEF SomeHandle, Own
  <2>2. SharedTypes'
    BY <1>1, <1>2 DEF CInv, SharedTypes, Install, settings
  <2>3. KindsOf(t)
    BY <1>2 DEF KindsOf
  <2> QED  BY <1>2, <2>1, <2>2, <2>3, InstallCInv
<1>3. CASE rest = NoHandle /\ \E h \in Handles : Open(h, "rest", links) /\ Install(t, h)
  <2>1. PICK h \in Handles : Open(h, "rest", links) /\ Install(t, h)
    BY <1>3
  <2>2. /\ kind' \in [Handles -> {"rest", "grpc"}] /\ link' \in [Handles -> Links]
        /\ link'[h] = "open" /\ links[h] = "unborn"
        /\ \A g \in Handles \ {h} : kind'[g] = kind[g] /\ link'[g] = links[g]
    BY <2>1, OpenLinks DEF CInv
  <2>3. link[h] = "unborn"
    BY <2>2
  <2>4. SharedTypes'
    BY <1>1, <2>1, <2>2 DEF CInv, SharedTypes, Install, settings, SomeHandle
  <2>5. KindsOf(t)
    BY <2>2, <2>3 DEF KindsOf
  <2>6. \A g \in Own(t) \ {h} : g \in Handles /\ g # NoHandle
    BY OwnBorn DEF CInv
  <2> QED  BY <1>3, <2>1, <2>2, <2>3, <2>4, <2>5, <2>6, InstallCInv
<1> QED  BY <1>2, <1>3 DEF UseRest

LEMMA ProbeCInv ==
    ASSUME CInv, NEW t \in Tasks, MayChange(t), at[t] \in {"idle", "avail"},
           Probe(t, mine[t].rest, link)
    PROVE  CInv'
<1> DEFINE rest == mine[t].rest
<1>1. PICK h \in Handles :
        /\ Open(h, "grpc", link)
        /\ Suspend(t, "ping", h, [rest |-> rest, grpc |-> h])
        /\ UNCHANGED tx
  BY DEF Probe
<1>2. /\ kind' \in [Handles -> {"rest", "grpc"}] /\ link' \in [Handles -> Links]
      /\ kind'[h] = "grpc" /\ link'[h] = "open" /\ link[h] = "unborn"
      /\ \A g \in Handles \ {h} : kind'[g] = kind[g] /\ link'[g] = link[g]
  BY <1>1, OpenLinks DEF CInv, SharedTypes
<1>3. /\ TaskTypes' /\ Only(t)
      /\ at'[t] = "ping" /\ use'[t] = h /\ raw'[t] = NoHandle /\ ~asleep'[t]
      /\ mine'[t] = [rest |-> rest, grpc |-> h]
  <2>1. "ping" \in Stages /\ h \in SomeHandle /\ [rest |-> rest, grpc |-> h] \in Transports
    BY DEF Stages, Starting, SomeHandle, Transports, CInv, TaskTypes
  <2> QED  BY <1>1, <2>1, SuspendTask DEF CInv, MayChange
<1>4. h # NoHandle /\ mine'[t].rest = rest /\ mine'[t].grpc = h
  BY <1>3 DEF Handles, NoHandle
<1>5. /\ mine[t].grpc = NoHandle
      /\ rest # NoHandle => /\ rest \in Handles /\ rest # h /\ link[rest] = "open"
                            /\ endpoint # "none"
  <2>1. CASE at[t] = "idle"
    BY <2>1, IdleOwnsNothing DEF CInv, Starting
  <2>2. CASE at[t] = "avail"
    BY <1>2, <2>2 DEF CInv, Staged, TaskTypes, Transports, SomeHandle
  <2> QED  BY <2>1, <2>2
<1>6. Own(t)' = Own(t) \cup {h} /\ Own(t) = {rest} \ {NoHandle}
  BY <1>4, <1>5 DEF Own
<1>7. Staged(t)'
  <2>1. \A g \in Own(t)' : link'[g] # "unborn"
    BY <1>2, <1>5, <1>6
  <2> QED  BY <1>2, <1>3, <1>4, <1>5, <2>1 DEF Staged, Starting, Attempting, MayChange, settings
<1>8. SharedTypes'
  BY <1>1, <1>2 DEF CInv, SharedTypes, MayChange, settings
<1>9. tx # h /\ Own(t) \subseteq Handles
  BY <1>2, <1>5, <1>6, <1>4 DEF CInv, Forgotten
<1>10. LinksOf(t) /\ KindsOf(t) /\ OwnOf(t)
  BY <1>2, <1>6 DEF LinksOf, KindsOf, OwnOf
<1>11. TxOf(t) /\ UseOf(t) /\ PastOf(t) /\ RawOf(t)
  BY <1>1, <1>3 DEF TxOf, UseOf, PastOf, RawOf, MayChange
<1>12. RaceOf(t) /\ LeakOf(t)
  BY <1>1, <1>3, <1>6 DEF RaceOf, LeakOf, MayChange
<1> QED  BY <1>3, <1>7, <1>8, <1>10, <1>11, <1>12, OrderlyCInv DEF Orderly

\* A step that opens and closes nothing.
LEMMA QuietCInv ==
    ASSUME CInv, NEW t \in Tasks, Only(t), TaskTypes', Staged(t)',
           UNCHANGED <<tx, kind, link>>, past' \in Pasts,
           Own(t)' = Own(t) \/ (Own(t)' = {} /\ "probe cancelled" \in past'.flags),
           at'[t] \in Changing => at[t] \in Starting,
           at[t] = "reset" => "reset cancelled" \in past'.flags,
           UseOf(t), PastOf(t), RawOf(t)
    PROVE  CInv'
<1>1. SharedTypes'
  BY DEF CInv, SharedTypes, Only, settings
<1>2. LinksOf(t) /\ KindsOf(t) /\ OwnOf(t)
  BY DEF LinksOf, KindsOf, OwnOf
<1>3. TxOf(t)
  BY DEF TxOf
<1>4. RaceOf(t)
  <2>1. CASE at'[t] \in Changing
    <3>1. at[t] \in Starting /\ at'[t] \in Starting \cup {"reset"}
      BY <2>1 DEF Changing
    <3>2. at'[t] # "reset" \/ tx' = use'[t] \/ use'[t] = use[t]
      BY <2>1 DEF UseOf
    <3>3. at'[t] = "reset" => tx' = use'[t]
      BY <3>1 DEF UseOf, Starting
    <3>4. "overlap" \notin past'.flags => "overlap" \notin past.flags
      BY DEF PastOf
    <3> QED  BY <3>1, <3>3, <3>4 DEF RaceOf, CInv, Alone, Changing
  <2>2. CASE at'[t] \notin Changing
    BY <2>2 DEF RaceOf, Changing
  <2> QED  BY <2>1, <2>2
<1>5. LeakOf(t)
  BY DEF LeakOf
<1> QED  BY <1>1, <1>2, <1>3, <1>4, <1>5, OrderlyCInv DEF Orderly

-----------------------------------------------------------------------------
(* The steps.                                                              *)

LEMMA BackoffCInv == ASSUME CInv, NEW t \in Tasks, Backoff(t) PROVE CInv'
<1>1. /\ asleep' = [asleep EXCEPT ![t] = TRUE] /\ at[t] \in Attempting
      /\ UNCHANGED <<settings, tx, kind, link, at, mine, use, attempt, raw, unread, past>>
  BY DEF Backoff, Answered, CInv, Staged
<1>2. TaskTypes' /\ Only(t)
  BY <1>1 DEF CInv, TaskTypes, Only
<1>3. Own(t)' = Own(t) /\ past' \in Pasts /\ at[t] # "reset" /\ at'[t] = at[t]
  BY <1>1 DEF Own, CInv, SharedTypes, Attempting
<1>4. Staged(t)'
  BY <1>1, <1>3 DEF CInv, Staged, settings
<1>5. UseOf(t) /\ PastOf(t) /\ RawOf(t)
  BY <1>1, <1>3 DEF UseOf, PastOf, RawOf
<1>6. at'[t] \in Changing => at[t] \in Starting
  BY <1>1, <1>3 DEF Changing
<1> QED  BY <1>1, <1>2, <1>3, <1>4, <1>5, <1>6, QuietCInv

\* A task that owned nothing returns to its caller.
LEMMA ReturnCInv ==
    ASSUME CInv, NEW t \in Tasks, NEW h \in SomeHandle, NEW e \in BOOLEAN,
           Finish(t, h, e), UNCHANGED <<settings, tx, kind, link>>, past' \in Pasts, PastOf(t),
           Own(t) = {} \/ "probe cancelled" \in past'.flags,
           at[t] = "reset" => "reset cancelled" \in past'.flags,
           h # NoHandle =>
               \/ h = tx /\ link[tx] # "open"
               \/ h = use[t] /\ at[t] = "request" /\ link[use[t]] # "open"
               \/ h = use[t] /\ at[t] = "request" /\ e /\ kind[use[t]] = "rest"
    PROVE  CInv'
<1>1. /\ TaskTypes' /\ Only(t) /\ Staged(t)'
      /\ at'[t] = "idle" /\ Own(t)' = {} /\ raw'[t] = h /\ unread'[t] = e
  BY FinishTask DEF CInv
<1>2. UseOf(t) /\ RawOf(t)
  BY <1>1 DEF UseOf, RawOf
<1>3. at'[t] \notin Changing
  BY <1>1 DEF Changing, Starting
<1> QED  BY <1>1, <1>2, <1>3, QuietCInv

LEMMA RetryCInv == ASSUME CInv, NEW t \in Tasks, Retry(t) PROVE CInv'
<1>1. /\ at[t] \in Attempting /\ at[t] # "reset" /\ use[t] \in SomeHandle
      /\ past' \in Pasts /\ PastOf(t)
  BY DEF Retry, CInv, Staged, TaskTypes, SharedTypes, PastOf, Attempting
<1>2. CASE kind[use[t]] = "rest" /\ link[use[t]] # "open" /\ Finish(t, use[t], FALSE)
  <2>1. at[t] # "ping" /\ at[t] # "avail"
    BY <1>2 DEF CInv, Staged
  <2>2. at[t] = "request" /\ Own(t) = {}
    BY <1>1, <2>1, IdleOwnsNothing DEF CInv, Attempting, Starting
  <2> QED  BY <1>1, <1>2, <2>2, ReturnCInv DEF Retry
<1>3. CASE /\ attempt' = [attempt EXCEPT ![t] = @ + 1]
           /\ asleep' = [asleep EXCEPT ![t] = FALSE]
           /\ UNCHANGED <<at, mine, use, raw, unread>>
  <2>1. UNCHANGED <<settings, tx, kind, link, past, endpoint>>
    BY DEF Retry, settings
  <2>2. TaskTypes' /\ Only(t)
    BY <1>3, <2>1 DEF CInv, TaskTypes, Only
  <2>3. Own(t)' = Own(t)
    BY <1>3 DEF Own
  <2>4. Staged(t)'
    BY <1>1, <1>3, <2>1, <2>3 DEF CInv, Staged
  <2>5. UseOf(t) /\ RawOf(t) /\ (at'[t] \in Changing => at[t] \in Starting)
    BY <1>1, <1>3 DEF UseOf, RawOf, Changing
  <2> QED  BY <1>1, <2>1, <2>2, <2>3, <2>4, <2>5, QuietCInv
<1> QED  BY <1>2, <1>3 DEF Retry, RaiseRaw

LEMMA RequestEndsCInv ==
    ASSUME CInv, NEW t \in Tasks, RequestDone(t) \/ BodyUnread(t) \/ CallDropped(t) \/ CancelRequest(t)
    PROVE  CInv'
<1>1. /\ at[t] = "request" /\ UNCHANGED <<settings, tx, kind, link, past>>
      /\ \/ Finish(t, NoHandle, FALSE)
         \/ Finish(t, use[t], FALSE) /\ link[use[t]] # "open"
         \/ Finish(t, use[t], TRUE) /\ kind[use[t]] = "rest"
  BY DEF RequestDone, BodyUnread, CallDropped, CancelRequest, Return, RaiseRaw
<1>2. Own(t) = {} /\ use[t] \in SomeHandle /\ NoHandle \in SomeHandle
  BY <1>1, IdleOwnsNothing DEF CInv, Starting, TaskTypes, SomeHandle
<1>3. past' \in Pasts /\ PastOf(t)
  BY <1>1 DEF CInv, SharedTypes, PastOf
<1> QED  BY <1>1, <1>2, <1>3, ReturnCInv

LEMMA CancelResetCInv == ASSUME CInv, NEW t \in Tasks, CancelReset(t) PROVE CInv'
<1>1. /\ at[t] = "reset" /\ Finish(t, NoHandle, FALSE) /\ UNCHANGED <<settings, tx, kind, link>>
      /\ past' = [past EXCEPT !.flags = @ \cup {"reset cancelled"}, !.reset = @ \cup {use[t]}]
  BY DEF CancelReset, Return
<1>2. Own(t) = {} /\ use[t] \in Handles /\ NoHandle \in SomeHandle
  BY <1>1, IdleOwnsNothing DEF CInv, Starting, Staged, TaskTypes, SomeHandle
<1>3. /\ past' \in Pasts /\ "reset cancelled" \in past'.flags /\ use[t] \in past'.reset
      /\ past.flags \subseteq past'.flags /\ past.reset \subseteq past'.reset
  BY <1>1, <1>2 DEF CInv, SharedTypes, Pasts
<1>4. at'[t] = "idle"
  BY <1>1, <1>2, FinishTask DEF CInv
<1> QED  BY <1>1, <1>2, <1>3, <1>4, ReturnCInv DEF PastOf

LEMMA CallConnectedCInv == ASSUME CInv, NEW t \in Tasks, CallConnected(t) PROVE CInv'
<1>1. /\ at[t] = "idle" /\ tx # NoHandle /\ tx \in SomeHandle
      /\ UNCHANGED <<settings, tx, kind, link, past>>
      /\ past' \in Pasts /\ PastOf(t)
  BY DEF CallConnected, Begin, CInv, SharedTypes, PastOf
<1>2. Own(t) = {}
  BY <1>1, IdleOwnsNothing DEF CInv, Starting
<1>3. CASE link[tx] # "open" /\ Finish(t, tx, FALSE)
  BY <1>1, <1>2, <1>3, ReturnCInv
<1>4. CASE Suspend(t, "request", tx, Nothing)
  <2>1. "request" \in Stages /\ Nothing \in Transports
    BY DEF Stages, Transports, SomeHandle, Nothing
  <2>2. /\ TaskTypes' /\ Only(t)
        /\ at'[t] = "request" /\ use'[t] = tx /\ mine'[t] = Nothing
        /\ raw'[t] = NoHandle /\ ~asleep'[t]
    BY <1>1, <1>4, <2>1, SuspendTask DEF CInv
  <2>3. Own(t)' = {} /\ mine'[t].rest = NoHandle
    BY <2>2 DEF Own, Nothing
  <2>4. Staged(t)'
    BY <1>1, <2>2, <2>3 DEF CInv, Forgotten, Staged, Starting, Attempting
  <2>5. UseOf(t) /\ RawOf(t) /\ at'[t] \notin Changing
    BY <1>1, <2>2 DEF UseOf, RawOf, Changing, Starting
  <2> QED  BY <1>1, <1>2, <2>2, <2>3, <2>4, <2>5, QuietCInv
<1> QED  BY <1>3, <1>4 DEF CallConnected, RaiseRaw

\* What a task remembers when it begins to change the connection.
LEMMA RememberFacts ==
    ASSUME SharedTypes, NEW t \in Tasks, Remember(t, Changing)
    PROVE  /\ past' \in Pasts
           /\ past.flags \subseteq past'.flags /\ past'.reset = past.reset
           /\ "overlap" \notin past'.flags => \A u \in Tasks \ {t} : at[u] \notin Changing
<1>1. past' = [past EXCEPT !.flags = @ \cup
                  {f \in {"overlap"} : \E u \in Tasks \ {t} : at[u] \in Changing}]
  BY DEF Remember
<1> QED  BY <1>1 DEF SharedTypes, Pasts

\* The client knows some endpoint from the beginning.
Reachable == grpc \in BOOLEAN /\ (endpoint # "none" \/ grpc)

LEMMA CallCInv == ASSUME CInv, Reachable, NEW t \in Tasks, Call(t) PROVE CInv'
<1> SUFFICES ASSUME Begin(t), tx = NoHandle, Remember(t, Changing),
                    StartRest(t) \/ StartGrpc(t) \/ StartAuto(t)
             PROVE  CInv'
  BY CallConnectedCInv DEF Call, Changing
<1>1. at[t] = "idle" /\ UNCHANGED <<settings, grpc>>
  BY DEF Begin
<1>2. Own(t) = {} /\ mine[t].rest = NoHandle /\ mine[t].grpc = NoHandle
  BY <1>1, IdleOwnsNothing DEF CInv, Starting
<1>3. MayChange(t) /\ PastOf(t) /\ past' \in Pasts
  BY <1>1, RememberFacts DEF CInv, MayChange, PastOf
<1>4. CASE Finish(t, NoHandle, FALSE) /\ UNCHANGED <<tx, kind, link>>
  BY <1>1, <1>2, <1>3, <1>4, ReturnCInv DEF SomeHandle
<1>5. CASE UseRest(t, NoHandle, link)
  BY <1>2, <1>3, <1>5, UseRestCInv DEF CInv, SharedTypes
<1>6. CASE Probe(t, NoHandle, link)
  BY <1>1, <1>2, <1>3, <1>6, ProbeCInv
<1>7. CASE /\ endpoint = "http"
           /\ \E h \in Handles :
                /\ Open(h, "rest", link)
                /\ Suspend(t, "avail", h, [rest |-> h, grpc |-> NoHandle])
                /\ UNCHANGED tx
  <2>1. PICK h \in Handles : /\ Open(h, "rest", link)
                             /\ Suspend(t, "avail", h, [rest |-> h, grpc |-> NoHandle])
                             /\ UNCHANGED tx
    BY <1>7
  <2>2. /\ kind' \in [Handles -> {"rest", "grpc"}] /\ link' \in [Handles -> Links]
        /\ link'[h] = "open" /\ link[h] = "unborn"
        /\ \A g \in Handles \ {h} : kind'[g] = kind[g] /\ link'[g] = link[g]
    BY <2>1, OpenLinks DEF CInv, SharedTypes
  <2>3. /\ TaskTypes' /\ Only(t)
        /\ at'[t] = "avail" /\ use'[t] = h /\ mine'[t] = [rest |-> h, grpc |-> NoHandle]
        /\ raw'[t] = NoHandle
    <3>1. "avail" \in Stages /\ h \in SomeHandle /\ [rest |-> h, grpc |-> NoHandle] \in Transports
      BY DEF Stages, Starting, SomeHandle, Transports
    <3> QED  BY <1>1, <2>1, <3>1, SuspendTask DEF CInv
  <2>4. h # NoHandle /\ mine'[t].rest = h /\ mine'[t].grpc = NoHandle
    BY <2>3 DEF Handles, NoHandle
  <2>5. Own(t)' = {h}
    BY <2>4 DEF Own
  <2>6. Staged(t)'
    BY <1>1, <1>7, <2>2, <2>3, <2>4, <2>5 DEF Staged, Starting, Attempting, settings
  <2>7. SharedTypes'
    BY <1>1, <1>3, <2>1, <2>2 DEF CInv, SharedTypes, settings
  <2>8. LinksOf(t) /\ KindsOf(t) /\ OwnOf(t)
    BY <2>2, <2>5 DEF LinksOf, KindsOf, OwnOf
  <2>9. TxOf(t) /\ UseOf(t) /\ RawOf(t)
    BY <1>1, <2>1, <2>3 DEF TxOf, UseOf, RawOf
  <2>10. RaceOf(t) /\ LeakOf(t)
    BY <1>2, <1>3, <2>1, <2>3 DEF RaceOf, LeakOf, MayChange
  <2> QED  BY <1>3, <2>3, <2>6, <2>7, <2>8, <2>9, <2>10, OrderlyCInv DEF Orderly
<1>8. CASE StartRest(t)
  BY <1>4, <1>5, <1>8 DEF StartRest, Return
<1>9. CASE StartGrpc(t)
  BY <1>4, <1>6, <1>9 DEF StartGrpc, Return
<1>10. CASE StartAuto(t)
  <2>1. CASE grpc = TRUE
    BY <1>6, <1>10, <2>1 DEF StartAuto
  <2>2. CASE grpc = FALSE /\ endpoint = "https"
    BY <1>5, <1>10, <2>2 DEF StartAuto
  <2>3. CASE grpc = FALSE /\ endpoint = "http"
    BY <1>7, <1>10, <2>3 DEF StartAuto
  <2> QED  BY <2>1, <2>2, <2>3 DEF Reachable, CInv, SharedTypes
<1> QED  BY <1>8, <1>9, <1>10

LEMMA ResetCInv == ASSUME CInv, NEW t \in Tasks, Reset(t) PROVE CInv'
<1>1. /\ at[t] = "idle" /\ UNCHANGED <<settings, tx, kind>> /\ Remember(t, Changing)
  BY DEF Reset, Begin, Changing
<1>2. Own(t) = {}
  BY <1>1, IdleOwnsNothing DEF CInv, Starting
<1>3. MayChange(t) \/ tx # NoHandle
  BY <1>1, RememberFacts DEF CInv, MayChange
<1>4. PastOf(t) /\ past' \in Pasts
  BY <1>1, RememberFacts DEF CInv, PastOf
<1>5. CASE Finish(t, NoHandle, FALSE) /\ UNCHANGED link
  BY <1>1, <1>2, <1>4, <1>5, ReturnCInv DEF SomeHandle
<1>6. CASE tx # NoHandle /\ Suspend(t, "reset", tx, Nothing) /\ link' = Closing({tx})
  <2>1. "reset" \in Stages /\ Nothing \in Transports /\ tx \in SomeHandle /\ tx \in Handles
    BY <1>6 DEF Stages, Transports, SomeHandle, Nothing, CInv, SharedTypes
  <2>2. /\ TaskTypes' /\ Only(t)
        /\ at'[t] = "reset" /\ use'[t] = tx /\ mine'[t] = Nothing
        /\ raw'[t] = NoHandle /\ ~asleep'[t] /\ attempt'[t] = 0
    BY <1>1, <1>6, <2>1, SuspendTask DEF CInv, Attempting
  <2>3. Own(t)' = {} /\ mine'[t].rest = NoHandle
    BY <2>2 DEF Own, Nothing
  <2>4. /\ link' \in [Handles -> Links] /\ link'[tx] \in {"closing", "closed"}
        /\ \A h \in Handles \ {tx} : link'[h] = link[h]
    BY <1>6, <2>1 DEF Closing, CInv, SharedTypes, Links
  <2>5. Staged(t)'
    BY <1>6, <2>2, <2>3, <2>4 DEF Staged, Starting, Attempting
  <2>6. SharedTypes'
    BY <1>1, <1>4, <2>4 DEF CInv, SharedTypes, settings
  <2>7. LinksOf(t) /\ KindsOf(t) /\ OwnOf(t)
    BY <1>1, <2>2, <2>3, <2>4 DEF LinksOf, KindsOf, OwnOf
  <2>8. TxOf(t) /\ UseOf(t) /\ RawOf(t)
    BY <1>1, <2>2 DEF TxOf, UseOf, RawOf
  <2>9. RaceOf(t) /\ LeakOf(t)
    BY <1>1, <1>2, <2>2, RememberFacts DEF CInv, RaceOf, LeakOf, Starting
  <2> QED  BY <1>4, <2>2, <2>5, <2>6, <2>7, <2>8, <2>9, OrderlyCInv DEF Orderly
<1> QED  BY <1>5, <1>6 DEF Reset, Return

LEMMA ResetDoneCInv == ASSUME CInv, NEW t \in Tasks, ResetDone(t) PROVE CInv'
<1>1. /\ at[t] = "reset" /\ Finish(t, NoHandle, FALSE) /\ UNCHANGED <<settings, kind>>
      /\ link' = Closed({use[t]}) /\ tx' = NoHandle
      /\ past' = [past EXCEPT !.reset = @ \cup {use[t]}]
  BY DEF ResetDone, Return
<1>2. Own(t) = {} /\ use[t] \in Handles /\ NoHandle \in SomeHandle
  BY <1>1, IdleOwnsNothing DEF CInv, Starting, Staged, TaskTypes, SomeHandle
<1>3. /\ TaskTypes' /\ Only(t) /\ Staged(t)'
      /\ at'[t] = "idle" /\ Own(t)' = {} /\ raw'[t] = NoHandle
  BY <1>1, <1>2, FinishTask DEF CInv
<1>4. /\ past' \in Pasts /\ use[t] \in past'.reset
      /\ past'.flags = past.flags /\ past.reset \subseteq past'.reset
  BY <1>1, <1>2 DEF CInv, SharedTypes, Pasts
<1>5. /\ link' \in [Handles -> Links] /\ link'[use[t]] = "closed"
      /\ \A h \in Handles \ {use[t]} : link'[h] = link[h]
  BY <1>1, <1>2 DEF Closed, CInv, SharedTypes, Links
<1>6. SharedTypes'
  BY <1>1, <1>2, <1>4, <1>5 DEF CInv, SharedTypes, settings
<1>7. LinksOf(t) /\ KindsOf(t) /\ OwnOf(t)
  BY <1>1, <1>3, <1>5 DEF LinksOf, KindsOf, OwnOf
<1>8. TxOf(t) /\ UseOf(t) /\ RawOf(t) /\ PastOf(t)
  BY <1>1, <1>3, <1>4 DEF TxOf, UseOf, RawOf, PastOf
<1>9. "overlap" \notin past'.flags =>
        tx = use[t] /\ \A u \in Tasks \ {t} : at[u] \notin Changing
  BY <1>1, <1>4 DEF CInv, Alone, Changing
<1>10. RaceOf(t) /\ LeakOf(t)
  BY <1>1, <1>2, <1>3, <1>5, <1>9 DEF RaceOf, LeakOf, Starting, Changing
<1> QED  BY <1>3, <1>6, <1>7, <1>8, <1>10, OrderlyCInv DEF Orderly

\* A task that is starting changes the connection.
LEMMA StartingMayChange ==
    ASSUME CInv, NEW t \in Tasks, at[t] \in Starting, UNCHANGED <<settings, past>>
    PROVE  MayChange(t)
<1>1. "overlap" \notin past'.flags => tx = NoHandle /\ \A u \in Tasks \ {t} : at[u] \notin Changing
  BY DEF CInv, Alone, Changing
<1> QED  BY <1>1 DEF MayChange, CInv, SharedTypes, Starting

LEMMA DiscoveredCInv == ASSUME CInv, NEW t \in Tasks, Discovered(t) PROVE CInv'
<1>1. at[t] = "avail" /\ UNCHANGED <<settings, past>>
  BY DEF Discovered, Starts
<1>2. MayChange(t)
  BY <1>1, StartingMayChange DEF Starting
<1>3. /\ mine[t].grpc = NoHandle
      /\ mine[t].rest # NoHandle => link[mine[t].rest] = "open"
  BY <1>1 DEF CInv, Staged
<1>4. \A g \in Own(t) : g = mine[t].rest
  BY <1>3 DEF Own
<1>5. CASE Probe(t, mine[t].rest, link)
  BY <1>1, <1>2, <1>5, ProbeCInv
<1>6. CASE UseRest(t, mine[t].rest, link)
  BY <1>2, <1>3, <1>4, <1>6, UseRestCInv DEF CInv, SharedTypes
<1> QED  BY <1>5, <1>6 DEF Discovered

LEMMA OwnHandles ==
    ASSUME TaskTypes, NEW t \in Tasks
    PROVE  Own(t) \subseteq Handles /\ NoHandle \notin Own(t)
  BY DEF Own, TaskTypes, Transports, SomeHandle

\* A starting task begins to close some of its own transports.
LEMMA CloseCInv ==
    ASSUME CInv, NEW t \in Tasks, at[t] \in Starting, NEW s \in {"swap", "fallback", "cleanup"},
           NEW h \in SomeHandle, Suspend(t, s, h, mine[t]),
           NEW hs \in SUBSET Own(t), link' = Closing(hs),
           UNCHANGED <<settings, tx, kind, past>>,
           s # "cleanup" =>
               /\ at[t] = "ping" /\ mine[t].rest # mine[t].grpc
               /\ IF s = "swap" THEN mine[t].rest # NoHandle /\ hs = {mine[t].rest}
                  ELSE hs = {mine[t].grpc}
    PROVE  CInv'
<1>1. /\ TaskTypes' /\ Only(t)
      /\ at'[t] = s /\ use'[t] = h /\ mine'[t] = mine[t] /\ raw'[t] = NoHandle
      /\ ~asleep'[t] /\ attempt'[t] = 0
  <2>1. s \in Stages /\ s \notin Attempting /\ mine[t] \in Transports
    BY DEF Stages, Starting, Attempting, CInv, TaskTypes
  <2> QED  BY <2>1, SuspendTask DEF CInv
<1>2. Own(t)' = Own(t) /\ Own(t) = {mine[t].rest, mine[t].grpc} \ {NoHandle}
  BY <1>1 DEF Own
<1>3. /\ link' \in [Handles -> Links]
      /\ \A g \in Handles : link'[g] = link[g] \/ (g \in hs /\ link'[g] \in {"closing", "closed"})
  BY DEF Closing, CInv, SharedTypes, Links
<1>4. \A g \in Own(t) : g \in Handles /\ link[g] # "unborn"
  BY OwnBorn DEF CInv
<1>5. Staged(t)'
  <2>1. \A g \in Own(t)' : link'[g] # "unborn"
    BY <1>2, <1>3, <1>4
  <2>2. UNCHANGED endpoint
    BY DEF settings
  <2>3. CASE s = "cleanup"
    BY <1>1, <2>1, <2>2, <2>3 DEF CInv, Staged, Starting, Attempting
  <2>4. CASE s = "swap"
    <3>1. /\ mine[t].grpc # NoHandle /\ mine[t].grpc \in Handles
          /\ link[mine[t].grpc] = "open" /\ mine[t].grpc \notin hs
      BY <2>4, <1>2, <1>4 DEF CInv, Staged
    <3>2. link'[mine[t].grpc] = "open"
      BY <1>3, <3>1
    <3> QED  BY <1>1, <2>1, <2>2, <2>4, <3>1, <3>2 DEF CInv, Staged, Starting, Attempting
  <2>5. CASE s = "fallback"
    <3>1. mine[t].rest # NoHandle => /\ mine[t].rest \in Handles
                                     /\ link[mine[t].rest] = "open" /\ mine[t].rest \notin hs
      BY <2>5, <1>2, <1>4 DEF CInv, Staged
    <3>2. mine[t].rest # NoHandle => link'[mine[t].rest] = "open"
      BY <1>3, <3>1
    <3>3. mine[t].grpc # NoHandle
      BY <2>5 DEF CInv, Staged
    <3> QED  BY <1>1, <2>1, <2>2, <2>5, <3>2, <3>3 DEF CInv, Staged, Starting, Attempting
  <2> QED  BY <2>3, <2>4, <2>5
<1>6. SharedTypes'
  BY <1>3 DEF CInv, SharedTypes, settings
<1>7. LinksOf(t) /\ KindsOf(t) /\ OwnOf(t)
  BY <1>2, <1>3 DEF LinksOf, KindsOf, OwnOf
<1>8. TxOf(t) /\ UseOf(t) /\ RawOf(t) /\ PastOf(t)
  BY <1>1 DEF TxOf, UseOf, RawOf, PastOf, Starting
<1>9. MayChange(t)
  BY StartingMayChange
<1>10. RaceOf(t) /\ LeakOf(t)
  BY <1>1, <1>2, <1>9 DEF RaceOf, LeakOf, MayChange
<1> QED  BY <1>1, <1>5, <1>6, <1>7, <1>8, <1>10, OrderlyCInv DEF Orderly

LEMMA PingAnsweredCInv == ASSUME CInv, NEW t \in Tasks, PingAnswered(t) PROVE CInv'
<1>1. at[t] = "ping" /\ at[t] \in Starting /\ UNCHANGED <<settings, past, kind>>
  BY DEF PingAnswered, Starts, Starting
<1>2. /\ mine[t].grpc \in Own(t) /\ mine[t].grpc \in Handles /\ link[mine[t].grpc] = "open"
      /\ mine[t].rest # NoHandle => mine[t].rest # mine[t].grpc
  BY <1>1, OwnHandles DEF CInv, Staged, Own
<1>3. CASE mine[t].rest = NoHandle /\ Install(t, mine[t].grpc) /\ UNCHANGED link
  <2>1. MayChange(t)
    BY <1>1, StartingMayChange
  <2>2. Own(t) \ {mine[t].grpc} = {}
    BY <1>3 DEF Own
  <2>3. SharedTypes' /\ KindsOf(t)
    BY <1>1, <1>2, <1>3 DEF CInv, SharedTypes, SomeHandle, Install, settings, KindsOf
  <2> QED  BY <1>2, <1>3, <2>1, <2>2, <2>3, InstallCInv
<1>4. CASE /\ mine[t].rest # NoHandle /\ Suspend(t, "swap", mine[t].rest, mine[t])
           /\ link' = Closing({mine[t].rest}) /\ UNCHANGED tx
  <2>1. {mine[t].rest} \in SUBSET Own(t) /\ mine[t].rest \in SomeHandle
    BY <1>4 DEF Own, CInv, TaskTypes, Transports
  <2> QED  BY <1>1, <1>2, <1>4, <2>1, CloseCInv
<1> QED  BY <1>3, <1>4 DEF PingAnswered

LEMMA SwappedCInv == ASSUME CInv, NEW t \in Tasks, Swapped(t) PROVE CInv'
<1>1. /\ at[t] = "swap" /\ at[t] \in Starting /\ UNCHANGED <<settings, past, kind>>
      /\ link' = Closed({mine[t].rest}) /\ Install(t, mine[t].grpc)
  BY DEF Swapped, Starts, Starting
<1>2. /\ mine[t].grpc \in Own(t) /\ mine[t].grpc \in Handles /\ link[mine[t].grpc] = "open"
      /\ mine[t].rest \in Own(t) /\ mine[t].rest # mine[t].grpc
  BY <1>1, OwnHandles DEF CInv, Staged, Own
<1>3. /\ link' \in [Handles -> Links]
      /\ \A g \in Handles : link'[g] = IF g = mine[t].rest THEN "closed" ELSE link[g]
  BY <1>1 DEF Closed, CInv, SharedTypes, Links
<1>4. MayChange(t)
  BY <1>1, StartingMayChange
<1>5. SharedTypes' /\ KindsOf(t)
  BY <1>1, <1>2, <1>3 DEF CInv, SharedTypes, SomeHandle, Install, settings, KindsOf
<1>6. \A g \in Own(t) \ {mine[t].grpc} : g = mine[t].rest /\ g \in Handles
  BY OwnHandles DEF Own, CInv
<1>7. \A g \in Handles \ {mine[t].grpc} : link'[g] = link[g] \/ (g \in Own(t) /\ link'[g] # "unborn")
  BY <1>2, <1>3
<1> QED  BY <1>1, <1>2, <1>3, <1>4, <1>5, <1>6, <1>7, InstallCInv

\* Everything is closed: a ping that was refused, or a cancelled _start.
LEMMA CleanUpCInv ==
    ASSUME CInv, NEW t \in Tasks, at[t] \in Starting, CleanUp(t), UNCHANGED <<settings, kind, past>>
    PROVE  CInv'
  BY CloseCInv DEF CleanUp, SomeHandle

LEMMA PingFailedCInv == ASSUME CInv, NEW t \in Tasks, PingFailed(t) PROVE CInv'
<1>1. /\ at[t] = "ping" /\ at[t] \in Starting /\ UNCHANGED <<settings, past, kind, tx>>
      /\ Suspend(t, "fallback", mine[t].grpc, mine[t]) /\ link' = Closing({mine[t].grpc})
  BY DEF PingFailed, Starts, Starting
<1>2. {mine[t].grpc} \in SUBSET Own(t) /\ mine[t].grpc \in SomeHandle /\ mine[t].rest # mine[t].grpc
  BY <1>1 DEF CInv, Staged, Own, TaskTypes, Transports
<1> QED  BY <1>1, <1>2, CloseCInv

LEMMA CancelStartCInv == ASSUME CInv, NEW t \in Tasks, CancelStart(t) PROVE CInv'
<1>1. at[t] \in Starting /\ at[t] # "reset" /\ UNCHANGED <<settings, kind>>
  BY DEF CancelStart, Starting
<1>2. CASE CleanUp(t) /\ UNCHANGED past
  BY <1>1, <1>2, CleanUpCInv
<1>3. CASE /\ Finish(t, NoHandle, FALSE) /\ UNCHANGED <<link, tx>>
           /\ past' = [past EXCEPT !.flags = @ \cup {"probe cancelled"}]
  <2>1. past' \in Pasts /\ "probe cancelled" \in past'.flags /\ PastOf(t)
    BY <1>1, <1>3 DEF CInv, SharedTypes, Pasts, PastOf
  <2>2. NoHandle \in SomeHandle
    BY DEF SomeHandle
  <2> QED  BY <1>1, <1>3, <2>1, <2>2, ReturnCInv
<1> QED  BY <1>2, <1>3 DEF CancelStart, Return

\* The task is done with transports that are closed now.
LEMMA CloseAndReturnCInv ==
    ASSUME CInv, NEW t \in Tasks, at[t] \in Starting, Finish(t, NoHandle, FALSE), link' = Closed(Own(t)),
           UNCHANGED <<settings, tx, kind, past>>
    PROVE  CInv'
<1>1. /\ TaskTypes' /\ Only(t) /\ Staged(t)'
      /\ at'[t] = "idle" /\ Own(t)' = {} /\ raw'[t] = NoHandle
  BY FinishTask DEF CInv, SomeHandle
<1>2. /\ link' \in [Handles -> Links]
      /\ \A g \in Handles : link'[g] = IF g \in Own(t) THEN "closed" ELSE link[g]
  BY DEF Closed, CInv, SharedTypes, Links
<1>3. SharedTypes'
  BY <1>2 DEF CInv, SharedTypes, settings
<1>4. LinksOf(t) /\ KindsOf(t) /\ OwnOf(t)
  BY <1>1, <1>2 DEF LinksOf, KindsOf, OwnOf
<1>5. TxOf(t) /\ UseOf(t) /\ RawOf(t) /\ PastOf(t)
  BY <1>1 DEF TxOf, UseOf, RawOf, PastOf, Starting
<1>6. RaceOf(t) /\ LeakOf(t)
  BY <1>1, <1>2 DEF RaceOf, LeakOf, Changing, Starting
<1> QED  BY <1>1, <1>3, <1>4, <1>5, <1>6, OrderlyCInv DEF Orderly

LEMMA FellBackCInv == ASSUME CInv, NEW t \in Tasks, FellBack(t) PROVE CInv'
<1>1. at[t] = "fallback" /\ at[t] \in Starting /\ UNCHANGED <<settings, past>>
  BY DEF FellBack, Starts, Starting
<1>2. /\ mine[t].grpc # NoHandle
      /\ mine[t].rest # NoHandle =>
            endpoint # "none" /\ mine[t].rest # mine[t].grpc /\ link[mine[t].rest] = "open"
  BY <1>1 DEF CInv, Staged
<1>3. CASE /\ endpoint = "none" /\ Finish(t, NoHandle, FALSE) /\ link' = Closed({mine[t].grpc})
           /\ UNCHANGED <<tx, kind>>
  <2>1. Own(t) = {mine[t].grpc}
    BY <1>2, <1>3 DEF Own
  <2> QED  BY <1>1, <1>3, <2>1, CloseAndReturnCInv
<1>4. CASE UseRest(t, mine[t].rest, Closed({mine[t].grpc}))
  <2> DEFINE links == Closed({mine[t].grpc})
  <2>1. /\ links \in [Handles -> Links]
        /\ \A g \in Handles : links[g] = IF g = mine[t].grpc THEN "closed" ELSE link[g]
    BY DEF Closed, CInv, SharedTypes, Links
  <2>2. /\ mine[t].grpc \in Own(t) /\ mine[t].grpc \in Handles
        /\ mine[t].rest # NoHandle => mine[t].rest \in Handles
        /\ \A g \in Own(t) : g # mine[t].rest => g = mine[t].grpc
    BY <1>2 DEF Own, CInv, TaskTypes, Transports, SomeHandle
  <2>3. MayChange(t)
    BY <1>1, StartingMayChange
  <2> HIDE DEF links
  <2>4. UseRest(t, mine[t].rest, links)
    BY <1>4 DEF links
  <2> QED  BY <1>2, <2>1, <2>2, <2>3, <2>4, UseRestCInv
<1> QED  BY <1>3, <1>4 DEF FellBack, Return

LEMMA CleanedUpCInv == ASSUME CInv, NEW t \in Tasks, CleanedUp(t) PROVE CInv'
  BY CloseAndReturnCInv DEF CleanedUp, Return, Starts, Starting

LEMMA PingRefusedCInv == ASSUME CInv, NEW t \in Tasks, PingRefused(t) PROVE CInv'
  BY CleanUpCInv DEF PingRefused, Starts, Starting

-----------------------------------------------------------------------------
LEMMA InitCInv == ASSUME Init PROVE CInv /\ Reachable
<1>1. SharedTypes /\ TaskTypes
  BY DEF Init, SharedTypes, Pasts, Links, TaskTypes, Stages, Transports, SomeHandle, Nothing
<1>2. ASSUME NEW t \in Tasks PROVE Own(t) = {} /\ Staged(t)
  <2>1. mine[t] = Nothing /\ mine[t].rest = NoHandle /\ mine[t].grpc = NoHandle
    BY DEF Init, Nothing
  <2>2. Own(t) = {}
    BY <2>1 DEF Own
  <2> QED  BY <2>1, <2>2 DEF Init, Staged, Starting, Attempting
<1>3. Apart /\ Dropped /\ Forgotten /\ Alone
  BY <1>2 DEF Init, Apart, Dropped, Forgotten, Alone, Changing, Starting
<1>4. OnlyRacesLeak
  BY DEF Init, OnlyRacesLeak
<1> QED  BY <1>1, <1>2, <1>3, <1>4 DEF CInv, Init, Reachable

LEMMA NextReachable == ASSUME Reachable, [Next]_vars PROVE Reachable'
<1>1. UNCHANGED settings /\ (grpc' = grpc \/ grpc' = TRUE)
  <2>1. CASE UNCHANGED vars
    BY <2>1 DEF vars, settings
  <2>2. CASE \E t \in Tasks : Call(t) \/ Reset(t)
    BY <2>2 DEF Call, CallConnected, Reset, Begin
  <2>3. CASE \E t \in Tasks : Discovered(t)
    BY <2>3 DEF Discovered, Starts
  <2>4. CASE \E t \in Tasks : \/ Backoff(t) \/ Retry(t) \/ RequestDone(t) \/ BodyUnread(t)
                              \/ CallDropped(t) \/ ResetDone(t) \/ Cancel(t)
    BY <2>4 DEF Backoff, Retry, RequestDone, BodyUnread, CallDropped, ResetDone, Cancel, CancelStart,
                CancelRequest, CancelReset
  <2>5. CASE \E t \in Tasks : \/ PingAnswered(t) \/ Swapped(t) \/ PingRefused(t)
                              \/ PingFailed(t) \/ FellBack(t) \/ CleanedUp(t)
    BY <2>5 DEF PingAnswered, Swapped, PingRefused, PingFailed, FellBack, CleanedUp, Starts
  <2> QED  BY <2>1, <2>2, <2>3, <2>4, <2>5 DEF Next, Operate, Progress
<1> QED  BY <1>1 DEF Reachable, settings

LEMMA NextCInv == ASSUME CInv, Reachable, [Next]_vars PROVE CInv'
<1>1. CASE UNCHANGED vars
  <2>1. UNCHANGED <<settings, tx, kind, link, at, mine, use, attempt, asleep, raw, unread, past>>
    BY <1>1 DEF vars, settings
  <2>2. \A t \in Tasks : Own(t)' = Own(t)
    BY <2>1 DEF Own
  <2>3. (\A t \in Tasks : Staged(t)') /\ Apart'
    BY <2>1, <2>2 DEF CInv, Staged, Apart, settings
  <2>4. Dropped' /\ Forgotten' /\ Alone'
    BY <2>1 DEF CInv, Dropped, Gone, Unreadable, Forgotten, Alone
  <2>5. Held' = Held
    BY <2>1, <2>2 DEF Held
  <2>6. OnlyRacesLeak'
    BY <2>1, <2>5 DEF CInv, OnlyRacesLeak
  <2> QED  BY <2>1, <2>3, <2>4, <2>6 DEF CInv, SharedTypes, TaskTypes, settings
<1>2. ASSUME NEW t \in Tasks, Operate(t) \/ Cancel(t) PROVE CInv'
  BY <1>2, CallCInv, ResetCInv, CancelStartCInv, RequestEndsCInv, CancelResetCInv
     DEF Operate, Cancel
<1>3. ASSUME NEW t \in Tasks, Progress(t) PROVE CInv'
  BY <1>3, BackoffCInv, RetryCInv, RequestEndsCInv, ResetDoneCInv, DiscoveredCInv,
     PingAnsweredCInv, SwappedCInv, PingRefusedCInv, PingFailedCInv, FellBackCInv, CleanedUpCInv
     DEF Progress
<1> QED  BY <1>1, <1>2, <1>3 DEF Next

\* At every await of every task: who has started which transport, which of them is open, and
\* what has become of those that were closed (client/client.py).
THEOREM ClientInvariance == Spec => [](CInv /\ Reachable)
<1>1. Init => CInv /\ Reachable
  BY InitCInv
<1>2. CInv /\ Reachable /\ [Next]_vars => CInv' /\ Reachable'
  BY NextCInv, NextReachable
<1> QED  BY <1>1, <1>2, PTL DEF Spec

\* _start closes every session and channel it opened, however it ends: a transport stays open
\* with nobody to close it only after two tasks changed the connection at the same time, or
\* when a probe for gRPC alone was cancelled (AsyncClient._start, reset_transport).
THEOREM StartsDoNotLeak == Spec => []OnlyRacesLeak
<1>1. CInv => OnlyRacesLeak
  BY DEF CInv
<1> QED  BY <1>1, ClientInvariance, PTL

\* A closed transport does not stay in _tx, but for a cancelled reset (reset_transport, close).
THEOREM ClosedTransportsForgotten == Spec => []ClosedIsForgotten
<1>1. CInv => ClosedIsForgotten
  BY DEF CInv, Forgotten, ClosedIsForgotten
<1> QED  BY <1>1, ClientInvariance, PTL

\* A call that raises something else than a RoutirClientError could not read the body of a
\* REST answer, or has lost its transport to a reset, never to the _start of another task
\* (RestTransport._request, GrpcTransport._call).
THEOREM ForeignErrorsAreExplained == Spec => []ForeignErrorsExplained
<1>1. CInv => ForeignErrorsExplained
  BY DEF CInv, Dropped, Gone, Unreadable, ForeignErrorsExplained
<1> QED  BY <1>1, ClientInvariance, PTL
=============================================================================
