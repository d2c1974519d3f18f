---------------------------- MODULE AsyncClient -----------------------------
(***************************************************************************)
(* client/client.py: several tasks share one AsyncClient, which starts a   *)
(* transport at the first call, tries gRPC before REST, and is reset or    *)
(* closed at any time.  client/rest.py and client/grpc.py: the retries.    *)
(*                                                                         *)
(* A step runs from one await that can suspend to the next.  Starting a    *)
(* transport opens a session or a channel and does not suspend; a request, *)
(* a backoff and a close do.                                               *)
(***************************************************************************)
EXTENDS Naturals

CONSTANTS
    Tasks,      \* the tasks that use the client
    Retries,    \* attempts after the first one
    MaxOps      \* bound: calls and resets in a run

ASSUME ClientAssumption ==
    /\ Retries \in Nat
    /\ MaxOps \in Nat

\* The transports a run can make: a _start makes at most two.
Handles == 1..2 * MaxOps
NoHandle == 0

VARIABLES
    choice,     \* _transport_choice
    endpoint,   \* the scheme of the REST endpoint, or "none"
    grpc,       \* grpc_endpoint is set, by the caller or by discovery
    tx,         \* _tx
    kind,       \* what kind of transport each handle is
    link,       \* its session or channel: unborn, open, closing, closed
    at,         \* the await each task is suspended in
    mine,       \* rest_tx and grpc_tx of the task's _start
    use,        \* the transport of the request, or the one being closed
    attempt,    \* the attempt under way
    asleep,     \* the task sleeps between two attempts
    raw,        \* the transport over which the task's latest operation raised
                \* something else than a RoutirClientError
    unread,     \* it did so for the answer, whose body could not be read
    ops,        \* operations so far
    past        \* history: what has happened among "overlap", "probe cancelled",
                \* "reset cancelled" and the handles a reset has closed

settings == <<choice, endpoint>>
vars == <<choice, endpoint, grpc, tx, kind, link, at, mine, use, attempt, asleep,
          raw, unread, ops, past>>

Starting == {"avail", "ping", "swap", "fallback", "cleanup"}
Nothing == [rest |-> NoHandle, grpc |-> NoHandle]

\* The handles the variables of task t's _start refer to.
Own(t) == {mine[t].rest, mine[t].grpc} \ {NoHandle}

\* __init__ with every choice of transport and of endpoints it accepts.
Init ==
    /\ choice \in {"auto", "rest", "grpc"}
    /\ endpoint \in {"none", "http", "https"}
    /\ grpc \in BOOLEAN
    /\ endpoint # "none" \/ grpc
    /\ tx = NoHandle
    /\ kind = [h \in Handles |-> "rest"]
    /\ link = [h \in Handles |-> "unborn"]
    /\ at = [t \in Tasks |-> "idle"]
    /\ mine = [t \in Tasks |-> Nothing]
    /\ use = [t \in Tasks |-> NoHandle]
    /\ attempt = [t \in Tasks |-> 0]
    /\ asleep = [t \in Tasks |-> FALSE]
    /\ raw = [t \in Tasks |-> NoHandle]
    /\ unread = [t \in Tasks |-> FALSE]
    /\ ops = 0
    /\ past = [flags |-> {}, reset |-> {}]

-----------------------------------------------------------------------------
(* Where a step leaves its task.                                           *)

\* Suspended in stage s, with the first attempt over h if s makes attempts.
Suspend(t, s, h, own) ==
    /\ at' = [at EXCEPT ![t] = s]
    /\ use' = [use EXCEPT ![t] = h]
    /\ mine' = [mine EXCEPT ![t] = own]
    /\ attempt' = [attempt EXCEPT ![t] = IF s \in {"avail", "ping", "request"} THEN 1 ELSE 0]
    /\ asleep' = [asleep EXCEPT ![t] = FALSE]
    /\ raw' = [raw EXCEPT ![t] = NoHandle]
    /\ unread' = [unread EXCEPT ![t] = FALSE]

\* Back at the caller of the client, with an answer, a RoutirClientError or a
\* cancellation; or with another error over h, for its answer if u is TRUE, else
\* for h is closed.
Finish(t, h, u) ==
    /\ at' = [at EXCEPT ![t] = "idle"]
    /\ mine' = [mine EXCEPT ![t] = Nothing]
    /\ attempt' = [attempt EXCEPT ![t] = 0]
    /\ asleep' = [asleep EXCEPT ![t] = FALSE]
    /\ use' = [use EXCEPT ![t] = NoHandle]
    /\ raw' = [raw EXCEPT ![t] = h]
    /\ unread' = [unread EXCEPT ![t] = u]

Return(t) == Finish(t, NoHandle, FALSE)
RaiseRaw(t, h) == Finish(t, h, FALSE)

\* A new transport of kind k, made and started: links is the state of the
\* others after this step.
Open(h, k, links) ==
    /\ links[h] = "unborn"
    /\ \A g \in Handles : g < h => links[g] # "unborn"
    /\ kind' = [kind EXCEPT ![h] = k]
    /\ link' = [links EXCEPT ![h] = "open"]

\* close() of the transports hs has begun, or has ended.
Closing(hs) == [h \in Handles |-> IF h \in hs /\ link[h] # "closed" THEN "closing" ELSE link[h]]
Closed(hs) == [h \in Handles |-> IF h \in hs THEN "closed" ELSE link[h]]

\* _start sets _tx, whatever it was by now, and the request goes over it.
Install(t, h) ==
    /\ tx' = h
    /\ Suspend(t, "request", h, Nothing)

\* _start makes a gRPC transport and pings it.
Probe(t, rest, links) ==
    \E h \in Handles :
        /\ Open(h, "grpc", links)
        /\ Suspend(t, "ping", h, [rest |-> rest, grpc |-> h])
        /\ UNCHANGED tx

\* _start ends with REST, over the transport it has or a new one.
UseRest(t, rest, links) ==
    \/ /\ rest # NoHandle
       /\ Install(t, rest)
       /\ link' = links
       /\ UNCHANGED kind
    \/ /\ rest = NoHandle
       /\ \E h \in Handles : Open(h, "rest", links) /\ Install(t, h)

-----------------------------------------------------------------------------
(* The operations of a task.                                               *)

\* History: t begins to change the connection while another task does.
Remember(t, stages) ==
    past' = [past EXCEPT !.flags = @ \cup
                 {f \in {"overlap"} : \E u \in Tasks \ {t} : at[u] \in stages}]

Begin(t) ==
    /\ at[t] = "idle"
    /\ ops < MaxOps
    /\ ops' = ops + 1
    /\ UNCHANGED <<settings, grpc>>

\* _ensure finds a transport.  A REST session that is being closed raises at
\* once, and not a RoutirClientError.
CallConnected(t) ==
    /\ Begin(t)
    /\ tx # NoHandle
    /\ IF kind[tx] = "rest" /\ link[tx] # "open"
       THEN RaiseRaw(t, tx)
       ELSE Suspend(t, "request", tx, Nothing)
    /\ UNCHANGED <<tx, kind, link, past>>

\* The three ways _start begins: with REST alone, with gRPC alone, and auto,
\* which asks /avail first when it knows no gRPC endpoint.
StartRest(t) ==
    /\ choice = "rest"
    /\ IF endpoint = "none"
       THEN Return(t) /\ UNCHANGED <<tx, kind, link>>
       ELSE UseRest(t, NoHandle, link)

StartGrpc(t) ==
    /\ choice = "grpc"
    /\ IF grpc
       THEN Probe(t, NoHandle, link)
       ELSE Return(t) /\ UNCHANGED <<tx, kind, link>>

StartAuto(t) ==
    /\ choice = "auto"
    /\ CASE grpc -> Probe(t, NoHandle, link)
         [] ~grpc /\ endpoint = "https" -> UseRest(t, NoHandle, link)
         [] ~grpc /\ endpoint = "http" ->
               \E h \in Handles :
                   /\ Open(h, "rest", link)
                   /\ Suspend(t, "avail", h, [rest |-> h, grpc |-> NoHandle])
                   /\ UNCHANGED tx

Call(t) ==
    \/ CallConnected(t)
    \/ /\ Begin(t)
       /\ tx = NoHandle
       /\ StartRest(t) \/ StartGrpc(t) \/ StartAuto(t)
       /\ Remember(t, Starting \cup {"reset"})

\* reset_transport and close: the transport is closed, then forgotten.
Reset(t) ==
    /\ Begin(t)
    /\ Remember(t, Starting \cup {"reset"})
    /\ IF tx = NoHandle
       THEN Return(t) /\ UNCHANGED link
       ELSE Suspend(t, "reset", tx, Nothing) /\ link' = Closing({tx})
    /\ UNCHANGED <<tx, kind>>

\* Seeded fault: the closed transport stays in _tx.
ResetKeepsTx(t) ==
    /\ at[t] = "reset"
    /\ link' = Closed({use[t]})
    /\ past' = [past EXCEPT !.reset = @ \cup {use[t]}]
    /\ Return(t)
    /\ UNCHANGED <<settings, grpc, tx, kind, ops>>

\* _tx is cleared, whatever it is by now.
ResetDone(t) ==
    /\ at[t] = "reset"
    /\ link' = Closed({use[t]})
    /\ tx' = NoHandle
    /\ past' = [past EXCEPT !.reset = @ \cup {use[t]}]
    /\ Return(t)
    /\ UNCHANGED <<settings, grpc, kind, ops>>

-----------------------------------------------------------------------------
(* The attempts of a request: _request and _call.                          *)

\* The attempt under way got an answer: one that ends the request, or, when
\* again is TRUE, one that is worth another attempt (5xx, UNAVAILABLE, a time-out,
\* a connection error).  Over a closed connection there is only the latter.
Answered(t, again) ==
    /\ ~asleep[t] /\ attempt[t] > 0
    /\ again \/ link[use[t]] = "open"

\* The request fails: at once, or because no attempt is left.
Failed(t) ==
    \/ Answered(t, FALSE)
    \/ Answered(t, TRUE) /\ attempt[t] = Retries + 1

Backoff(t) ==
    /\ Answered(t, TRUE)
    /\ attempt[t] <= Retries
    /\ asleep' = [asleep EXCEPT ![t] = TRUE]
    /\ UNCHANGED <<settings, grpc, tx, kind, link, at, mine, use, attempt, raw,
                   unread, ops, past>>

\* Seeded fault: a retry does not count as an attempt.
RetryUncounted(t) ==
    /\ asleep[t]
    /\ asleep' = [asleep EXCEPT ![t] = FALSE]
    /\ UNCHANGED <<settings, grpc, tx, kind, link, at, mine, use, attempt, raw,
                   unread, ops, past>>

\* The next attempt.  On a closed REST transport self._session is None, or a
\* closed session; on a closed channel gRPC fails like an unavailable server.
Retry(t) ==
    /\ asleep[t]
    /\ IF kind[use[t]] = "rest" /\ link[use[t]] # "open"
       THEN RaiseRaw(t, use[t])
       ELSE /\ attempt' = [attempt EXCEPT ![t] = @ + 1]
            /\ asleep' = [asleep EXCEPT ![t] = FALSE]
            /\ UNCHANGED <<at, mine, use, raw, unread>>
    /\ UNCHANGED <<settings, grpc, tx, kind, link, ops, past>>

RequestDone(t) ==
    /\ at[t] = "request"
    /\ Answered(t, FALSE) \/ Failed(t)
    /\ Return(t)
    /\ UNCHANGED <<settings, grpc, tx, kind, link, ops, past>>

\* The body of a REST answer is not JSON, or breaks off: what resp.json() raises,
\* a ContentTypeError, a JSONDecodeError or a ClientPayloadError, is caught nowhere.
BodyUnread(t) ==
    /\ at[t] = "request"
    /\ ~asleep[t]
    /\ kind[use[t]] = "rest"
    /\ Finish(t, use[t], TRUE)
    /\ UNCHANGED <<settings, grpc, tx, kind, link, ops, past>>

\* Closing a channel cancels its calls: the task that awaits one gets a
\* CancelledError.
CallDropped(t) ==
    /\ at[t] = "request"
    /\ ~asleep[t]
    /\ kind[use[t]] = "grpc" /\ link[use[t]] # "open"
    /\ RaiseRaw(t, use[t])
    /\ UNCHANGED <<settings, grpc, tx, kind, link, ops, past>>

-----------------------------------------------------------------------------
(* The stages of _start.                                                   *)

Starts == UNCHANGED <<settings, ops, past>>

\* _autodiscover_grpc returns: /avail gave a port, gave none, or failed in whatever
\* way, an unreadable answer included.
\* The endpoint may have been discovered by another task in the meantime.
Discovered(t) ==
    /\ at[t] = "avail"
    /\ \/ Answered(t, FALSE) /\ grpc' = TRUE
       \/ (Answered(t, FALSE) \/ Failed(t)) /\ UNCHANGED grpc
    /\ IF grpc'
       THEN Probe(t, mine[t].rest, link)
       ELSE UseRest(t, mine[t].rest, link)
    /\ Starts

\* Seeded fault: the REST transport that served the discovery is not closed.
PingAnsweredKeepRest(t) ==
    /\ at[t] = "ping"
    /\ Answered(t, FALSE)
    /\ Install(t, mine[t].grpc)
    /\ UNCHANGED <<kind, grpc, link>>
    /\ Starts

\* The ping is answered: gRPC is used, once the REST transport is closed.
PingAnswered(t) ==
    /\ at[t] = "ping"
    /\ Answered(t, FALSE)
    /\ IF mine[t].rest = NoHandle
       THEN Install(t, mine[t].grpc) /\ UNCHANGED link
       ELSE /\ Suspend(t, "swap", mine[t].rest, mine[t])
            /\ link' = Closing({mine[t].rest})
            /\ UNCHANGED tx
    /\ UNCHANGED <<kind, grpc>>
    /\ Starts

Swapped(t) ==
    /\ at[t] = "swap"
    /\ link' = Closed({mine[t].rest})
    /\ Install(t, mine[t].grpc)
    /\ UNCHANGED <<kind, grpc>>
    /\ Starts

\* Everything _start opened is closed before it raises.
CleanUp(t) ==
    /\ Suspend(t, "cleanup", NoHandle, mine[t])
    /\ link' = Closing(Own(t))
    /\ UNCHANGED tx

\* The ping is refused for want of authority, or the choice is gRPC alone: the
\* error is raised, after everything is closed.
PingRefused(t) ==
    /\ at[t] = "ping"
    /\ \/ Answered(t, FALSE)
       \/ Failed(t) /\ choice = "grpc"
    /\ CleanUp(t)
    /\ UNCHANGED <<kind, grpc>>
    /\ Starts

\* Seeded fault: both transports are closed before REST is used.
PingFailedCloseAll(t) ==
    /\ at[t] = "ping"
    /\ choice = "auto"
    /\ Failed(t)
    /\ Suspend(t, "fallback", mine[t].grpc, mine[t])
    /\ link' = Closing(Own(t))
    /\ UNCHANGED <<tx, kind, grpc>>
    /\ Starts

\* Any other failure of the ping: the channel is closed before REST is used.
PingFailed(t) ==
    /\ at[t] = "ping"
    /\ choice = "auto"
    /\ Failed(t)
    /\ Suspend(t, "fallback", mine[t].grpc, mine[t])
    /\ link' = Closing({mine[t].grpc})
    /\ UNCHANGED <<tx, kind, grpc>>
    /\ Starts

FellBack(t) ==
    /\ at[t] = "fallback"
    /\ IF endpoint = "none"
       THEN /\ Return(t)
            /\ link' = Closed({mine[t].grpc})
            /\ UNCHANGED <<tx, kind>>
       ELSE UseRest(t, mine[t].rest, Closed({mine[t].grpc}))
    /\ UNCHANGED grpc
    /\ Starts

CleanedUp(t) ==
    /\ at[t] = "cleanup"
    /\ link' = Closed(Own(t))
    /\ Return(t)
    /\ UNCHANGED <<tx, kind, grpc>>
    /\ Starts

-----------------------------------------------------------------------------
\* The task that uses the client is cancelled at an await.  _start closes what
\* it opened, except when the choice is gRPC alone; a cancelled reset leaves the
\* closed transport in _tx.  A second cancellation, during the clean-up, is left out.
CancelStart(t) ==
    /\ at[t] \in Starting \ {"cleanup"}
    /\ IF choice = "auto"
       THEN CleanUp(t) /\ UNCHANGED past
       ELSE /\ Return(t)
            /\ past' = [past EXCEPT !.flags = @ \cup {"probe cancelled"}]
            /\ UNCHANGED <<link, tx>>
    /\ UNCHANGED <<settings, grpc, kind, ops>>

CancelRequest(t) ==
    /\ at[t] = "request"
    /\ Return(t)
    /\ UNCHANGED <<settings, grpc, tx, kind, link, ops, past>>

CancelReset(t) ==
    /\ at[t] = "reset"
    /\ Return(t)
    /\ past' = [past EXCEPT !.flags = @ \cup {"reset cancelled"},
                            !.reset = @ \cup {use[t]}]
    /\ UNCHANGED <<settings, grpc, tx, kind, link, ops>>

\* What the loop, the server and the time-outs make a suspended task do.
Progress(t) ==
    \/ Backoff(t) \/ Retry(t) \/ RequestDone(t) \/ BodyUnread(t) \/ CallDropped(t)
    \/ Discovered(t) \/ PingAnswered(t) \/ Swapped(t)
    \/ PingRefused(t) \/ PingFailed(t) \/ FellBack(t) \/ CleanedUp(t)
    \/ ResetDone(t)

Operate(t) == Call(t) \/ Reset(t)
Cancel(t) == CancelStart(t) \/ CancelRequest(t) \/ CancelReset(t)

Next == \E t \in Tasks : Operate(t) \/ Progress(t) \/ Cancel(t)

\* Every attempt ends, by its time-out at the latest; so do a sleep and a close.
Fairness == \A t \in Tasks : WF_vars(Progress(t))

Spec == Init /\ [][Next]_vars /\ Fairness

-----------------------------------------------------------------------------
\* The transports somebody can still close: _tx, and those of a running _start.
Held == {tx} \cup UNION {Own(t) : t \in Tasks}

\* No failure and no cancellation of _start leaves an open session or channel
\* behind, whatever stage it strikes; a transport is only lost when tasks change
\* the connection at the same time, or when a probe for gRPC alone is cancelled.
OnlyRacesLeak ==
    (\E h \in Handles \ Held : link[h] = "open")
        => past.flags \cap {"overlap", "probe cancelled"} # {}

\* The client does not stay on a transport that is closed: one it still refers to
\* is being closed by a reset that will forget it, unless that reset was cancelled.
ClosedIsForgotten ==
    tx # NoHandle /\ link[tx] # "open"
        => \/ \E t \in Tasks : at[t] = "reset" /\ use[t] = tx
           \/ "reset cancelled" \in past.flags

\* A call that raises something else than a RoutirClientError has met a REST answer
\* it cannot read, or a reset took its transport away under it.  Over gRPC a reset is
\* the only cause, and _start never hands out a transport that it has closed.
ForeignErrorsExplained ==
    \A t \in Tasks : raw[t] # NoHandle
        => \/ unread[t] /\ kind[raw[t]] = "rest"
           \/ raw[t] \in past.reset
           \/ \E u \in Tasks : at[u] = "reset" /\ use[u] = raw[t]

\* Every operation ends: attempts and backoffs are bounded, no stage is a trap.
EveryOperationEnds == \A t \in Tasks : at[t] # "idle" ~> at[t] = "idle"
=============================================================================
