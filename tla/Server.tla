------------------------------- MODULE Server -------------------------------
(***************************************************************************)
(* The process around the requests (src/index.js): its start, its graceful *)
(* shutdown, the sockets of the price feed's clients (wsServer.js), and the *)
(* pool of database connections (config/db.js), of which the price feed's   *)
(* ticks (priceFeed.js) take two each.  The requests are on-chain           *)
(* withdrawals, which have most to lose when the process ends.              *)
(*                                                                          *)
(* A shutdown closes the sockets, waits until the HTTP server has no        *)
(* connection left, ends the pool, which waits until all its connections    *)
(* are back, and exits; after ten seconds it exits in any case.  The HTTP   *)
(* server waits for connections, not for handlers: those of clients who     *)
(* have hung up run on unnoticed.                                           *)
(***************************************************************************)
EXTENDS OnchainWithdrawal, FiniteSets

CONSTANT Connections   \* the pool's max

\* One tick takes two, and requests need some.
ASSUME ServerAssumption == Connections \in Nat /\ Connections >= 3

VARIABLES
    stage,    \* of the process
    socket,   \* the one client of the price feed
    feed,     \* the feed's ticks, by what they do with connections
    hungUp    \* withdrawals whose client does not wait for the answer

processVars == <<stage, socket, feed, hungUp>>
serverVars  == <<withdrawalVars, processVars>>

\* draining: the HTTP server takes no new connections.  ending: nor does the pool
\* hand any out.  exited, killed: the process is gone, with status 0 or not.
Stages == {"up", "draining", "ending", "exited", "killed"}

NoTicks == [holding |-> 0, wanting |-> 0, filling |-> 0]

ServerTypeOK ==
    /\ WithdrawalTypeOK
    /\ stage \in Stages
    /\ socket \in {"none", "open", "closing"}
    /\ feed \in [{"holding", "wanting", "filling"} -> 0..Connections]
    /\ hungUp \subseteq Withdrawals

ServerInit ==
    /\ Init
    /\ stage = "up" /\ socket = "none" /\ feed = NoTicks /\ hungUp = {}

Running == stage \in {"up", "draining", "ending"}
PoolOpen == stage \in {"up", "draining"}

\* Connections the feed's ticks have: one to read the pending orders, and another
\* one for the order they fill.
Taken == feed.holding + feed.wanting + 2 * feed.filling

-----------------------------------------------------------------------------
(* Requests.                                                                *)

\* A withdrawal's own use of the pool is over within a step.
TakeRequest(w) ==
    /\ PoolOpen /\ Taken < Connections
    /\ Deduct(w) \/ DeductUnanswered(w)
    /\ UNCHANGED processVars

\* Once the pool has ended, the refund is refused ("Cannot use a pool after calling
\* end on the pool"), and the catch block throws.
HandlerGoesOn(w) ==
    /\ Running
    /\ \/ (At(w, "refund") => PoolOpen) /\ Handle(w)
       \/ At(w, "refund") /\ ~PoolOpen /\ GoTo(w, "unpaid", withdrawal[w].tx)
    /\ UNCHANGED processVars

ChainGoesOn(w) == ChainDecides(w) /\ UNCHANGED processVars

HangUp(w) ==
    /\ InFlight(w) /\ w \notin hungUp
    /\ hungUp' = hungUp \cup {w}
    /\ UNCHANGED <<withdrawalVars, stage, socket, feed>>

-----------------------------------------------------------------------------
(* The price feed's ticks.                                                  *)

Move(from, to) ==
    /\ feed[from] > 0
    /\ feed' = IF to = "end" THEN [feed EXCEPT ![from] = @ - 1]
                             ELSE [feed EXCEPT ![from] = @ - 1, ![to] = @ + 1]
    /\ UNCHANGED <<withdrawalVars, stage, socket, hungUp>>

\* Polls are chained.  (Mutant: the interval starts one whatever the others do.)
AnyTime    == TRUE
LastIsOver == feed = NoTicks

TickStarts ==
    /\ PoolOpen /\ LastIsOver /\ Taken < Connections
    /\ feed' = [feed EXCEPT !.holding = @ + 1]
    /\ UNCHANGED <<withdrawalVars, stage, socket, hungUp>>

\* An order to fill, if there is one more.
TickWants  == PoolOpen /\ Move("holding", "wanting")
TickGets   == PoolOpen /\ Taken < Connections /\ Move("wanting", "filling")
TickFilled == Running /\ Move("filling", "holding")
TickEnds   == Running /\ Move("holding", "end")

\* connectionTimeoutMillis: processTick throws, and its own connection goes back.
TickTimesOut == Running /\ Move("wanting", "end")

TickGoesOn == TickGets \/ TickFilled \/ TickEnds \/ TickTimesOut

-----------------------------------------------------------------------------
(* Sockets.                                                                 *)

SocketBecomes(now) == socket' = now /\ UNCHANGED <<withdrawalVars, stage, feed, hungUp>>

SocketOpens  == stage = "up" /\ socket = "none" /\ SocketBecomes("open")
SocketLeaves == Running /\ socket = "open" /\ SocketBecomes("none")

\* The client answers the close frame, or ws's own timeout closes for it.
SocketCloses == Running /\ socket = "closing" /\ SocketBecomes("none")

-----------------------------------------------------------------------------
(* Shutdown.                                                                *)

\* closeWsServer.  (Mutant: only new connections are refused.)
AfterCloseAllKept == socket
AfterCloseAll     == IF socket = "open" THEN "closing" ELSE socket

\* SIGTERM or SIGINT; further ones are ignored.
Signal ==
    /\ stage = "up"
    /\ stage' = "draining" /\ socket' = AfterCloseAll
    /\ UNCHANGED <<withdrawalVars, feed, hungUp>>

\* httpServer.close calls back.  (Mutant: it is not waited for.)
NotWaitedFor  == TRUE
NoConnections == socket = "none" /\ \A w \in Withdrawals : InFlight(w) => w \in hungUp

HttpCloses ==
    /\ stage = "draining"
    /\ NoConnections
    /\ stage' = "ending"
    /\ UNCHANGED <<withdrawalVars, socket, feed, hungUp>>

Exit(status) ==
    /\ HandlersDie
    /\ stage' = status /\ socket' = "none" /\ feed' = NoTicks
    /\ UNCHANGED hungUp

PoolEnds  == stage = "ending" /\ Taken = 0 /\ Exit("exited")
ForceExit == stage \in {"draining", "ending"} /\ Exit("killed")

\* SIGKILL, or a query of POST /refresh that fails in the callback of jwt.verify:
\* nothing awaits the callback, and the process dies of the unhandled rejection.
Kill == "crash" \in Faults /\ Running /\ Exit("killed")

Start ==
    /\ ~Running
    /\ stage' = "up" /\ hungUp' = {}
    /\ UNCHANGED <<withdrawalVars, socket, feed>>

Shutdown == Signal \/ HttpCloses \/ PoolEnds \/ ForceExit \/ Kill \/ Start

ServerNext ==
    \/ \E w \in Withdrawals : TakeRequest(w) \/ HandlerGoesOn(w) \/ ChainGoesOn(w) \/ HangUp(w)
    \/ TickStarts \/ TickWants \/ TickGoesOn
    \/ SocketOpens \/ SocketLeaves \/ SocketCloses
    \/ Shutdown

ServerSpec == ServerInit /\ [][ServerNext]_serverVars

\* Handlers, ticks and the shutdown run on as long as the process does; a socket
\* told to close does; the chain decides.  Nothing makes a signal, a client or the
\* ten seconds' timer act.
ServerFairness ==
    /\ \A w \in Withdrawals : WF_serverVars(HandlerGoesOn(w)) /\ WF_serverVars(ChainGoesOn(w))
    /\ WF_serverVars(TickGoesOn)
    /\ WF_serverVars(SocketCloses)
    /\ WF_serverVars(HttpCloses \/ PoolEnds)

FairServerSpec == ServerSpec /\ ServerFairness

-----------------------------------------------------------------------------
(* Properties.                                                              *)

\* A feed whose ticks wait for connections that other ticks hold would take the
\* whole pool ("pile up concurrent Postgres pool connections", priceFeed.js:55): it
\* always leaves one to requests and to itself.
FeedLeavesConnections == Taken < Connections

\* A graceful exit ends no request that somebody waits for ("just kills the process
\* mid-request", index.js:47): the handlers it kills, and the refunds that the ended
\* pool refuses, are those of clients who have hung up.
GracefulLosesNothing ==
    [][\A w \in Withdrawals \ hungUp :
         /\ InFlight(w) /\ At(w, "dead")' => stage' = "killed"
         /\ At(w, "refund") /\ At(w, "unpaid")' => PoolOpen]_serverVars

\* A shutdown comes to its end by itself, not by its timer, unless a client waits for
\* an ETH transaction that the chain dropped.
ShutdownNeedsNoTimer ==
    stage = "draining" ~> \/ ~Running
                          \/ \E w \in Withdrawals : At(w, "wait") /\ withdrawal[w].tx = "dropped"
=============================================================================
