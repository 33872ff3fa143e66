----------------------------- MODULE Lifecycle -----------------------------
(***************************************************************************)
(* Start-up and shutdown of a framework service (framework/app.go,         *)
(* framework/server.go, src/main.go), built on the bus of BusSpec.         *)
(*                                                                         *)
(* Goroutines:                                                             *)
(*  - main: user set-up, then Run: web Start, rpc Start, web Wait, rpc     *)
(*    Wait.  Each Wait subscribes a handler that sends on an unbuffered    *)
(*    channel and then receives from it;                                   *)
(*  - the signal goroutine of app.go init: one receive from the unbuffered *)
(*    os.Signal channel, then three publications;                          *)
(*  - the web and rpc serve goroutines of Start;                           *)
(*  - one goroutine per handler call the bus owes (BusSpec's promised).    *)
(*                                                                         *)
(* Logging publications other than log.fatal only print and are left out. *)
(* EventBus.tla shows that the bus as this repository uses it (no          *)
(* Unsubscribe) implements BusSpec; its map race is checked there.         *)
(***************************************************************************)
EXTENDS Naturals, Sequences

CONSTANTS
    MaxPublishes,   \* bound: publications; at least all the code can make
    MaxSignals      \* bound: termination signals sent to the process

Topics == {"ExitWebServer", "ExitRpcServer", "Quit", "WebServerExited",
           "RpcServerExited", "log.fatal"}
\* webQuit and rpcQuit are the web and rpc exit funcs as subscribed to
\* Quit: they are called as the Quit handlers, with the signal as argument.
Funcs  == {"webExit", "rpcExit", "webQuit", "rpcQuit", "waitWeb", "waitRpc",
           "logFatal"}

VARIABLES
    subs, promised, called, npub,   \* the bus (BusSpec)
    env,        \* configuration: trusted proxies, web port, rpc port usable
    mainPc,     \* where main is
    sigPc,      \* where the signal goroutine is
    sigs,       \* signals sent to the process
    web,        \* the web serve goroutine
    webClosed,  \* http.Server.Shutdown has been called
    rpc,        \* the rpc serve goroutine
    rpcStopped, \* grpc.Server.GracefulStop has been called
    proc        \* "running", "exited" (main returned) or "fatal"

busVars == <<subs, promised, called, npub>>
vars == <<subs, promised, called, npub, env, mainPc, sigPc, sigs, web,
          webClosed, rpc, rpcStopped, proc>>

Bus == INSTANCE BusSpec

Env == [proxiesOk : BOOLEAN, webListenOk : BOOLEAN, rpcListenOk : BOOLEAN]

\* Handler calls the bus can owe; fairness is stated per call.
CallIds == [pub : 1..MaxPublishes, idx : 1..2, f : Funcs]

\* app.go init (26-88) has run: the log.* handlers are subscribed,
\* signal.Notify is registered, the signal goroutine is started.
Init ==
    /\ subs = [t \in Topics |-> IF t = "log.fatal" THEN <<"logFatal">> ELSE <<>>]
    /\ promised = {}
    /\ called = {}
    /\ npub = 0
    /\ env \in Env
    /\ mainPc = "setup"
    /\ sigPc = "starting"
    /\ sigs = 0
    /\ web = "none"
    /\ webClosed = FALSE
    /\ rpc = "none"
    /\ rpcStopped = FALSE
    /\ proc = "running"

Running == proc = "running"

\* main: grpcserver.Init and LoadServiceRoute, then framework.Run.
Setup ==
    /\ Running /\ mainPc = "setup"
    /\ mainPc' = "webStart"
    /\ UNCHANGED <<busVars, env, sigPc, sigs, web, webClosed, rpc, rpcStopped, proc>>

\* WebServer.Start: an invalid trusted proxy list returns before anything
\* is subscribed or started, and Run ignores the error.
WebStart ==
    /\ Running /\ mainPc = "webStart"
    /\ mainPc' = "rpcListen"
    /\ IF env.proxiesOk
       THEN /\ subs' = [subs EXCEPT !["ExitWebServer"] = Append(@, "webExit"),
                                    !["Quit"] = Append(@, "webQuit")]
            /\ web' = "starting"
       ELSE UNCHANGED <<subs, web>>
    /\ UNCHANGED <<promised, called, npub, env, sigPc, sigs, webClosed, rpc, rpcStopped, proc>>

\* RpcServer.Start, net.Listen: a failure publishes log.fatal and goes on.
RpcListen ==
    /\ Running /\ mainPc = "rpcListen"
    /\ mainPc' = "rpcSubscribe"
    /\ IF env.rpcListenOk THEN UNCHANGED busVars ELSE Bus!Publish("log.fatal")
    /\ UNCHANGED <<env, sigPc, sigs, web, webClosed, rpc, rpcStopped, proc>>

\* RpcServer.Start: subscribe the exit handler, start serving.
RpcSubscribe ==
    /\ Running /\ mainPc = "rpcSubscribe"
    /\ mainPc' = "webWait"
    /\ subs' = [subs EXCEPT !["ExitRpcServer"] = Append(@, "rpcExit"),
                            !["Quit"] = Append(@, "rpcQuit")]
    /\ rpc' = "starting"
    /\ UNCHANGED <<promised, called, npub, env, sigPc, sigs, web, webClosed, rpcStopped, proc>>

\* Mutant: web.Wait subscribes but does not block on <-q.
WebWaitNoBlock ==
    /\ Running /\ mainPc = "webWait"
    /\ mainPc' = "rpcWait"
    /\ Bus!Subscribe("WebServerExited", "waitWeb")
    /\ UNCHANGED <<env, sigPc, sigs, web, webClosed, rpc, rpcStopped, proc>>

\* WebServer.Wait and RpcServer.Wait: subscribe, then block on <-q.
WebWait ==
    /\ Running /\ mainPc = "webWait"
    /\ mainPc' = "webRecv"
    /\ Bus!Subscribe("WebServerExited", "waitWeb")
    /\ UNCHANGED <<env, sigPc, sigs, web, webClosed, rpc, rpcStopped, proc>>

RpcWait ==
    /\ Running /\ mainPc = "rpcWait"
    /\ mainPc' = "rpcRecv"
    /\ Bus!Subscribe("RpcServerExited", "waitRpc")
    /\ UNCHANGED <<env, sigPc, sigs, web, webClosed, rpc, rpcStopped, proc>>

\* The signal goroutine reaches `sig := <-quit`.
SigReady ==
    /\ Running /\ sigPc = "starting"
    /\ sigPc' = "waiting"
    /\ UNCHANGED <<busVars, env, mainPc, sigs, web, webClosed, rpc, rpcStopped, proc>>

\* A termination signal arrives.  signal.Notify never blocks: with no
\* receiver ready on the unbuffered channel the signal is dropped, and
\* Notify has disabled the default action that would end the process.
Signal ==
    /\ Running /\ sigs < MaxSignals
    /\ sigs' = sigs + 1
    /\ sigPc' = IF sigPc = "waiting" THEN "pubWeb" ELSE sigPc
    /\ UNCHANGED <<busVars, env, mainPc, web, webClosed, rpc, rpcStopped, proc>>

\* The three publications of the signal goroutine, one step each.
SigNext == [pubWeb |-> "pubRpc", pubRpc |-> "pubQuit", pubQuit |-> "done"]
SigTopic == [pubWeb |-> "ExitWebServer", pubRpc |-> "ExitRpcServer", pubQuit |-> "Quit"]

SigPublish ==
    /\ Running /\ sigPc \in DOMAIN SigNext
    /\ Bus!Publish(SigTopic[sigPc])
    /\ sigPc' = SigNext[sigPc]
    /\ UNCHANGED <<env, mainPc, sigs, web, webClosed, rpc, rpcStopped, proc>>

\* Web serve goroutine: ListenAndServe returns at once after Shutdown or
\* on a listen error, otherwise serves until Shutdown closes its listener.
WebListen ==
    /\ Running /\ web = "starting"
    /\ web' = IF webClosed \/ ~env.webListenOk THEN "returned" ELSE "serving"
    /\ UNCHANGED <<busVars, env, mainPc, sigPc, sigs, webClosed, rpc, rpcStopped, proc>>

WebExited ==
    /\ Running /\ web = "returned"
    /\ Bus!Publish("WebServerExited")
    /\ web' = "done"
    /\ UNCHANGED <<env, mainPc, sigPc, sigs, webClosed, rpc, rpcStopped, proc>>

\* Mutant: Serve after GracefulStop serves anyway.
RpcServeIgnoresStop ==
    /\ Running /\ rpc = "starting"
    /\ IF ~env.rpcListenOk
       THEN /\ proc' = "fatal" /\ UNCHANGED rpc
       ELSE /\ rpc' = "serving"
            /\ UNCHANGED proc
    /\ UNCHANGED <<busVars, env, mainPc, sigPc, sigs, web, webClosed, rpcStopped>>

\* Rpc serve goroutine.  Serve on the nil listener of a failed Listen
\* panics, which ends the process; Serve after GracefulStop returns
\* ErrServerStopped, which is logged as fatal.
RpcServe ==
    /\ Running /\ rpc = "starting"
    /\ IF ~env.rpcListenOk
       THEN /\ proc' = "fatal" /\ UNCHANGED rpc
       ELSE /\ rpc' = IF rpcStopped THEN "failed" ELSE "serving"
            /\ UNCHANGED proc
    /\ UNCHANGED <<busVars, env, mainPc, sigPc, sigs, web, webClosed, rpcStopped>>

RpcServeError ==
    /\ Running /\ rpc = "failed"
    /\ Bus!Publish("log.fatal")
    /\ rpc' = "returned"
    /\ UNCHANGED <<env, mainPc, sigPc, sigs, web, webClosed, rpcStopped, proc>>

RpcExited ==
    /\ Running /\ rpc = "returned"
    /\ Bus!Publish("RpcServerExited")
    /\ rpc' = "done"
    /\ UNCHANGED <<env, mainPc, sigPc, sigs, web, webClosed, rpcStopped, proc>>

\* A goroutine of Publish runs handler c.f.  webExit: Shutdown; rpcExit:
\* GracefulStop; each marks its server closed and ends the serve loop
\* running at that moment (a later Serve sees the mark); waitWeb/waitRpc: `q <- 0`, received by main's Wait,
\* after rpc.Wait Run returns and so does main; logFatal: os.Exit(1).
\* webQuit/rpcQuit: Publish("Quit", sig) calls the func() exit handlers
\* with one argument; reflect's Call panics and bus.go:98-101 recovers,
\* so the call changes nothing.
Deliver(c) ==
    /\ Running
    /\ Bus!Deliver(c)
    /\ c.f \in {"waitWeb", "waitRpc"} =>
          mainPc = IF c.f = "waitWeb" THEN "webRecv" ELSE "rpcRecv"
    /\ webClosed' = (webClosed \/ c.f = "webExit")
    /\ rpcStopped' = (rpcStopped \/ c.f = "rpcExit")
    /\ web' = IF c.f = "webExit" /\ web = "serving" THEN "returned" ELSE web
    /\ rpc' = IF c.f = "rpcExit" /\ rpc = "serving" THEN "returned" ELSE rpc
    /\ mainPc' = CASE c.f = "waitWeb" -> "rpcWait"
                   [] c.f = "waitRpc" -> "returned"
                   [] OTHER           -> mainPc
    /\ proc' = CASE c.f = "waitRpc"  -> "exited"
                 [] c.f = "logFatal" -> "fatal"
                 [] OTHER            -> proc
    /\ UNCHANGED <<env, sigPc, sigs>>

Busy ==
    \/ Setup \/ WebStart \/ RpcListen \/ RpcSubscribe \/ WebWait \/ RpcWait
    \/ SigReady \/ Signal \/ SigPublish
    \/ WebListen \/ WebExited
    \/ RpcServe \/ RpcServeError \/ RpcExited
    \/ \E c \in promised : Deliver(c)

\* The process has ended, or every goroutine is blocked for good.
Halted ==
    /\ ~ENABLED Busy
    /\ UNCHANGED vars

Next == Busy \/ Halted

Spec == Init /\ [][Next]_vars

\* The Go scheduler runs every runnable goroutine; signals come from
\* outside and are not assumed.
FairSpec ==
    /\ Spec
    /\ WF_vars(Setup \/ WebStart \/ RpcListen \/ RpcSubscribe \/ WebWait \/ RpcWait)
    /\ WF_vars(SigReady) /\ WF_vars(SigPublish)
    /\ WF_vars(WebListen) /\ WF_vars(WebExited) /\ WF_vars(RpcServe)
    /\ WF_vars(RpcServeError) /\ WF_vars(RpcExited)
    /\ \A c \in CallIds : WF_vars(Deliver(c))

-----------------------------------------------------------------------------

Subscribed(t, f) == \E k \in 1..Len(subs[t]) : subs[t][k] = f

ServersStopped ==
    /\ web \notin {"starting", "serving"}
    /\ rpc \notin {"starting", "serving"}

CleanEnv == env = [proxiesOk |-> TRUE, webListenOk |-> TRUE, rpcListenOk |-> TRUE]

\* Run returns (config.IsRunning = false, main ends) only after both serve
\* goroutines have returned and announced it on the bus: web.Wait and
\* rpc.Wait never let main through on an earlier or another event.
RunReturnsAfterServersStop ==
    mainPc = "returned" => web = "done" /\ rpc = "done"

\* Once the signal goroutine has taken a signal while both Start calls'
\* exit handlers are subscribed, the web and the rpc server both stop
\* serving (or the process ends first).
StopReachesServers ==
    (sigPc = "pubWeb" /\ Subscribed("ExitWebServer", "webExit")
                      /\ Subscribed("ExitRpcServer", "rpcExit"))
        ~> (ServersStopped \/ ~Running)

\* A signal taken while main waits in web.Wait, both servers started
\* from a clean configuration, ends the process.
ShutdownAfterStart ==
    (CleanEnv /\ sigPc = "pubWeb" /\ mainPc = "webRecv") ~> ~Running

=============================================================================
