------------------------------ MODULE Lifecycle ------------------------------
(***************************************************************************)
(* The life of the process: run in cmd/feishu-botd, the goroutines it      *)
(* starts around the receivers and the listeners, the connection states    *)
(* the receivers report to the service, and the scripts of the executor.   *)
(*                                                                         *)
(* Timers are not counted: what a timer ends may end at any moment.  The   *)
(* process is gone when run returns, so nothing moves after that.          *)
(***************************************************************************)
EXTENDS Naturals, Sequences, FiniteSets

CONSTANTS
    Apps,           \* cfg.AppAliases(): never empty, config.Load sees to it
    HTTPListeners,  \* the listeners that are configured
    GRPCListeners

ASSUME LifecycleAssumption ==
    /\ Apps # {} /\ IsFiniteSet(Apps)
    /\ Apps \cap (HTTPListeners \cup GRPCListeners) = {}
    /\ HTTPListeners \cap GRPCListeners = {}
    /\ \A kind \in {HTTPListeners, GRPCListeners} :    \* on a socket and on TCP
          IsFiniteSet(kind) /\ Cardinality(kind) <= 2

Listeners == HTTPListeners \cup GRPCListeners

VARIABLES
    stage,      \* where run is
    signalled,  \* ctx is done
    cancelled,  \* runCtx is done
    status,     \* how run returned
    failed,     \* runErr is set
    awaited,    \* receivers that waitForAppReceivers has heard of
    checks,     \* the preflight of each app
    receiver,   \* app -> where Start is: off, called, running, returned
    wrapper,    \* app -> the goroutine of startAppReceivers
    conn,       \* app -> CommandReceiver.state
    telling,    \* app, thread -> the state whose handler it is about to call
    reported,   \* app -> Service.connectionStates
    initial,    \* apps whose initialReady is closed
    startup,    \* startupCh: whether each receiver connected
    component,  \* componentCh: whether each component stopped as it should
    listener,   \* listener -> off, binding, serving, stopped
    script      \* a script command: idle, queued, running, late, replied, lost

appVars == <<checks, receiver, wrapper, conn, telling, reported, initial>>
runVars == <<stage, status, failed, awaited>>
life    == <<runVars, signalled, cancelled, appVars, startup, component, listener, script>>

ConnectionStates == {"starting", "connected", "reconnecting", "disconnected", "unavailable"}
Threads == {"start", "sdk"}     \* the caller of Start, and the SDK's callbacks

LifeInit ==
    /\ stage = "preflight" /\ status = "none" /\ failed = FALSE /\ awaited = 0
    /\ signalled = FALSE /\ cancelled = FALSE
    /\ checks = [a \in Apps |-> "running"]
    /\ receiver = [a \in Apps |-> "off"]
    /\ wrapper = [a \in Apps |-> "off"]
    /\ conn = [a \in Apps |-> "disconnected"]
    /\ telling = [a \in Apps |-> [t \in Threads |-> "none"]]
    /\ reported = [a \in Apps |-> "starting"]
    /\ initial = {}
    /\ startup = <<>> /\ component = <<>>
    /\ listener = [l \in Listeners |-> "off"]
    /\ script = "idle"

Alive == stage # "exited"

Signal ==
    /\ Alive /\ ~signalled
    /\ signalled' = TRUE /\ cancelled' = TRUE       \* runCtx is derived from ctx
    /\ UNCHANGED <<runVars, appVars, startup, component, listener, script>>

-----------------------------------------------------------------------------
(* A receiver.  The new state is set under the lock and told to the        *)
(* service after it, by whichever goroutine set it.                        *)
SetConnectionState(a, t, s) ==
    /\ telling[a][t] = "none"
    /\ conn' = [conn EXCEPT ![a] = s]
    /\ telling' = IF conn[a] = s THEN telling ELSE [telling EXCEPT ![a][t] = s]

TellConnectionState(a, t) ==
    /\ Alive /\ telling[a][t] # "none"
    /\ reported' = [reported EXCEPT ![a] = telling[a][t]]
    /\ initial' = IF telling[a][t] = "connected" THEN initial \cup {a} ELSE initial
    /\ telling' = [telling EXCEPT ![a][t] = "none"]
    /\ UNCHANGED <<runVars, signalled, cancelled, checks, receiver, wrapper, conn, startup,
                   component, listener, script>>

StartReceiver(a) ==
    /\ Alive /\ receiver[a] = "called"
    /\ receiver' = [receiver EXCEPT ![a] = "running"]
    /\ SetConnectionState(a, "start", "starting")
    /\ UNCHANGED <<runVars, signalled, cancelled, checks, wrapper, reported, initial, startup,
                   component, listener, script>>

InStart(a) == receiver[a] = "running" /\ telling[a]["start"] = "none"

(* The SDK's OnReady, OnReconnecting, OnReconnected, OnDisconnected, OnError. *)
Callback(a, s) ==
    /\ Alive /\ InStart(a) /\ conn[a] # s
    /\ SetConnectionState(a, "sdk", s)
    /\ UNCHANGED <<runVars, signalled, cancelled, checks, receiver, wrapper, reported,
                   initial, startup, component, listener, script>>

(* client.Start gives up, with an error or without.                        *)
ReceiverReturns(a, withError) ==
    /\ Alive /\ InStart(a)
    /\ receiver' = [receiver EXCEPT ![a] = "returned"]
    /\ IF withError THEN SetConnectionState(a, "start", "unavailable")
                    ELSE UNCHANGED <<conn, telling>>
    /\ UNCHANGED <<runVars, signalled, cancelled, checks, wrapper, reported, initial, startup,
                   component, listener, script>>

Returned(a) == receiver[a] = "returned" /\ telling[a]["start"] = "none"

(* Mutation of InitialReady: it is announced with the state, not after the *)
(* handler.                                                                *)
ReadyWhenSet(a) == conn[a] = "connected"

InitialReady(a) == a \in initial

(* Mutation of Wrapped: the end of a connected receiver is not forwarded.  *)
WrappedOnce(a) ==
    /\ Alive /\ wrapper[a] = "waiting" /\ InitialReady(a)
    /\ startup' = Append(startup, TRUE)
    /\ wrapper' = [wrapper EXCEPT ![a] = "done"]
    /\ UNCHANGED <<runVars, signalled, cancelled, checks, receiver, conn, telling, reported,
                   initial, component, listener, script>>

(* Mutation of Wrapped: it goes on reporting that the receiver connected.  *)
WrappedAgain(a) ==
    /\ Alive /\ wrapper[a] = "waiting" /\ InitialReady(a)
    /\ startup' = Append(startup, TRUE)
    /\ UNCHANGED <<runVars, signalled, cancelled, checks, receiver, wrapper, conn, telling,
                   reported, initial, component, listener, script>>

(* The goroutine around it: one result for startup, and one more if the    *)
(* receiver had connected and returned all the same.                       *)
Wrapped(a) ==
    /\ Alive
    /\ \/ /\ wrapper[a] = "waiting"
          /\ \E connected \in BOOLEAN :
                /\ IF connected THEN InitialReady(a) ELSE Returned(a) \/ cancelled
                /\ startup' = Append(startup, connected)
                /\ wrapper' = [wrapper EXCEPT ![a] = IF connected THEN "forwarding" ELSE "done"]
          /\ UNCHANGED component
       \/ /\ wrapper[a] = "forwarding" /\ Returned(a)
          /\ component' = Append(component, FALSE)
          /\ wrapper' = [wrapper EXCEPT ![a] = "done"]
          /\ UNCHANGED startup
    /\ UNCHANGED <<runVars, signalled, cancelled, checks, receiver, conn, telling, reported,
                   initial, listener, script>>

-----------------------------------------------------------------------------
(* A listener.  The HTTP server names its shutdown (ErrServerClosed); the  *)
(* gRPC server returns nil for it, as for any other end.                   *)
Listening(l, to, results) ==
    /\ listener' = [listener EXCEPT ![l] = to]
    /\ component' = component \o results
    /\ UNCHANGED <<runVars, signalled, cancelled, appVars, startup, script>>

Bind(l) ==
    /\ Alive /\ listener[l] = "binding"
    /\ Listening(l, "serving", <<>>) \/ Listening(l, "stopped", <<FALSE>>)

Breaks(l) == Alive /\ listener[l] = "serving" /\ Listening(l, "stopped", <<FALSE>>)

Stops(l) ==
    /\ Alive /\ listener[l] = "serving" /\ cancelled
    /\ Listening(l, "stopped", <<l \in HTTPListeners>>)

-----------------------------------------------------------------------------
(* A script command.  It comes in through a receiver that is connected and *)
(* is queued in the subscription of the executor, which ends with runCtx.  *)
ScriptCommand ==
    /\ stage \in {"connecting", "serving"} /\ ~cancelled
    /\ \E a \in Apps : InStart(a) /\ conn[a] = "connected"
    /\ script = "idle" /\ script' = "queued"
    /\ UNCHANGED <<runVars, signalled, cancelled, appVars, startup, component, listener>>

(* It runs, and is answered, on a background context.  What is queued is   *)
(* taken up, late, even when the subscription has been closed.             *)
RunScript ==
    /\ Alive /\ script = "queued" /\ script' = IF cancelled THEN "late" ELSE "running"
    /\ UNCHANGED <<runVars, signalled, cancelled, appVars, startup, component, listener>>

(* It ends, or is killed at its timeout; either way there is a reply.      *)
ReplyScript ==
    /\ Alive /\ script \in {"running", "late"} /\ script' = "replied"
    /\ UNCHANGED <<runVars, signalled, cancelled, appVars, startup, component, listener>>

-----------------------------------------------------------------------------
(* run returns, and the process with it.  A script that was in flight      *)
(* before the shutdown is lost.                                            *)
Exit(how) ==
    /\ stage' = "exited" /\ status' = how /\ cancelled' = TRUE
    /\ script' = IF script = "running" THEN "lost" ELSE script
    /\ UNCHANGED <<signalled, failed, awaited, appVars, startup, component, listener>>

(* Mutation of Gone: the question is put to runCtx, which the caller has   *)
(* cancelled by then.                                                      *)
AlwaysClean == "clean"

(* A startup that fails because the daemon was told to stop is no failure. *)
Gone == IF signalled THEN "clean" ELSE "error"

Check(a, result) ==
    /\ stage = "preflight" /\ checks[a] = "running"
    /\ checks' = [checks EXCEPT ![a] = result]
    /\ UNCHANGED <<runVars, signalled, cancelled, receiver, wrapper, conn, telling, reported,
                   initial, startup, component, listener, script>>

(* A check failed, the checks took too long, or the signal came.          *)
PreflightFails ==
    /\ stage = "preflight"
    /\ Exit(Gone)

PreflightPasses ==
    /\ stage = "preflight" /\ \A a \in Apps : checks[a] = "ok"
    /\ stage' = "opening"
    /\ UNCHANGED <<status, failed, awaited, signalled, cancelled, appVars, startup, component,
                   listener, script>>

(* The ownership store, or the subscription of a script executor.          *)
OpenFails == stage = "opening" /\ Exit("error")

StartReceivers ==
    /\ stage = "opening" /\ stage' = "connecting"
    /\ receiver' = [a \in Apps |-> "called"]
    /\ wrapper' = [a \in Apps |-> "waiting"]
    /\ UNCHANGED <<status, failed, awaited, signalled, cancelled, checks, conn, telling,
                   reported, initial, startup, component, listener, script>>

ReceiverConnected ==
    /\ stage = "connecting" /\ awaited < Cardinality(Apps)
    /\ startup # <<>> /\ Head(startup)
    /\ awaited' = awaited + 1 /\ startup' = Tail(startup)
    /\ UNCHANGED <<stage, status, failed, signalled, cancelled, appVars, component, listener,
                   script>>

(* A receiver that could not connect, the timer, or the signal.            *)
ConnectingFails ==
    /\ stage = "connecting" /\ awaited < Cardinality(Apps)
    /\ Exit(Gone)

StartListeners ==
    /\ stage = "connecting" /\ awaited = Cardinality(Apps)
    /\ \/ /\ Listeners # {}
          /\ stage' = "serving"
          /\ listener' = [l \in Listeners |-> "binding"]
          /\ UNCHANGED <<status, failed, awaited, signalled, cancelled, appVars, startup,
                         component, script>>
       \/ Listeners = {} /\ Exit("error")

(* The select of run: the signal, or the first component that stopped.     *)
Leave ==
    /\ stage = "serving" /\ stage' = "closing" /\ cancelled' = TRUE
    /\ \/ signalled /\ UNCHANGED <<failed, component>>
       \/ /\ component # <<>>
          /\ failed' = ~Head(component) /\ component' = Tail(component)
    /\ UNCHANGED <<status, awaited, signalled, appVars, startup, listener, script>>

(* shutdownServers waits for the servers it knows of, for ten seconds: the *)
(* gRPC server is then stopped by force, the HTTP server reports an error. *)
Shutdown ==
    /\ stage = "closing"
    /\ \/ /\ \A l \in Listeners : listener[l] # "serving"
          /\ Exit(IF failed THEN "error" ELSE "clean")
       \/ HTTPListeners # {} /\ Exit("error")

Main ==
    \/ PreflightFails \/ PreflightPasses \/ OpenFails \/ StartReceivers
    \/ ReceiverConnected \/ ConnectingFails \/ StartListeners \/ Leave \/ Shutdown

LifeNext ==
    \/ Signal
    \/ Main
    \/ \E a \in Apps :
          \/ \E result \in {"ok", "failed"} : Check(a, result)
          \/ StartReceiver(a) \/ Wrapped(a)
          \/ \E t \in Threads : TellConnectionState(a, t)
          \/ \E s \in ConnectionStates \ {"starting"} : Callback(a, s)
          \/ \E withError \in BOOLEAN : ReceiverReturns(a, withError)
    \/ \E l \in Listeners : Bind(l) \/ Breaks(l) \/ Stops(l)
    \/ ScriptCommand \/ RunScript \/ ReplyScript

LifeSpec == LifeInit /\ [][LifeNext]_life

(* run and the goroutines it starts go on, timers fire, and a listener     *)
(* that is told to stop stops serving.  Nothing is asked of Feishu, of the *)
(* SDK or of the scripts.                                                  *)
LifeFairness ==
    /\ WF_life(Main)
    /\ \A a \in Apps : WF_life(Wrapped(a)) /\ \A t \in Threads :
                            WF_life(TellConnectionState(a, t))
    /\ \A l \in Listeners : WF_life(Bind(l)) /\ WF_life(Stops(l))

-----------------------------------------------------------------------------
(* Every variable has its type, and no goroutine can block on its result:  *)
(* the two channels hold what all of them send, also when run has left.    *)
LifeTypeOK ==
    /\ stage \in {"preflight", "opening", "connecting", "serving", "closing", "exited"}
    /\ status \in {"none", "clean", "error"}
    /\ {signalled, cancelled, failed} \subseteq BOOLEAN
    /\ awaited \in 0 .. Cardinality(Apps)
    /\ checks \in [Apps -> {"running", "ok", "failed"}]
    /\ receiver \in [Apps -> {"off", "called", "running", "returned"}]
    /\ wrapper \in [Apps -> {"off", "waiting", "forwarding", "done"}]
    /\ conn \in [Apps -> ConnectionStates] /\ reported \in [Apps -> ConnectionStates]
    /\ telling \in [Apps -> [Threads -> ConnectionStates \cup {"none"}]]
    /\ initial \subseteq Apps
    /\ startup \in Seq(BOOLEAN) /\ Len(startup) + awaited <= Cardinality(Apps)
    /\ component \in Seq(BOOLEAN) /\ Len(component) <= Cardinality(Apps) + 4
    /\ listener \in [Listeners -> {"off", "binding", "serving", "stopped"}]
    /\ script \in {"idle", "queued", "running", "late", "replied", "lost"}

(* Only a signal ends the daemon with success: whatever fails, in startup  *)
(* or later, in a receiver, a listener or the shutdown, the supervisor     *)
(* learns of it from the exit status, also when the clean end of a server  *)
(* arrives on the same channel.                                            *)
CleanExitOnlyOnSignal == status = "clean" => signalled

(* No client can reach a listener before every app has been connected and  *)
(* has told the service so, although receivers report after releasing      *)
(* their lock and the SDK calls back while they start: what readiness says *)
(* at first is never the "starting" of an app that was not waited for.     *)
ListensOnceReported ==
    \A l \in Listeners : listener[l] # "off" =>
        \A a \in Apps : a \in initial /\ reported[a] # "starting"

(* The daemon stops when it is told to, wherever that finds it, and when a *)
(* component it needs has stopped: no receiver, listener or server that    *)
(* hangs can keep it.                                                      *)
ShutdownCompletes ==
    /\ signalled ~> stage = "exited"
    /\ (stage = "serving" /\ \E a \in Apps : Returned(a)) ~> stage = "exited"

(* main.go:400: "a build already in flight can finish and reply ... during *)
(* shutdown".  A daemon that stops because it was told to does not end     *)
(* with a script running that it had taken up before.                      *)
ScriptsReply ==
    [][signalled /\ stage = "closing" /\ ~failed => script' # "lost"]_life

=============================================================================
