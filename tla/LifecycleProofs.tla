---------------------------- MODULE LifecycleProofs ----------------------------
(***************************************************************************)
(* Theorems about Lifecycle for any number of apps and listeners, and      *)
(* about Readiness for any number of apps and checks.                      *)
(***************************************************************************)
EXTENDS Lifecycle, Readiness, FiniteSetTheorems, TLAPS

USE LifecycleAssumption

ChannelsOK ==
    /\ stage \in {"preflight", "opening", "connecting", "serving", "closing", "exited"}
    /\ signalled \in BOOLEAN /\ cancelled \in BOOLEAN /\ failed \in BOOLEAN
    /\ startup \in Seq(BOOLEAN) /\ component \in Seq(BOOLEAN)

(* Before run closes the servers, runCtx is done only if the signal came,  *)
(* and a component that stopped as it should was told to.                  *)
StopsAreTold ==
    /\ stage \notin {"closing", "exited"} =>
          /\ cancelled => signalled
          /\ \A i \in 1..Len(component) : component[i] => signalled
    /\ stage = "closing" /\ ~failed => signalled
    /\ status = "clean" => signalled

SInv == ChannelsOK /\ StopsAreTold

LEMMA InitSInv == LifeInit => SInv
<1> SUFFICES ASSUME LifeInit PROVE SInv
  OBVIOUS
<1>1. startup \in Seq(BOOLEAN) /\ component \in Seq(BOOLEAN) /\ Len(component) = 0
  BY DEF LifeInit
<1>2. ChannelsOK
  BY <1>1 DEF LifeInit, ChannelsOK
<1>3. StopsAreTold
  BY <1>1 DEF LifeInit, StopsAreTold
<1> QED
  BY <1>2, <1>3 DEF SInv

(* A result sent on the channel.                                           *)
LEMMA Sent ==
    ASSUME NEW s \in Seq(BOOLEAN), NEW b \in BOOLEAN
    PROVE  /\ Append(s, b) \in Seq(BOOLEAN) /\ Len(Append(s, b)) = Len(s) + 1
           /\ \A i \in 1..Len(s) : Append(s, b)[i] = s[i]
           /\ Append(s, b)[Len(s) + 1] = b
           /\ s \o <<b>> \in Seq(BOOLEAN) /\ Len(s \o <<b>>) = Len(s) + 1
           /\ \A i \in 1..Len(s) : (s \o <<b>>)[i] = s[i]
           /\ (s \o <<b>>)[Len(s) + 1] = b
           /\ s \o <<>> = s
OBVIOUS

(* A result read from it.                                                  *)
LEMMA Received ==
    ASSUME NEW s \in Seq(BOOLEAN), s # <<>>
    PROVE  /\ Head(s) = s[1] /\ Len(s) \in Nat /\ Len(s) >= 1
           /\ Tail(s) \in Seq(BOOLEAN) /\ Len(Tail(s)) = Len(s) - 1
           /\ \A i \in 2..Len(s) : Tail(s)[i - 1] = s[i]
<1>1. Len(s) \in Nat /\ Len(s) >= 1 /\ Head(s) = s[1]
  OBVIOUS
<1>2. Tail(s) \in Seq(BOOLEAN) /\ Len(Tail(s)) = Len(s) - 1
  OBVIOUS
<1>3. \A j \in 1..Len(Tail(s)) : Tail(s)[j] = s[j + 1]
  OBVIOUS
<1>4. ASSUME NEW i \in 2..Len(s) PROVE Tail(s)[i - 1] = s[i]
  <2>1. i - 1 \in 1..Len(Tail(s)) /\ (i - 1) + 1 = i
    BY <1>1, <1>2
  <2> QED
    BY <1>3, <2>1
<1> QED
  BY <1>1, <1>2, <1>4

LEMMA StepSInv ==
    ASSUME SInv, [LifeNext]_life
    PROVE  SInv'
<1> USE DEF SInv, ChannelsOK, StopsAreTold
<1>1. CASE Signal
  BY <1>1 DEF Signal, Alive, runVars
<1>2. CASE Main
  <2>1. ASSUME NEW how \in {"clean", "error"}, Exit(how), how = "clean" => signalled
        PROVE  SInv'
    BY <2>1 DEF Exit
  <2>2. CASE PreflightFails \/ ConnectingFails
    <3>1. Exit(Gone) /\ Gone \in {"clean", "error"} /\ (Gone = "clean" => signalled)
      BY <2>2 DEF PreflightFails, ConnectingFails, Gone
    <3> QED
      BY <2>1, <3>1
  <2>3. CASE OpenFails
    BY <2>1, <2>3 DEF OpenFails
  <2>4. CASE PreflightPasses \/ StartReceivers
    BY <2>4 DEF PreflightPasses, StartReceivers
  <2>5. CASE ReceiverConnected
    <3>1. startup # <<>> => Tail(startup) \in Seq(BOOLEAN)
      OBVIOUS
    <3> QED
      BY <2>5, <3>1 DEF ReceiverConnected
  <2>6. CASE StartListeners
    BY <2>1, <2>6 DEF StartListeners
  <2>7. CASE Leave
    <3>1. component # <<>> => /\ Head(component) = component[1] /\ 1 \in 1..Len(component)
                              /\ Tail(component) \in Seq(BOOLEAN) /\ Head(component) \in BOOLEAN
      OBVIOUS
    <3> QED
      BY <2>7, <3>1 DEF Leave
  <2>8. CASE Shutdown
    BY <2>1, <2>8 DEF Shutdown
  <2> QED
    BY <1>2, <2>2, <2>3, <2>4, <2>5, <2>6, <2>7, <2>8 DEF Main
<1>3. CASE \E a \in Apps : Wrapped(a)
  <2>1. PICK a \in Apps : Wrapped(a)
    BY <1>3
  <2>2. /\ startup' = startup \/ \E b \in BOOLEAN : startup' = Append(startup, b)
        /\ component' = component \/ component' = Append(component, FALSE)
        /\ UNCHANGED <<runVars, signalled, cancelled>>
    BY <2>1 DEF Wrapped
  <2>3. startup' \in Seq(BOOLEAN)
    BY <2>2, Sent
  <2>4. component' \in Seq(BOOLEAN)
        /\ \A i \in 1..Len(component') : component'[i] => i \in 1..Len(component) /\ component[i]
    <3>1. CASE component' = component
      BY <3>1
    <3>2. CASE component' = Append(component, FALSE)
      <4>1. /\ Append(component, FALSE) \in Seq(BOOLEAN)
            /\ Len(Append(component, FALSE)) = Len(component) + 1
            /\ \A i \in 1..Len(component) : Append(component, FALSE)[i] = component[i]
            /\ Append(component, FALSE)[Len(component) + 1] = FALSE
        BY Sent
      <4> QED
        BY <3>2, <4>1
    <3> QED
      BY <2>2, <3>1, <3>2
  <2> QED
    BY <2>2, <2>3, <2>4 DEF runVars
<1>4. CASE \E l \in Listeners : Bind(l) \/ Breaks(l) \/ Stops(l)
  <2>1. PICK l \in Listeners : Bind(l) \/ Breaks(l) \/ Stops(l)
    BY <1>4
  <2>2. /\ \/ component' = component \o <<>>
           \/ component' = component \o <<FALSE>>
           \/ cancelled /\ component' = component \o <<l \in HTTPListeners>>
        /\ UNCHANGED <<stage, status, failed, signalled, cancelled, startup>>
    BY <2>1 DEF Bind, Breaks, Stops, Listening, runVars
  <2>3. CASE component' = component \o <<>>
    BY <2>2, <2>3, Sent
  <2>4. ASSUME NEW b \in BOOLEAN, component' = component \o <<b>>, b => cancelled
        PROVE  SInv'
    <3>1. /\ component' \in Seq(BOOLEAN) /\ Len(component') = Len(component) + 1
          /\ \A i \in 1..Len(component) : component'[i] = component[i]
          /\ component'[Len(component) + 1] = b
      BY <2>4, Sent
    <3>2. \A i \in 1..Len(component') : component'[i] =>
              (i \in 1..Len(component) /\ component[i]) \/ cancelled
      BY <2>4, <3>1
    <3> QED
      BY <2>2, <3>1, <3>2
  <2>5. CASE component' = component \o <<FALSE>>
    BY <2>4, <2>5
  <2>6. CASE cancelled /\ component' = component \o <<l \in HTTPListeners>>
    <3>1. (l \in HTTPListeners) \in BOOLEAN
      OBVIOUS
    <3> QED
      BY <2>4, <2>6, <3>1
  <2> QED
    BY <2>2, <2>3, <2>5, <2>6
<1>5. CASE \E a \in Apps :
              \/ \E result \in {"ok", "failed"} : Check(a, result)
              \/ StartReceiver(a)
              \/ \E t \in Threads : TellConnectionState(a, t)
              \/ \E s \in ConnectionStates \ {"starting"} : Callback(a, s)
              \/ \E withError \in BOOLEAN : ReceiverReturns(a, withError)
  BY <1>5 DEF Check, StartReceiver, TellConnectionState, Callback, ReceiverReturns, runVars
<1>6. CASE ScriptCommand \/ RunScript \/ ReplyScript \/ UNCHANGED life
  BY <1>6 DEF ScriptCommand, RunScript, ReplyScript, life, runVars
<1> QED
  BY <1>1, <1>2, <1>3, <1>4, <1>5, <1>6 DEF LifeNext

(* For any apps and listeners, run returns success only when it was told   *)
(* to stop.                                                                *)
THEOREM CleanExits == LifeSpec => []CleanExitOnlyOnSignal
<1>1. SInv /\ [LifeNext]_life => SInv'
  BY StepSInv
<1>2. SInv => CleanExitOnlyOnSignal
  BY DEF SInv, StopsAreTold, CleanExitOnlyOnSignal
<1> QED
  BY InitSInv, <1>1, <1>2, PTL DEF LifeSpec

-----------------------------------------------------------------------------
(* What the service knows of an app before its receiver first connected,   *)
(* and what it never again hears once it did.                              *)
Heard ==
    /\ receiver \in [Apps -> {"off", "called", "running", "returned"}]
    /\ conn \in [Apps -> ConnectionStates] /\ reported \in [Apps -> ConnectionStates]
    /\ telling \in [Apps -> [Threads -> ConnectionStates \cup {"none"}]]
    /\ initial \subseteq Apps
    /\ \A a \in Apps :
          /\ receiver[a] \in {"off", "called"} =>
                /\ conn[a] = "disconnected" /\ a \notin initial
                /\ \A t \in Threads : telling[a][t] = "none"
          /\ telling[a]["sdk"] # "starting"
          /\ telling[a]["start"] = "starting" =>
                telling[a]["sdk"] = "none" /\ a \notin initial
          /\ a \in initial => reported[a] # "starting"

(* The wrappers that have told startup of their receiver.  One whose       *)
(* receiver had not connected said so, and that result stays unread.       *)
Past == {a \in Apps : wrapper[a] \in {"forwarding", "done"}}

Awaiting ==
    /\ wrapper \in [Apps -> {"off", "waiting", "forwarding", "done"}]
    /\ listener \in [Listeners -> {"off", "binding", "serving", "stopped"}]
    /\ startup \in Seq(BOOLEAN) /\ awaited \in Nat
    /\ awaited + Len(startup) = Cardinality(Past)
    /\ \A a \in Past : a \notin initial => \E i \in 1..Len(startup) : ~startup[i]
    /\ stage \in {"preflight", "opening"} =>
          /\ \A a \in Apps : receiver[a] = "off" /\ wrapper[a] = "off"
    /\ \A l \in Listeners : listener[l] # "off" => Apps \subseteq initial

RInv == Heard /\ Awaiting

LEMMA PastCounts ==
    /\ IsFiniteSet(Past) /\ Past \subseteq Apps
    /\ Cardinality(Past) \in Nat /\ Cardinality(Apps) \in Nat
    /\ Cardinality(Past) <= Cardinality(Apps)
    /\ Cardinality(Past) = Cardinality(Apps) => Past = Apps
<1>1. Past \in SUBSET Apps
  BY DEF Past
<1>2. IsFiniteSet(Past) /\ Cardinality(Past) <= Cardinality(Apps)
      /\ (Cardinality(Past) = Cardinality(Apps) => Past = Apps)
  BY <1>1, FS_Subset
<1> QED
  BY <1>1, <1>2, FS_CardinalityType

LEMMA InitRInv == LifeInit => RInv
<1> SUFFICES ASSUME LifeInit PROVE RInv
  OBVIOUS
<1>1. Heard
  BY DEF LifeInit, Heard, ConnectionStates, Threads
<1>2. Past = {} /\ Cardinality({}) = 0
  BY FS_EmptySet DEF LifeInit, Past
<1>3. startup = <<>> /\ startup \in Seq(BOOLEAN) /\ Len(startup) = 0
  BY DEF LifeInit
<1>4. Awaiting
  BY <1>2, <1>3 DEF LifeInit, Awaiting
<1> QED
  BY <1>1, <1>4 DEF RInv

(* Nothing that the invariant is about moves.                              *)
LEMMA LeftAlone ==
    ASSUME RInv, UNCHANGED <<appVars, startup, awaited, listener>>,
           stage' \in {"preflight", "opening"} => stage \in {"preflight", "opening"}
    PROVE  RInv'
BY DEF RInv, Heard, Awaiting, Past, appVars

LEMMA AwaitingKept ==
    ASSUME RInv, UNCHANGED <<stage, awaited, startup, wrapper, listener>>,
           initial \subseteq initial',
           \A a \in Apps : receiver[a] = "off" => receiver'[a] = "off"
    PROVE  Awaiting'
BY DEF RInv, Awaiting, Past

LEMMA ReceiverSteps ==
    ASSUME RInv, NEW a \in Apps,
           \/ StartReceiver(a)
           \/ \E t \in Threads : TellConnectionState(a, t)
           \/ \E s \in ConnectionStates \ {"starting"} : Callback(a, s)
           \/ \E withError \in BOOLEAN : ReceiverReturns(a, withError)
    PROVE  RInv'
<1>0. Heard
  BY DEF RInv
<1>1. CASE StartReceiver(a)
  <2>1. /\ receiver[a] = "called" /\ receiver' = [receiver EXCEPT ![a] = "running"]
        /\ telling[a]["start"] = "none"
        /\ conn' = [conn EXCEPT ![a] = "starting"]
        /\ telling' = IF conn[a] = "starting" THEN telling
                      ELSE [telling EXCEPT ![a]["start"] = "starting"]
        /\ UNCHANGED <<stage, awaited, startup, wrapper, listener, reported, initial>>
    BY <1>1 DEF StartReceiver, SetConnectionState, runVars
  <2>2. Heard'
    BY <1>0, <2>1 DEF Heard, ConnectionStates, Threads
  <2>3. Awaiting'
    BY <2>1, <1>0, AwaitingKept DEF Heard
  <2> QED
    BY <2>2, <2>3 DEF RInv
<1>2. CASE \E t \in Threads : TellConnectionState(a, t)
  <2>1. PICK t \in Threads : TellConnectionState(a, t)
    BY <1>2
  <2>2. /\ telling[a][t] # "none"
        /\ reported' = [reported EXCEPT ![a] = telling[a][t]]
        /\ initial' = IF telling[a][t] = "connected" THEN initial \cup {a} ELSE initial
        /\ telling' = [telling EXCEPT ![a][t] = "none"]
        /\ UNCHANGED <<stage, awaited, startup, wrapper, listener, receiver, conn>>
    BY <2>1 DEF TellConnectionState, runVars
  <2>3. Heard'
    <3>1. /\ telling[a][t] \in ConnectionStates
          /\ telling[a][t] = "starting" => t = "start" /\ a \notin initial
          /\ receiver[a] \notin {"off", "called"}
          /\ telling[a][t] = "connected" => telling[a]["start"] # "starting"
      BY <1>0, <2>2 DEF Heard, Threads
    <3> QED
      BY <1>0, <2>2, <3>1 DEF Heard, Threads
  <2>4. Awaiting'
    BY <2>2, <1>0, AwaitingKept DEF Heard
  <2> QED
    BY <2>3, <2>4 DEF RInv
<1>3. CASE \E s \in ConnectionStates \ {"starting"} : Callback(a, s)
  <2>1. PICK s \in ConnectionStates \ {"starting"} : Callback(a, s)
    BY <1>3
  <2>2. /\ receiver[a] = "running" /\ telling[a]["start"] = "none"
        /\ conn' = [conn EXCEPT ![a] = s]
        /\ telling' = IF conn[a] = s THEN telling ELSE [telling EXCEPT ![a]["sdk"] = s]
        /\ UNCHANGED <<stage, awaited, startup, wrapper, listener, receiver, reported, initial>>
    BY <2>1 DEF Callback, InStart, SetConnectionState, runVars
  <2>3. Heard'
    BY <1>0, <2>2 DEF Heard, Threads
  <2>4. Awaiting'
    BY <2>2, <1>0, AwaitingKept DEF Heard
  <2> QED
    BY <2>3, <2>4 DEF RInv
<1>4. CASE \E withError \in BOOLEAN : ReceiverReturns(a, withError)
  <2>1. /\ receiver[a] = "running" /\ telling[a]["start"] = "none"
        /\ receiver' = [receiver EXCEPT ![a] = "returned"]
        /\ \/ UNCHANGED <<conn, telling>>
           \/ /\ conn' = [conn EXCEPT ![a] = "unavailable"]
              /\ \/ telling' = telling
                 \/ telling' = [telling EXCEPT ![a]["start"] = "unavailable"]
        /\ UNCHANGED <<stage, awaited, startup, wrapper, listener, reported, initial>>
    BY <1>4 DEF ReceiverReturns, InStart, SetConnectionState, runVars
  <2>2. Heard'
    BY <1>0, <2>1 DEF Heard, Threads, ConnectionStates
  <2>3. Awaiting'
    BY <2>1, <1>0, AwaitingKept DEF Heard
  <2> QED
    BY <2>2, <2>3 DEF RInv
<1> QED
  BY <1>1, <1>2, <1>3, <1>4

LEMMA WrappedStep ==
    ASSUME RInv, NEW a \in Apps, Wrapped(a)
    PROVE  RInv'
<1>0. Heard /\ Awaiting
  BY DEF RInv
<1>1. UNCHANGED <<stage, awaited, listener, receiver, conn, telling, reported, initial>>
  BY DEF Wrapped, runVars
<1>2. Heard'
  BY <1>0, <1>1 DEF Heard
<1>3. CASE /\ wrapper[a] = "waiting"
           /\ \E up \in BOOLEAN :
                 /\ up => a \in initial
                 /\ startup' = Append(startup, up)
                 /\ wrapper' = [wrapper EXCEPT ![a] = IF up THEN "forwarding" ELSE "done"]
  <2>1. PICK up \in BOOLEAN :
           /\ up => a \in initial
           /\ startup' = Append(startup, up)
           /\ wrapper' = [wrapper EXCEPT ![a] = IF up THEN "forwarding" ELSE "done"]
    BY <1>3
  <2>2. /\ startup' \in Seq(BOOLEAN) /\ Len(startup') = Len(startup) + 1
        /\ \A i \in 1..Len(startup) : startup'[i] = startup[i]
        /\ startup'[Len(startup) + 1] = up
    BY <1>0, <2>1, Sent DEF Awaiting
  <2>3. Past' = Past \cup {a} /\ a \notin Past
    BY <1>0, <1>3, <2>1 DEF Awaiting, Past
  <2>4. Cardinality(Past \cup {a}) = Cardinality(Past) + 1
    BY <2>3, PastCounts, FS_AddElement
  <2>5. awaited' + Len(startup') = Cardinality(Past')
    BY <1>0, <1>1, <2>2, <2>3, <2>4, PastCounts DEF Awaiting
  <2>6. \A b \in Past' : b \notin initial' => \E i \in 1..Len(startup') : ~startup'[i]
    <3> SUFFICES ASSUME NEW b \in Past', b \notin initial
                 PROVE  \E i \in 1..Len(startup') : ~startup'[i]
      BY <1>1
    <3>1. CASE b = a
      <4>1. Len(startup) + 1 \in 1..Len(startup') /\ ~startup'[Len(startup) + 1]
        BY <1>0, <2>1, <2>2, <3>1 DEF Awaiting
      <4> QED
        BY <4>1
    <3>2. CASE b \in Past
      <4>1. PICK i \in 1..Len(startup) : ~startup[i]
        BY <1>0, <3>2 DEF Awaiting
      <4>2. i \in 1..Len(startup') /\ ~startup'[i]
        BY <1>0, <2>2, <4>1 DEF Awaiting
      <4> QED
        BY <4>2
    <3> QED
      BY <2>3, <3>1, <3>2
  <2>7. wrapper' \in [Apps -> {"off", "waiting", "forwarding", "done"}]
    BY <1>0, <2>1 DEF Awaiting
  <2>8. stage \notin {"preflight", "opening"}
    BY <1>0, <1>3 DEF Awaiting
  <2>9. Awaiting'
    BY <1>0, <1>1, <2>2, <2>5, <2>6, <2>7, <2>8 DEF Awaiting
  <2> QED
    BY <1>2, <2>9 DEF RInv
<1>4. CASE wrapper[a] = "forwarding" /\ wrapper' = [wrapper EXCEPT ![a] = "done"]
           /\ startup' = startup
  <2>1. Past' = Past
    BY <1>0, <1>4 DEF Awaiting, Past
  <2>2. wrapper' \in [Apps -> {"off", "waiting", "forwarding", "done"}]
    BY <1>0, <1>4 DEF Awaiting
  <2>3. stage \notin {"preflight", "opening"}
    BY <1>0, <1>4 DEF Awaiting
  <2>4. Awaiting'
    BY <1>0, <1>1, <1>4, <2>1, <2>2, <2>3 DEF Awaiting
  <2> QED
    BY <1>2, <2>4 DEF RInv
<1> QED
  BY <1>3, <1>4 DEF Wrapped, InitialReady

LEMMA MainSteps ==
    ASSUME RInv, Main
    PROVE  RInv'
<1>0. Heard /\ Awaiting
  BY DEF RInv
<1>1. ASSUME NEW how, Exit(how) PROVE RInv'
  <2>1. UNCHANGED <<appVars, startup, awaited, listener>> /\ stage' = "exited"
    BY <1>1 DEF Exit
  <2> QED
    BY <2>1, LeftAlone
<1>2. CASE PreflightFails \/ OpenFails \/ ConnectingFails
  BY <1>1, <1>2 DEF PreflightFails, OpenFails, ConnectingFails
<1>3. CASE PreflightPasses \/ Leave
  <2>1. UNCHANGED <<appVars, startup, awaited, listener>>
        /\ (stage' \in {"preflight", "opening"} => stage \in {"preflight", "opening"})
    BY <1>3 DEF PreflightPasses, Leave
  <2> QED
    BY <2>1, LeftAlone
<1>4. CASE StartReceivers
  <2>1. /\ stage = "opening" /\ stage' = "connecting"
        /\ receiver' = [b \in Apps |-> "called"]
        /\ wrapper' = [b \in Apps |-> "waiting"]
        /\ UNCHANGED <<awaited, conn, telling, reported, initial, startup, listener>>
    BY <1>4 DEF StartReceivers
  <2>2. \A b \in Apps : receiver[b] = "off" /\ wrapper[b] = "off"
    BY <1>0, <2>1 DEF Awaiting
  <2>3. Heard'
    BY <1>0, <2>1, <2>2 DEF Heard
  <2>4. Past' = Past
    BY <2>1, <2>2 DEF Past
  <2>5. Awaiting'
    BY <1>0, <2>1, <2>4 DEF Awaiting
  <2> QED
    BY <2>3, <2>5 DEF RInv
<1>5. CASE ReceiverConnected
  <2>1. /\ stage = "connecting" /\ startup # <<>> /\ Head(startup)
        /\ awaited' = awaited + 1 /\ startup' = Tail(startup)
        /\ UNCHANGED <<stage, appVars, listener>>
    BY <1>5 DEF ReceiverConnected
  <2>2. /\ startup' \in Seq(BOOLEAN) /\ Len(startup') = Len(startup) - 1
        /\ startup[1] /\ \A i \in 2..Len(startup) : startup'[i - 1] = startup[i]
        /\ Len(startup) \in Nat
    BY <1>0, <2>1, Received DEF Awaiting
  <2>3. Past' = Past /\ Heard'
    BY <1>0, <2>1 DEF Past, appVars, Heard
  <2>4. \A b \in Past' : b \notin initial' => \E i \in 1..Len(startup') : ~startup'[i]
    <3> SUFFICES ASSUME NEW b \in Past, b \notin initial
                 PROVE  \E i \in 1..Len(startup') : ~startup'[i]
      BY <2>1, <2>3 DEF appVars
    <3>1. PICK i \in 1..Len(startup) : ~startup[i]
      BY <1>0 DEF Awaiting
    <3>2. i \in 2..Len(startup)
      BY <2>2, <3>1
    <3>3. i - 1 \in 1..Len(startup') /\ ~startup'[i - 1]
      BY <2>2, <3>1, <3>2
    <3> QED
      BY <3>3
  <2>5. awaited' \in Nat /\ awaited' + Len(startup') = Cardinality(Past')
    <3>1. awaited \in Nat /\ awaited + Len(startup) = Cardinality(Past)
      BY <1>0 DEF Awaiting
    <3>2. (awaited + 1) + (Len(startup) - 1) = awaited + Len(startup)
      BY <2>2, <3>1
    <3>3. awaited' = awaited + 1 /\ Len(startup') = Len(startup) - 1
      BY <2>1, <2>2
    <3>4. Cardinality(Past') = Cardinality(Past)
      BY <2>3
    <3> HIDE <2>1, <2>2, <2>3
    <3> QED
      BY <3>1, <3>2, <3>3, <3>4
  <2>6. Awaiting'
    BY <1>0, <2>1, <2>2, <2>4, <2>5 DEF Awaiting, appVars
  <2> QED
    BY <2>3, <2>6 DEF RInv
<1>6. CASE StartListeners
  <2>1. CASE Exit("error")
    BY <1>1, <2>1
  <2>2. CASE /\ awaited = Cardinality(Apps) /\ stage' = "serving"
             /\ listener' = [l \in Listeners |-> "binding"]
             /\ UNCHANGED <<awaited, appVars, startup>>
    <3>1. Len(startup) = 0 /\ Past = Apps
      <4>1. awaited + Len(startup) = Cardinality(Past) /\ Len(startup) \in Nat
        BY <1>0 DEF Awaiting
      <4> QED
        BY <2>2, <4>1, PastCounts
    <3>2. Apps \subseteq initial
      BY <1>0, <3>1 DEF Awaiting
    <3>3. Past' = Past /\ Heard'
      BY <1>0, <2>2 DEF Past, appVars, Heard
    <3>4. Awaiting'
      BY <1>0, <2>2, <3>2, <3>3 DEF Awaiting, appVars
    <3> QED
      BY <3>3, <3>4 DEF RInv
  <2> QED
    BY <1>6, <2>1, <2>2 DEF StartListeners
<1>7. CASE Shutdown
  BY <1>1, <1>7 DEF Shutdown
<1> QED
  BY <1>2, <1>3, <1>4, <1>5, <1>6, <1>7 DEF Main

LEMMA StepRInv ==
    ASSUME RInv, [LifeNext]_life
    PROVE  RInv'
<1>1. CASE Main
  BY <1>1, MainSteps
<1>2. CASE \E a \in Apps :
              \/ StartReceiver(a)
              \/ \E t \in Threads : TellConnectionState(a, t)
              \/ \E s \in ConnectionStates \ {"starting"} : Callback(a, s)
              \/ \E withError \in BOOLEAN : ReceiverReturns(a, withError)
  BY <1>2, ReceiverSteps
<1>3. CASE \E a \in Apps : Wrapped(a)
  BY <1>3, WrappedStep
<1>4. CASE \E l \in Listeners : Bind(l) \/ Breaks(l) \/ Stops(l)
  <2>1. PICK l \in Listeners : Bind(l) \/ Breaks(l) \/ Stops(l)
    BY <1>4
  <2>2. /\ listener[l] # "off"
        /\ \E to \in {"serving", "stopped"} : listener' = [listener EXCEPT ![l] = to]
        /\ UNCHANGED <<stage, awaited, appVars, startup>>
    BY <2>1 DEF Bind, Breaks, Stops, Listening, runVars
  <2>3. Past' = Past /\ Heard'
    BY <2>2 DEF Past, appVars, RInv, Heard
  <2>4. Awaiting'
    BY <2>2, <2>3 DEF RInv, Awaiting, appVars
  <2> QED
    BY <2>3, <2>4 DEF RInv
<1>5. CASE \/ Signal \/ ScriptCommand \/ RunScript \/ ReplyScript \/ UNCHANGED life
           \/ \E a \in Apps, result \in {"ok", "failed"} : Check(a, result)
  <2>1. UNCHANGED <<receiver, wrapper, conn, telling, reported, initial, startup, awaited,
                    listener, stage>>
    BY <1>5 DEF Signal, ScriptCommand, RunScript, ReplyScript, Check, life, runVars, appVars
  <2> QED
    BY <2>1 DEF RInv, Heard, Awaiting, Past
<1> QED
  BY <1>1, <1>2, <1>3, <1>4, <1>5 DEF LifeNext

(* For any apps and listeners, a listener is started only when every app   *)
(* has been connected, and by then the service was told of each.           *)
THEOREM ListenersWait == LifeSpec => []ListensOnceReported
<1>1. RInv /\ [LifeNext]_life => RInv'
  BY StepRInv
<1>2. RInv => ListensOnceReported
  BY DEF RInv, Heard, Awaiting, ListensOnceReported
<1> QED
  BY InitRInv, <1>1, <1>2, PTL DEF LifeSpec

-----------------------------------------------------------------------------
(***************************************************************************)
(* The channels.  What was ever sent for startup is counted by the         *)
(* wrappers that are past it, in RInv; what was ever sent of components    *)
(* by those that ended, and each of them sends once.                       *)
(***************************************************************************)
Ended ==
    {a \in Apps : wrapper[a] = "done"} \cup {l \in Listeners : listener[l] = "stopped"}

EndsAreCounted ==
    /\ status \in {"none", "clean", "error"}
    /\ checks \in [Apps -> {"running", "ok", "failed"}]
    /\ script \in {"idle", "queued", "running", "late", "replied", "lost"}
    /\ stage \in {"preflight", "opening", "connecting"} =>
          \A l \in Listeners : listener[l] = "off"
    /\ Len(component) <= Cardinality(Ended)

LifeInv == SInv /\ RInv /\ EndsAreCounted

LEMMA ListenersFew ==
    /\ IsFiniteSet(Listeners) /\ Cardinality(Listeners) \in Nat
    /\ Cardinality(Listeners) <= 4
    /\ Apps \cap Listeners = {}
<1>1. /\ IsFiniteSet(HTTPListeners) /\ IsFiniteSet(GRPCListeners)
      /\ Cardinality(HTTPListeners) <= 2 /\ Cardinality(GRPCListeners) <= 2
      /\ HTTPListeners \cap GRPCListeners = {}
  OBVIOUS
<1>2. /\ Cardinality(HTTPListeners) \in Nat /\ Cardinality(GRPCListeners) \in Nat
      /\ Cardinality(HTTPListeners \cap GRPCListeners) = 0
  BY <1>1, FS_CardinalityType, FS_EmptySet
<1>3. /\ IsFiniteSet(Listeners)
      /\ Cardinality(Listeners) = Cardinality(HTTPListeners) + Cardinality(GRPCListeners)
                                  - Cardinality(HTTPListeners \cap GRPCListeners)
  BY <1>1, FS_Union DEF Listeners
<1> QED
  BY <1>1, <1>2, <1>3 DEF Listeners

LEMMA EndedCounts ==
    ASSUME NEW S \in SUBSET (Apps \cup Listeners)
    PROVE  /\ IsFiniteSet(S) /\ Cardinality(S) \in Nat
           /\ Cardinality(S) <= Cardinality(Apps) + 4
<1>1. /\ IsFiniteSet(Apps) /\ Cardinality(Apps) \in Nat
      /\ Cardinality(Apps \cap Listeners) = 0
  BY ListenersFew, FS_CardinalityType, FS_EmptySet
<1>2. /\ IsFiniteSet(Apps \cup Listeners)
      /\ Cardinality(Apps \cup Listeners)
            = Cardinality(Apps) + Cardinality(Listeners) - Cardinality(Apps \cap Listeners)
  BY <1>1, ListenersFew, FS_Union
<1>3. IsFiniteSet(S) /\ Cardinality(S) <= Cardinality(Apps \cup Listeners)
  BY <1>2, FS_Subset
<1>4. Cardinality(S) \in Nat
  BY <1>3, FS_CardinalityType
<1> QED
  BY <1>1, <1>2, <1>3, <1>4, ListenersFew

(* Nobody ended, and at most results were read.                            *)
LEMMA NoEnd ==
    ASSUME LifeInv, UNCHANGED <<wrapper, listener>>,
           component' = component
              \/ (Len(component') \in Nat /\ Len(component') <= Len(component))
    PROVE  Len(component') <= Cardinality(Ended')
<1>1. Ended' = Ended /\ Ended \in SUBSET (Apps \cup Listeners)
  BY DEF Ended
<1>2. Len(component) \in Nat /\ Cardinality(Ended) \in Nat
  BY <1>1, EndedCounts DEF LifeInv, SInv, ChannelsOK
<1>3. Len(component) <= Cardinality(Ended)
  BY DEF LifeInv, EndsAreCounted
<1>4. Cardinality(Ended') = Cardinality(Ended)
  BY <1>1
<1>5. Len(component') \in Nat /\ Len(component') <= Len(component)
  BY <1>2
<1> HIDE DEF Ended
<1> QED
  BY <1>2, <1>3, <1>4, <1>5

(* One more ended, and it sent its result.                                 *)
LEMMA OneEnds ==
    ASSUME LifeInv, NEW x \in (Apps \cup Listeners) \ Ended, Ended' = Ended \cup {x},
           Len(component') = Len(component) + 1
    PROVE  Len(component') <= Cardinality(Ended')
<1>1. Ended \in SUBSET (Apps \cup Listeners)
  BY DEF Ended
<1>2. IsFiniteSet(Ended) /\ Cardinality(Ended) \in Nat
  BY <1>1, EndedCounts
<1>3. Cardinality(Ended \cup {x}) = Cardinality(Ended) + 1
  BY <1>2, FS_AddElement
<1>4. Len(component) \in Nat /\ Len(component) <= Cardinality(Ended)
  BY DEF LifeInv, SInv, ChannelsOK, EndsAreCounted
<1>5. Cardinality(Ended') = Cardinality(Ended) + 1
  BY <1>3
<1> HIDE DEF Ended
<1> QED
  BY <1>2, <1>4, <1>5

LEMMA InitLifeInv == LifeInit => LifeInv
<1> SUFFICES ASSUME LifeInit PROVE LifeInv
  OBVIOUS
<1>1. Ended = {} /\ component = <<>>
  BY DEF LifeInit, Ended
<1>2. Len(component) = 0 /\ Cardinality(Ended) = 0
  BY <1>1, FS_EmptySet
<1>3. EndsAreCounted
  BY <1>2 DEF LifeInit, EndsAreCounted
<1> QED
  BY <1>3, InitSInv, InitRInv DEF LifeInv

LEMMA WrappedEnds ==
    ASSUME LifeInv, NEW a \in Apps, Wrapped(a)
    PROVE  EndsAreCounted'
<1>1. /\ wrapper \in [Apps -> {"off", "waiting", "forwarding", "done"}]
      /\ component \in Seq(BOOLEAN) /\ a \notin Listeners
  BY ListenersFew DEF LifeInv, RInv, Awaiting, SInv, ChannelsOK
<1>2. UNCHANGED <<stage, status, checks, script, listener>>
  BY DEF Wrapped, runVars
<1>3. CASE /\ wrapper[a] = "waiting" /\ component' = component
           /\ \/ wrapper' = [wrapper EXCEPT ![a] = "forwarding"]
              \/ wrapper' = [wrapper EXCEPT ![a] = "done"]
  <2>1. Ended' = Ended \/ Ended' = Ended \cup {a}
    BY <1>1, <1>2, <1>3 DEF Ended
  <2>2. Ended \in SUBSET (Apps \cup Listeners)
    BY DEF Ended
  <2>3. IsFiniteSet(Ended) /\ Cardinality(Ended) \in Nat
    BY <2>2, EndedCounts
  <2>4. Cardinality(Ended \cup {a}) \in {Cardinality(Ended), Cardinality(Ended) + 1}
    BY <2>3, FS_AddElement
  <2>5. Len(component) \in Nat /\ Len(component) <= Cardinality(Ended)
    BY <1>1 DEF LifeInv, EndsAreCounted
  <2>6. Cardinality(Ended') \in {Cardinality(Ended), Cardinality(Ended) + 1}
    BY <2>1, <2>4
  <2>7. Len(component') = Len(component)
    BY <1>3
  <2>8. Len(component') <= Cardinality(Ended')
    <3> HIDE DEF Ended
    <3> QED
      BY <2>3, <2>5, <2>6, <2>7
  <2> QED
    BY <1>2, <2>8 DEF LifeInv, EndsAreCounted
<1>4. CASE /\ wrapper[a] = "forwarding" /\ component' = Append(component, FALSE)
           /\ wrapper' = [wrapper EXCEPT ![a] = "done"]
  <2>1. Ended' = Ended \cup {a} /\ a \notin Ended
    BY <1>1, <1>2, <1>4 DEF Ended
  <2>2. Len(component') = Len(component) + 1
    BY <1>1, <1>4, Sent
  <2>3. Len(component') <= Cardinality(Ended')
    BY <2>1, <2>2, OneEnds
  <2> QED
    BY <1>2, <2>3 DEF LifeInv, EndsAreCounted
<1> QED
  BY <1>3, <1>4 DEF Wrapped

LEMMA ListenerEnds ==
    ASSUME LifeInv, NEW l \in Listeners, Bind(l) \/ Breaks(l) \/ Stops(l)
    PROVE  EndsAreCounted'
<1>1. /\ listener \in [Listeners -> {"off", "binding", "serving", "stopped"}]
      /\ component \in Seq(BOOLEAN) /\ l \notin Apps
  BY ListenersFew DEF LifeInv, RInv, Awaiting, SInv, ChannelsOK
<1>2. listener[l] \in {"binding", "serving"} /\ UNCHANGED <<stage, status, checks, script, wrapper>>
  BY DEF Bind, Breaks, Stops, Listening, runVars, appVars
<1>3. stage \notin {"preflight", "opening", "connecting"}
  BY <1>2 DEF LifeInv, EndsAreCounted
<1>4. \/ /\ listener' = [listener EXCEPT ![l] = "serving"]
         /\ component' = component \o <<>>
      \/ \E b \in BOOLEAN : /\ listener' = [listener EXCEPT ![l] = "stopped"]
                            /\ component' = component \o <<b>>
  <2>1. (l \in HTTPListeners) \in BOOLEAN
    OBVIOUS
  <2>2. CASE Bind(l) \/ Breaks(l)
    BY <2>2 DEF Bind, Breaks, Listening
  <2>3. CASE Stops(l)
    <3>1. /\ listener' = [listener EXCEPT ![l] = "stopped"]
          /\ component' = component \o <<l \in HTTPListeners>>
      BY <2>3 DEF Stops, Listening
    <3> QED
      BY <2>1, <3>1
  <2> QED
    BY <2>2, <2>3
<1>5. Len(component') <= Cardinality(Ended')
  <2>1. CASE /\ listener' = [listener EXCEPT ![l] = "serving"]
             /\ component' = component \o <<>>
    <3>1. Ended' = Ended /\ component' = component
      BY <1>1, <1>2, <2>1, Sent DEF Ended
    <3> QED
      BY <3>1 DEF LifeInv, EndsAreCounted
  <2>2. CASE \E b \in BOOLEAN : /\ listener' = [listener EXCEPT ![l] = "stopped"]
                                /\ component' = component \o <<b>>
    <3>1. Ended' = Ended \cup {l} /\ l \notin Ended
      BY <1>1, <1>2, <2>2 DEF Ended
    <3>2. Len(component') = Len(component) + 1
      BY <1>1, <2>2, Sent
    <3> QED
      BY <3>1, <3>2, OneEnds
  <2> QED
    BY <1>4, <2>1, <2>2
<1> QED
  BY <1>2, <1>3, <1>5 DEF LifeInv, EndsAreCounted

LEMMA MainEnds ==
    ASSUME LifeInv, Main
    PROVE  EndsAreCounted'
<1>0. EndsAreCounted /\ component \in Seq(BOOLEAN)
  BY DEF LifeInv, SInv, ChannelsOK
<1>1. ASSUME UNCHANGED <<wrapper, listener, component, checks>>,
             status' \in {"none", "clean", "error"},
             script' \in {"idle", "queued", "running", "late", "replied", "lost"},
             stage' \in {"preflight", "opening", "connecting"} =>
                 stage \in {"preflight", "opening", "connecting"}
      PROVE  EndsAreCounted'
  BY <1>0, <1>1, NoEnd DEF EndsAreCounted
<1>2. ASSUME NEW how \in {"clean", "error"}, Exit(how) PROVE EndsAreCounted'
  BY <1>0, <1>1, <1>2 DEF Exit, appVars, EndsAreCounted
<1>3. CASE PreflightFails \/ ConnectingFails
  BY <1>2, <1>3 DEF PreflightFails, ConnectingFails, Gone
<1>4. CASE OpenFails
  BY <1>2, <1>4 DEF OpenFails
<1>5. CASE PreflightPasses \/ ReceiverConnected
  BY <1>0, <1>1, <1>5 DEF PreflightPasses, ReceiverConnected, appVars, EndsAreCounted
<1>6. CASE StartReceivers
  <2>1. /\ \A a \in Apps : wrapper[a] = "off"
        /\ wrapper' = [a \in Apps |-> "waiting"]
        /\ UNCHANGED <<status, checks, script, listener, component>>
        /\ stage = "opening"
    BY <1>6 DEF StartReceivers, LifeInv, RInv, Awaiting
  <2>2. Ended' = Ended
    BY <2>1 DEF Ended
  <2> QED
    BY <1>0, <2>1, <2>2 DEF EndsAreCounted
<1>7. CASE StartListeners
  <2>1. CASE Exit("error")
    BY <1>2, <2>1
  <2>2. CASE /\ stage = "connecting" /\ stage' = "serving"
             /\ listener' = [l \in Listeners |-> "binding"]
             /\ UNCHANGED <<status, appVars, component, script>>
    <3>1. Ended' = Ended
      BY <1>0, <2>2 DEF EndsAreCounted, Ended, appVars
    <3> QED
      BY <1>0, <2>2, <3>1 DEF EndsAreCounted, appVars
  <2> QED
    BY <1>7, <2>1, <2>2 DEF StartListeners
<1>8. CASE Leave
  <2>1. /\ UNCHANGED <<status, script, checks, wrapper, listener>> /\ stage' = "closing"
        /\ component' = component \/ (component # <<>> /\ component' = Tail(component))
    BY <1>8 DEF Leave, appVars
  <2>2. component # <<>> =>
            /\ Len(Tail(component)) = Len(component) - 1
            /\ Len(component) \in Nat /\ Len(component) >= 1
    BY <1>0, Received
  <2>3. Len(component') <= Cardinality(Ended')
    BY <2>1, <2>2, NoEnd
  <2> QED
    BY <1>0, <2>1, <2>3 DEF EndsAreCounted
<1>9. CASE Shutdown
  BY <1>2, <1>9 DEF Shutdown
<1> QED
  BY <1>3, <1>4, <1>5, <1>6, <1>7, <1>8, <1>9 DEF Main

LEMMA StepLifeInv ==
    ASSUME LifeInv, [LifeNext]_life
    PROVE  LifeInv'
<1>1. SInv' /\ RInv'
  BY StepSInv, StepRInv DEF LifeInv
<1>2. EndsAreCounted'
  <2>1. ASSUME UNCHANGED <<stage, status, wrapper, listener, component>>,
               checks' \in [Apps -> {"running", "ok", "failed"}],
               script' \in {"idle", "queued", "running", "late", "replied", "lost"}
        PROVE  EndsAreCounted'
    BY <2>1, NoEnd DEF LifeInv, EndsAreCounted
  <2>2. CASE Main
    BY <2>2, MainEnds
  <2>3. ASSUME NEW a \in Apps, Wrapped(a) PROVE EndsAreCounted'
    BY <2>3, WrappedEnds
  <2>4. ASSUME NEW l \in Listeners, Bind(l) \/ Breaks(l) \/ Stops(l) PROVE EndsAreCounted'
    BY <2>4, ListenerEnds
  <2>5. ASSUME NEW a \in Apps, NEW result \in {"ok", "failed"}, Check(a, result)
        PROVE  EndsAreCounted'
    BY <2>1, <2>5 DEF Check, LifeInv, EndsAreCounted, runVars
  <2>6. ASSUME NEW a \in Apps,
               \/ StartReceiver(a)
               \/ \E t \in Threads : TellConnectionState(a, t)
               \/ \E s \in ConnectionStates \ {"starting"} : Callback(a, s)
               \/ \E withError \in BOOLEAN : ReceiverReturns(a, withError)
        PROVE  EndsAreCounted'
    <3>1. UNCHANGED <<stage, status, wrapper, listener, component, checks, script>>
      BY <2>6 DEF StartReceiver, TellConnectionState, Callback, ReceiverReturns, runVars
    <3> QED
      BY <2>1, <3>1 DEF LifeInv, EndsAreCounted
  <2>7. CASE Signal \/ ScriptCommand \/ RunScript \/ ReplyScript \/ UNCHANGED life
    BY <2>1, <2>7 DEF Signal, ScriptCommand, RunScript, ReplyScript, life, runVars, appVars, LifeInv,
                      EndsAreCounted
  <2> QED
    BY <2>2, <2>3, <2>4, <2>5, <2>6, <2>7 DEF LifeNext
<1> QED
  BY <1>1, <1>2 DEF LifeInv

(* For any apps and up to four listeners: every variable of the process    *)
(* has its type, and the channels of main.go hold what receivers and       *)
(* listeners send, so none of them is stuck when run has stopped reading.  *)
THEOREM LifeTypes == LifeSpec => []LifeTypeOK
<1>1. LifeInv => LifeTypeOK
  <2> SUFFICES ASSUME LifeInv PROVE LifeTypeOK
    OBVIOUS
  <2>1. /\ startup \in Seq(BOOLEAN) /\ awaited \in Nat /\ Len(startup) \in Nat
        /\ awaited + Len(startup) = Cardinality(Past)
    BY DEF LifeInv, RInv, Awaiting
  <2>2. awaited \in 0 .. Cardinality(Apps) /\ Len(startup) + awaited <= Cardinality(Apps)
    BY <2>1, PastCounts
  <2>3. Ended \in SUBSET (Apps \cup Listeners)
    BY DEF Ended
  <2>4. /\ component \in Seq(BOOLEAN) /\ Len(component) \in Nat
        /\ Len(component) <= Cardinality(Ended)
    BY DEF LifeInv, SInv, ChannelsOK, EndsAreCounted
  <2>5. Len(component) <= Cardinality(Apps) + 4
    BY <2>3, <2>4, EndedCounts, PastCounts
  <2> QED
    BY <2>1, <2>2, <2>4, <2>5 DEF LifeInv, SInv, ChannelsOK, RInv, Heard, Awaiting,
                                  EndsAreCounted, LifeTypeOK
<1> QED
  BY <1>1, InitLifeInv, StepLifeInv, PTL DEF LifeSpec

-----------------------------------------------------------------------------
(***************************************************************************)
(* Readiness.  An answer is put together over the length of a check, so    *)
(* what a check has heard is bounded by its start, and what a sender       *)
(* remembers by the last time Feishu did accept the credentials, whichever *)
(* of the checks that overlap wrote it last.                               *)
(***************************************************************************)
AcceptedBefore == \A a \in ReadyApps : acceptedLast[a] <= now

MemoryIsBounded ==
    \A a \in ReadyApps :
        IF remembered[a].ok
        THEN /\ acceptedLast[a] > 0
             /\ remembered[a].until <= acceptedLast[a] + ReadyFor
        ELSE remembered[a].until <= now + UnreadyFor

ChecksAreCurrent ==
    \A p \in Probes :
        /\ ~Probing(p) => probe[p].pending = {} /\ probe[p].asking = {}
        /\ Probing(p) =>
              /\ probe[p].at >= 1
              /\ probe[p].at <= now /\ now <= probe[p].at + ReadyTimeout
              /\ probe[p].ready => \A a \in ReadyApps \ probe[p].pending :
                    /\ acceptedLast[a] > 0
                    /\ probe[p].at <= acceptedLast[a] + ReadyFor

VerdictIsFounded ==
    verdict = "ready" =>
        \A a \in ReadyApps : /\ a \in connected
                             /\ acceptedLast[a] > 0
                             /\ now <= acceptedLast[a] + ReadyFor + ReadyTimeout

ReadinessInv ==
    /\ ReadinessTypeOK /\ AcceptedBefore
    /\ MemoryIsBounded /\ ChecksAreCurrent /\ VerdictIsFounded

LEMMA ReadinessNumbers ==
    /\ ReadyFor \in Nat /\ UnreadyFor \in Nat /\ ReadyTimeout \in Nat
    /\ ReadinessUntil \in Nat /\ ReadinessUntil >= 1
BY ReadinessAssumption

LEMMA InitReadinessInv == ReadinessInit => ReadinessInv
<1> SUFFICES ASSUME ReadinessInit PROVE ReadinessInv
  OBVIOUS
<1> USE ReadinessNumbers DEF ReadinessInit
<1>1. ReadinessTypeOK
  BY DEF ReadinessTypeOK, NoProbe
<1>2. MemoryIsBounded /\ AcceptedBefore
  BY DEF MemoryIsBounded, AcceptedBefore
<1>3. ChecksAreCurrent /\ VerdictIsFounded
  BY DEF ChecksAreCurrent, Probing, NoProbe, VerdictIsFounded
<1> QED
  BY <1>1, <1>2, <1>3 DEF ReadinessInv

(* What a sender remembers of a check is within the bounds.                *)
LEMMA RememberedType ==
    ASSUME NEW ok \in BOOLEAN, NEW at \in Nat
    PROVE  /\ Remembered(ok, at) \in [ok : BOOLEAN, until : Nat]
           /\ Remembered(ok, at).ok = ok
           /\ Remembered(ok, at).until = at + (IF ok THEN ReadyFor ELSE UnreadyFor)
BY ReadinessNumbers DEF Remembered

(* A check that asks or listens is under way, and stays under way.         *)
LEMMA ProbeType ==
    ASSUME ReadinessTypeOK, NEW p \in Probes
    PROVE  /\ probe[p].at \in Nat /\ probe[p].at \in 0 .. ReadinessUntil
           /\ probe[p].ready \in BOOLEAN
           /\ probe[p].pending \in SUBSET ReadyApps /\ probe[p].asking \in SUBSET ReadyApps
           /\ now \in Nat /\ now >= 1 /\ now <= ReadinessUntil
BY ReadinessNumbers DEF ReadinessTypeOK

ProbeSpace ==
    [at : 0 .. ReadinessUntil, ready : BOOLEAN,
     pending : SUBSET ReadyApps, asking : SUBSET ReadyApps]

LEMMA HearsMoves ==
    ASSUME ReadinessInv, NEW p \in Probes, NEW a \in ReadyApps, NEW ok \in BOOLEAN,
           Probing(p), Hears(p, a, ok)
    PROVE  /\ probe' \in [Probes -> [at : 0 .. ReadinessUntil, ready : BOOLEAN,
                                     pending : SUBSET ReadyApps, asking : SUBSET ReadyApps]]
           /\ Probing(p)'
           /\ probe'[p].at = probe[p].at
           /\ probe'[p].ready <=> probe[p].ready /\ ok
           /\ probe'[p].pending = probe[p].pending \ {a}
           /\ \A q \in Probes \ {p} : probe'[q] = probe[q]
<1> DEFINE left == [probe EXCEPT ![p].pending = @ \ {a}]
           calm == [left EXCEPT ![p].asking = @ \ {a}]
<1>1. /\ probe \in [Probes -> ProbeSpace] /\ probe[p].at >= 1
      /\ probe[p].pending \ {a} \in SUBSET ReadyApps
      /\ probe[p].asking \ {a} \in SUBSET ReadyApps
      /\ (probe[p].ready /\ ok) \in BOOLEAN
  BY ProbeType DEF ReadinessInv, ReadinessTypeOK, ProbeSpace, ChecksAreCurrent
<1>2. /\ left \in [Probes -> ProbeSpace]
      /\ left[p].at = probe[p].at /\ left[p].ready = probe[p].ready
      /\ left[p].asking = probe[p].asking /\ left[p].pending = probe[p].pending \ {a}
      /\ \A q \in Probes \ {p} : left[q] = probe[q]
  BY <1>1 DEF ProbeSpace
<1>3. probe' = [calm EXCEPT ![p].ready = @ /\ ok]
  BY DEF Hears
<1> HIDE DEF left
<1>4. /\ calm \in [Probes -> ProbeSpace]
      /\ calm[p].at = probe[p].at /\ calm[p].ready = probe[p].ready
      /\ calm[p].pending = probe[p].pending \ {a}
      /\ \A q \in Probes \ {p} : calm[q] = probe[q]
  BY <1>1, <1>2 DEF ProbeSpace
<1> HIDE DEF calm
<1>5. /\ probe' \in [Probes -> ProbeSpace]
      /\ probe'[p].at = probe[p].at
      /\ probe'[p].ready = (calm[p].ready /\ ok)
      /\ probe'[p].pending = probe[p].pending \ {a}
      /\ \A q \in Probes \ {p} : probe'[q] = probe[q]
  BY <1>1, <1>3, <1>4 DEF ProbeSpace
<1>6. Probing(p)'
  BY <1>1, <1>5 DEF Probing, NoProbe
<1> QED
  BY <1>4, <1>5, <1>6 DEF ProbeSpace

LEMMA ProbeReadinessInv ==
    ASSUME ReadinessInv, NEW p \in Probes, Probe(p)
    PROVE  ReadinessInv'
<1> DEFINE fresh == [at |-> now, ready |-> TRUE, pending |-> ReadyApps, asking |-> {}]
<1> USE ReadinessNumbers DEF ReadinessInv, Probe
<1>1. now \in 1 .. ReadinessUntil /\ fresh \in
          [at : 0 .. ReadinessUntil, ready : BOOLEAN,
           pending : SUBSET ReadyApps, asking : SUBSET ReadyApps]
  BY DEF ReadinessTypeOK
<1>2. ReadinessTypeOK'
  BY <1>1 DEF ReadinessTypeOK
<1>3. probe'[p] = fresh /\ \A q \in Probes \ {p} : probe'[q] = probe[q]
  BY DEF ReadinessTypeOK
<1>4. fresh # NoProbe
  BY <1>1 DEF NoProbe
<1>5. ChecksAreCurrent'
  BY <1>1, <1>3, <1>4 DEF ChecksAreCurrent, Probing
<1> QED
  BY <1>2, <1>5 DEF MemoryIsBounded, VerdictIsFounded, AcceptedBefore

LEMMA RecallReadinessInv ==
    ASSUME ReadinessInv, NEW p \in Probes, NEW a \in ReadyApps, Recall(p, a)
    PROVE  ReadinessInv'
<1> USE ReadinessNumbers DEF ReadinessInv
<1>1. /\ a \in probe[p].pending /\ Probing(p)
      /\ UNCHANGED <<now, valid, acceptedLast, connected, remembered>> /\ verdict' = "none"
  BY DEF Recall, ChecksAreCurrent
<1>2. MemoryIsBounded' /\ VerdictIsFounded' /\ AcceptedBefore'
  BY <1>1 DEF MemoryIsBounded, VerdictIsFounded, AcceptedBefore
<1>3. /\ remembered[a].ok \in BOOLEAN /\ remembered[a].until \in Nat
      /\ acceptedLast[a] \in Nat /\ now \in Nat
  BY DEF ReadinessTypeOK
<1>4. CASE now < remembered[a].until /\ Hears(p, a, remembered[a].ok)
  <2>1. /\ probe' \in [Probes -> [at : 0 .. ReadinessUntil, ready : BOOLEAN,
                                  pending : SUBSET ReadyApps, asking : SUBSET ReadyApps]]
        /\ Probing(p)'
        /\ probe'[p].at = probe[p].at
        /\ probe'[p].ready <=> probe[p].ready /\ remembered[a].ok
        /\ probe'[p].pending = probe[p].pending \ {a}
        /\ \A q \in Probes \ {p} : probe'[q] = probe[q]
    BY <1>1, <1>3, <1>4, HearsMoves
  <2>2. remembered[a].ok => acceptedLast[a] > 0 /\ now < acceptedLast[a] + ReadyFor
    BY <1>3, <1>4 DEF MemoryIsBounded
  <2>3. probe[p].at \in Nat
    BY ProbeType
  <2>4. ReadinessTypeOK'
    BY <1>1, <2>1 DEF ReadinessTypeOK
  <2>5. \A q \in Probes \ {p} : Probing(q)' <=> Probing(q)
    BY <2>1 DEF Probing
  <2>6. probe'[p].ready => \A b \in ReadyApps \ probe'[p].pending :
           acceptedLast'[b] > 0 /\ probe'[p].at <= acceptedLast'[b] + ReadyFor
    BY <1>1, <1>3, <2>1, <2>2, <2>3 DEF ChecksAreCurrent
  <2>7. ChecksAreCurrent'
    BY <1>1, <2>1, <2>5, <2>6 DEF ChecksAreCurrent
  <2> QED
    BY <1>2, <2>4, <2>7
<1>5. CASE probe' = [probe EXCEPT ![p].asking = @ \cup {a}]
  <2>1. probe[p].asking \cup {a} \in SUBSET ReadyApps /\ probe[p].at >= 1
    BY <1>1, ProbeType DEF ChecksAreCurrent
  <2>2. /\ probe' \in [Probes -> ProbeSpace]
        /\ probe'[p].at = probe[p].at /\ probe'[p].ready = probe[p].ready
        /\ probe'[p].pending = probe[p].pending
        /\ \A q \in Probes \ {p} : probe'[q] = probe[q]
    BY <1>5, <2>1 DEF ReadinessTypeOK, ProbeSpace
  <2>3. ReadinessTypeOK'
    BY <1>1, <2>2 DEF ReadinessTypeOK, ProbeSpace
  <2>4. Probing(p)' /\ \A q \in Probes \ {p} : Probing(q)' <=> Probing(q)
    <3>1. Probing(p)'
      BY <2>1, <2>2 DEF Probing, NoProbe
    <3>2. \A q \in Probes \ {p} : Probing(q)' <=> Probing(q)
      BY <2>2 DEF Probing
    <3> QED
      BY <3>1, <3>2
  <2>5. ChecksAreCurrent'
    BY <1>1, <2>2, <2>4 DEF ChecksAreCurrent
  <2> QED
    BY <1>2, <2>3, <2>5
<1> QED
  BY <1>4, <1>5 DEF Recall

LEMMA AskReadinessInv ==
    ASSUME ReadinessInv, NEW p \in Probes, NEW a \in ReadyApps, NEW ok \in BOOLEAN,
           Ask(p, a, ok)
    PROVE  ReadinessInv'
<1> USE ReadinessNumbers DEF ReadinessInv
<1>1. /\ Probing(p) /\ Hears(p, a, ok)
      /\ UNCHANGED <<now, valid, connected>> /\ verdict' = "none"
      /\ remembered' = [remembered EXCEPT ![a] = Remembered(ok, probe[p].at)]
      /\ acceptedLast' = IF ok THEN [acceptedLast EXCEPT ![a] = now] ELSE acceptedLast
  BY DEF Ask, ChecksAreCurrent
<1>2. /\ probe[p].at \in Nat /\ probe[p].at <= now /\ now <= ReadinessUntil
      /\ now \in Nat /\ now >= 1
  BY <1>1, ProbeType DEF ChecksAreCurrent
<1>3. /\ Remembered(ok, probe[p].at) \in [ok : BOOLEAN, until : Nat]
      /\ Remembered(ok, probe[p].at).ok = ok
      /\ Remembered(ok, probe[p].at).until
            = probe[p].at + (IF ok THEN ReadyFor ELSE UnreadyFor)
  BY <1>2, RememberedType
<1>4. /\ probe' \in [Probes -> [at : 0 .. ReadinessUntil, ready : BOOLEAN,
                                pending : SUBSET ReadyApps, asking : SUBSET ReadyApps]]
      /\ Probing(p)'
      /\ probe'[p].at = probe[p].at
      /\ probe'[p].ready <=> probe[p].ready /\ ok
      /\ probe'[p].pending = probe[p].pending \ {a}
      /\ \A q \in Probes \ {p} : probe'[q] = probe[q]
  BY <1>1, HearsMoves
<1>5. /\ acceptedLast' \in [ReadyApps -> 0 .. ReadinessUntil]
      /\ \A b \in ReadyApps : acceptedLast'[b] >= acceptedLast[b]
      /\ ok => acceptedLast'[a] = now
      /\ acceptedLast \in [ReadyApps -> 0 .. ReadinessUntil]
  <2>1. acceptedLast \in [ReadyApps -> 0 .. ReadinessUntil] /\ now \in 0 .. ReadinessUntil
    BY <1>2 DEF ReadinessTypeOK
  <2>2. \A b \in ReadyApps : acceptedLast[b] <= now
    BY <2>1 DEF AcceptedBefore
  <2>3. CASE ok
    <3>1. acceptedLast' = [acceptedLast EXCEPT ![a] = now]
      BY <1>1, <2>3
    <3> QED
      BY <1>2, <2>1, <2>2, <3>1
  <2>4. CASE ~ok
    <3>1. acceptedLast' = acceptedLast
      BY <1>1, <2>4
    <3> QED
      BY <2>1, <2>4, <3>1
  <2> QED
    BY <2>3, <2>4
<1>6. ReadinessTypeOK'
  BY <1>1, <1>3, <1>4, <1>5 DEF ReadinessTypeOK
<1>7. MemoryIsBounded'
  <2>1. ASSUME NEW b \in ReadyApps
        PROVE  IF remembered'[b].ok
               THEN /\ acceptedLast'[b] > 0
                    /\ remembered'[b].until <= acceptedLast'[b] + ReadyFor
               ELSE remembered'[b].until <= now' + UnreadyFor
    <3>1. CASE b = a
      <4>1. remembered'[b] = Remembered(ok, probe[p].at)
        BY <1>1, <3>1 DEF ReadinessTypeOK
      <4> QED
        BY <1>1, <1>2, <1>3, <1>5, <3>1, <4>1
    <3>2. CASE b # a
      <4>1. remembered'[b] = remembered[b]
        BY <1>1, <3>2 DEF ReadinessTypeOK
      <4>2. remembered[b].until \in Nat /\ acceptedLast[b] \in Nat /\ acceptedLast'[b] \in Nat
        BY <1>5 DEF ReadinessTypeOK
      <4> QED
        BY <1>1, <1>5, <4>1, <4>2 DEF MemoryIsBounded
    <3> QED
      BY <3>1, <3>2
  <2> QED
    BY <2>1 DEF MemoryIsBounded
<1>8. ChecksAreCurrent'
  <2>1. \A q \in Probes \ {p} : Probing(q)' <=> Probing(q)
    BY <1>4 DEF Probing
  <2>2. \A q \in Probes : probe[q].at \in Nat
    BY ProbeType
  <2>3. ASSUME NEW q \in Probes, Probing(q), probe'[q].ready,
               NEW b \in ReadyApps \ probe'[q].pending
        PROVE  acceptedLast'[b] > 0 /\ probe'[q].at <= acceptedLast'[b] + ReadyFor
    <3>1. acceptedLast[b] \in Nat /\ acceptedLast'[b] \in Nat
      BY <1>5
    <3>2. CASE q = p /\ b = a
      BY <1>2, <1>4, <1>5, <2>3, <3>2
    <3>3. CASE ~(q = p /\ b = a)
      <4>1. probe[q].ready /\ b \notin probe[q].pending /\ probe'[q].at = probe[q].at
        BY <1>4, <2>3, <3>3
      <4>2. acceptedLast[b] > 0 /\ probe[q].at <= acceptedLast[b] + ReadyFor
        BY <2>3, <4>1 DEF ChecksAreCurrent
      <4> QED
        BY <1>5, <2>2, <3>1, <4>1, <4>2
    <3> QED
      BY <3>2, <3>3
  <2>4. ASSUME NEW q \in Probes, Probing(q)'
        PROVE  /\ probe'[q].at >= 1
               /\ probe'[q].at <= now' /\ now' <= probe'[q].at + ReadyTimeout
    BY <1>1, <1>4, <2>1, <2>4 DEF ChecksAreCurrent
  <2>5. ASSUME NEW q \in Probes, ~Probing(q)'
        PROVE  probe'[q].pending = {} /\ probe'[q].asking = {}
    BY <1>4, <2>1, <2>5 DEF ChecksAreCurrent
  <2> QED
    BY <1>1, <2>1, <2>3, <2>4, <2>5 DEF ChecksAreCurrent
<1>9. AcceptedBefore'
  <2>1. \A b \in ReadyApps : acceptedLast'[b] \in {acceptedLast[b], now}
    BY <1>1 DEF ReadinessTypeOK
  <2> QED
    BY <1>1, <1>2, <2>1 DEF AcceptedBefore
<1> QED
  BY <1>1, <1>6, <1>7, <1>8, <1>9 DEF VerdictIsFounded

LEMMA VerdictReadinessInv ==
    ASSUME ReadinessInv, NEW p \in Probes, Verdict(p)
    PROVE  ReadinessInv'
<1> USE ReadinessNumbers DEF ReadinessInv
<1>1. /\ probe[p].at \in Nat /\ probe[p].at <= now /\ now <= probe[p].at + ReadyTimeout
      /\ now \in Nat /\ probe[p].asking \subseteq ReadyApps /\ Probing(p)
      /\ UNCHANGED <<now, valid, acceptedLast, connected>>
  BY ProbeType DEF Verdict, ChecksAreCurrent
<1>2. /\ Remembered(FALSE, probe[p].at) \in [ok : BOOLEAN, until : Nat]
      /\ ~Remembered(FALSE, probe[p].at).ok
      /\ Remembered(FALSE, probe[p].at).until = probe[p].at + UnreadyFor
  BY <1>1, RememberedType
<1>3. probe' = [probe EXCEPT ![p] = NoProbe]
      /\ remembered' = [a \in ReadyApps |-> IF a \in probe[p].asking
                                            THEN Remembered(FALSE, probe[p].at)
                                            ELSE remembered[a]]
  BY DEF Verdict
<1>4. ReadinessTypeOK'
  <2>1. NoProbe \in [at : 0 .. ReadinessUntil, ready : BOOLEAN,
                     pending : SUBSET ReadyApps, asking : SUBSET ReadyApps]
    BY DEF NoProbe
  <2> QED
    BY ZenonT(60), <1>1, <1>2, <1>3, <2>1 DEF ReadinessTypeOK, Verdict
<1>5. MemoryIsBounded'
  <2>1. ASSUME NEW a \in ReadyApps
        PROVE  IF remembered'[a].ok
               THEN /\ acceptedLast'[a] > 0
                    /\ remembered'[a].until <= acceptedLast'[a] + ReadyFor
               ELSE remembered'[a].until <= now' + UnreadyFor
    <3>1. CASE a \in probe[p].asking
      <4>1. remembered'[a] = Remembered(FALSE, probe[p].at)
        BY <1>3, <3>1
      <4>2. ~remembered'[a].ok /\ remembered'[a].until = probe[p].at + UnreadyFor
        BY <1>2, <4>1
      <4>3. now' = now
        BY <1>1
      <4> QED
        BY <1>1, <4>2, <4>3
    <3>2. CASE a \notin probe[p].asking
      <4>1. remembered'[a] = remembered[a]
        BY <1>3, <3>2
      <4> QED
        BY <1>1, <4>1 DEF MemoryIsBounded
    <3> QED
      BY <3>1, <3>2
  <2> QED
    BY <2>1 DEF MemoryIsBounded
<1>6. ChecksAreCurrent'
  <2>1. probe'[p] = NoProbe /\ \A q \in Probes \ {p} : probe'[q] = probe[q]
    BY <1>3 DEF ReadinessTypeOK
  <2>2. ~Probing(p)' /\ \A q \in Probes \ {p} : Probing(q)' <=> Probing(q)
    BY <2>1 DEF Probing
  <2> QED
    BY <1>1, <2>1, <2>2 DEF ChecksAreCurrent, NoProbe
<1>7. VerdictIsFounded'
  <2> SUFFICES ASSUME verdict' = "ready", NEW a \in ReadyApps
               PROVE  /\ a \in connected'
                      /\ acceptedLast'[a] > 0
                      /\ now' <= acceptedLast'[a] + ReadyFor + ReadyTimeout
    BY DEF VerdictIsFounded
  <2>1. probe[p].ready /\ probe[p].pending = {} /\ connected = ReadyApps
    BY DEF Verdict
  <2>2. acceptedLast[a] > 0 /\ probe[p].at <= acceptedLast[a] + ReadyFor
    BY <1>1, <2>1 DEF ChecksAreCurrent
  <2>3. acceptedLast[a] \in Nat
    BY DEF ReadinessTypeOK
  <2> QED
    BY <1>1, <2>1, <2>2, <2>3
<1> QED
  BY <1>1, <1>4, <1>5, <1>6, <1>7 DEF AcceptedBefore

LEMMA TickReadinessInv ==
    ASSUME ReadinessInv, ReadinessTick
    PROVE  ReadinessInv'
<1> USE ReadinessNumbers DEF ReadinessInv, ReadinessTick, Tick
<1>1. now \in Nat /\ now' = now + 1 /\ now' \in 1 .. ReadinessUntil
  BY DEF ReadinessTypeOK
<1>2. ReadinessTypeOK'
  BY <1>1 DEF ReadinessTypeOK
<1>3. MemoryIsBounded'
  <2>1. \A a \in ReadyApps : remembered[a].until \in Nat
    BY DEF ReadinessTypeOK
  <2> QED
    BY <1>1, <2>1 DEF MemoryIsBounded
<1>4. ChecksAreCurrent'
  <2>1. \A q \in Probes : probe[q].at \in Nat
    BY ProbeType
  <2> QED
    BY <1>1, <2>1 DEF ChecksAreCurrent, Probing
<1> QED
  BY <1>1, <1>2, <1>3, <1>4 DEF VerdictIsFounded, AcceptedBefore, ReadinessTypeOK

LEMMA NextReadinessInv == ReadinessInv /\ [ReadinessNext]_readinessVars => ReadinessInv'
<1> SUFFICES ASSUME ReadinessInv, [ReadinessNext]_readinessVars PROVE ReadinessInv'
  OBVIOUS
<1>1. ASSUME UNCHANGED <<now, acceptedLast, remembered, probe>>,
             valid' \subseteq ReadyApps, connected' \subseteq ReadyApps,
             verdict' = "none" \/ UNCHANGED <<verdict, connected>>
      PROVE  ReadinessInv'
  BY <1>1 DEF ReadinessInv, ReadinessTypeOK, MemoryIsBounded, ChecksAreCurrent, Probing,
              VerdictIsFounded, AcceptedBefore
<1>2. CASE UNCHANGED readinessVars
  BY <1>1, <1>2 DEF readinessVars, ReadinessInv, ReadinessTypeOK
<1>3. CASE World
  BY <1>1, <1>3 DEF World, ReadinessInv, ReadinessTypeOK
<1>4. ASSUME NEW p \in Probes, NEW a \in ReadyApps, Recall(p, a)
      PROVE  ReadinessInv'
  BY <1>4, RecallReadinessInv
<1> QED
  BY <1>2, <1>3, <1>4, ProbeReadinessInv, VerdictReadinessInv, AskReadinessInv,
     TickReadinessInv DEF ReadinessNext

(* "ready" is never older than the memory of a sender and one check, and a *)
(* refusal is asked again after its own time, however many checks overlap. *)
THEOREM ReadinessIsFounded == ReadinessSpec => []ReadinessIsRecent
<1>1. ReadinessInv => ReadinessIsRecent
  <2> SUFFICES ASSUME ReadinessInv PROVE ReadinessIsRecent
    OBVIOUS
  <2> USE ReadinessNumbers DEF ReadinessInv
  <2>1. /\ now \in Nat
        /\ \A a \in ReadyApps : acceptedLast[a] \in Nat /\ remembered[a].until \in Nat
    BY DEF ReadinessTypeOK
  <2> QED
    BY <2>1 DEF VerdictIsFounded, MemoryIsBounded, ReadinessIsRecent
<1> QED
  BY <1>1, InitReadinessInv, NextReadinessInv, PTL DEF ReadinessSpec

(* Every variable of readiness has its type: what a sender remembers of an *)
(* app, and the apps a check still waits for.                              *)
THEOREM ReadinessTypes == ReadinessSpec => []ReadinessTypeOK
<1>1. ReadinessInv => ReadinessTypeOK
  BY DEF ReadinessInv
<1> QED
  BY <1>1, InitReadinessInv, NextReadinessInv, PTL DEF ReadinessSpec

=============================================================================
