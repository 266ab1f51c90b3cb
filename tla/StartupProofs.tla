----------------------------- MODULE StartupProofs -----------------------------
(***************************************************************************)
(* What the life cycle of the serial ports and the start-up of main()      *)
(* promise for any number of ports, threads and waiting bytes, and for any *)
(* objects and signals.                                                    *)
(*                                                                         *)
(* ListenThreads!TypeOK is inductive as it stands, and every step of       *)
(* start-up is a step of ListenThreads: so it holds of start-up too.  That *)
(* a reader has its byte needs more: SInv, below.                          *)
(***************************************************************************)
EXTENDS Startup, TLAPS

(* What SMT has to know of the constants of ListenThreads.                 *)
LEMMA ThreadNumbers ==
  /\ Threads \subseteq Int
  /\ \A t \in Threads : t # Free /\ t # Deleted /\ t # Owner
  /\ Free # Deleted /\ Free # Owner /\ Deleted # Owner
BY ListenThreadsAssumption DEF Threads, Free, Deleted, Owner

LEMMA InitTypeOK == Init => TypeOK
<1> SUFFICES ASSUME Init PROVE TypeOK OBVIOUS
<1>1. 0 \in 0 .. MaxBytes BY ListenThreadsAssumption
<1>2. \A t \in Threads : lpc[t] = "none" BY DEF Init
<1> QED BY <1>1, <1>2 DEF Init, TypeOK

(* The one listener: only the count and its end are arithmetic.            *)
LEMMA ListenerTypeOK ==
  ASSUME TypeOK, NEW t \in Threads, Listener(t)
  PROVE  TypeOK'
<1> USE ThreadNumbers DEF TypeOK, portVars, threadVars, ownerVars, Go
<1>1. CASE Loop(t)
  <2>1. BytesInCOM(server[t]) \in 0 .. MaxBytes
    BY ListenThreadsAssumption DEF BytesInCOM
  <2> QED BY <1>1, <2>1 DEF Loop
<1>2. CASE CharClosed(t)
  BY <1>2, ListenThreadsAssumption DEF CharClosed, CharDone
<1>3. CASE CharOpen(t) BY <1>3 DEF CharOpen
<1>4. CASE Enter(t) BY <1>4 DEF Enter
<1>5. CASE Read(t)
  BY <1>5, ListenThreadsAssumption DEF Read, CharDone
<1> QED BY <1>1, <1>2, <1>3, <1>4, <1>5 DEF Listener

LEMMA OwnerGoesOnTypeOK ==
  ASSUME TypeOK, OwnerGoesOn
  PROVE  TypeOK'
<1> USE ThreadNumbers
    DEF TypeOK, portVars, threadVars, ownerVars, Return, Forget
<1>1. CASE Configure BY <1>1, ListenThreadsAssumption DEF Configure
<1>2. CASE ConfigureFails BY <1>2 DEF ConfigureFails, OwnerMayEnter
<1>3. CASE CloseEnd BY <1>3 DEF CloseEnd
<1>4. CASE DestroyClose BY <1>4 DEF DestroyClose
<1>5. CASE DestroyDelete BY <1>5 DEF DestroyDelete
<1> QED BY <1>1, <1>2, <1>3, <1>4, <1>5 DEF OwnerGoesOn

LEMMA OwnerCallsTypeOK ==
  ASSUME TypeOK, NEW p \in Ports, OwnerCalls(p)
  PROVE  TypeOK'
<1> USE DEF TypeOK, portVars, threadVars, ownerVars, Call
<1>1. ASSUME NEW init \in {"configure", "setDCB"}, OpenPort(init, p)
      PROVE  TypeOK'
  BY <1>1 DEF OpenPort
<1>2. CASE OpenRefused(p) BY <1>2 DEF OpenRefused
<1>3. CASE OpenListenThread(p)
  <2>1. CASE UNCHANGED threadVars
    <3>1. m_hListenThread' \in [Ports -> {InvalidHandle, NoThread} \cup Threads]
      BY <1>3 DEF OpenListenThread
    <3> QED BY <1>3, <2>1, <3>1 DEF OpenListenThread
  <2>2. ASSUME NEW t \in Threads, lpc[t] = "none", Go(t, "loop"), left' = left,
               server' = [server EXCEPT ![t] = p],
               m_hListenThread' = [m_hListenThread EXCEPT ![p] = t]
        PROVE  TypeOK'
    BY <1>3, <2>2 DEF OpenListenThread, Go
  <2> QED BY <1>3, <2>1, <2>2 DEF OpenListenThread
<1>4. ASSUME NEW op \in {"close", "destroy"}, CloseBegin(op, p)
      PROVE  TypeOK'
  BY <1>4 DEF CloseBegin
<1> QED BY <1>1, <1>2, <1>3, <1>4 DEF OwnerCalls, CloseListenTread, Destroy

LEMMA OthersTypeOK ==
  ASSUME TypeOK, Others
  PROVE  TypeOK'
<1>1. ASSUME NEW p \in Ports, Arrive(p) PROVE TypeOK'
  BY <1>1, ListenThreadsAssumption
  DEF Arrive, TypeOK, portVars, threadVars, ownerVars
<1> QED BY <1>1, ListenerTypeOK DEF Others

LEMMA NextTypeOK == TypeOK /\ [Next]_vars => TypeOK'
<1> SUFFICES ASSUME TypeOK, [Next]_vars PROVE TypeOK' OBVIOUS
<1>1. CASE UNCHANGED vars
  BY <1>1 DEF TypeOK, vars, portVars, threadVars, ownerVars
<1> QED
  BY <1>1, OwnerGoesOnTypeOK, OwnerCallsTypeOK, OthersTypeOK DEF Next

(* However the owner calls and wherever the listeners are, the counts of   *)
(* the read loops never wrap, and a listener in ReadFile holds the         *)
(* critical section of its port, unless the destructor took that away.     *)
THEOREM ListenThreadsTypeOK == Spec => []TypeOK
BY InitTypeOK, NextTypeOK, PTL DEF Spec

-------------------------------------------------------------------------------
(* Start-up.                                                               *)

LEMMA InOrderPorts ==
  /\ InOrder[1] = SerialPort /\ InOrder[2] = SerialPort_Vision
  /\ SerialPort \in Ports /\ SerialPort_Vision \in Ports
  /\ SerialPort # SerialPort_Vision
BY StartupAssumption DEF InOrder

LEMMA InOrderAt ==
  ASSUME NEW s \in 1 .. 2
  PROVE  InOrder[s] \in Ports
<1>1. s = 1 \/ s = 2 OBVIOUS
<1> QED BY <1>1, InOrderPorts

USE DEF Connecting, Adding, Checking, Exiting, Exited, Running, Then

(* main() is one of the owners that ListenThreads admits.                  *)
LEMMA MainIsOwner ==
  ASSUME StartTypeOK, [StartNext]_allVars
  PROVE  [Next]_vars
<1> USE DEF Next, OwnerCalls
<1>1. CASE InitPorts BY <1>1, InOrderAt DEF InitPorts
<1>2. CASE OpenListeners
  <2>1. stage - 2 \in 1 .. 2 BY <1>2 DEF OpenListeners
  <2> QED BY <1>2, <2>1, InOrderAt DEF OpenListeners
<1>3. CASE Connect \/ AddObjects \/ CheckObjects \/ UNCHANGED allVars
  BY <1>3 DEF Connect, AddObjects, CheckObjects, allVars
<1>4. CASE Exit
  <2>1. Exiting + 2 - stage \in 1 .. 2 BY <1>4 DEF Exit
  <2> QED BY <1>4, <2>1, InOrderAt DEF Exit
<1>5. CASE OwnerGoesOn \/ Others BY <1>5
<1> QED BY <1>1, <1>2, <1>3, <1>4, <1>5 DEF StartNext, Main

LEMMA StartInitTypeOK == StartInit => StartTypeOK
BY InitTypeOK DEF StartInit, StartTypeOK

LEMMA StartNextTypeOK == StartTypeOK /\ [StartNext]_allVars => StartTypeOK'
<1> SUFFICES ASSUME StartTypeOK, [StartNext]_allVars PROVE StartTypeOK'
  OBVIOUS
<1>1. TypeOK' BY MainIsOwner, NextTypeOK DEF StartTypeOK
<1>2. stage' \in 1 .. Running /\ clientID' \in {-1, 0}
  BY DEF StartNext, Main, InitPorts, OpenListeners, Connect, AddObjects,
         CheckObjects, Exit, startVars, allVars, StartTypeOK
<1>3. missing' \subseteq Objects \cup Signals
  BY DEF StartNext, Main, InitPorts, OpenListeners, Connect, AddObjects,
         CheckObjects, Exit, startVars, allVars, StartTypeOK, MayMiss
<1> QED BY <1>1, <1>2, <1>3 DEF StartTypeOK

(* The types of start-up, and with them those of the ports.                *)
THEOREM StartupTypeOK == StartSpec => []StartTypeOK
BY StartInitTypeOK, StartNextTypeOK, PTL DEF StartSpec

(* Start-up implements ListenThreads: what is proved of an owner that      *)
(* calls in any order holds of main().                                     *)
THEOREM StartupImplementsOwner == StartSpec => Spec
<1>1. StartInit => Init BY DEF StartInit
<1>2. StartTypeOK /\ [StartNext]_allVars => [Next]_vars BY MainIsOwner
<1> QED BY <1>1, <1>2, StartupTypeOK, PTL DEF StartSpec, Spec

(* Only objects of the scene can be missing, and without a connection all  *)
(* of them are, when the check looks at them.                              *)
SceneInv ==
  /\ missing \subseteq Objects
  /\ stage = Checking /\ clientID = -1 => missing = Objects
  /\ TasksHaveScene

LEMMA NextSceneInv ==
  ASSUME StartTypeOK, SceneInv, [StartNext]_allVars
  PROVE  SceneInv'
<1> USE DEF SceneInv, TasksHaveScene
<1>1. CASE CheckObjects
  <2>1. UNCHANGED <<clientID, missing>> /\ stage = Checking
        /\ stage' = (IF Suspicious THEN Exiting ELSE Running)
    BY <1>1 DEF CheckObjects
  <2>2. ~Suspicious => missing = {}
    BY StartupAssumption DEF Suspicious
  <2>3. ~Suspicious => clientID # -1 BY <2>1, <2>2, StartupAssumption
  <2> QED BY <2>1, <2>2, <2>3
<1>2. CASE AddObjects BY <1>2 DEF AddObjects, MayMiss
<1>3. CASE InitPorts \/ OpenListeners \/ Connect \/ Exit
  BY <1>3 DEF InitPorts, OpenListeners, Connect, Exit, StartTypeOK
<1>4. CASE UNCHANGED startVars BY <1>4 DEF startVars
<1> QED BY <1>1, <1>2, <1>3, <1>4 DEF StartNext, Main, allVars

(* The tasks only run with a connection and with every handle, although    *)
(* nobody looks at the result of Start() and one signal is not checked.    *)
THEOREM StartupTasksHaveScene == StartSpec => []TasksHaveScene
<1>1. StartInit => SceneInv BY DEF StartInit, SceneInv, TasksHaveScene
<1>2. SceneInv => TasksHaveScene BY DEF SceneInv
<1> QED BY <1>1, <1>2, NextSceneInv, StartupTypeOK, PTL DEF StartSpec

-------------------------------------------------------------------------------
(* No listener waits for a byte.                                           *)

Alive(t) == lpc[t] \notin {"none", "done"}

(* main() configures a port before either has a listener.                  *)
CallsInOrder ==
  /\ opc \in {"idle", "configure", "destroy", "delete"}
  /\ opc = "configure" => stage \in 2 .. 3

(* A port has one listener at most, started at its stage.                  *)
OneListenerPerPort ==
  /\ \A t \in Threads : Alive(t) =>
       \/ stage > 3 /\ server[t] = SerialPort
       \/ stage > 4 /\ server[t] = SerialPort_Vision
  /\ \A t, u \in Threads : Alive(t) /\ Alive(u) /\ server[t] = server[u] => t = u

(* What a listener still counts is there to be read, until its port is     *)
(* closed, and then still for the ReadFile it is at: only the listener     *)
(* itself takes bytes out, because the port was purged before it began.    *)
Counting(t) ==
  \/ lpc[t] \in {"enter", "read"}
  \/ lpc[t] = "char" /\ m_hComm[server[t]] = "open"

BytesAreThere == \A t \in Threads : Counting(t) => left[t] <= waiting[server[t]]

SInv == CallsInOrder /\ OneListenerPerPort /\ BytesAreThere

LEMMA SInvReaders == TypeOK /\ SInv => ReadersHaveBytes
<1> SUFFICES ASSUME TypeOK, SInv, NEW t \in Threads, lpc[t] = "read"
             PROVE  waiting[server[t]] > 0
  BY DEF ReadersHaveBytes
<1>1. left[t] <= waiting[server[t]] BY DEF SInv, BytesAreThere, Counting
<1>2. left[t] > 0 /\ left[t] \in Int /\ waiting[server[t]] \in Int
  BY ListenThreadsAssumption DEF TypeOK
<1> QED BY <1>1, <1>2

LEMMA InitSInv == StartInit => SInv
<1> SUFFICES ASSUME StartInit PROVE SInv OBVIOUS
<1>1. \A t \in Threads : lpc[t] = "none" BY DEF StartInit, Init
<1>2. opc = "idle" BY DEF StartInit, Init
<1> QED
  BY <1>1, <1>2
  DEF SInv, CallsInOrder, OneListenerPerPort, BytesAreThere, Alive, Counting

LEMMA ListenerSInv ==
  ASSUME TypeOK, SInv, ~ReadFails, UNCHANGED startVars,
         NEW t \in Threads, Listener(t)
  PROVE  SInv'
<1> USE DEF Listener, Loop, CharClosed, CharOpen, Enter, Read, CharDone, Go,
            portVars, threadVars, ownerVars, startVars
<1>1. CallsInOrder'
  <2>1. UNCHANGED <<startVars, ownerVars>> OBVIOUS
  <2> QED BY <2>1 DEF SInv, CallsInOrder
<1>2. /\ \A u \in Threads : u # t => lpc'[u] = lpc[u] /\ left'[u] = left[u]
      /\ Alive(t)
      /\ server' = server /\ m_hComm' = m_hComm /\ stage' = stage
  BY DEF TypeOK, Alive
<1>3. \A u \in Threads : Alive(u)' => Alive(u) BY <1>2 DEF Alive
<1>4. OneListenerPerPort' BY <1>2, <1>3 DEF SInv, OneListenerPerPort
<1>5. BytesAreThere'
  <2> SUFFICES ASSUME NEW u \in Threads, Counting(u)'
               PROVE  left'[u] <= waiting'[server[u]]
    BY <1>2 DEF BytesAreThere
  <2>1. CASE u # t
    <3>1. server[u] # server[t]
      BY <1>2, <2>1 DEF SInv, OneListenerPerPort, Alive, Counting
    <3>2. waiting'[server[u]] = waiting[server[u]]
      BY <1>2, <2>1, <3>1 DEF TypeOK
    <3>3. Counting(u) BY <1>2, <2>1 DEF Counting
    <3> QED BY <1>2, <2>1, <3>2, <3>3 DEF SInv, BytesAreThere
  <2>2. CASE u = t /\ Loop(t)
    <3>1. m_hComm[server[t]] = "open"
      BY <1>2, <2>2 DEF Counting, BytesInCOM, TypeOK
    <3>2. left'[t] = waiting[server[t]] /\ waiting' = waiting
      BY <2>2, <3>1 DEF TypeOK, BytesInCOM, Counting
    <3>3. waiting[server[t]] \in Int
      BY ListenThreadsAssumption DEF TypeOK
    <3> QED BY <2>2, <3>2, <3>3
  <2>3. CASE u = t /\ CharClosed(t)
    BY <1>2, <2>3 DEF Counting, TypeOK
  <2>4. CASE u = t /\ (CharOpen(t) \/ Enter(t))
    BY <2>4 DEF SInv, BytesAreThere, Counting, TypeOK
  <2>5. CASE u = t /\ Read(t)
    <3>1. left[t] <= waiting[server[t]] /\ left[t] \in Int
          /\ waiting[server[t]] \in Int
      BY <2>5, ListenThreadsAssumption DEF SInv, BytesAreThere, Counting, TypeOK
    <3>2. left'[t] = left[t] - 1 BY <2>5 DEF TypeOK
    <3>3. m_hComm[server[t]] = "open"
      BY <1>2, <2>5 DEF Counting, TypeOK
    <3>4. waiting'[server[t]] = waiting[server[t]] - 1
      BY <2>5, <3>3 DEF TypeOK
    <3> QED BY <2>5, <3>1, <3>2, <3>4
  <2> QED BY <2>1, <2>2, <2>3, <2>4, <2>5
<1> QED BY <1>1, <1>4, <1>5 DEF SInv

LEMMA ArriveSInv ==
  ASSUME TypeOK, SInv, UNCHANGED startVars, NEW p \in Ports, Arrive(p)
  PROVE  SInv'
<1> USE DEF Arrive, threadVars, ownerVars, startVars
<1>1. UNCHANGED <<startVars, threadVars, ownerVars, m_hComm>> OBVIOUS
<1>2. CallsInOrder' /\ OneListenerPerPort'
  BY <1>1 DEF SInv, CallsInOrder, OneListenerPerPort, Alive
<1>3. BytesAreThere'
  <2>1. \A q \in Ports : waiting[q] <= waiting'[q] /\ waiting[q] \in Int
                         /\ waiting'[q] \in Int
    BY ListenThreadsAssumption DEF TypeOK
  <2>2. \A t \in Threads : left[t] \in Int /\ server[t] \in Ports
    BY ListenThreadsAssumption DEF TypeOK
  <2> QED BY <1>1, <2>1, <2>2 DEF SInv, BytesAreThere, Counting
<1> QED BY <1>2, <1>3 DEF SInv

(* The calls that have begun: a port is only purged before it is listened  *)
(* to, and closing it leaves the bytes where they are.                     *)
LEMMA OwnerGoesOnSInv ==
  ASSUME StartTypeOK, SInv, UNCHANGED startVars, OwnerGoesOn
  PROVE  SInv'
<1> USE DEF StartTypeOK, startVars, threadVars, portVars, Return, Forget
<1>1. CASE Configure
  <2>1. opc = "configure" /\ stage \in 2 .. 3
    BY <1>1 DEF Configure, SInv, CallsInOrder
  <2>2. \A t \in Threads : ~Alive(t) BY <2>1 DEF SInv, OneListenerPerPort
  <2>3. UNCHANGED threadVars /\ opc' = "idle" BY <1>1 DEF Configure
  <2>4. \A t \in Threads : ~Alive(t)' BY <2>2, <2>3 DEF Alive
  <2>5. OneListenerPerPort' /\ BytesAreThere'
    BY <2>4 DEF OneListenerPerPort, BytesAreThere, Alive, Counting
  <2> QED BY <2>3, <2>5 DEF SInv, CallsInOrder
<1>2. ~ConfigureFails /\ ~CloseEnd
  BY DEF ConfigureFails, CloseEnd, SInv, CallsInOrder
<1>3. CASE DestroyClose \/ DestroyDelete
  <2>1. UNCHANGED <<startVars, threadVars, waiting>> /\ opc' \in {"delete", "idle"}
    BY <1>3 DEF DestroyClose, DestroyDelete
  <2>2. \A p \in Ports : m_hComm'[p] = "open" => m_hComm[p] = "open"
    BY <1>3 DEF DestroyClose, DestroyDelete, TypeOK
  <2>3. \A t \in Threads : Counting(t)' => Counting(t)
    BY <2>1, <2>2 DEF Counting, TypeOK
  <2>4. BytesAreThere' BY <2>1, <2>3 DEF SInv, BytesAreThere
  <2>5. CallsInOrder' /\ OneListenerPerPort'
    BY <2>1 DEF SInv, CallsInOrder, OneListenerPerPort, Alive
  <2> QED BY <2>4, <2>5 DEF SInv
<1> QED BY <1>1, <1>2, <1>3 DEF OwnerGoesOn

(* The calls and the other steps of System_Tasks_Init.                     *)
LEMMA MainSInv ==
  ASSUME StartTypeOK, SInv,
         InitPorts \/ OpenListeners \/ Connect \/ AddObjects \/ CheckObjects \/ Exit
  PROVE  SInv'
<1> USE DEF StartTypeOK, portVars, threadVars, ownerVars, Call
<1>1. CASE InitPorts
  <2>1. /\ stage \in 1 .. 2 /\ stage' = stage + 1 /\ opc' = "configure"
        /\ UNCHANGED threadVars
    BY <1>1 DEF InitPorts, OpenPort
  <2>2. \A t \in Threads : ~Alive(t) BY <2>1 DEF SInv, OneListenerPerPort
  <2>3. \A t \in Threads : ~Alive(t)' BY <2>1, <2>2 DEF Alive
  <2>4. OneListenerPerPort' /\ BytesAreThere'
    BY <2>3 DEF OneListenerPerPort, BytesAreThere, Alive, Counting
  <2> QED BY <2>1, <2>4 DEF SInv, CallsInOrder
<1>2. CASE OpenListeners
  <2> DEFINE p == InOrder[stage - 2]
  <2>1. /\ stage \in 3 .. 4 /\ stage' = stage + 1
        /\ p = (IF stage = 3 THEN SerialPort ELSE SerialPort_Vision)
        /\ p \in Ports
    BY <1>2, InOrderPorts DEF OpenListeners
  <2> HIDE DEF p
  <2>2. opc' = "idle" /\ UNCHANGED portVars /\ OpenListenThread(p)
    BY <1>2 DEF OpenListeners, OpenListenThread, p
  <2>3. CallsInOrder' BY <2>2 DEF CallsInOrder
  <2>4. CASE UNCHANGED threadVars
    <3>1. OneListenerPerPort'
      BY <2>1, <2>4 DEF SInv, OneListenerPerPort, Alive
    <3>2. BytesAreThere' BY <2>2, <2>4 DEF SInv, BytesAreThere, Counting
    <3> QED BY <2>3, <3>1, <3>2 DEF SInv
  <2>5. ASSUME NEW t \in Threads, lpc[t] = "none", Go(t, "loop"), left' = left,
               server' = [server EXCEPT ![t] = p]
        PROVE  SInv'
    <3>1. lpc'[t] = "loop" /\ server'[t] = p
          /\ \A u \in Threads : u # t => lpc'[u] = lpc[u] /\ server'[u] = server[u]
      BY <2>5 DEF Go, TypeOK
    <3>2. \A u \in Threads : Alive(u) => server[u] # p
      BY <2>1, InOrderPorts DEF SInv, OneListenerPerPort
    <3>3. \A u \in Threads : u # t => (Alive(u)' <=> Alive(u))
      BY <3>1 DEF Alive
    <3>4. OneListenerPerPort'
      BY <2>1, <3>1, <3>2, <3>3 DEF SInv, OneListenerPerPort
    <3>5. BytesAreThere'
      BY <2>2, <2>5, <3>1 DEF SInv, BytesAreThere, Counting
    <3> QED BY <2>3, <3>4, <3>5 DEF SInv
  <2> QED BY <2>2, <2>4, <2>5 DEF OpenListenThread
<1>3. CASE Connect \/ AddObjects \/ CheckObjects
  <2>1. UNCHANGED vars /\ stage \in 5 .. 7 /\ stage' \in {6, 7, 8, 11}
        /\ opc # "configure"
    BY <1>3 DEF Connect, AddObjects, CheckObjects, SInv, CallsInOrder
  <2> QED
    BY <2>1
    DEF vars, SInv, CallsInOrder, OneListenerPerPort, BytesAreThere, Alive,
        Counting
<1>4. CASE Exit
  <2>1. /\ stage \in Exiting .. Exiting + 1 /\ stage' = stage + 1
        /\ opc' = "destroy"
        /\ UNCHANGED <<portVars, threadVars>>
    BY <1>4 DEF Exit, Destroy, CloseBegin
  <2> QED
    BY <2>1
    DEF SInv, CallsInOrder, OneListenerPerPort, BytesAreThere, Alive, Counting
<1> QED BY <1>1, <1>2, <1>3, <1>4

LEMMA NextSInv ==
  ASSUME ~ReadFails, StartTypeOK, SInv, [StartNext]_allVars
  PROVE  SInv'
<1>1. CASE UNCHANGED allVars
  <2>1. UNCHANGED vars /\ UNCHANGED stage BY <1>1 DEF allVars, startVars
  <2> QED
    BY <2>1
    DEF vars, portVars, threadVars, ownerVars, SInv, CallsInOrder,
        OneListenerPerPort, BytesAreThere, Alive, Counting
<1>2. CASE Others /\ UNCHANGED startVars
  BY <1>2, ListenerSInv, ArriveSInv DEF Others, StartTypeOK
<1>3. CASE OwnerGoesOn /\ UNCHANGED startVars BY <1>3, OwnerGoesOnSInv
<1> QED BY <1>1, <1>2, <1>3, MainSInv DEF StartNext, Main

(* As long as reads succeed, a listener that is in ReadFile has a byte to  *)
(* return with, at every point of start-up and of exit(0), whatever        *)
(* arrives: the CloseHandle of the destructor never waits for the PC.      *)
THEOREM StartupReadersHaveBytes == StartSpec => []ReadersHaveBytes
<1> DEFINE FedInv == ~ReadFails => SInv
<1>1. StartInit => FedInv BY InitSInv
<1>2. StartTypeOK /\ FedInv /\ [StartNext]_allVars => FedInv' BY NextSInv
<1>3. StartTypeOK /\ FedInv => ReadersHaveBytes
  BY SInvReaders DEF StartTypeOK, ReadersHaveBytes
<1> QED BY <1>1, <1>2, <1>3, StartupTypeOK, PTL DEF StartSpec
===============================================================================
