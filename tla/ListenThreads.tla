----------------------------- MODULE ListenThreads -----------------------------
(***************************************************************************)
(* The life cycle of CSerialPort (Usr/SerialPort): opening the port,       *)
(* starting and stopping its listener, and the destructor, called by one   *)
(* owner thread on several ports.  The listeners are Windows threads.      *)
(* s_bExit, which tells a listener to stop, is a static member: there is   *)
(* one for all ports.  CloseListenTread() sets it and sleeps 10 ms, which  *)
(* waits for nobody; the destructor then closes the device and deletes the *)
(* critical section, whatever the listener is doing.                       *)
(*                                                                         *)
(* Of the bytes only their number counts here: how many wait in the        *)
(* driver, and how many ReadChar() calls the listener has still to make.   *)
(***************************************************************************)
EXTENDS Integers, FiniteSets

CONSTANTS
  Ports,        \* the CSerialPort objects
  MaxThreads,   \* bound: threads started
  MaxBytes,     \* bound: bytes that wait in one driver
  OpenFails,    \* whether CreateFile and _beginthreadex may fail
  ReadFails     \* whether ReadFile may fail on an open port

ASSUME ListenThreadsAssumption ==
  /\ MaxThreads \in Nat
  /\ MaxBytes \in Nat
  /\ OpenFails \in BOOLEAN
  /\ ReadFails \in BOOLEAN

InvalidHandle == -1                  \* INVALID_HANDLE_VALUE
NoThread == 0                        \* what _beginthreadex returns on failure
Threads == 1 .. MaxThreads
Free == 0                            \* a critical section without an owner
Deleted == -1                        \* one that is gone
Owner == -2                          \* and one the owner has kept

VARIABLES
  s_bExit,
  m_hComm,           \* per port: "invalid", "open", or "lost": invalid while
                     \* a forgotten handle keeps the device open
  m_hListenThread,   \* per port: InvalidHandle, NoThread or a thread
  cs,                \* per port: Free, Deleted, Owner or a thread
  waiting,           \* per port: the bytes in the driver's input buffer
  server,            \* per thread: the port it listens to
  lpc,               \* per thread: where it is in ListenThread()
  left,              \* per thread: BytesInQue, counted down
  opc,               \* the owner: "idle", or the call it is in
  oport              \* and the port of that call

portVars == <<m_hComm, waiting>>
threadVars == <<server, lpc, left>>
ownerVars == <<opc, oport>>
vars == <<s_bExit, portVars, m_hListenThread, cs, threadVars, ownerVars>>

Listeners(p) == {t \in Threads : server[t] = p /\ lpc[t] \notin {"none", "done"}}

-------------------------------------------------------------------------------
Init ==
  /\ s_bExit = FALSE
  /\ m_hComm = [p \in Ports |-> "invalid"]
  /\ m_hListenThread = [p \in Ports |-> InvalidHandle]
  /\ cs = [p \in Ports |-> Free]
  /\ waiting = [p \in Ports |-> 0]
  /\ oport \in Ports
  /\ server = [t \in Threads |-> oport]
  /\ lpc = [t \in Threads |-> "none"]
  /\ left = [t \in Threads |-> 0]
  /\ opc = "idle"

(* The PC sends.                                                           *)
Arrive(p) ==
  /\ m_hComm[p] = "open"
  /\ waiting[p] < MaxBytes
  /\ waiting' = [waiting EXCEPT ![p] = @ + 1]
  /\ UNCHANGED <<s_bExit, m_hComm, m_hListenThread, cs, threadVars, ownerVars>>

(***************************************************************************)
(* The listener.                                                           *)
(***************************************************************************)
Go(t, where) == lpc' = [lpc EXCEPT ![t] = where]

(* GetBytesInCOM: nothing without an open port.                            *)
BytesInCOM(p) == IF m_hComm[p] = "open" THEN waiting[p] ELSE 0

(* Mutant of Told: only an idle listener looks at the flag.                *)
ToldWhenIdle(t) == s_bExit /\ BytesInCOM(server[t]) = 0

Told(t) == s_bExit

(* The head of the loop.  With nothing to read the thread sleeps and comes *)
(* back; there is no other step then.                                      *)
Loop(t) ==
  /\ lpc[t] = "loop"
  /\ \/ Told(t) /\ Go(t, "done") /\ left' = left
     \/ /\ ~Told(t)
        /\ BytesInCOM(server[t]) > 0
        /\ left' = [left EXCEPT ![t] = BytesInCOM(server[t])]
        /\ Go(t, "char")
  /\ UNCHANGED <<s_bExit, portVars, m_hListenThread, cs, server, ownerVars>>

(* Mutant of CharDone: one turn too many.                                  *)
CharDoneLate(t) ==
  /\ left' = [left EXCEPT ![t] = @ - 1]
  /\ Go(t, IF left[t] = 0 THEN "loop" ELSE "char")

(* while (--BytesInQue); then the callback and the next turn.              *)
CharDone(t) ==
  /\ left' = [left EXCEPT ![t] = @ - 1]
  /\ Go(t, IF left[t] = 1 THEN "loop" ELSE "char")

(* ReadChar on a closed port: false.                                       *)
CharClosed(t) ==
  /\ lpc[t] = "char"
  /\ m_hComm[server[t]] # "open"
  /\ CharDone(t)
  /\ UNCHANGED <<s_bExit, portVars, m_hListenThread, cs, server, ownerVars>>

CharOpen(t) ==
  /\ lpc[t] = "char"
  /\ m_hComm[server[t]] = "open"
  /\ Go(t, "enter")
  /\ UNCHANGED <<s_bExit, portVars, m_hListenThread, cs, server, left,
                 ownerVars>>

(* To enter a section that is gone is undefined: it may go through, it may *)
(* never return.                                                           *)
Enter(t) ==
  /\ lpc[t] = "enter"
  /\ \/ cs[server[t]] = Free /\ cs' = [cs EXCEPT ![server[t]] = t]
     \/ cs[server[t]] = Deleted /\ cs' = cs
  /\ Go(t, "read")
  /\ UNCHANGED <<s_bExit, portVars, m_hListenThread, server, left, ownerVars>>

(* ReadFile returns with a byte, or fails and the input is purged; while   *)
(* no byte waits it may only fail.                                         *)
Read(t) ==
  LET p == server[t] IN
  /\ lpc[t] = "read"
  /\ \/ waiting[p] > 0 /\ waiting' = [waiting EXCEPT ![p] = @ - 1]
     \/ (ReadFails \/ m_hComm[p] # "open") /\ waiting' = [waiting EXCEPT ![p] = 0]
  /\ cs' = [cs EXCEPT ![p] = IF @ = t THEN Free ELSE @]
  /\ CharDone(t)
  /\ UNCHANGED <<s_bExit, m_hComm, m_hListenThread, server, ownerVars>>

Listener(t) == Loop(t) \/ CharClosed(t) \/ CharOpen(t) \/ Enter(t) \/ Read(t)

(***************************************************************************)
(* The owner.                                                              *)
(***************************************************************************)
Call(op, p) ==
  /\ opc = "idle"
  /\ cs[p] # Deleted
  /\ opc' = op
  /\ oport' = p

Return == opc' = "idle" /\ oport' = oport

(* Critical sections are recursive: the owner enters its own again.        *)
OwnerMayEnter(p) == cs[p] \in {Free, Owner}

(* InitPort: openPort takes the critical section, opens the device and     *)
(* keeps whatever CreateFile returned.  The device is not shared: a second *)
(* CreateFile fails while the first handle is open.                        *)
OpenPort(init, p) ==
  /\ Call(init, p)
  /\ OwnerMayEnter(p)
  /\ \/ m_hComm[p] # "invalid" /\ m_hComm' = [m_hComm EXCEPT ![p] = "lost"]
     \/ m_hComm[p] = "invalid" /\ m_hComm' = [m_hComm EXCEPT ![p] = "open"]
     \/ m_hComm[p] = "invalid" /\ OpenFails /\ m_hComm' = m_hComm
  /\ UNCHANGED <<s_bExit, waiting, m_hListenThread, cs, threadVars>>

(* The rest of InitPort, in the critical section: time-outs, state, purge. *)
Configure ==
  /\ opc \in {"configure", "setDCB"}
  /\ \/ m_hComm[oport] # "open" /\ waiting' = waiting
     \/ /\ m_hComm[oport] = "open"
        /\ OwnerMayEnter(oport)
        /\ waiting' = [waiting EXCEPT ![oport] = 0]
  /\ Return
  /\ UNCHANGED <<s_bExit, m_hComm, m_hListenThread, cs, threadVars>>

(* InitPort(portNo, plDCB), when SetCommState fails: it returns from the   *)
(* middle of the critical section.                                         *)
ConfigureFails ==
  /\ opc = "setDCB"
  /\ OpenFails
  /\ m_hComm[oport] = "open"
  /\ OwnerMayEnter(oport)
  /\ cs' = [cs EXCEPT ![oport] = Owner]
  /\ Return
  /\ UNCHANGED <<s_bExit, portVars, m_hListenThread, threadVars>>

(* OpenListenThread, refused: a handle is there.                           *)
OpenRefused(p) ==
  /\ Call("idle", p)
  /\ m_hListenThread[p] # InvalidHandle
  /\ UNCHANGED <<s_bExit, portVars, m_hListenThread, cs, threadVars>>

(* OpenListenThread: s_bExit is cleared, and a thread started if it can.   *)
OpenListenThread(p) ==
  /\ Call("idle", p)
  /\ m_hListenThread[p] = InvalidHandle
  /\ s_bExit' = FALSE
  /\ \/ /\ OpenFails
        /\ m_hListenThread' = [m_hListenThread EXCEPT ![p] = NoThread]
        /\ UNCHANGED threadVars
     \/ \E t \in Threads :
          /\ lpc[t] = "none"
          /\ \A u \in Threads : u < t => lpc[u] # "none"
          /\ m_hListenThread' = [m_hListenThread EXCEPT ![p] = t]
          /\ server' = [server EXCEPT ![t] = p]
          /\ Go(t, "loop")
          /\ left' = left
  /\ UNCHANGED <<portVars, cs>>

(* CloseListenTread, up to its Sleep(10); without a handle it does nothing.*)
CloseBegin(op, p) ==
  /\ Call(op, p)
  /\ s_bExit' = (s_bExit \/ m_hListenThread[p] # InvalidHandle)
  /\ UNCHANGED <<portVars, m_hListenThread, cs, threadVars>>

CloseListenTread(p) == CloseBegin("close", p)
Destroy(p) == CloseBegin("destroy", p)

Forget == m_hListenThread' = [m_hListenThread EXCEPT ![oport] = InvalidHandle]

(* Sleep(10) is over, wherever the listener is by then.                    *)
CloseEnd ==
  /\ opc = "close"
  /\ Forget
  /\ Return
  /\ UNCHANGED <<s_bExit, portVars, cs, threadVars>>

(* ~CSerialPort, after the same sleep: ClosePort, which does not enter the *)
(* critical section, so that a ReadFile may be pending on the handle.      *)
DestroyClose ==
  /\ opc = "destroy"
  /\ Forget
  /\ m_hComm' = [m_hComm EXCEPT ![oport] = IF @ = "lost" THEN @ ELSE "invalid"]
  /\ opc' = "delete"
  /\ UNCHANGED <<s_bExit, waiting, cs, threadVars, oport>>

DestroyDelete ==
  /\ opc = "delete"
  /\ cs' = [cs EXCEPT ![oport] = Deleted]
  /\ Return
  /\ UNCHANGED <<s_bExit, portVars, m_hListenThread, threadVars>>

OwnerGoesOn ==
  Configure \/ ConfigureFails \/ CloseEnd \/ DestroyClose \/ DestroyDelete

OwnerCalls(p) ==
  \/ OpenPort("configure", p) \/ OpenPort("setDCB", p) \/ OpenRefused(p) \/ OpenListenThread(p)
  \/ CloseListenTread(p) \/ Destroy(p)

Others == (\E t \in Threads : Listener(t)) \/ (\E p \in Ports : Arrive(p))

(* An owner that calls whatever the class offers, in any order.            *)
Next == OwnerGoesOn \/ (\E p \in Ports : OwnerCalls(p)) \/ Others

Spec == Init /\ [][Next]_vars

(* The handle is synchronous: CloseHandle may wait until the ReadFile that *)
(* is pending on it returns.                                               *)
ClosePending == opc = "destroy" /\ \E t \in Listeners(oport) : lpc[t] = "read"

Runs(t) ==
  Loop(t) \/ CharClosed(t) \/ CharOpen(t) \/ (waiting[server[t]] > 0 /\ Read(t))

(* Windows runs every thread that can run; a call that has begun goes on,  *)
(* unless it closes a handle that is being read.                           *)
FairSpec ==
  /\ Spec
  /\ WF_vars(~ClosePending /\ OwnerGoesOn)
  /\ \A t \in Threads : WF_vars(Runs(t))
  /\ \A t \in Threads : SF_vars(cs[server[t]] = Free /\ Enter(t))

-------------------------------------------------------------------------------
(* Types; a turn of the read loop has a count left, so that --BytesInQue   *)
(* never wraps; and a listener in ReadFile holds its critical section,     *)
(* unless that has been deleted.                                           *)
TypeOK ==
  /\ s_bExit \in BOOLEAN
  /\ m_hComm \in [Ports -> {"invalid", "open", "lost"}]
  /\ m_hListenThread \in [Ports -> {InvalidHandle, NoThread} \cup Threads]
  /\ cs \in [Ports -> {Free, Deleted, Owner} \cup Threads]
  /\ waiting \in [Ports -> 0 .. MaxBytes]
  /\ server \in [Threads -> Ports]
  /\ lpc \in [Threads -> {"none", "loop", "char", "enter", "read", "done"}]
  /\ left \in [Threads -> 0 .. MaxBytes]
  /\ opc \in {"idle", "configure", "setDCB", "close", "destroy", "delete"}
  /\ oport \in Ports
  /\ \A t \in Threads :
       /\ lpc[t] \in {"char", "enter", "read"} => left[t] > 0
       /\ lpc[t] = "read" => cs[server[t]] \in {t, Deleted}

(* A listener that cannot go on by itself: in ReadFile without a byte, or  *)
(* before a critical section that another one holds or that is gone.       *)
Stuck(t) ==
  \/ lpc[t] = "read" /\ waiting[server[t]] = 0
  \/ lpc[t] = "enter" /\ cs[server[t]] # Free

(* Once the flag is set for good, every listener ends, or is one that      *)
(* nothing but a byte or the holder of the critical section can move.      *)
StopHeard ==
  <>[]s_bExit => <>[](\A p \in Ports : \A t \in Listeners(p) : Stuck(t))

(* SerialPort.h:70 says OpenListenThread() returns false "when the thread  *)
(* is already open" (SerialPort.cpp:196): a refusal means a listener.      *)
RefusedMeansListening ==
  [][\A p \in Ports : OpenRefused(p) => Listeners(p) # {}]_vars
===============================================================================
