------------------------------- MODULE SerialPort -------------------------------
(***************************************************************************)
(* One CSerialPort (Usr/SerialPort) between the wire and its user: the     *)
(* listener thread counts the waiting bytes, reads as many, one ReadChar   *)
(* at a time, and calls back with the chunk; Task_Infantry writes through  *)
(* the same port in every control step.  Both hold the critical section    *)
(* m_csCommunicationSync while they are inside ReadFile or WriteFile, and  *)
(* the port has no time-outs, so a ReadFile that finds no byte waits for   *)
(* one, with the critical section held.                                    *)
(*                                                                         *)
(* Bytes are known by their number, counted from 1 in the order of the     *)
(* wire; a pack is PackLen bytes, the first of them SOF (0x33), and the    *)
(* payload may hold the same value (Alias).  The PC only sends whole       *)
(* packs, but a chunk begins and ends wherever the count happened to be.   *)
(***************************************************************************)
EXTENDS Integers, Sequences

CONSTANTS
  PackLen,     \* sizeof(PC_RX_DataPack_Typedef), 17 in vision.h
  Alias,       \* the places in a pack, 1 .. PackLen - 1, whose value is 0x33
  MaxBytes,    \* bound: the bytes the PC sends
  ReadFails,   \* whether ReadFile may fail
  WriteFails   \* whether WriteFile may fail

ASSUME SerialPortAssumption ==
  /\ PackLen \in Nat \ {0}
  /\ MaxBytes \in Nat
  /\ Alias \subseteq 1 .. PackLen - 1
  /\ ReadFails \in BOOLEAN
  /\ WriteFails \in BOOLEAN

VARIABLES
  arrived,    \* the bytes that have reached the driver's input buffer
  head,       \* the first byte in it that was neither read nor purged
  purged,     \* the bytes PurgeComm has thrown away
  delivered,  \* the bytes handed to the callback
  lock,       \* who holds m_csCommunicationSync
  lpc,        \* where the listener is
  left,       \* BytesInQue, counted down
  chunk,      \* Recved: the bytes read so far
  captured,   \* the chunk dataCapture accepted last
  wpc         \* where Task_Infantry is in WriteData

wireVars == <<arrived, head>>
vars == <<arrived, head, purged, delivered, lock, lpc, left, chunk, captured,
          wpc>>

Waiting == arrived - head + 1                     \* COMSTAT.cbInQue

IsSof(b) == (b - 1) % PackLen \in {0} \cup Alias

(* PURGE_RXCLEAR: the input buffer is emptied.                             *)
Purge ==
  /\ purged' = purged + Waiting
  /\ head' = arrived + 1

-------------------------------------------------------------------------------
Init ==
  /\ arrived = 0
  /\ head = 1
  /\ purged = 0
  /\ delivered = 0
  /\ lock = "free"
  /\ lpc = "count"
  /\ left = 0
  /\ chunk = << >>
  /\ captured = << >>
  /\ wpc = "idle"

(* A byte comes in from the PC.                                            *)
Arrive ==
  /\ arrived < MaxBytes
  /\ arrived' = arrived + 1
  /\ UNCHANGED <<head, purged, delivered, lock, lpc, left, chunk, captured,
                 wpc>>

(* Mutant of Count: one byte too many.                                     *)
CountOneMore ==
  /\ lpc = "count"
  /\ Waiting > 0
  /\ left' = Waiting + 1
  /\ chunk' = << >>
  /\ lpc' = "char"
  /\ UNCHANGED <<wireVars, purged, delivered, lock, captured, wpc>>

(* ListenThread: GetBytesInCOM, without the critical section.  With        *)
(* nothing to read the thread sleeps and looks again.                      *)
Count ==
  /\ lpc = "count"
  /\ Waiting > 0
  /\ left' = Waiting
  /\ chunk' = << >>
  /\ lpc' = "char"
  /\ UNCHANGED <<wireVars, purged, delivered, lock, captured, wpc>>

(* ReadChar enters the critical section and calls ReadFile.                *)
ReadEnter ==
  /\ lpc = "char"
  /\ lock = "free"
  /\ lock' = "listener"
  /\ lpc' = "read"
  /\ UNCHANGED <<wireVars, purged, delivered, left, chunk, captured, wpc>>

(* Mutant of NextChar: while (BytesInQue--)                                *)
NextCharPostDecrement ==
  /\ lock' = "free"
  /\ left' = left - 1
  /\ lpc' = IF left = 0 THEN "call" ELSE "char"

(* while (--BytesInQue)                                                    *)
NextChar ==
  /\ lock' = "free"
  /\ left' = left - 1
  /\ lpc' = IF left' = 0 THEN "call" ELSE "char"

(* ReadFile returns with a byte, as soon as there is one.                  *)
ReadByte ==
  /\ lpc = "read"
  /\ Waiting > 0
  /\ chunk' = Append(chunk, head)
  /\ head' = head + 1
  /\ NextChar
  /\ UNCHANGED <<arrived, purged, delivered, captured, wpc>>

(* Mutant of ReadError: the failure counts as a byte (the 0x00 preset).    *)
ReadErrorCounts ==
  /\ ReadFails
  /\ lpc = "read"
  /\ chunk' = Append(chunk, 0)
  /\ Purge
  /\ NextChar
  /\ UNCHANGED <<arrived, delivered, captured, wpc>>

(* It fails: the input is purged and the chunk is one byte short.          *)
ReadError ==
  /\ ReadFails
  /\ lpc = "read"
  /\ Purge
  /\ NextChar
  /\ UNCHANGED <<arrived, delivered, chunk, captured, wpc>>

(* Mutant of Call: SOF is not looked at.                                   *)
CallAnyStart ==
  /\ lpc = "call"
  /\ captured' = IF Len(chunk) >= PackLen
                   THEN SubSeq(chunk, 1, PackLen) ELSE captured
  /\ delivered' = delivered + Len(chunk)
  /\ lpc' = "count"
  /\ chunk' = << >>
  /\ UNCHANGED <<wireVars, purged, lock, left, wpc>>

(* VisionSerial_RxCpltCallback and dataCapture: a chunk of at least one    *)
(* pack that begins with SOF is taken, its first PackLen bytes are copied. *)
Call ==
  /\ lpc = "call"
  /\ captured' = IF Len(chunk) >= PackLen /\ IsSof(chunk[1])
                   THEN SubSeq(chunk, 1, PackLen) ELSE captured
  /\ delivered' = delivered + Len(chunk)
  /\ lpc' = "count"
  /\ chunk' = << >>
  /\ UNCHANGED <<wireVars, purged, lock, left, wpc>>

Listener == Count \/ ReadEnter \/ ReadByte \/ ReadError \/ Call

(* Task_Infantry: BuffSend, hence WriteData.                               *)
WriteCall ==
  /\ wpc = "idle"
  /\ wpc' = "enter"
  /\ UNCHANGED <<wireVars, purged, delivered, lock, lpc, left, chunk, captured>>

WriteEnter ==
  /\ wpc = "enter"
  /\ lock = "free"
  /\ lock' = "writer"
  /\ wpc' = "write"
  /\ UNCHANGED <<wireVars, purged, delivered, lpc, left, chunk, captured>>

(* Mutant of WriteDone: LeaveCriticalSection is missing.                   *)
WriteDoneKeepsLock ==
  /\ wpc = "write"
  /\ wpc' = "idle"
  /\ UNCHANGED <<wireVars, purged, delivered, lock, lpc, left, chunk, captured>>

(* WriteFile is over.  If it failed, the bytes received are thrown away.   *)
WriteDone ==
  /\ wpc = "write"
  /\ \/ UNCHANGED <<head, purged>>
     \/ WriteFails /\ Purge
  /\ lock' = "free"
  /\ wpc' = "idle"
  /\ UNCHANGED <<arrived, delivered, lpc, left, chunk, captured>>

Writer == WriteCall \/ WriteEnter \/ WriteDone

Next == Arrive \/ Listener \/ Writer

Spec == Init /\ [][Next]_vars

(* Both threads run; a thread that waits for a critical section gets it    *)
(* although the other one enters it again and again.  Nothing makes the PC *)
(* send, and nothing makes a ReadFile that waits for a byte fail.          *)
FairSpec ==
  /\ Spec
  /\ WF_vars(Count \/ ReadByte \/ Call)
  /\ SF_vars(ReadEnter)
  /\ WF_vars(WriteDone)
  /\ SF_vars(WriteEnter)

-------------------------------------------------------------------------------
(* Types. *)
TypeOK ==
  /\ arrived \in Nat
  /\ head \in 1 .. arrived + 1
  /\ purged \in Nat
  /\ delivered \in Nat
  /\ lock \in {"free", "listener", "writer"}
  /\ lpc \in {"count", "char", "read", "call"}
  /\ left \in Nat
  /\ chunk \in Seq(1 .. head - 1)
  /\ captured \in Seq(1 .. head - 1)
  /\ wpc \in {"idle", "enter", "write"}

(* Every byte the driver has passed on was handed to the callback, is in   *)
(* the chunk, or fell to a purge: the two threads neither lose nor double  *)
(* a byte in any other way, and a failed read never adds one.              *)
Accounted == delivered + Len(chunk) + purged = head - 1

(* Unless something was purged, the listener never waits for a byte inside *)
(* the critical section: what it counted without the lock is still there   *)
(* when it reads, whatever the writer does and however calls fail.         *)
Starved == lpc = "read" /\ Waiting = 0

NeverStarved == Starved => purged > 0

(* Until something is purged, what dataCapture takes is PackLen bytes in a *)
(* row that begin with 0x33, whatever the places at which the stream was   *)
(* cut into chunks.                                                        *)
CapturedInARow ==
  purged = 0 /\ captured # << >> =>
    /\ Len(captured) = PackLen
    /\ IsSof(captured[1])
    /\ \A k \in 1 .. PackLen : captured[k] = captured[1] + k - 1

(* A write of Task_Infantry always comes back, unless a purge has taken    *)
(* from the listener the bytes it had counted and the PC sends no more:    *)
(* then the listener sits in ReadFile with the critical section, and the   *)
(* control task waits.                                                     *)
WriteHangsOnlyBehindPurge ==
  (wpc = "enter") ~> (wpc = "idle" \/ (Starved /\ purged > 0))
===============================================================================
