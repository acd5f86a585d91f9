---------------------------- MODULE DaemonProofs ----------------------------
(***************************************************************************)
(* Theorems about Daemon, for any number of requests.                      *)
(***************************************************************************)
EXTENDS Daemon, TLAPS

USE DEF Errors, Running

(* Why the context was cancelled: a signal, or the first error, which then *)
(* is that of a member that failed, since the shutdown goroutine starts    *)
(* after the cancellation only.                                            *)
Causes ==
  /\ cancelled => signalled \/ err \in {"interface", "control"}
  /\ shutdown \in {"draining", "done", "expired"} => cancelled
  /\ err = "closed" => signalled

(* What the goroutines leave behind when they return.                      *)
Returns ==
  /\ iface = "stopped" => device = "closed"
  /\ control = "returned" => err # NoError
  /\ ~Running => BothReturned

IInv == TypeOK /\ Causes /\ Returns /\ main # "clean"

LEMMA InitIInv == Init => IInv
  BY NoErrorIsNoError DEF Init, IInv, TypeOK, Causes, Returns

LEMMA InterfaceStep == IInv /\ Interface => IInv'
  <1> SUFFICES ASSUME IInv, Interface PROVE IInv'
    OBVIOUS
  <1> USE NoErrorIsNoError DEF IInv, TypeOK, Causes, Returns, BothReturned, InterfaceReturned
  <1>1. CASE CreateDevice
    BY <1>1 DEF CreateDevice
  <1>2. CASE InterfaceFails
    BY <1>2 DEF InterfaceFails, ReturnError, GroupError
  <1>3. CASE InterfaceReady
    BY <1>3 DEF InterfaceReady
  <1>4. CASE CloseDevice
    BY <1>4 DEF CloseDevice
  <1>5. CASE LinkUp
    BY <1>5 DEF LinkUp
  <1> QED
    BY <1>1, <1>2, <1>3, <1>4, <1>5 DEF Interface

LEMMA ControlStep == IInv /\ Control => IInv'
  <1> SUFFICES ASSUME IInv, Control PROVE IInv'
    OBVIOUS
  <1> USE NoErrorIsNoError DEF IInv, TypeOK, Causes, Returns, BothReturned, InterfaceReturned
  <1>1. CASE ControlFails
    BY <1>1 DEF ControlFails, ReturnError, GroupError
  <1>2. CASE Configure
    BY <1>2 DEF Configure
  <1>3. CASE Listen
    BY <1>3 DEF Listen
  <1>4. CASE ServerClosed
    BY <1>4 DEF ServerClosed, ReturnError, GroupError
  <1> QED
    BY <1>1, <1>2, <1>3, <1>4 DEF Control

LEMMA Step == IInv /\ [Next]_vars => IInv'
  <1> SUFFICES ASSUME IInv, [Next]_vars PROVE IInv'
    OBVIOUS
  <1> USE NoErrorIsNoError DEF IInv, TypeOK, Causes, Returns, BothReturned, InterfaceReturned
  <1>1. CASE Signal
    BY <1>1 DEF Signal
  <1>2. CASE Shutdown
    BY <1>2 DEF Shutdown, StartShutdown, FinishShutdown
  <1>3. CASE \E r \in Requests : RequestArrives(r) \/ RequestAnswered(r)
    BY <1>3 DEF RequestArrives, RequestAnswered
  <1>4. CASE Exit
    <2>1. main' = "failed"
      BY <1>4 DEF Exit
    <2>2. request' \in [Requests -> {"none", "running", "answered", "cut"}]
      BY <1>4 DEF Exit
    <2> QED
      BY <1>4, <2>1, <2>2 DEF Exit
  <1>5. CASE UNCHANGED vars
    BY <1>5 DEF vars
  <1> QED
    BY <1>1, <1>2, <1>3, <1>4, <1>5, InterfaceStep, ControlStep DEF Next

LEMMA Inductive == Spec => []IInv
  BY InitIInv, Step, PTL DEF Spec

(* Goroutines, device and requests keep their types (main.go:59-92).       *)
THEOREM TypeCorrect == Spec => []TypeOK
  <1>1. IInv => TypeOK
    BY DEF IInv
  <1> QED
    BY Inductive, <1>1, PTL

(* The process does not end before an interface goroutine that succeeds    *)
(* has closed its device (main.go:72-81, 89).                              *)
THEOREM DeviceClosed == Spec => []ClosedUnlessFailed
  <1>1. IInv => ClosedUnlessFailed
    BY DEF IInv, Returns, BothReturned, InterfaceReturned, ClosedUnlessFailed
  <1> QED
    BY Inductive, <1>1, PTL

(* Without a signal the daemon ends over the failure that it reports       *)
(* (main.go:89-91).                                                        *)
THEOREM CauseFound == Spec => []CauseReported
  <1>1. IInv => CauseReported
    BY DEF IInv, TypeOK, Causes, Returns, BothReturned, InterfaceReturned, CauseReported
  <1> QED
    BY Inductive, <1>1, PTL

(* In server mode "daemon exited cleanly" is never reached: the control    *)
(* server's goroutine returns no other way than with an error, if only     *)
(* http.ErrServerClosed (main.go:89-92).                                   *)
THEOREM NeverClean == Spec => [](main # "clean")
  <1>1. IInv => main # "clean"
    BY DEF IInv
  <1> QED
    BY Inductive, <1>1, PTL
=============================================================================
