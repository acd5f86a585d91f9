------------------------------- MODULE Daemon -------------------------------
(***************************************************************************)
(* cmd/gdimd/main.go in server mode, with server/initializeInterface.go    *)
(* and server/initializeControlServ.go: how the daemon starts, and how it  *)
(* ends.                                                                   *)
(*                                                                         *)
(* An errgroup runs two goroutines with one context.  The first brings up  *)
(* the WireGuard interface, waits for the context and closes the device.   *)
(* The second serves HTTP; it starts a third one, which waits for the      *)
(* context and shuts the HTTP server down.  A signal, or the first error   *)
(* of the group, cancels the context; the main goroutine ends the process  *)
(* when both members of the group have returned.                           *)
(***************************************************************************)

CONSTANTS
  Requests,     \* HTTP requests that may arrive
  NoError       \* err = nil

ASSUME NoErrorIsNoError == NoError \notin {"interface", "control", "closed"}

VARIABLES
  signalled,    \* SIGINT or SIGTERM has arrived
  cancelled,    \* ctx.Done() is closed
  iface,        \* the interface goroutine
  device,       \* the WireGuard device
  control,      \* the control server goroutine
  shutdown,     \* the goroutine that calls srv.Shutdown
  request,      \* each HTTP request
  err,          \* the error that g.Wait() will return
  main          \* "waiting", or how the process has ended

vars == <<signalled, cancelled, iface, device, control, shutdown, request, err, main>>

Errors == {"interface", "control", "closed"}
Running == main = "waiting"

(* Fault: the latest error replaces the first.                             *)
LastError(e) == e

(* Fault: the group's error is the context's.                              *)
ContextError(e) == "canceled"

(* errgroup keeps the first error of the group ...                         *)
GroupError(e) == IF err = NoError THEN e ELSE err

(* Fault: the group was made without a context to cancel.                  *)
ReturnErrorOnly(e) ==
  /\ err' = GroupError(e)
  /\ UNCHANGED cancelled

(* ... and cancels the context.                                            *)
ReturnError(e) ==
  /\ err' = GroupError(e)
  /\ cancelled' = TRUE

Init ==
  /\ signalled = FALSE
  /\ cancelled = FALSE
  /\ iface = "starting"
  /\ device = "none"
  /\ control = "starting"
  /\ shutdown = "none"
  /\ request = [r \in Requests |-> "none"]
  /\ err = NoError
  /\ main = "waiting"

Signal ==
  /\ Running
  /\ signalled' = TRUE
  /\ cancelled' = TRUE
  /\ UNCHANGED <<iface, device, control, shutdown, request, err, main>>

---------------------------------------------------------------------------
(* The interface goroutine.  InitializeInterface does not look at the      *)
(* context.                                                                *)

CreateDevice ==
  /\ Running /\ iface = "starting" /\ device = "none"
  /\ device' = "created"
  /\ UNCHANGED <<signalled, cancelled, iface, control, shutdown, request, err, main>>

(* The link is set up before the MTU, the route, the database and the      *)
(* peers.                                                                  *)
LinkUp ==
  /\ Running /\ iface = "starting" /\ device = "created"
  /\ device' = "up"
  /\ UNCHANGED <<signalled, cancelled, iface, control, shutdown, request, err, main>>

(* Any of the steps fails: the goroutine returns the error and the device  *)
(* stays as it is, since only the caller of a success gets it to close.    *)
InterfaceFails ==
  /\ Running /\ iface = "starting"
  /\ iface' = "failed"
  /\ ReturnError("interface")
  /\ UNCHANGED <<signalled, device, control, shutdown, request, main>>

InterfaceReady ==
  /\ Running /\ iface = "starting" /\ device = "up"
  /\ iface' = "running"
  /\ UNCHANGED <<signalled, cancelled, device, control, shutdown, request, err, main>>

CloseDevice ==
  /\ Running /\ iface = "running" /\ cancelled
  /\ iface' = "stopped"
  /\ device' = "closed"
  /\ UNCHANGED <<signalled, cancelled, control, shutdown, request, err, main>>

---------------------------------------------------------------------------
(* The control server.                                                     *)

(* The certificates cannot be loaded, the port is taken, or Accept fails   *)
(* for another reason than the shutdown.                                   *)
ControlFails ==
  /\ Running
  /\ \/ control \in {"starting", "configured"}
     \/ control = "serving" /\ shutdown = "waiting"
  /\ control' = "returned"
  /\ ReturnError("control")
  /\ UNCHANGED <<signalled, iface, device, shutdown, request, main>>

(* The server is set up and the shutdown goroutine started.                *)
Configure ==
  /\ Running /\ control = "starting"
  /\ control' = "configured"
  /\ shutdown' = "waiting"
  /\ UNCHANGED <<signalled, cancelled, iface, device, request, err, main>>

Listen ==
  /\ Running /\ control = "configured" /\ shutdown = "waiting"
  /\ control' = "serving"
  /\ UNCHANGED <<signalled, cancelled, iface, device, shutdown, request, err, main>>

(* From the moment Shutdown is called ListenAndServeTLS returns            *)
(* http.ErrServerClosed, without waiting for Shutdown to return.           *)
ServerClosed ==
  /\ Running /\ control \in {"configured", "serving"} /\ shutdown \in {"draining", "done", "expired"}
  /\ control' = "returned"
  /\ ReturnError("closed")
  /\ UNCHANGED <<signalled, iface, device, shutdown, request, main>>

RequestArrives(r) ==
  /\ Running /\ control = "serving" /\ shutdown = "waiting"
  /\ request[r] = "none"
  /\ request' = [request EXCEPT ![r] = "running"]
  /\ UNCHANGED <<signalled, cancelled, iface, device, control, shutdown, err, main>>

RequestAnswered(r) ==
  /\ Running /\ request[r] = "running"
  /\ request' = [request EXCEPT ![r] = "answered"]
  /\ UNCHANGED <<signalled, cancelled, iface, device, control, shutdown, err, main>>

StartShutdown ==
  /\ Running /\ shutdown = "waiting" /\ cancelled
  /\ shutdown' = "draining"
  /\ UNCHANGED <<signalled, cancelled, iface, device, control, request, err, main>>

(* Shutdown returns when no request is running, or after five seconds.     *)
FinishShutdown ==
  /\ Running /\ shutdown = "draining"
  /\ shutdown' = IF \E r \in Requests : request[r] = "running" THEN "expired" ELSE "done"
  /\ UNCHANGED <<signalled, cancelled, iface, device, control, request, err, main>>

---------------------------------------------------------------------------

InterfaceReturned == iface \in {"failed", "stopped"}

(* Fault: the first error ends the wait.                                   *)
OneReturned == InterfaceReturned \/ control = "returned"

(* g.Wait() waits for both members; the shutdown goroutine is not one.     *)
BothReturned == InterfaceReturned /\ control = "returned"

(* log.Fatalf or the end of main: the process ends with every goroutine.   *)
Exit ==
  /\ Running
  /\ BothReturned
  /\ main' = IF err = NoError THEN "clean" ELSE "failed"
  /\ request' = [r \in Requests |-> IF request[r] = "running" THEN "cut" ELSE request[r]]
  /\ UNCHANGED <<signalled, cancelled, iface, device, control, shutdown, err>>

Interface == CreateDevice \/ LinkUp \/ InterfaceFails \/ InterfaceReady \/ CloseDevice
Control == ControlFails \/ Configure \/ Listen \/ ServerClosed
Shutdown == StartShutdown \/ FinishShutdown

Next ==
  \/ Signal
  \/ Interface \/ Control \/ Shutdown
  \/ \E r \in Requests : RequestArrives(r) \/ RequestAnswered(r)
  \/ Exit

Spec == Init /\ [][Next]_vars

(* Every goroutine is scheduled, and InitializeInterface returns: the      *)
(* database has two seconds to answer a ping, ten for each query.          *)
FairSpec == Spec /\ WF_vars(Interface) /\ WF_vars(Control) /\ WF_vars(Shutdown) /\ WF_vars(Exit)

---------------------------------------------------------------------------
(* Properties.                                                             *)

(* Types of the goroutines' locations, of the device, the requests and the *)
(* outcome; the daemon reports an error of one of its two members          *)
(* (main.go:59-92).                                                        *)
TypeOK ==
  /\ signalled \in BOOLEAN
  /\ cancelled \in BOOLEAN
  /\ iface \in {"starting", "running", "failed", "stopped"}
  /\ device \in {"none", "created", "up", "closed"}
  /\ control \in {"starting", "configured", "serving", "returned"}
  /\ shutdown \in {"none", "waiting", "draining", "done", "expired"}
  /\ request \in [Requests -> {"none", "running", "answered", "cut"}]
  /\ err \in Errors \cup {NoError}
  /\ main \in {"waiting", "clean", "failed"}

(* Unless the interface goroutine itself has failed, the device is closed  *)
(* before the process ends, whenever the control server fails and wherever *)
(* the start of the interface then was (main.go:72-81, 89).                *)
ClosedUnlessFailed == ~Running /\ iface # "failed" => device = "closed"

(* "Start WireGuard and stop it when the daemon context is cancelled."     *)
(* (main.go:71): the process does not end, which it does over a cancelled  *)
(* context only, with WireGuard started and not stopped.  It does when the *)
(* start fails after the link is up: DaemonLeavesDevice.cfg shows it.      *)
StoppedWhenCancelled == ~Running => device # "up"

(* The error the daemon reports when it ends on its own is one of those    *)
(* that made it end, never the http.ErrServerClosed that follows           *)
(* (main.go:89-91).                                                        *)
CauseReported == ~Running /\ ~signalled => err \in {"interface", "control"}

(* A signal, and any failure, ends the whole daemon: it never goes on      *)
(* without its interface or without its control server (main.go:69-91).    *)
StopsTogether ==
  signalled \/ InterfaceReturned \/ control = "returned" ~> ~Running

(* "Shut down cleanly when ctx is cancelled."                              *)
(* (initializeControlServ.go:58): when a signal ends the daemon, nothing   *)
(* has failed and the five seconds have not passed, every request that was *)
(* in progress has been answered.                                          *)
ShutsDownCleanly ==
  ~Running /\ device = "closed" /\ err # "control" /\ shutdown # "expired" =>
    \A r \in Requests : request[r] # "cut"
=============================================================================
