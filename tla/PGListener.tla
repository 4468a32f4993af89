------------------------------ MODULE PGListener ------------------------------
(***************************************************************************)
(* The PostgreSQL notification listener of each server                     *)
(* (postgres/pg_listener.go).  One goroutine, Start, owns the LISTEN       *)
(* session.  It alternates between serving the registrations that          *)
(* EnsureBoundary queues and waiting for a notification, and it rebuilds   *)
(* the session when the connection breaks.  A boundary's signal is a       *)
(* channel of capacity one, so a wake-up is a member of wake[s].           *)
(*                                                                         *)
(* The session is PostgreSQL's: a notification reaches the sessions that   *)
(* LISTEN when the transaction commits, and what a broken session had not  *)
(* handed over is gone.  Several undelivered notifications of one boundary *)
(* are kept as one, the fewest wake-ups they can cause.  A session that is *)
(* up LISTENs to the registered boundaries: only Start registers one, with *)
(* the LISTEN or after it.                                                 *)
(***************************************************************************)
EXTENDS Naturals, Sequences

CONSTANTS Servers, Boundaries,
          Calls,                \* the calls of EnsureBoundary
          ServerOf, BoundaryOf, \* where a call is made, and for which boundary
          Startup,              \* the boundaries NewPGNotifyListener registers
          None

ASSUME ListenerAssumption ==
  /\ ServerOf \in [Calls -> Servers]
  /\ BoundaryOf \in [Calls -> Boundaries]
  /\ Startup \subseteq Boundaries
  /\ None \notin Calls \union Servers

VARIABLES lpc,        \* where the goroutine Start of each server is
          pending,    \* the queued registrations
          cancelled,  \* the servers whose current wait was cancelled
          up,         \* the servers whose session is alive
          inbox,      \* the notifications a session has not handed over
          signals,    \* the registered boundaries
          wake,       \* the boundaries whose signal channel is full
          call        \* the progress of each call

listenerVars == <<lpc, pending, cancelled, up, inbox, signals, wake, call>>

\* NewPGNotifyListener has connected and listens to the startup boundaries.
ListenerInit ==
  /\ lpc = [s \in Servers |-> "top"]
  /\ pending = [s \in Servers |-> <<>>]
  /\ cancelled = {}
  /\ up = Servers
  /\ inbox = [s \in Servers |-> {}]
  /\ signals = [s \in Servers |-> Startup]
  /\ wake = [s \in Servers |-> {}]
  /\ call = [c \in Calls |-> "idle"]

-----------------------------------------------------------------------------
(* The PostgreSQL session.                                                  *)

\* The commit of a transaction on b that called pg_notify.
Notified(b) ==
  inbox' = [s \in Servers |->
              IF s \in up /\ b \in signals[s] THEN inbox[s] \union {b} ELSE inbox[s]]

\* The connection of s breaks.
Disconnected(s) ==
  /\ s \in up
  /\ up' = up \ {s}
  /\ inbox' = [inbox EXCEPT ![s] = {}]

-----------------------------------------------------------------------------
(* EnsureBoundary.                                                          *)

\* Fault: a queued registration leaves the current wait alone.
WaitsOn(s) == cancelled

\* waitCancel is called when a wait is armed.
WaitsCancelled(s) == IF lpc[s] = "wait" THEN cancelled \union {s} ELSE cancelled

EnsureBoundary(c) ==
  LET s == ServerOf[c] IN
  /\ call[c] = "idle"
  /\ \/ /\ BoundaryOf[c] \in signals[s]
        /\ call' = [call EXCEPT ![c] = "ok"]
        /\ UNCHANGED <<pending, cancelled>>
     \/ /\ BoundaryOf[c] \notin signals[s]
        /\ call' = [call EXCEPT ![c] = "queued"]
        /\ pending' = [pending EXCEPT ![s] = Append(@, c)]
        /\ cancelled' = WaitsCancelled(s)
  /\ UNCHANGED <<lpc, up, inbox, signals, wake>>

\* The caller's context is done, or the listener has stopped.
EnsureGivesUp(c, stopping) ==
  /\ call[c] \in {"idle", "queued"}
  /\ ServerOf[c] \in stopping
  /\ call' = [call EXCEPT ![c] = "failed"]
  /\ UNCHANGED <<lpc, pending, cancelled, up, inbox, signals, wake>>

-----------------------------------------------------------------------------
(* Start.                                                                   *)

\* nextListenRequest takes the first request out.
PendingAfter(s) == Tail(pending[s])

\* The first registration is taken and served.  The result channel has room
\* for the answer, so a caller that gave up is not waited for; a caller that is
\* refused calls again.
ListenBoundary(s, stopping) ==
  LET c == Head(pending[s])
      b == BoundaryOf[c]
      Answer(how) == call' = [call EXCEPT ![c] = IF @ = "queued" THEN how ELSE @]
  IN
  /\ lpc[s] = "top" /\ pending[s] # <<>>
  /\ pending' = [pending EXCEPT ![s] = PendingAfter(s)]
  /\ \/ /\ b \in signals[s]
        /\ Answer("ok")
        /\ UNCHANGED signals
     \/ /\ b \notin signals[s] /\ s \in up
        /\ signals' = [signals EXCEPT ![s] = @ \union {b}]
        /\ Answer("ok")
     \/ /\ b \notin signals[s] /\ (s \notin up \/ s \in stopping)
        /\ Answer("idle")
        /\ UNCHANGED signals
  /\ UNCHANGED <<lpc, cancelled, up, inbox, wake>>

NoListenRequest(s) ==
  /\ lpc[s] = "top" /\ pending[s] = <<>>
  /\ lpc' = [lpc EXCEPT ![s] = "arm"]
  /\ UNCHANGED <<pending, cancelled, up, inbox, signals, wake, call>>

\* Fault: the wait is armed without looking for a registration again.
ArmsAlways(s) == TRUE

\* A registration queued since nextListenRequest finds no wait to cancel.
ArmsWait(s) == pending[s] = <<>>

ArmNotificationWait(s) ==
  /\ lpc[s] = "arm"
  /\ lpc' = [lpc EXCEPT ![s] = IF ArmsWait(s) THEN "wait" ELSE "top"]
  /\ cancelled' = cancelled \ {s}
  /\ UNCHANGED <<pending, up, inbox, signals, wake, call>>

\* Where Start goes after a wait that ended without or with an error.
AfterWait(s, err, stopping) ==
  CASE err = "none" -> "top"
    [] err # "none" /\ s \in stopping -> "done"
    [] err = "canceled" /\ s \notin stopping -> "top"
    [] err = "broken" /\ s \notin stopping -> "reconnect"

\* Fault: a notification that came with an error is dropped.
DispatchedUnlessError(s, b, err) == IF err = "none" THEN {b} ELSE {}

\* The boundary whose notification is routed, error or not.
Dispatched(s, b, err) == {b}

\* WaitForNotification returns a notification, the cancellation of its context,
\* both of them, or the failure of the connection.  The wait is disarmed, the
\* notification routed, and then the error is looked at.
WaitForNotification(s, stopping) ==
  LET canceled == s \in cancelled \union stopping IN
  /\ lpc[s] = "wait"
  /\ \/ \E b \in inbox[s] :
          LET err == IF canceled THEN "canceled" ELSE "none" IN
          /\ inbox' = [inbox EXCEPT ![s] = @ \ {b}]
          /\ wake' = [wake EXCEPT ![s] = @ \union Dispatched(s, b, err)]
          /\ lpc' = [lpc EXCEPT ![s] = AfterWait(s, err, stopping)]
     \/ /\ canceled
        /\ lpc' = [lpc EXCEPT ![s] = AfterWait(s, "canceled", stopping)]
        /\ UNCHANGED <<inbox, wake>>
     \/ /\ s \notin up
        /\ lpc' = [lpc EXCEPT ![s] = AfterWait(s, "broken", stopping)]
        /\ UNCHANGED <<inbox, wake>>
  /\ UNCHANGED <<pending, cancelled, up, signals, call>>

\* reconnect: a new connection that LISTENs to every registered boundary, or
\* the end of the goroutine.
Reconnect(s, stopping) ==
  /\ lpc[s] = "reconnect"
  /\ \/ /\ s \notin stopping
        /\ up' = up \union {s}
        /\ lpc' = [lpc EXCEPT ![s] = "swap"]
     \/ /\ s \in stopping
        /\ lpc' = [lpc EXCEPT ![s] = "done"]
        /\ UNCHANGED up
  /\ UNCHANGED <<pending, cancelled, inbox, signals, wake, call>>

\* Fault: the relays are not woken when the session is back.
WokenBefore(s) == wake[s]

\* Every registered boundary is woken for what the old session lost.
WakeRegisteredBoundaries(s) == wake[s] \union signals[s]

\* The new connection takes the old one's place.
SwapConnection(s) ==
  /\ lpc[s] = "swap"
  /\ wake' = [wake EXCEPT ![s] = WakeRegisteredBoundaries(s)]
  /\ lpc' = [lpc EXCEPT ![s] = "top"]
  /\ UNCHANGED <<pending, cancelled, up, inbox, signals, call>>

Start(s, stopping) ==
  \/ ListenBoundary(s, stopping) \/ NoListenRequest(s) \/ ArmNotificationWait(s)
  \/ WaitForNotification(s, stopping) \/ Reconnect(s, stopping) \/ SwapConnection(s)
=============================================================================
