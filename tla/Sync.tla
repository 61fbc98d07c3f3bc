-------------------------------- MODULE Sync --------------------------------
(***************************************************************************)
(* One image of the kernel, with the application of module Monitor or with  *)
(* the one of module Events: the same threads and the same scheduler, whose *)
(* behaviour under either use is to be checked by one run.                  *)
(***************************************************************************)
EXTENDS Monitor, Events

VARIABLE image   \* the application that was built into the image
syncVars == <<vars, own, eventVars, image>>

SyncInit == MonitorInit /\ EventsInit /\ image \in {"monitor", "events"}

InMonitor(A) == image = "monitor" /\ A /\ UNCHANGED <<eventVars, image>>
InEvents(A) == image = "events" /\ A /\ UNCHANGED <<own, image>>

SyncNext == InMonitor(MonitorNext) \/ InEvents(EventsNext)

SyncSpec == SyncInit /\ [][SyncNext]_syncVars

(* The fairness of the two applications: the processor serves its exceptions, *)
(* and a thread that has the processor continues the call it is in.         *)
SyncFairSpec ==
  /\ SyncSpec
  /\ WF_syncVars(InMonitor(Processor) \/ InEvents(EventProcessor))
  /\ \A t \in Threads : WF_syncVars(InMonitor(Continue(t)) \/ InEvents(Proceed(t)))
=============================================================================
