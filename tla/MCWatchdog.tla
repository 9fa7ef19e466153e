----------------------------- MODULE MCWatchdog -----------------------------
(* Instances of Watchdog for TLC: what the operators and the environment of a *)
(* run may do. The other constants are in the cfg files.                      *)
EXTENDS Watchdog

AllCommands ==
    {"start_backend", "stop_backend", "start_desktop", "stop_desktop", "warm_restart"}

\* Desktop and the backend come to an end, starts work or fail, and time passes.
Wear == {"desktopExits", "backendDies", "startsWork", "startsFail", "time"}

\* Pauses and update windows.
HeldWear == Wear \cup {"pause", "suppress"}

\* Probes of Desktop that fail, and reports that only its renderer does.
BlindWear == Wear \cup {"probeFails", "anomaly"}

\* Everything else that answers by halves or fails: backends, leases, kills, launches and
\* tokens; and a serve that Desktop starts for itself.
\* Backend and Desktop end by a command or by the watchdog, not by themselves.
Faults ==
    (Wear \ {"backendDies", "desktopExits"}) \cup
    {"pause", "userDesktop", "ephemeral", "degrades", "lease", "tokenDrift",
     "killFails", "launchFails"}
=============================================================================
