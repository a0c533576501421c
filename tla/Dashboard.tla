------------------------------ MODULE Dashboard -----------------------------
(***************************************************************************)
(* The web dashboard's server (internal/dashboard/dashboard.go): the set   *)
(* of connected browsers under a mutex, the handler of each browser, and   *)
(* Broadcast, which writes a frame to every browser while it holds the     *)
(* mutex.  Writes have no deadline, so a browser that has stopped reading  *)
(* ("stalled": its buffers are full) blocks the one to it until it leaves. *)
(***************************************************************************)
CONSTANT Browsers

VARIABLES
    browser,   \* "away" | "open" | "stalled" | "leaving" | "gone"
    clients,   \* Server.clients
    mu,        \* who holds Server.mu for more than a moment: "none" | "broadcast"
    unsent     \* the clients this Broadcast has still to write to

dashVars == <<browser, clients, mu, unsent>>

MoveTo(b, state) == browser' = [browser EXCEPT ![b] = state]

\* Upgrade succeeds, and the handler gets the mutex.
Register(b) ==
    /\ browser[b] = "away"
    /\ mu = "none"
    /\ MoveTo(b, "open")
    /\ clients' = clients \cup {b}
    /\ UNCHANGED <<mu, unsent>>

\* The page no longer reads (a suspended tab or machine), and reads again.
Stall(b) ==
    /\ browser[b] = "open"
    /\ MoveTo(b, "stalled")
    /\ UNCHANGED <<clients, mu, unsent>>

Resume(b) ==
    /\ browser[b] = "stalled"
    /\ MoveTo(b, "open")
    /\ UNCHANGED <<clients, mu, unsent>>

\* The connection ends: ReadMessage fails, and so does every later write.
Leave(b) ==
    /\ browser[b] \in {"open", "stalled"}
    /\ MoveTo(b, "leaving")
    /\ UNCHANGED <<clients, mu, unsent>>

\* Mutant of Unregister: conn.Close without delete(s.clients, conn).
UnregisterCloses(b) ==
    /\ browser[b] = "leaving"
    /\ mu = "none"
    /\ MoveTo(b, "gone")
    /\ UNCHANGED <<clients, mu, unsent>>

\* Mutant of Unregister: without the mutex.
UnregisterUnlocked(b) ==
    /\ browser[b] = "leaving"
    /\ MoveTo(b, "gone")
    /\ clients' = clients \ {b}
    /\ UNCHANGED <<mu, unsent>>

\* The deferred function of HandleWS.
Unregister(b) ==
    /\ browser[b] = "leaving"
    /\ mu = "none"
    /\ MoveTo(b, "gone")
    /\ clients' = clients \ {b}
    /\ UNCHANGED <<mu, unsent>>

LockForBroadcast ==
    /\ mu = "none"
    /\ mu' = "broadcast"
    /\ unsent' = clients
    /\ UNCHANGED <<browser, clients>>

\* conn.WriteMessage, in any order of the map; its error is ignored.
WriteFrame(b) ==
    /\ mu = "broadcast"
    /\ b \in unsent
    /\ browser[b] # "stalled"
    /\ unsent' = unsent \ {b}
    /\ UNCHANGED <<browser, clients, mu>>

UnlockAfterBroadcast ==
    /\ mu = "broadcast"
    /\ unsent = {}
    /\ mu' = "none"
    /\ UNCHANGED <<browser, clients, unsent>>

\* Broadcast waits for a browser that does not read.
Stuck == \E b \in unsent : browser[b] = "stalled"

DashInit ==
    /\ browser = [b \in Browsers |-> "away"]
    /\ clients = {} /\ mu = "none" /\ unsent = {}

DashTypeOK ==
    /\ browser \in [Browsers -> {"away", "open", "stalled", "leaving", "gone"}]
    /\ clients \subseteq Browsers
    /\ unsent \subseteq clients
    /\ mu \in {"none", "broadcast"}
    /\ mu = "none" => unsent = {}
=============================================================================
