------------------------------- MODULE WaitIp -------------------------------
(***************************************************************************)
(* relaymon -waitip: looks for the addresses again and again until all are *)
(* found or the time is over.  The interface is listed again for each      *)
(* address, and the host goes its own way in between.                      *)
(***************************************************************************)
EXTENDS Host

CONSTANT Number   \* the IP of each address, without its netmask

ASSUME WaitAssumption == DOMAIN Number = Addrs

VARIABLES
  wait,      \* where the tool stands, or its exit code
  looked,    \* addresses looked for in this pass
  foundAll,  \* foundAll: all of those were found
  late,      \* whether the time is over
  lost,      \* history: addresses removed during this pass
  came       \* history: addresses added during this pass

watch == <<lost, came>>
waiter == <<wait, looked, foundAll>>

WaitInit ==
  /\ wait = "look" /\ looked = 0 /\ foundAll = TRUE
  /\ late = FALSE /\ lost = {} /\ came = {}

\* A netmask does not matter here.
Found(a) == \E b \in iface : Number[b] = Number[a]

\* Only the address looked for last counts.
MutLook ==
  /\ wait = "look" /\ looked < Len(IPs)
  /\ looked' = looked + 1
  /\ foundAll' = Found(IPs[looked + 1])
  /\ UNCHANGED wait

\* The list may be older than the step that uses it, but not than the pass.
Look ==
  /\ wait = "look" /\ looked < Len(IPs)
  /\ looked' = looked + 1
  /\ foundAll' = (foundAll /\ Found(IPs[looked + 1]))
  /\ UNCHANGED wait

LookFails ==
  /\ wait = "look" /\ looked < Len(IPs)
  /\ wait' = "exit 2"
  /\ UNCHANGED <<looked, foundAll>>

\* The time is not looked at.
MutPassEnds ==
  /\ wait = "look" /\ looked = Len(IPs)
  /\ wait' = IF foundAll THEN "exit 0" ELSE "sleep"
  /\ UNCHANGED <<looked, foundAll>>

PassEnds ==
  /\ wait = "look" /\ looked = Len(IPs)
  /\ wait' = IF foundAll THEN "exit 0" ELSE IF late THEN "exit 1" ELSE "sleep"
  /\ UNCHANGED <<looked, foundAll>>

\* What an earlier pass did not find still counts.
MutWake == wait = "sleep" /\ wait' = "look" /\ looked' = 0 /\ UNCHANGED foundAll

Wake == wait = "sleep" /\ wait' = "look" /\ looked' = 0 /\ foundAll' = TRUE

WaitStep == Look \/ LookFails \/ PassEnds \/ Wake

Elapse == ~late /\ late' = TRUE /\ UNCHANGED waiter

\* Kept with every step of the tool and of the host.
Remembered ==
  /\ lost' = IF wait = "sleep" THEN {} ELSE lost \cup (iface \ iface')
  /\ came' = IF wait = "sleep" THEN {} ELSE came \cup (iface' \ iface)

-----------------------------------------------------------------------------

WaitTypeOK ==
  /\ iface \subseteq Addrs /\ alive \in BOOLEAN
  /\ wait \in {"look", "sleep", "exit 0", "exit 1", "exit 2"}
  /\ looked \in 0 .. Len(IPs)
  /\ foundAll \in BOOLEAN /\ late \in BOOLEAN
  /\ lost \subseteq Addrs /\ came \subseteq Addrs

\* Exit code 0 says that each IP was there at some time during the last pass:
\* unless it was removed since, it is up (with any netmask).  It does not say
\* that they were ever up together (main.go:185-209).
UpUnlessLost ==
  wait = "exit 0" => \A a \in Own : \E b \in iface \cup lost : Number[b] = Number[a]

\* Exit code 1 says that some IP was missing at some time of the last pass: it
\* has come up since or still is (main.go:200-216).
DownUnlessCame ==
  wait = "exit 1" =>
    \E a \in Own : \A b \in iface : Number[b] = Number[a] => b \in came

\* The tool ends, whatever happens to the addresses meanwhile (main.go:206-216).
WaitEnds == <>(wait \in {"exit 0", "exit 1", "exit 2"})
=============================================================================
